--------------------------- MODULE GeneratedRelease ---------------------------
(***************************************************************************)
(* The one-use authorisation of a generated release:                       *)
(* src/generated-release-audit.js over the plans of src/boundary-audit.js. *)
(*                                                                         *)
(* An audit is prepared, a human approves its exact intent and receives a  *)
(* capability, and one run that presents the capability with that intent   *)
(* executes it.  Until the boundary auditor returns, other runs of the     *)
(* same audit arrive.  The clock is read again by the boundary auditor.    *)
(*                                                                         *)
(* Not represented: the validation of releases and recipes (a recipe that  *)
(* does not match its release registers nothing), hashes, and the bundle.  *)
(* An audit's id is unique: the target reference it is hashed from is.     *)
(***************************************************************************)
EXTENDS Naturals, FiniteSets

CONSTANTS
  Release,             \* the audits
  Agent, Tool, Args,   \* what an intent names
  Secret,              \* capabilities
  NoSecret,            \* the hash of none, or a value that is no capability
  PlanTTL,             \* planTtlMs
  MaxDrift,            \* bound: how far the clock gets from one reading to the next
  MaxAuditTime         \* bound of the clock

ASSUME ReleaseAssumption ==
  /\ PlanTTL \in Nat \ {0} /\ MaxDrift \in Nat /\ MaxAuditTime \in Nat
  /\ NoSecret \notin Secret
  /\ \A S \in {Agent, Tool, Args} : \E x, y \in S : x # y

Intent == [agent : Agent, tool : Tool, args : Args]

VARIABLES
  auditClock,
  release,             \* [Release -> its record]
  plans,               \* releases whose boundary plan has not been used
  running,             \* releases whose execution the boundary auditor has not answered
  runs                 \* history: how often each release was put to execution

releaseVars == <<release, plans, running, runs>>

ReleaseState == {"none", "awaiting_approval", "approved", "executing", "completed", "expired", "outcome_unknown"}
Verdict == {"pass", "fail", "inconclusive"}

\* A record: whether the audited tool is the release's only one (coverage), and once it
\* is completed the verdict on the tool and on the release.
Record == [state : ReleaseState, intent : Intent, expiresAt : Nat, secret : Secret \cup {NoSecret},
           complete : BOOLEAN, tool : Verdict, verdict : Verdict]

ReleaseTypeOK ==
  /\ auditClock \in 0 .. MaxAuditTime
  /\ release \in [Release -> Record]
  /\ plans \subseteq Release /\ running \subseteq Release
  /\ runs \in [Release -> Nat]

\* An intent, and those that differ from it in one respect.
Exact == CHOOSE i \in Intent : TRUE
WrongTool == [Exact EXCEPT !.tool = CHOOSE t \in Tool : t # Exact.tool]
WrongAgent == [Exact EXCEPT !.agent = CHOOSE a \in Agent : a # Exact.agent]
WrongArgs == [Exact EXCEPT !.args = CHOOSE a \in Args : a # Exact.args]
Offered == {Exact, WrongTool, WrongAgent, WrongArgs}

NoRecord == [state |-> "none", intent |-> Exact, expiresAt |-> 0, secret |-> NoSecret,
             complete |-> FALSE, tool |-> "inconclusive", verdict |-> "inconclusive"]

ReleaseInit ==
  /\ auditClock = 0
  /\ release = [r \in Release |-> NoRecord]
  /\ plans = {}
  /\ running = {}
  /\ runs = [r \in Release |-> 0]

SetState(r, s) == release' = [release EXCEPT ![r].state = s]

-----------------------------------------------------------------------------

Prepare(r, intent, complete, now) ==
  /\ release[r].state = "none"
  /\ release' = [release EXCEPT ![r] = [NoRecord EXCEPT !.state = "awaiting_approval", !.intent = intent,
                                        !.expiresAt = now + PlanTTL, !.complete = complete]]
  /\ plans' = plans \cup {r}
  /\ UNCHANGED <<running, runs>>

Minted == {release[r].secret : r \in Release}

\* approve(): the human decides in time.
ApproveRelease(r, secret, now) ==
  /\ release[r].state = "awaiting_approval" /\ now < release[r].expiresAt
  /\ secret \in Secret \ Minted
  /\ release' = [release EXCEPT ![r].state = "approved", ![r].secret = secret]
  /\ UNCHANGED <<plans, running, runs>>

\* ... or too late.
ApproveTooLate(r, now) ==
  /\ release[r].state = "awaiting_approval" /\ now >= release[r].expiresAt
  /\ SetState(r, "expired")
  /\ UNCHANGED <<plans, running, runs>>

\* Mutant: a run that is still executing is not taken for a replay.
UsedWhenSettled == {"completed", "outcome_unknown"}
Used == {"executing", "completed", "outcome_unknown"}

\* Why run() denies secret and intent; "execute" if it does not.
Reply(r, secret, intent, now) ==
  LET record == release[r] IN
  CASE record.state \in Used -> "authorization_replayed"
    [] record.state = "expired" \/ (record.state \notin Used /\ now >= record.expiresAt) -> "authorization_expired"
    [] record.state = "awaiting_approval" /\ now < record.expiresAt -> "human_approval_required"
    [] OTHER ->
       IF intent.agent # record.intent.agent THEN "agent_identity_mismatch"
       ELSE IF intent.tool # record.intent.tool THEN "tool_binding_mismatch"
       ELSE IF intent.args # record.intent.args THEN "argument_substitution"
       ELSE IF secret = NoSecret \/ secret # record.secret THEN "invalid_capability"
       ELSE "execute"

\* A run that is denied changes nothing, but for the expiry it notices.
RunDenied(r, secret, intent, now) ==
  /\ release[r].state # "none"
  /\ Reply(r, secret, intent, now) # "execute"
  /\ IF Reply(r, secret, intent, now) = "authorization_expired" THEN SetState(r, "expired") ELSE UNCHANGED release
  /\ UNCHANGED <<plans, running, runs>>

\* The run that executes: boundaryAuditor.run takes the plan and starts the routes, ...
RunExecutes(r, secret, intent, now, drift) ==
  /\ release[r].state # "none"
  /\ Reply(r, secret, intent, now) = "execute"
  /\ r \in plans /\ now + drift <= release[r].expiresAt
  /\ SetState(r, "executing")
  /\ plans' = plans \ {r}
  /\ running' = running \cup {r}
  /\ runs' = [runs EXCEPT ![r] = @ + 1]

\* ... or finds it gone, or expired by its own reading of the clock, and throws.
RunFindsNoPlan(r, secret, intent, now, drift) ==
  /\ release[r].state # "none"
  /\ Reply(r, secret, intent, now) = "execute"
  /\ r \notin plans \/ now + drift > release[r].expiresAt
  /\ SetState(r, "outcome_unknown")
  /\ plans' = plans \ {r}
  /\ UNCHANGED <<running, runs>>

ReleaseVerdict(complete, tool) == IF tool = "fail" \/ complete THEN tool ELSE "inconclusive"

RunCompletes(r, tool) ==
  /\ r \in running
  /\ release' = [release EXCEPT ![r].state = "completed", ![r].tool = tool,
                                ![r].verdict = ReleaseVerdict(release[r].complete, tool)]
  /\ running' = running \ {r}
  /\ UNCHANGED <<plans, runs>>

\* The routes throw, or the principal is not the one that was reviewed.
RunThrows(r) ==
  /\ r \in running
  /\ SetState(r, "outcome_unknown")
  /\ running' = running \ {r}
  /\ UNCHANGED <<plans, runs>>

AuditTick ==
  /\ auditClock < MaxAuditTime
  /\ auditClock' = auditClock + 1

\* One process serves the audits; runs of one audit overlap.
ReleaseStep(r) ==
  \/ \E intent \in {Exact, WrongArgs}, complete \in BOOLEAN : Prepare(r, intent, complete, auditClock)
  \/ \E secret \in Secret : ApproveRelease(r, secret, auditClock)
  \/ ApproveTooLate(r, auditClock)
  \/ \E secret \in Secret \cup {NoSecret}, intent \in Offered :
       \/ RunDenied(r, secret, intent, auditClock)
       \/ \E drift \in 0 .. MaxDrift :
            \/ RunExecutes(r, secret, intent, auditClock, drift)
            \/ RunFindsNoPlan(r, secret, intent, auditClock, drift)
  \/ \E tool \in Verdict : RunCompletes(r, tool)
  \/ RunThrows(r)

ReleaseNext ==
  \/ AuditTick /\ UNCHANGED releaseVars
  \/ \E r \in Release : ReleaseStep(r) /\ UNCHANGED auditClock

ReleaseSpec == ReleaseInit /\ [][ReleaseNext]_<<auditClock, releaseVars>>

-----------------------------------------------------------------------------
(* What it promises *)

Phase(record) ==
  CASE record.state = "none" -> "new"
    [] record.state = "awaiting_approval" -> "waiting"
    [] record.state = "expired" /\ record.secret = NoSecret -> "refused"
    [] record.state \in {"approved", "executing"} -> "authorised"
    [] OTHER -> "closed"

Authorisation == INSTANCE OneShot WITH
  Job <- Release,
  phase <- [r \in Release |-> Phase(release[r])],
  performed <- runs

Ended == {"completed", "expired", "outcome_unknown"}

\* An audit executes at most once, between its approval and its end, and how it ended is
\* final, however many runs with its capability arrive while it executes or after.
ReleaseImplementsOneShot ==
  /\ Authorisation!Init /\ [][Authorisation!Next]_(Authorisation!vars)
  /\ [][\A r \in Release : release[r].state \in Ended => release'[r] = release[r]]_releaseVars
=============================================================================
