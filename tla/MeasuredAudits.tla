---------------------------- MODULE MeasuredAudits ----------------------------
(***************************************************************************)
(* The local audit service of src/measured-audit-service.js: an agent      *)
(* starts and polls audits of server-owned presets, only a human decides,  *)
(* and an approved audit is run once.                                      *)
(*                                                                         *)
(* The records live in the repository that every arena server opened on    *)
(* the same file shares; promises and decision callbacks live in a worker. *)
(* An action is one transaction (withLock) or the code between two.  A     *)
(* worker runs one synchronous stretch at a time: what it still has to do  *)
(* before it yields is its turn, and only other workers, or a crash, fall  *)
(* in between.                                                             *)
(*                                                                         *)
(* Not represented: the history, the texts, retries of a start that find   *)
(* their record (they change nothing), and the promise that duplicate      *)
(* decisions share (executions).                                           *)
(***************************************************************************)
EXTENDS Naturals, FiniteSets

CONSTANTS
  Worker,         \* server processes on one repository
  Audit,          \* fresh audit ids
  Key,            \* idempotency scopes: actor and key
  None            \* no record, no turn

Undecided == {"preparing", "awaiting_approval"}
Executing == {"running", "waiting_for_effects"}
Terminal == {"completed", "inconclusive", "outcome_unknown", "failed", "expired"}
State == Undecided \cup Executing \cup Terminal

Record == [key : Key, state : State,
           approval : {"none", "approved", "denied"},
           error : {"none", "service_restarted_before_approval",
                    "service_restarted_after_execution_started", "other"}]

\* What a worker has yet to do for an audit before it yields.
Turn == [step : {"announce", "approve", "deny", "execute", "observe", "threw"}, audit : Audit]

ASSUME MeasuredAssumption == None \notin Audit \cup Worker \cup Record \cup Turn

VARIABLES
  record,         \* [Audit -> Record or None]: repository.measured_audits
  lapsed,         \* audits whose expiresAt has passed
  up,             \* live workers
  chain,          \* [Worker -> [Audit -> the dependency its async function awaits]]
  decidable,      \* [Worker -> audits whose decide callback it handed to the human]
  turn,           \* [Worker -> Turn or None]
  dropped,        \* audits whose async function died of a failed transaction
  prepares, runs  \* [Audit -> calls of the prepare and of the run dependency]

vars == <<record, lapsed, up, chain, decidable, turn, dropped, prepares, runs>>

TypeOK ==
  /\ record \in [Audit -> Record \cup {None}]
  /\ lapsed \subseteq Audit
  /\ up \subseteq Worker
  /\ chain \in [Worker -> [Audit -> {"idle", "prepare", "run"}]]
  /\ decidable \in [Worker -> SUBSET Audit]
  /\ turn \in [Worker -> Turn \cup {None}]
  /\ dropped \subseteq Audit
  /\ prepares \in [Audit -> Nat]
  /\ runs \in [Audit -> Nat]

Init ==
  /\ record = [a \in Audit |-> None]
  /\ lapsed = {} /\ up = {} /\ dropped = {}
  /\ chain = [w \in Worker |-> [a \in Audit |-> "idle"]]
  /\ decidable = [w \in Worker |-> {}]
  /\ turn = [w \in Worker |-> None]
  /\ prepares = [a \in Audit |-> 0]
  /\ runs = [a \in Audit |-> 0]

-----------------------------------------------------------------------------
(* Helpers *)

Records == {a \in Audit : record[a] # None}
Yielding(w) == w \in up /\ turn[w] = None
AtStep(w, a, step) == w \in up /\ turn[w] = [step |-> step, audit |-> a]

Await(w, a, what) == chain' = [chain EXCEPT ![w][a] = what]
Then(w, a, step) == turn' = [turn EXCEPT ![w] = [step |-> step, audit |-> a]]
Yield(w) == turn' = [turn EXCEPT ![w] = None]

\* transition: whatever the record's state is, it becomes the given one.
Transition(a, state, error) ==
  LET why == IF error = "none" THEN record[a].error ELSE error IN
  record' = [record EXCEPT ![a].state = state, ![a].error = why]

\* Mutant: a record that is past its expiresAt expires whatever its state.
ExpiringAny(a) == a \in Records /\ a \in lapsed
\* expirePendingAudit's condition.
Expiring(a) == a \in Records /\ record[a].state = "awaiting_approval" /\ a \in lapsed

ExpirePending(a) ==
  IF Expiring(a) THEN Transition(a, "expired", "other") ELSE UNCHANGED record

-----------------------------------------------------------------------------
(* start *)

\* Mutant: no search for a record of the same scope.
StartableAlways(k, a) == a \notin Records
Startable(k, a) == a \notin Records /\ \A b \in Records : record[b].key # k

Start(w, k, a) ==
  /\ Yielding(w)
  /\ Startable(k, a)
  /\ record' = [record EXCEPT ![a] =
       [key |-> k, state |-> "preparing", approval |-> "none", error |-> "none"]]
  /\ prepares' = [prepares EXCEPT ![a] = @ + 1]
  /\ Await(w, a, "prepare")
  /\ UNCHANGED <<lapsed, up, decidable, turn, dropped, runs>>

Prepared(w, a) ==
  /\ Yielding(w)
  /\ chain[w][a] = "prepare"
  /\ Await(w, a, "idle")
  /\ UNCHANGED <<up, decidable, prepares, runs>>

PrepareFails(w, a) ==
  /\ Prepared(w, a)
  /\ Transition(a, "failed", "other")
  /\ UNCHANGED <<lapsed, turn, dropped>>

\* The expiresAt that prepare returns may have passed already.
PrepareReturns(w, a) ==
  /\ Prepared(w, a)
  /\ Transition(a, "awaiting_approval", "none")
  /\ \/ lapsed' = lapsed \cup {a}
     \/ UNCHANGED lapsed
  /\ Then(w, a, "announce")
  /\ UNCHANGED dropped

\* The transaction after prepare failed: start rejects, the record stays.
PrepareUnrecorded(w, a) ==
  /\ Prepared(w, a)
  /\ dropped' = dropped \cup {a}
  /\ UNCHANGED <<record, lapsed, turn>>

\* onApprovalRequired: the human gets the decide callback of this worker.
Announce(w, a) ==
  /\ AtStep(w, a, "announce")
  /\ ExpirePending(a)
  /\ decidable' = IF record'[a].state = "awaiting_approval"
                  THEN [decidable EXCEPT ![w] = @ \cup {a}] ELSE decidable
  /\ Yield(w)
  /\ UNCHANGED <<lapsed, up, chain, dropped, prepares, runs>>

-----------------------------------------------------------------------------
(* poll and decideHuman *)

Poll(w, a) ==
  /\ Yielding(w)
  /\ Expiring(a)
  /\ ExpirePending(a)
  /\ UNCHANGED <<lapsed, up, chain, decidable, turn, dropped, prepares, runs>>

\* decideHuman, up to its first COMMIT.
Decide(w, a, decision) ==
  /\ Yielding(w)
  /\ a \in decidable[w]
  /\ ExpirePending(a)
  /\ Then(w, a, decision)
  /\ UNCHANGED <<lapsed, up, chain, decidable, dropped, prepares, runs>>

\* Mutant: the claim trusts the check made before its transaction.
ClaimableUnchecked(a) == a \in Records
Claimable(a) == record[a].state = "awaiting_approval"

Approve(w, a) ==
  /\ AtStep(w, a, "approve")
  /\ Claimable(a)
  /\ record' = [record EXCEPT ![a].state = "running", ![a].approval = "approved"]
  /\ Then(w, a, "execute")
  /\ UNCHANGED <<lapsed, up, chain, decidable, dropped, prepares, runs>>

Deny(w, a) ==
  /\ AtStep(w, a, "deny")
  /\ Claimable(a)
  /\ record' = [record EXCEPT ![a].state = "failed", ![a].approval = "denied", ![a].error = "other"]
  /\ Yield(w)
  /\ UNCHANGED <<lapsed, up, chain, decidable, dropped, prepares, runs>>

\* Somebody else decided, it expired, or the transaction failed.
DecideInVain(w, a) ==
  /\ AtStep(w, a, "approve") \/ AtStep(w, a, "deny")
  /\ Yield(w)
  /\ UNCHANGED <<record, lapsed, up, chain, decidable, dropped, prepares, runs>>

-----------------------------------------------------------------------------
(* executeAudit *)

\* run() is called; it returns a promise, or throws at once.
Execute(w, a) ==
  /\ AtStep(w, a, "execute")
  /\ runs' = [runs EXCEPT ![a] = @ + 1]
  /\ Then(w, a, "observe") \/ Then(w, a, "threw")
  /\ UNCHANGED <<record, lapsed, up, chain, decidable, dropped, prepares>>

RunThrows(w, a) ==
  /\ AtStep(w, a, "threw")
  /\ Transition(a, "outcome_unknown", "other")
  /\ Yield(w)
  /\ UNCHANGED <<lapsed, up, chain, decidable, dropped, prepares, runs>>

Observe(w, a) ==
  /\ AtStep(w, a, "observe")
  /\ Transition(a, "waiting_for_effects", "none")
  /\ Await(w, a, "run")
  /\ Yield(w)
  /\ UNCHANGED <<lapsed, up, decidable, dropped, prepares, runs>>

\* The transaction of an announcement, or one that follows the call of run, failed.
TurnUnrecorded(w, a) ==
  /\ \E step \in {"announce", "observe", "threw"} : AtStep(w, a, step)
  /\ Yield(w)
  /\ dropped' = dropped \cup {a}
  /\ UNCHANGED <<record, lapsed, up, chain, decidable, prepares, runs>>

\* Mutant: a result without a trustworthy verdict is not recorded.
ConcludeVerdictOnly(a) ==
  \/ \E state \in {"completed", "inconclusive"} : Transition(a, state, "none")
  \/ UNCHANGED record
\* What the outcome of run makes of the record: a verdict; no trustworthy verdict,
\* or a rejection.
Conclude(a) ==
  \/ \E state \in {"completed", "inconclusive"} : Transition(a, state, "none")
  \/ Transition(a, "outcome_unknown", "other")

Conclusion(w, a) ==
  /\ Yielding(w)
  /\ chain[w][a] = "run"
  /\ Await(w, a, "idle")
  /\ UNCHANGED <<lapsed, up, decidable, turn, prepares, runs>>

RunSettles(w, a) ==
  /\ Conclusion(w, a)
  /\ Conclude(a)
  /\ UNCHANGED dropped

RunUnrecorded(w, a) ==
  /\ Conclusion(w, a)
  /\ dropped' = dropped \cup {a}
  /\ UNCHANGED record

-----------------------------------------------------------------------------
(* Time, crashes and recoverTransientAudits *)

Lapse(a) ==
  /\ a \in Records \ lapsed
  /\ record[a].state \in State \ {"preparing"}
  /\ lapsed' = lapsed \cup {a}
  /\ UNCHANGED <<record, up, chain, decidable, turn, dropped, prepares, runs>>

Crash(w) ==
  /\ w \in up
  /\ up' = up \ {w}
  /\ chain' = [chain EXCEPT ![w] = [a \in Audit |-> "idle"]]
  /\ decidable' = [decidable EXCEPT ![w] = {}]
  /\ turn' = [turn EXCEPT ![w] = None]
  /\ UNCHANGED <<record, lapsed, dropped, prepares, runs>>

Recovered(r) ==
  CASE r.state \in Undecided ->
         [r EXCEPT !.state = "expired", !.error = "service_restarted_before_approval"]
    [] r.state \in Executing ->
         [r EXCEPT !.state = "outcome_unknown", !.error = "service_restarted_after_execution_started"]
    [] OTHER -> r

Boot(w) ==
  /\ w \in Worker \ up
  /\ up' = up \cup {w}
  /\ record' = [a \in Audit |-> IF a \in Records THEN Recovered(record[a]) ELSE None]
  /\ UNCHANGED <<lapsed, chain, decidable, turn, dropped, prepares, runs>>

-----------------------------------------------------------------------------

\* What a worker does without anybody asking: it goes on with its turn, and its
\* async functions resume.
GoOn(w, a) ==
  \/ Announce(w, a) \/ Approve(w, a) \/ Deny(w, a) \/ DecideInVain(w, a)
  \/ Execute(w, a) \/ RunThrows(w, a) \/ Observe(w, a) \/ TurnUnrecorded(w, a)

Resume(w, a) ==
  \/ PrepareFails(w, a) \/ PrepareReturns(w, a) \/ PrepareUnrecorded(w, a)
  \/ RunSettles(w, a) \/ RunUnrecorded(w, a)

Next ==
  \/ \E w \in Worker : Crash(w) \/ Boot(w)
  \/ \E a \in Audit : Lapse(a)
  \/ \E w \in Worker, a \in Audit :
       \/ \E k \in Key : Start(w, k, a)
       \/ Poll(w, a)
       \/ \E decision \in {"approve", "deny"} : Decide(w, a, decision)
       \/ GoOn(w, a) \/ Resume(w, a)

Spec == Init /\ [][Next]_vars

\* A turn ends, and the prepare and run that a live worker awaits settle (the
\* observations of CheckoutSettlement do).  The event loop resumes functions in the
\* order their promises settled, so turns of the same worker, which come and go as
\* people decide, do not starve one: strong fairness.  Nobody has to start, poll,
\* decide or restart anything.
Fairness == \A w \in Worker, a \in Audit : WF_vars(GoOn(w, a)) /\ SF_vars(Resume(w, a))

-----------------------------------------------------------------------------
(* Properties that hold for any number of workers on the repository *)

\* Concurrent decisions, in one worker or several, run the audited route at most
\* once, only on a recorded human approval and never after a denial.
RunsOnce ==
  \A a \in Audit : /\ runs[a] <= 1
                   /\ runs[a] = 1 => record[a].approval = "approved"

\* Retries of one start, in one worker or several, prepare one audit.
OneAuditPerKey ==
  /\ \A a, b \in Records : record[a].key = record[b].key => a = b
  /\ \A a \in Audit : prepares[a] <= 1

-----------------------------------------------------------------------------
(* Properties of one worker and its restarts *)

\* A worker awaits what the state of the record promises, or a human decides it.
Awaited(w, a) ==
  /\ record[a].state = "preparing" => chain[w][a] = "prepare"
  /\ record[a].state = "awaiting_approval" => a \in decidable[w]
  /\ record[a].state \in Executing => chain[w][a] = "run"

\* One that is not terminal has somebody working on it, a human who can decide it, or a
\* failed transaction to blame.
Attended(a) ==
  a \in Records => \A w \in up : a \in dropped \/ (turn[w] # None /\ turn[w].audit = a) \/ Awaited(w, a)

\* A terminal record is final: no expiry, decision, recovery or late continuation
\* gives the audit another outcome.
TerminalIsFinal ==
  [][\A a \in Records : record[a].state \in Terminal => record'[a] = record[a]]_vars

\* An audit is a one-shot authority: run is what a human's approval authorises.
Phase(a) ==
  CASE a \notin Records -> "new"
    [] a \in Records /\ record[a].state \in Undecided -> "waiting"
    [] a \in Records /\ record[a].state \in Executing -> "authorised"
    [] OTHER -> IF record[a].approval = "approved" THEN "closed" ELSE "refused"

Authority == INSTANCE OneShot
  WITH Job <- Audit, phase <- [a \in Audit |-> Phase(a)], performed <- runs

\* Every audit is started once, refused or approved once, and run at most once,
\* while its approval stands (the abstract specification).
ImplementsOneShot == Authority!Spec

InState(a, S) == a \in Records /\ record[a].state \in S

\* No record is left behind.  An approved audit reaches a terminal state, unless its worker
\* crashes or a transaction of it fails; prepare never leaves one without an answer either;
\* and a restart resolves whatever the worker before it left, the dropped ones too, so that
\* every record is attended to at any time.
Settles ==
  \A a \in Audit :
    /\ []Attended(a)
    /\ InState(a, Executing) ~> InState(a, Terminal) \/ a \in dropped \/ up = {}
    /\ InState(a, {"preparing"}) ~> ~InState(a, {"preparing"}) \/ a \in dropped \/ up = {}

-----------------------------------------------------------------------------
(* What several workers break *)

\* "restored transient audits fail closed without preparing or retrying agent
\* execution" (test/measured-audit-service.test.js): an audit that the start of a
\* service has expired is never run.  A worker that is still preparing it takes it
\* back to awaiting_approval, so the code does not keep this for two live workers.
RestoredFailsClosed ==
  \A a \in Records : record[a].error = "service_restarted_before_approval" => runs[a] = 0

-----------------------------------------------------------------------------
(* The inductive strengthening of RunsOnce and OneAuditPerKey *)

\* Whatever a worker remembers of an audit, the audit has a record.
KnownInv ==
  \A w \in Worker : /\ turn[w] # None => turn[w].audit \in Records
                    /\ decidable[w] \subseteq Records
                    /\ \A a \in Audit : chain[w][a] # "idle" => a \in Records

\* A record stands for the one preparation of its key.
StartInv ==
  /\ \A a, b \in Records : record[a].key = record[b].key => a = b
  /\ \A a \in Audit : prepares[a] = IF a \in Records THEN 1 ELSE 0

\* An audit awaits a decision only before it has one, and is prepared by one worker
\* before it awaits it.
DecisionInv ==
  \A a \in Records :
    /\ record[a].state = "awaiting_approval" => record[a].approval = "none"
    /\ \A w \in Worker : chain[w][a] = "prepare" =>
         /\ record[a].approval = "none"
         /\ record[a].state # "awaiting_approval"
         /\ \A v \in Worker : chain[v][a] = "prepare" => v = w

\* Only an approved audit is run, by the one worker that claimed it, which has not
\* called run yet.
Authorised(w, a) ==
  /\ chain[w][a] = "run" => record[a].approval = "approved"
  /\ \A step \in {"execute", "observe", "threw"} :
       turn[w] = [step |-> step, audit |-> a] => record[a].approval = "approved"
  /\ turn[w] = [step |-> "execute", audit |-> a] =>
       /\ runs[a] = 0
       /\ \A v \in Worker : turn[v] = [step |-> "execute", audit |-> a] => v = w
RunInv ==
  \A a \in Audit : /\ runs[a] \in {0, 1}
                   /\ runs[a] = 1 => a \in Records /\ record[a].approval = "approved"
                   /\ \A w \in Worker : Authorised(w, a)

IInv == TypeOK /\ KnownInv /\ StartInv /\ DecisionInv /\ RunInv

(* And of TerminalIsFinal, ImplementsOneShot and Attended, for one worker *)

\* What a worker still has to do for an audit tells the state of its record, and a
\* worker that is down has nothing to do.
WorkFits(w, a) ==
  /\ w \notin up => chain[w][a] = "idle" /\ turn[w] = None
  /\ chain[w][a] = "prepare" => record[a].state = "preparing"
  /\ chain[w][a] = "run" => record[a].state = "waiting_for_effects"
  /\ turn[w] = [step |-> "announce", audit |-> a] => record[a].state = "awaiting_approval"
  /\ \A step \in {"execute", "observe", "threw"} :
       turn[w] = [step |-> step, audit |-> a] => record[a].state = "running"

\* The state of a record tells whether a human has approved it.
ApprovalFits(a) ==
  a \in Records => /\ record[a].state \in Undecided => record[a].approval = "none"
                   /\ record[a].state \in Executing => record[a].approval = "approved"

\* Attended, where a turn that only carries a decision attends to nothing yet.
AttendedBy(w, a) ==
  \/ a \in dropped
  \/ \E step \in {"announce", "execute", "observe", "threw"} :
       turn[w] = [step |-> step, audit |-> a]
  \/ Awaited(w, a)

SoleInv ==
  \A a \in Audit : /\ ApprovalFits(a)
                   /\ \A w \in Worker : /\ WorkFits(w, a)
                                        /\ w \in up /\ a \in Records => AttendedBy(w, a)
=============================================================================
