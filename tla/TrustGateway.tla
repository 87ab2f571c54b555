---------------------------- MODULE TrustGateway ----------------------------
(***************************************************************************)
(* The trust gateway of src/trust.js: scoped delegations with a spend      *)
(* limit, human approvals, idempotent execution and revocation, kept in    *)
(* one row of a SQLite file that several gateway processes share           *)
(* (src/state-store.js).                                                   *)
(*                                                                         *)
(* A gateway operation is one action: withWriteLock runs its synchronous   *)
(* part, from refreshState() to persist(), between BEGIN IMMEDIATE and     *)
(* COMMIT.  What the code does after an await is an action of its own, so  *)
(* other processes, crashes and revocations fall in between.               *)
(*                                                                         *)
(* The COMMIT runs when the operation has returned its promise, that is    *)
(* with the tool call already queued.  If it fails, the row is rolled back *)
(* and the caller gets an exception, but the tool is called all the same:  *)
(* RequestDirectUndone and ApproveUndone, and "undone" remembers them.  A  *)
(* transaction that fails in any other place leaves the row alone, and the *)
(* next operation reloads it (refreshState); only the bindings it dropped  *)
(* are gone: RolledBack.  After the call see FinishUnrecorded.             *)
(*                                                                         *)
(* Not represented, because no guard reads it: the timeline and the texts  *)
(* of responses.                                                           *)
(***************************************************************************)
EXTENDS Naturals, FiniteSets

CONSTANTS
  Proc,           \* gateway processes sharing the database
  Delegation,     \* delegation ids that may be issued
  Key,            \* idempotency keys
  NoKey,          \* a request sent without one
  Job,            \* fresh ids: one per accepted request
  NoRequest,      \* a job id not used yet
  Op,             \* a tool with its arguments; the request hash tells them apart
  NeedsApproval,  \* the operations whose tool says requiresApproval
  Permitted,      \* <<delegation, op>>: agent, tool, scope and arguments are valid
  Amount,         \* what an operation spends; 0 when the tool has no amount
  Limited,        \* delegations issued with a max_amount
  Limit,          \* that max_amount
  MaxUndone,      \* bound: executions whose COMMIT fails
  Total           \* sum of amounts, one per reservation id or request

Reservation == Key \cup Job   \* idempotencyRecordKey or execution:<uuid>
Amounts == {0} \cup {Amount[o] : o \in Op}
Request == [delegation : Delegation, key : Key \cup {NoKey}, op : Op]
Slot == Delegation \X Key     \* an idempotency record key

ASSUME ConstantsAssumption ==
  /\ NoKey \notin Key
  /\ NoRequest \notin Request
  /\ Key \cap Job = {}
  /\ NeedsApproval \subseteq Op
  /\ Permitted \subseteq Delegation \X Op
  /\ Amount \in [Op -> Nat]
  /\ Limited \subseteq Delegation
  /\ Limit \in [Delegation -> Nat]
  /\ MaxUndone \in Nat

\* What reduce() over Object.values(reservations) computes, as far as it
\* matters: an absent reservation counts as 0.
ASSUME TotalAssumption ==
  /\ Total \in [[Reservation -> Amounts] -> Nat]
  /\ Total[[r \in Reservation |-> 0]] = 0
  /\ \A f \in [Reservation -> Amounts], r \in Reservation, a \in Amounts :
       Total[[f EXCEPT ![r] = a]] + f[r] = Total[f] + a
  /\ \A f, g \in [Reservation -> Amounts] :
       (\A r \in Reservation : f[r] <= g[r]) => Total[f] <= Total[g]

VARIABLES
  \* the shared row
  approval,       \* [Job -> status in the approvals map, or "none"]
  reply,          \* [Slot -> status of the remembered response, or "none"]
  revoked,        \* delegations in the revoked map
  committed,      \* [Delegation -> budget.committed]
  reserved,       \* [Delegation -> budget.reservations]
  receipts,       \* jobs with an execution receipt
  \* each process's memory
  up,             \* live processes
  bindings,       \* [Proc -> jobs whose tool binding it holds]
  starting,       \* [Proc -> jobs persisted as executing, tool not called yet]
  executing,      \* [Proc -> jobs whose tool call has not returned]
  \* the world
  issued,         \* delegations whose passport was issued
  expired,        \* those whose expires_at has passed
  request,        \* [Job -> the request it came from]
  calls,          \* [Job -> how often the tool was called for it]
  undone          \* history: jobs whose execution was begun and its COMMIT failed

store == <<approval, reply, revoked, committed, reserved, receipts>>
memory == <<up, bindings, starting, executing>>
world == <<issued, expired, request, calls, undone>>
vars == <<store, memory, world>>

ApprovalStatus == {"none", "pending", "approved", "denied"}
ReplyStatus == {"none", "approval_required", "execution_in_progress",
                "executed", "denied", "execution_outcome_unknown"}

TypeOK ==
  /\ approval \in [Job -> ApprovalStatus]
  /\ reply \in [Slot -> ReplyStatus]
  /\ revoked \subseteq Delegation
  /\ committed \in [Delegation -> Nat]
  /\ reserved \in [Delegation -> [Reservation -> Amounts]]
  /\ receipts \subseteq Job
  /\ up \subseteq Proc
  /\ bindings \in [Proc -> SUBSET Job]
  /\ starting \in [Proc -> SUBSET Job]
  /\ executing \in [Proc -> SUBSET Job]
  /\ issued \subseteq Delegation
  /\ expired \subseteq Delegation
  /\ request \in [Job -> Request \cup {NoRequest}]
  /\ calls \in [Job -> Nat]
  /\ undone \subseteq Job

Init ==
  /\ approval = [j \in Job |-> "none"]
  /\ reply = [s \in Slot |-> "none"]
  /\ revoked = {}
  /\ committed = [d \in Delegation |-> 0]
  /\ reserved = [d \in Delegation |-> [r \in Reservation |-> 0]]
  /\ receipts = {}
  /\ up = Proc
  /\ bindings = [p \in Proc |-> {}]
  /\ starting = [p \in Proc |-> {}]
  /\ executing = [p \in Proc |-> {}]
  /\ issued = {}
  /\ expired = {}
  /\ request = [j \in Job |-> NoRequest]
  /\ calls = [j \in Job |-> 0]
  /\ undone = {}

-----------------------------------------------------------------------------
(* Helpers *)

Used(j) == request[j] # NoRequest
Charge(d, op) == IF d \in Limited THEN Amount[op] ELSE 0
Hold(k, j) == IF k = NoKey THEN j ELSE k         \* the reservation id
HoldOf(j) == Hold(request[j].key, j)

\* The undone jobs of which the row knows nothing, not even their key.
Forgotten == {j \in undone : request[j].op \notin NeedsApproval}

\* A job whose execution was persisted: it may run, or have run.
Started(j) == /\ Used(j) /\ j \notin Forgotten
              /\ approval[j] = "approved" \/ request[j].op \notin NeedsApproval

\* The jobs of an idempotency record key.
JobsOf(s) == {j \in Job : Used(j) /\ <<request[j].delegation, request[j].key>> = s}
Running(j) == \E p \in Proc : j \in starting[p] \cup executing[p]

\* Mutant: resolveApproval without its approval_already_resolved check.
PendingOrApproved == {j \in Job : approval[j] \in {"pending", "approved"}}
Pending == {j \in Job : approval[j] = "pending"}
Lapsed == {j \in Pending : request[j].delegation \in expired}

\* denied, released, and its retries answered "denied": for every job of S
DeniedApprovals(S) == [j \in Job |-> IF j \in S THEN "denied" ELSE approval[j]]
ReleasedBudgets(S) ==
  [d \in Delegation |-> [r \in Reservation |->
     IF \E j \in S : request[j].delegation = d /\ HoldOf(j) = r THEN 0 ELSE reserved[d][r]]]
DeniedReplies(S) ==
  [s \in Slot |-> IF \E j \in S : <<request[j].delegation, request[j].key>> = s
                  THEN "denied" ELSE reply[s]]

Deny(S) ==
  /\ approval' = DeniedApprovals(S)
  /\ reserved' = ReleasedBudgets(S)
  /\ reply' = DeniedReplies(S)

Answer(j, status) ==
  reply' = IF request[j].key = NoKey THEN reply
           ELSE [reply EXCEPT ![<<request[j].delegation, request[j].key>>] = status]

\* refreshState drops the bindings of approvals that are not pending, and
\* every operation that resolves an approval deletes the binding it used.
KeepBindings(p, added) ==
  bindings' = [bindings EXCEPT ![p] = {j \in @ \cup added : approval'[j] = "pending"}]

-----------------------------------------------------------------------------
(* Operations *)

IssuePassport(p, d) ==
  /\ p \in up
  /\ d \notin issued
  /\ issued' = issued \cup {d}
  /\ UNCHANGED <<store, up, starting, executing, expired, request, calls, undone>>
  /\ KeepBindings(p, {})

\* Time passes the delegation's expires_at.
Expire(d) ==
  /\ d \in issued \ expired
  /\ expired' = expired \cup {d}
  /\ UNCHANGED <<store, memory, issued, request, calls, undone>>

\* getSnapshot, and a requestToolExecution that is refused: both sweep.
Sweep(p) ==
  /\ p \in up
  /\ Deny(Lapsed)
  /\ KeepBindings(p, {})
  /\ UNCHANGED <<revoked, committed, receipts, up, starting, executing, world>>

\* Mutant: reserveBudget counting committed spend only.
FitsCommitted(d, op) == d \in Limited => committed[d] + Amount[op] <= Limit[d]
\* reserveBudget's decision, made after the sweep.
FitsBudget(d, op) ==
  d \in Limited => committed[d] + Total[ReleasedBudgets(Lapsed)[d]] + Amount[op] <= Limit[d]

\* The direct executions of a key that a process has under way (inFlight): it answers a
\* retry with their outcome.
InFlight(p, d, k) == {j \in (starting[p] \cup executing[p]) \cap JobsOf(<<d, k>>) : request[j].op \notin NeedsApproval}

\* Mutant: no look at the remembered reply.
AcceptableAgain(p, d, op, k) ==
  /\ d \in issued \ (revoked \cup expired)
  /\ <<d, op>> \in Permitted
  /\ k # NoKey => InFlight(p, d, k) = {}
  /\ FitsBudget(d, op)
\* The checks of requestToolExecution, made after its sweep.
Acceptable(p, d, op, k) ==
  /\ d \in issued \ (revoked \cup expired)
  /\ <<d, op>> \in Permitted
  /\ k # NoKey => InFlight(p, d, k) = {} /\ DeniedReplies(Lapsed)[<<d, k>>] = "none"
  /\ FitsBudget(d, op)

Accept(p, d, op, k, j) ==
  /\ ~Used(j)
  /\ Acceptable(p, d, op, k)
  /\ request' = [request EXCEPT ![j] = [delegation |-> d, key |-> k, op |-> op]]

RememberNew(d, k, status) ==
  reply' = IF k = NoKey THEN DeniedReplies(Lapsed)
           ELSE [DeniedReplies(Lapsed) EXCEPT ![<<d, k>>] = status]

RequestApproval(p, d, op, k, j) ==
  /\ p \in up
  /\ op \in NeedsApproval
  /\ Accept(p, d, op, k, j)
  /\ approval' = [DeniedApprovals(Lapsed) EXCEPT ![j] = "pending"]
  /\ reserved' = [ReleasedBudgets(Lapsed) EXCEPT ![d][Hold(k, j)] = Charge(d, op)]
  /\ RememberNew(d, k, "approval_required")
  /\ KeepBindings(p, {j})
  /\ UNCHANGED <<revoked, committed, receipts, up, starting, executing, issued, expired, calls, undone>>

\* No approval needed: reserve and commit at once, execute after the COMMIT.
RequestDirect(p, d, op, k, j) ==
  /\ p \in up
  /\ op \notin NeedsApproval
  /\ Accept(p, d, op, k, j)
  /\ approval' = DeniedApprovals(Lapsed)
  /\ reserved' = ReleasedBudgets(Lapsed)
  /\ committed' = [committed EXCEPT ![d] = @ + Charge(d, op)]
  /\ RememberNew(d, k, "execution_in_progress")
  /\ starting' = [starting EXCEPT ![p] = @ \cup {j}]
  /\ KeepBindings(p, {})
  /\ UNCHANGED <<revoked, receipts, up, executing, issued, expired, calls, undone>>

\* The row is rolled back, so its approvals are as they were, but the bindings of S are gone.
DropBindings(p, S) == bindings' = [bindings EXCEPT ![p] = {j \in @ \ S : approval[j] = "pending"}]

\* The same, but the COMMIT fails: the row forgets the request, the process executes it.
RequestDirectUndone(p, d, op, k, j) ==
  /\ p \in up
  /\ Cardinality(undone) < MaxUndone
  /\ op \notin NeedsApproval
  /\ Accept(p, d, op, k, j)
  /\ undone' = undone \cup {j}
  /\ starting' = [starting EXCEPT ![p] = @ \cup {j}]
  /\ DropBindings(p, Lapsed)
  /\ UNCHANGED <<store, up, executing, issued, expired, calls>>

\* resolveApproval once the approval is found pending and the principal matches.
Approvable(p, j, decision) ==
  /\ request[j].delegation \notin expired
  /\ request[j].delegation \notin revoked
  /\ decision = "approved"
  /\ j \in bindings[p]

\* Mutant: the reservation is dropped and its amount not committed.
CommitNothing(d, r) ==
  /\ UNCHANGED committed
  /\ reserved' = [reserved EXCEPT ![d][r] = 0]
CommitBudget(d, r) ==
  /\ committed' = [committed EXCEPT ![d] = @ + reserved[d][r]]
  /\ reserved' = [reserved EXCEPT ![d][r] = 0]

Approve(p, j, decision) ==
  /\ p \in up
  /\ j \in Pending
  /\ Approvable(p, j, decision)
  /\ approval' = [approval EXCEPT ![j] = "approved"]
  /\ CommitBudget(request[j].delegation, HoldOf(j))
  /\ starting' = [starting EXCEPT ![p] = @ \cup {j}]
  /\ KeepBindings(p, {})
  /\ UNCHANGED <<reply, revoked, receipts, up, executing, world>>

\* The same, but the COMMIT fails: the approval stays pending, the process executes it.
ApproveUndone(p, j, decision) ==
  /\ p \in up
  /\ Cardinality(undone) < MaxUndone
  /\ j \in Pending
  /\ Approvable(p, j, decision)
  /\ undone' = undone \cup {j}
  /\ starting' = [starting EXCEPT ![p] = @ \cup {j}]
  /\ DropBindings(p, {j})
  /\ UNCHANGED <<store, up, executing, issued, expired, request, calls>>

\* Expired, revoked, refused by the human, or its binding is not in this process.
Refuse(p, j, decision) ==
  /\ p \in up
  /\ j \in Pending
  /\ ~Approvable(p, j, decision)
  /\ Deny({j})
  /\ KeepBindings(p, {})
  /\ UNCHANGED <<revoked, committed, receipts, up, starting, executing, world>>

\* After the COMMIT, in a microtask: the tool's execute is called.
CallTool(p, j) ==
  /\ p \in up
  /\ j \in starting[p]
  /\ starting' = [starting EXCEPT ![p] = @ \ {j}]
  /\ executing' = [executing EXCEPT ![p] = @ \cup {j}]
  /\ calls' = [calls EXCEPT ![j] = @ + 1]
  /\ UNCHANGED <<store, up, bindings, issued, expired, request, undone>>

Finish(p, j) ==
  /\ p \in up
  /\ j \in executing[p]
  /\ executing' = [executing EXCEPT ![p] = @ \ {j}]
  /\ UNCHANGED <<approval, revoked, committed, reserved, up, starting, world>>

\* The tool returned, and the finishing transaction committed.
FinishExecuted(p, j) ==
  /\ Finish(p, j)
  /\ receipts' = receipts \cup {j}
  /\ Answer(j, "executed")
  /\ KeepBindings(p, {})

\* Mutant: the reply loses its execution_outcome_unknown.
FinishUnknownDenied(p, j) ==
  /\ Finish(p, j)
  /\ Answer(j, "denied")
  /\ KeepBindings(p, {})
  /\ UNCHANGED receipts
\* The tool threw (or, on the direct path, recording its result did).
FinishUnknown(p, j) ==
  /\ Finish(p, j)
  /\ Answer(j, "execution_outcome_unknown")
  /\ KeepBindings(p, {})
  /\ UNCHANGED receipts

\* The finishing transaction failed (busy database): nothing is recorded.
FinishUnrecorded(p, j) ==
  /\ Finish(p, j)
  /\ UNCHANGED <<receipts, reply, bindings>>

\* The pending approvals of a delegation.
PendingOf(d) == {j \in Pending : request[j].delegation = d}

RevokePassport(p, d) ==
  /\ p \in up
  /\ d \in issued \ revoked
  /\ revoked' = revoked \cup {d}
  /\ Deny(PendingOf(d))
  /\ KeepBindings(p, {})
  /\ UNCHANGED <<committed, receipts, up, starting, executing, world>>

\* The transaction of a sweep, of a resolution or of a revocation fails before anything is
\* executed: in memory it has dropped the bindings of the approvals it would have resolved.
RolledBack(p) ==
  /\ p \in up
  /\ \E S \in {Lapsed} \cup {{j} : j \in Pending} \cup {PendingOf(d) : d \in issued \ revoked} :
       DropBindings(p, S)
  /\ UNCHANGED <<store, up, starting, executing, world>>

\* Everything not in the row is lost.
Crash(p) ==
  /\ p \in up
  /\ up' = up \ {p}
  /\ bindings' = [bindings EXCEPT ![p] = {}]
  /\ starting' = [starting EXCEPT ![p] = {}]
  /\ executing' = [executing EXCEPT ![p] = {}]
  /\ UNCHANGED <<store, world>>

Restart(p) ==
  /\ p \in Proc \ up
  /\ up' = up \cup {p}
  /\ UNCHANGED <<store, bindings, starting, executing, world>>

Next ==
  \/ \E p \in Proc, d \in Delegation : IssuePassport(p, d) \/ RevokePassport(p, d)
  \/ \E d \in Delegation : Expire(d)
  \/ \E p \in Proc : Sweep(p) \/ RolledBack(p) \/ Crash(p) \/ Restart(p)
  \/ \E p \in Proc, d \in Delegation, op \in Op, k \in Key \cup {NoKey}, j \in Job :
       \/ RequestApproval(p, d, op, k, j)
       \/ RequestDirect(p, d, op, k, j)
       \/ RequestDirectUndone(p, d, op, k, j)
  \/ \E p \in Proc, j \in Job, decision \in {"approved", "denied"} :
       Approve(p, j, decision) \/ ApproveUndone(p, j, decision) \/ Refuse(p, j, decision)
  \/ \E p \in Proc, j \in Job :
       \/ CallTool(p, j)
       \/ FinishExecuted(p, j)
       \/ FinishUnknown(p, j)
       \/ FinishUnrecorded(p, j)

Spec == Init /\ [][Next]_vars

-----------------------------------------------------------------------------
(* Properties *)

\* Spend already committed plus what pending approvals hold never exceeds the
\* limit the delegation was issued with, whichever processes reserved, committed
\* or released it and in whatever order (reserveBudget, commitBudget, releaseBudget).
BudgetWithinLimit ==
  \A d \in Limited : committed[d] + Total[reserved[d]] <= Limit[d]

\* What the executions persisted so far spend under a delegation, job by job.
Spend(d) ==
  [r \in Reservation |-> IF r \in Job /\ Started(r) /\ request[r].delegation = d
                         THEN Charge(d, request[r].op) ELSE 0]

\* The committed budget is the spend of exactly the executions that were
\* persisted: a crash, a retry or a second process neither charges one twice nor
\* forgets one (commitBudget against every path that starts an execution).  What an
\* execution spends whose COMMIT failed is not charged.
CommittedIsStarted == \A d \in Delegation : committed[d] = Total[Spend(d)]

\* No reservation leaks and none is lost: a delegation holds budget under a
\* reservation id exactly as long as a pending approval that charges it holds that id.
ReservationsMatchPending ==
  /\ \A j \in Pending : LET d == request[j].delegation IN
       reserved[d][HoldOf(j)] = Charge(d, request[j].op)
  /\ \A d \in Delegation, r \in Reservation : reserved[d][r] # 0 =>
       \E j \in Pending : request[j].delegation = d /\ HoldOf(j) = r

\* One idempotency key of one delegation causes at most one tool call, across
\* retries, processes, crashes and restarts, and so does one accepted request: but for
\* direct executions whose COMMIT failed, which leave no trace of their key.  Of two calls
\* for one key one is always such a forgotten one.
OncePerKey ==
  /\ \A j \in Job : calls[j] <= 1
  /\ \A s \in Slot : \A i, j \in JobsOf(s) \ Forgotten : calls[i] > 0 /\ calls[j] > 0 => i = j

\* What the store tells a retrying agent is true of the world: a plain denial means that
\* the tool was not and will not be called for that key, unless a COMMIT failed after the
\* call was queued; a waiting approval, that there is one or it was granted; an executed
\* reply, that the tool was called and has a receipt; an unknown outcome, that it was called
\* and has none; and no reply, that nothing was accepted but what a failed COMMIT undid.
ReplyIsTruthful ==
  \A s \in Slot :
    LET kept == JobsOf(s) \ undone IN
    /\ reply[s] = "none" => JobsOf(s) \subseteq Forgotten
    /\ reply[s] = "denied" => \A j \in kept : calls[j] = 0 /\ ~Running(j)
    /\ reply[s] = "approval_required" => \E j \in JobsOf(s) : approval[j] \in {"pending", "approved"}
    /\ reply[s] = "executed" => \E j \in JobsOf(s) : calls[j] > 0 /\ j \in receipts
    /\ reply[s] = "execution_outcome_unknown" => \E j \in JobsOf(s) : calls[j] > 0 /\ j \notin receipts

\* A job of which an execution was begun, persisted or not.
Begun(j) == Started(j) \/ j \in undone

\* Once any process has revoked a delegation, or it has expired, no execution of
\* it is begun any more, by a request, an approval or another process, and whether or not
\* its COMMIT fails.  (An execution begun before may still call its tool after.)
WithdrawnStartsNothing ==
  [][\A j \in Job : Begun(j)' /\ ~Begun(j) =>
       request'[j].delegation \notin revoked \cup expired]_vars

\* The gateway as a one-shot authority for each accepted request.  When the COMMIT of an
\* execution failed, what the process does counts, not the row: that may go on to call
\* the request pending, and to refuse it.
JobPhase(j) ==
  IF ~Used(j) THEN "new"
  ELSE IF j \in undone THEN IF Running(j) THEN "authorised" ELSE "closed"
  ELSE IF approval[j] = "pending" THEN "waiting"
  ELSE IF approval[j] = "denied" THEN "refused"
  ELSE IF Running(j) THEN "authorised" ELSE "closed"

Authority == INSTANCE OneShot WITH phase <- [j \in Job |-> JobPhase(j)], performed <- calls

\* Every accepted request is performed at most once, after its authorisation by a process
\* and before its closing, and never after a refusal (the abstract specification); so is
\* one whose COMMIT failed, of which the row says something else.
ImplementsOneShot == Authority!Spec

-----------------------------------------------------------------------------
(* The inductive strengthening of the properties above *)

StatusOf(j) == reply[<<request[j].delegation, request[j].key>>]

\* Exactly the accepted requests for an approval-gated tool are in the map.
ApprovalInv ==
  \A j \in Job : approval[j] # "none" <=> Used(j) /\ request[j].op \in NeedsApproval

\* Keys identify requests, but for the forgotten: the remembered reply keeps a second one out.
KeyInv ==
  \A i, j \in Job \ Forgotten :
    /\ Used(i) /\ Used(j) /\ request[i].key # NoKey
    /\ request[i].delegation = request[j].delegation /\ request[i].key = request[j].key
    => i = j

\* One process at most holds the binding of an approval.  So an approval of which an
\* undone execution has dropped the binding is never granted again.
BindingFits(j) ==
  /\ j \in undone => Used(j) /\ approval[j] # "approved" /\ \A p \in Proc : j \notin bindings[p]
  /\ ~Used(j) => \A p \in Proc : j \notin bindings[p]
  /\ \A p, q \in Proc : p # q /\ j \in bindings[p] => j \notin bindings[q]

BindingInv == \A j \in Job : BindingFits(j)

\* One process at most runs a job, first without and then with its one call.
RunFits(j) ==
  /\ calls[j] \in {0, 1}
  /\ calls[j] = 1 => Begun(j)
  /\ j \in receipts => calls[j] = 1
  /\ \A p \in Proc : /\ j \in starting[p] => Begun(j) /\ calls[j] = 0
                     /\ j \in executing[p] => calls[j] = 1 /\ j \notin receipts
  /\ \A p, q \in Proc : p # q => /\ j \in starting[p] => j \notin starting[q]
                                 /\ j \in executing[p] => j \notin executing[q]

RunInv == \A j \in Job : RunFits(j)

\* A key is remembered, and denied only with its approval.
ReplyFits(j) ==
  Used(j) /\ request[j].key # NoKey /\ j \notin Forgotten =>
    StatusOf(j) # "none" /\ (StatusOf(j) = "denied" => approval[j] = "denied")

\* Every other reply has a job that it is about.
SlotFits(s) ==
  /\ reply[s] = "approval_required" => \E j \in JobsOf(s) : approval[j] \in {"pending", "approved"}
  /\ reply[s] = "executed" => \E j \in JobsOf(s) : j \in receipts
  /\ reply[s] = "execution_outcome_unknown" =>
       \E j \in JobsOf(s) : calls[j] = 1 /\ j \notin receipts /\ ~Running(j)

ReplyInv == (\A j \in Job : ReplyFits(j)) /\ (\A s \in Slot : SlotFits(s))

IInv == TypeOK /\ ApprovalInv /\ KeyInv /\ BindingInv /\ RunInv /\ ReplyInv
        /\ ReservationsMatchPending /\ BudgetWithinLimit
=============================================================================
