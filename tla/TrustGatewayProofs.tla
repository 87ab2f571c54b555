------------------------- MODULE TrustGatewayProofs -------------------------
(***************************************************************************)
(* Proofs about TrustGateway, for any number of processes, delegations,    *)
(* keys, requests and operations.                                          *)
(***************************************************************************)
EXTENDS TrustGateway, FiniteSetTheorems, TLAPS

-----------------------------------------------------------------------------
(* Facts about the helpers *)

\* What refusing a set of approvals writes is of its types.
LEMMA DenyTypes ==
  ASSUME TypeOK, NEW S \in SUBSET Job
  PROVE  /\ DeniedApprovals(S) \in [Job -> ApprovalStatus]
         /\ ReleasedBudgets(S) \in [Delegation -> [Reservation -> Amounts]]
         /\ DeniedReplies(S) \in [Slot -> ReplyStatus]
BY DEF TypeOK, DeniedApprovals, ReleasedBudgets, DeniedReplies, ApprovalStatus,
       ReplyStatus, Amounts

\* So is what a process keeps of its bindings; only what it adds is new, and pending.
LEMMA BindingTypes ==
  ASSUME TypeOK, NEW p \in Proc, NEW A \in SUBSET Job, KeepBindings(p, A)
  PROVE  /\ bindings' \in [Proc -> SUBSET Job]
         /\ \A q \in Proc : bindings'[q] \subseteq bindings[q] \cup (IF q = p THEN A ELSE {})
         /\ \A j \in bindings'[p] : approval'[j] = "pending"
BY DEF TypeOK, KeepBindings

\* A rolled back transaction only takes bindings away.
LEMMA DroppedBindings ==
  ASSUME TypeOK, NEW p \in Proc, NEW S, DropBindings(p, S)
  PROVE  /\ bindings' \in [Proc -> SUBSET Job]
         /\ \A q \in Proc : bindings'[q] \subseteq bindings[q]
         /\ bindings'[p] \cap S = {}
BY DEF TypeOK, DropBindings

\* Pending approvals are jobs, those that lapsed among them.
LEMMA LapsedJobs == Lapsed \in SUBSET Job /\ Pending \in SUBSET Job
BY DEF Lapsed, Pending

\* The request of a used job has its fields.
LEMMA UsedJob ==
  ASSUME TypeOK, NEW j \in Job, Used(j)
  PROVE  /\ request[j] \in Request
         /\ request[j].delegation \in Delegation
         /\ request[j].key \in Key \cup {NoKey}
         /\ request[j].op \in Op
         /\ HoldOf(j) \in Reservation
BY DEF TypeOK, Used, Request, HoldOf, Hold, Reservation

-----------------------------------------------------------------------------
(* Type correctness *)

\* Types hold at first.
LEMMA InitType == Init => TypeOK
BY ConstantsAssumption DEF Init, TypeOK, ApprovalStatus, ReplyStatus, Amounts

\* Types are preserved.
LEMMA NextType == TypeOK /\ ApprovalInv /\ [Next]_vars => TypeOK'
<1> SUFFICES ASSUME TypeOK, ApprovalInv, [Next]_vars PROVE TypeOK'
  OBVIOUS
<1> USE LapsedJobs
<1>1. ASSUME NEW p \in Proc, NEW d \in Delegation, IssuePassport(p, d)
      PROVE  TypeOK'
  BY <1>1, BindingTypes, {} \in SUBSET Job DEF TypeOK, IssuePassport, store
<1>2. ASSUME NEW p \in Proc, NEW d \in Delegation, RevokePassport(p, d)
      PROVE  TypeOK'
  <2> DEFINE S == PendingOf(d)
  <2>1. S \in SUBSET Job
    BY DEF PendingOf
  <2>2. Deny(S)
    BY <1>2 DEF RevokePassport
  <2> QED
    BY <1>2, <2>1, <2>2, DenyTypes, BindingTypes, {} \in SUBSET Job
    DEF TypeOK, RevokePassport, Deny, world
<1>3. ASSUME NEW d \in Delegation, Expire(d)
      PROVE  TypeOK'
  BY <1>3 DEF TypeOK, Expire, store, memory
<1>4. ASSUME NEW p \in Proc, Sweep(p)
      PROVE  TypeOK'
  BY <1>4, DenyTypes, BindingTypes, {} \in SUBSET Job DEF TypeOK, Sweep, Deny, world
<1>5. ASSUME NEW p \in Proc, Crash(p)
      PROVE  TypeOK'
  BY <1>5 DEF TypeOK, Crash, store, world
<1>6. ASSUME NEW p \in Proc, Restart(p)
      PROVE  TypeOK'
  BY <1>6 DEF TypeOK, Restart, store, world
<1>7. ASSUME NEW p \in Proc, NEW d \in Delegation, NEW op \in Op,
             NEW k \in Key \cup {NoKey}, NEW j \in Job, RequestApproval(p, d, op, k, j)
      PROVE  TypeOK'
  <2>1. Charge(d, op) \in Amounts /\ Hold(k, j) \in Reservation
    BY DEF Charge, Amounts, Hold, Reservation
  <2>2. request' \in [Job -> Request \cup {NoRequest}]
    BY <1>7 DEF TypeOK, RequestApproval, Accept, Request
  <2>3. reply' \in [Slot -> ReplyStatus]
    BY <1>7, DenyTypes DEF RequestApproval, RememberNew, ReplyStatus, Slot
  <2>4. bindings' \in [Proc -> SUBSET Job]
    BY <1>7, BindingTypes, {j} \in SUBSET Job DEF RequestApproval
  <2>5. reserved' \in [Delegation -> [Reservation -> Amounts]]
    BY <1>7, <2>1, DenyTypes DEF RequestApproval
  <2>6. approval' \in [Job -> ApprovalStatus]
    BY <1>7, DenyTypes DEF RequestApproval, ApprovalStatus
  <2> QED
    BY <1>7, <2>2, <2>3, <2>4, <2>5, <2>6 DEF TypeOK, RequestApproval
<1>8. ASSUME NEW p \in Proc, NEW d \in Delegation, NEW op \in Op,
             NEW k \in Key \cup {NoKey}, NEW j \in Job, RequestDirect(p, d, op, k, j)
      PROVE  TypeOK'
  <2>1. Charge(d, op) \in Nat
    BY ConstantsAssumption DEF Charge
  <2>2. request' \in [Job -> Request \cup {NoRequest}]
    BY <1>8 DEF TypeOK, RequestDirect, Accept, Request
  <2>3. reply' \in [Slot -> ReplyStatus]
    BY <1>8, DenyTypes DEF RequestDirect, RememberNew, ReplyStatus, Slot
  <2>4. bindings' \in [Proc -> SUBSET Job]
    BY <1>8, BindingTypes, {} \in SUBSET Job DEF RequestDirect
  <2>5. committed' \in [Delegation -> Nat]
    BY <1>8, <2>1 DEF TypeOK, RequestDirect
  <2> QED
    BY <1>8, <2>2, <2>3, <2>4, <2>5, DenyTypes DEF TypeOK, RequestDirect
<1>9. ASSUME NEW p \in Proc, NEW j \in Job, NEW decision \in {"approved", "denied"},
             Approve(p, j, decision)
      PROVE  TypeOK'
  <2>1. /\ approval' \in [Job -> ApprovalStatus]
        /\ starting' \in [Proc -> SUBSET Job]
    BY <1>9 DEF TypeOK, Approve, ApprovalStatus
  <2>2. reserved' \in [Delegation -> [Reservation -> Amounts]]
    BY <1>9 DEF TypeOK, Approve, CommitBudget, Amounts
  <2>3. committed' \in [Delegation -> Nat]
    <3>1. \A d \in Delegation, r \in Reservation : reserved[d][r] \in Nat
      BY ConstantsAssumption DEF TypeOK, Amounts
    <3>2. HoldOf(j) \in Reservation /\ request[j].delegation \in Delegation
      BY <1>9, UsedJob DEF Approve, Pending, ApprovalInv
    <3>3. \A d \in Delegation : committed'[d] \in Nat
      BY <1>9, <3>1, <3>2 DEF TypeOK, Approve, CommitBudget
    <3> QED
      BY <1>9, <3>3 DEF TypeOK, Approve, CommitBudget
  <2>4. bindings' \in [Proc -> SUBSET Job]
    BY <1>9, BindingTypes, {} \in SUBSET Job DEF Approve
  <2> QED
    BY <1>9, <2>1, <2>2, <2>3, <2>4 DEF TypeOK, Approve, CommitBudget, world
<1>10. ASSUME NEW p \in Proc, NEW j \in Job, NEW decision \in {"approved", "denied"},
              Refuse(p, j, decision)
       PROVE  TypeOK'
  BY <1>10, {j} \in SUBSET Job, DenyTypes, BindingTypes, {} \in SUBSET Job
  DEF TypeOK, Refuse, Deny, world
<1>11. ASSUME NEW p \in Proc, NEW j \in Job, CallTool(p, j)
       PROVE  TypeOK'
  BY <1>11 DEF TypeOK, CallTool, store
<1>12. ASSUME NEW p \in Proc, NEW j \in Job, FinishExecuted(p, j)
       PROVE  TypeOK'
  BY <1>12, BindingTypes, {} \in SUBSET Job
  DEF TypeOK, FinishExecuted, Finish, Answer, world, ReplyStatus
<1>13. ASSUME NEW p \in Proc, NEW j \in Job, FinishUnknown(p, j)
       PROVE  TypeOK'
  BY <1>13, BindingTypes, {} \in SUBSET Job
  DEF TypeOK, FinishUnknown, Finish, Answer, world, ReplyStatus
<1>14. ASSUME NEW p \in Proc, NEW j \in Job, FinishUnrecorded(p, j)
       PROVE  TypeOK'
  BY <1>14 DEF TypeOK, FinishUnrecorded, Finish, world
<1>15. ASSUME NEW p \in Proc, NEW d \in Delegation, NEW op \in Op,
              NEW k \in Key \cup {NoKey}, NEW j \in Job, RequestDirectUndone(p, d, op, k, j)
       PROVE  TypeOK'
  <2>1. request' \in [Job -> Request \cup {NoRequest}]
    BY <1>15 DEF TypeOK, RequestDirectUndone, Accept, Request
  <2>2. bindings' \in [Proc -> SUBSET Job]
    BY <1>15, DroppedBindings DEF RequestDirectUndone
  <2> QED
    BY <1>15, <2>1, <2>2 DEF TypeOK, RequestDirectUndone, store
<1>16. ASSUME NEW p \in Proc, NEW j \in Job, NEW decision \in {"approved", "denied"},
              ApproveUndone(p, j, decision)
       PROVE  TypeOK'
  <2>1. bindings' \in [Proc -> SUBSET Job]
    BY <1>16, DroppedBindings DEF ApproveUndone
  <2> QED
    BY <1>16, <2>1 DEF TypeOK, ApproveUndone, store
<1>17. ASSUME NEW p \in Proc, RolledBack(p)
       PROVE  TypeOK'
  <2>1. bindings' \in [Proc -> SUBSET Job]
    BY <1>17, DroppedBindings DEF RolledBack
  <2> QED
    BY <1>17, <2>1 DEF TypeOK, RolledBack, store, world
<1>18. CASE UNCHANGED vars
  BY <1>18 DEF TypeOK, vars, store, memory, world
<1> QED
  BY <1>1, <1>2, <1>3, <1>4, <1>5, <1>6, <1>7, <1>8, <1>9, <1>10, <1>11, <1>12, <1>13,
     <1>14, <1>15, <1>16, <1>17, <1>18 DEF Next

-----------------------------------------------------------------------------
(* The life of a job *)

JobInv == ApprovalInv /\ KeyInv /\ BindingInv /\ RunInv /\ ReplyInv

\* The invariant of jobs holds at first.
LEMMA InitJob == Init => JobInv
BY DEF Init, JobInv, ApprovalInv, KeyInv, BindingInv, BindingFits, RunInv, RunFits, ReplyInv,
       ReplyFits, SlotFits, Used, Started, Slot

\* What runs has been begun; what is unused or pending is not persisted as executing.
LEMMA RunningJobs ==
  ASSUME TypeOK, JobInv, NEW j \in Job
  PROVE  /\ Running(j) => Begun(j)
         /\ ~Used(j) => /\ calls[j] = 0 /\ j \notin receipts /\ approval[j] = "none"
                        /\ ~Running(j) /\ ~Started(j) /\ j \notin undone
                        /\ \A p \in Proc : j \notin bindings[p]
         /\ j \in Pending => /\ Used(j) /\ request[j].op \in NeedsApproval
                             /\ ~Started(j) /\ j \notin Forgotten
         /\ j \in Pending \ undone => calls[j] = 0 /\ ~Running(j)
         /\ j \in undone => Used(j) /\ ~Started(j)
         /\ \A p \in Proc : j \in bindings[p] => j \notin undone
<1>0. RunFits(j) /\ BindingFits(j)
  BY DEF JobInv, RunInv, BindingInv
<1>1. Running(j) => Begun(j)
  BY <1>0 DEF RunFits, Running, TypeOK
<1>2. /\ calls[j] # 0 => Begun(j)
      /\ j \in receipts => Begun(j)
  BY <1>0 DEF RunFits
<1>3. j \in undone => Used(j) /\ ~Started(j)
  BY <1>0 DEF BindingFits, Started, Forgotten
<1>4. ~Used(j) => ~Started(j) /\ approval[j] = "none" /\ j \notin undone
  BY <1>3 DEF JobInv, ApprovalInv, Started
<1>5. j \in Pending => /\ Used(j) /\ request[j].op \in NeedsApproval
                       /\ ~Started(j) /\ j \notin Forgotten
  BY DEF JobInv, ApprovalInv, Started, Pending, Forgotten
<1>6. ~Used(j) => \A p \in Proc : j \notin bindings[p]
  BY <1>0 DEF BindingFits
<1>7. \A p \in Proc : j \in bindings[p] => j \notin undone
  BY <1>0 DEF BindingFits
<1> QED
  BY <1>1, <1>2, <1>3, <1>4, <1>5, <1>6, <1>7 DEF Begun

\* Every accepted keyed request that is not forgotten has left a reply behind.
LEMMA KeyTaken ==
  ASSUME JobInv, NEW i \in Job \ Forgotten, Used(i), request[i].key # NoKey
  PROVE  StatusOf(i) # "none"
BY DEF JobInv, ReplyInv, ReplyFits

\* The jobs of a slot have its reply, and a key.
LEMMA SlotJobs ==
  ASSUME NEW s \in Slot, NEW j \in JobsOf(s)
  PROVE  /\ j \in Job /\ Used(j)
         /\ request[j].key \in Key /\ request[j].key # NoKey
         /\ s = <<request[j].delegation, request[j].key>>
         /\ reply[s] = StatusOf(j)
BY ConstantsAssumption DEF JobsOf, Slot, StatusOf

\* Bindings that are only taken away go on fitting, while nobody is approved or undone.
LEMMA FewerBindings ==
  ASSUME TypeOK, BindingInv, UNCHANGED <<request, undone>>,
         \A p \in Proc : bindings'[p] \subseteq bindings[p],
         \A j \in undone : approval'[j] = "approved" => approval[j] = "approved"
  PROVE  BindingInv'
<1> SUFFICES ASSUME NEW j \in Job PROVE BindingFits(j)'
  BY DEF BindingInv
<1>1. BindingFits(j) /\ (Used(j)' <=> Used(j))
  BY DEF BindingInv, Used
<1> QED
  BY <1>1 DEF BindingFits

\* Denying pending approvals, which is what a sweep, a refusal and a revocation do.
LEMMA DenyJob ==
  ASSUME TypeOK, JobInv, NEW S \in SUBSET Pending, Deny(S), NEW p \in Proc, KeepBindings(p, {}),
         UNCHANGED <<receipts, request, calls, starting, executing, undone>>
  PROVE  JobInv'
<1>0. S \subseteq Job /\ Forgotten' = Forgotten
  BY DEF Pending, Forgotten
<1>1. \A j \in Job : /\ approval'[j] = IF j \in S THEN "denied" ELSE approval[j]
                     /\ Used(j)' <=> Used(j)
                     /\ Started(j)' <=> Started(j)
                     /\ Running(j)' <=> Running(j)
                     /\ Begun(j)' <=> Begun(j)
  <2>1. \A j \in Job : approval'[j] = IF j \in S THEN "denied" ELSE approval[j]
    BY DEF Deny, DeniedApprovals
  <2> QED
    BY <1>0, <2>1 DEF Used, Started, Running, Pending, Begun
<1>2. ApprovalInv'
  BY <1>1 DEF JobInv, ApprovalInv, Pending
<1>3. KeyInv'
  BY <1>0, <1>1 DEF JobInv, KeyInv
<1>4. BindingInv'
  <2>1. \A q \in Proc : bindings'[q] \subseteq bindings[q]
    BY BindingTypes, {} \in SUBSET Job
  <2>2. \A j \in undone : approval'[j] = "approved" => approval[j] = "approved"
    BY <1>1 DEF TypeOK
  <2> QED
    BY <2>1, <2>2, FewerBindings DEF JobInv
<1>5. RunInv'
  <2> SUFFICES ASSUME NEW j \in Job PROVE RunFits(j)'
    BY DEF RunInv
  <2> QED
    BY <1>1 DEF JobInv, RunInv, RunFits
<1>6. ASSUME NEW j \in Job, Used(j), request[j].key # NoKey, j \notin Forgotten
      PROVE  StatusOf(j)' = IF j \in S THEN "denied" ELSE StatusOf(j)
  <2>1. <<request[j].delegation, request[j].key>> \in Slot
    BY <1>6, UsedJob DEF Slot
  <2>2. \A i \in S : i \in Job \ Forgotten /\ Used(i)
    BY <1>0, RunningJobs
  <2>3. \A i \in S : <<request[i].delegation, request[i].key>>
                     = <<request[j].delegation, request[j].key>> => i = j
    BY <1>6, <2>2 DEF JobInv, KeyInv
  <2> QED
    BY <2>1, <2>3 DEF StatusOf, Deny, DeniedReplies
<1>7. ASSUME NEW j \in Job PROVE ReplyFits(j)'
  BY <1>0, <1>1, <1>6 DEF JobInv, ReplyInv, ReplyFits
<1>8. ASSUME NEW s \in Slot PROVE SlotFits(s)'
  <2>1. JobsOf(s)' = JobsOf(s)
    BY <1>1 DEF JobsOf
  <2>2. CASE \E i \in S : <<request[i].delegation, request[i].key>> = s
    BY <2>2 DEF Deny, DeniedReplies, SlotFits
  <2>3. CASE ~\E i \in S : <<request[i].delegation, request[i].key>> = s
    <3>1. reply'[s] = reply[s]
      BY <2>3 DEF Deny, DeniedReplies
    <3>2. \A i \in JobsOf(s) : i \in Job /\ i \notin S
      BY <2>3 DEF JobsOf
    <3> QED
      BY <1>1, <2>1, <3>1, <3>2 DEF SlotFits, JobInv, ReplyInv
  <2> QED
    BY <2>2, <2>3
<1>9. ReplyInv'
  BY <1>7, <1>8 DEF ReplyInv
<1> QED
  BY <1>2, <1>3, <1>4, <1>5, <1>9 DEF JobInv

\* An accepted request takes a fresh slot, and leaves the others as the sweep does.
LEMMA AcceptJob ==
  ASSUME TypeOK, JobInv, NEW p \in Proc,
         NEW d \in Delegation, NEW op \in Op, NEW k \in Key \cup {NoKey}, NEW j \in Job,
         NEW status \in {"approval_required", "execution_in_progress"},
         Accept(p, d, op, k, j), RememberNew(d, k, status), UNCHANGED undone
  PROVE  /\ \A i \in Job : Used(i)' <=> Used(i) \/ i = j
         /\ Forgotten' = Forgotten /\ j \notin Forgotten
         /\ KeyInv'
         /\ \A i \in Job \ Forgotten : Used(i)' /\ request'[i].key # NoKey =>
              StatusOf(i)' = IF i = j THEN status
                             ELSE IF i \in Lapsed THEN "denied" ELSE StatusOf(i)
         /\ \A s \in Slot : /\ JobsOf(s) \subseteq JobsOf(s)'
                            /\ \/ reply'[s] = DeniedReplies(Lapsed)[s]
                               \/ reply'[s] = status /\ j \in JobsOf(s)'
<1> DEFINE new == [delegation |-> d, key |-> k, op |-> op]
<1>1. /\ ~Used(j) /\ j \notin undone
      /\ request' = [request EXCEPT ![j] = new]
      /\ k # NoKey => DeniedReplies(Lapsed)[<<d, k>>] = "none"
  BY RunningJobs DEF Accept, Acceptable
<1>2. new \in Request /\ new # NoRequest
  BY ConstantsAssumption DEF Request
<1>3. \A i \in Job : request'[i] = IF i = j THEN new ELSE request[i]
  BY <1>1 DEF TypeOK
<1>4. \A i \in Job : Used(i)' <=> Used(i) \/ i = j
  BY <1>2, <1>3 DEF Used
<1>5. Forgotten' = Forgotten /\ j \notin Forgotten
  BY <1>1, <1>3 DEF Forgotten, TypeOK
<1>6. \A i \in Job \ Forgotten : /\ Used(i) /\ request[i].key # NoKey
                                 => <<request[i].delegation, request[i].key>> # <<d, k>>
  <2> SUFFICES ASSUME NEW i \in Job \ Forgotten, Used(i), request[i].key # NoKey,
                      <<request[i].delegation, request[i].key>> = <<d, k>>
               PROVE  FALSE
    OBVIOUS
  <2>1. k # NoKey /\ <<d, k>> \in Slot /\ reply[<<d, k>>] # "none"
    BY KeyTaken DEF StatusOf, Slot
  <2>2. DeniedReplies(Lapsed)[<<d, k>>] # "none"
    BY <2>1 DEF DeniedReplies
  <2> QED
    BY <1>1, <2>1, <2>2
<1>7. KeyInv'
  BY <1>3, <1>4, <1>5, <1>6 DEF JobInv, KeyInv
<1>8. ASSUME NEW i \in Job \ Forgotten, Used(i)', request'[i].key # NoKey
      PROVE  StatusOf(i)' = IF i = j THEN status
                            ELSE IF i \in Lapsed THEN "denied" ELSE StatusOf(i)
  <2>1. CASE i = j
    <3>1. k # NoKey /\ <<d, k>> \in Slot
      BY <1>3, <1>8, <2>1 DEF Slot
    <3>2. reply' = [DeniedReplies(Lapsed) EXCEPT ![<<d, k>>] = status]
      BY <3>1 DEF RememberNew
    <3> QED
      BY <1>3, <2>1, <3>1, <3>2 DEF StatusOf, DeniedReplies
  <2>2. CASE i # j
    <3>1. /\ Used(i) /\ request[i].key # NoKey /\ request'[i] = request[i]
          /\ <<request[i].delegation, request[i].key>> \in Slot
          /\ <<request[i].delegation, request[i].key>> # <<d, k>>
      BY <1>3, <1>4, <1>6, <1>8, <2>2, UsedJob DEF Slot
    <3>2. StatusOf(i)' = DeniedReplies(Lapsed)[<<request[i].delegation, request[i].key>>]
      BY <3>1 DEF StatusOf, RememberNew, DeniedReplies
    <3>3. \A h \in Lapsed : h \in Job \ Forgotten /\ Used(h)
      BY RunningJobs DEF Lapsed, Pending
    <3>4. \A h \in Lapsed : <<request[h].delegation, request[h].key>>
                            = <<request[i].delegation, request[i].key>> => h = i
      BY <3>1, <3>3 DEF JobInv, KeyInv
    <3> QED
      BY <2>2, <3>1, <3>2, <3>4 DEF DeniedReplies, StatusOf
  <2> QED
    BY <2>1, <2>2
<1>9. ASSUME NEW s \in Slot
      PROVE  /\ JobsOf(s) \subseteq JobsOf(s)'
             /\ \/ reply'[s] = DeniedReplies(Lapsed)[s]
                \/ reply'[s] = status /\ j \in JobsOf(s)'
  <2>1. JobsOf(s) \subseteq JobsOf(s)'
    BY <1>1, <1>3, <1>4 DEF JobsOf
  <2>2. CASE k # NoKey /\ s = <<d, k>>
    <3>1. reply'[s] = status
      BY <2>2 DEF RememberNew, DeniedReplies
    <3>2. j \in JobsOf(s)'
      BY <1>3, <1>4, <2>2 DEF JobsOf
    <3> QED
      BY <2>1, <3>1, <3>2
  <2>3. CASE ~(k # NoKey /\ s = <<d, k>>)
    BY <2>1, <2>3 DEF RememberNew, DeniedReplies
  <2> QED
    BY <2>2, <2>3
<1> QED
  BY <1>4, <1>5, <1>7, <1>8, <1>9

\* So every reply fits its jobs, whatever the request goes on with.
LEMMA AcceptReplies ==
  ASSUME TypeOK, JobInv, NEW p \in Proc,
         NEW d \in Delegation, NEW op \in Op, NEW k \in Key \cup {NoKey}, NEW j \in Job,
         NEW status \in {"approval_required", "execution_in_progress"},
         Accept(p, d, op, k, j), RememberNew(d, k, status),
         UNCHANGED <<undone, receipts, calls>>,
         \A i \in Job : i # j => approval'[i] = IF i \in Lapsed THEN "denied" ELSE approval[i],
         status = "approval_required" => approval'[j] = "pending",
         \A i \in Job : i # j => request'[i] = request[i] /\ (Running(i)' <=> Running(i))
  PROVE  ReplyInv'
<1>1. /\ \A i \in Job : Used(i)' <=> Used(i) \/ i = j
      /\ Forgotten' = Forgotten /\ j \notin Forgotten /\ ~Used(j)
      /\ \A i \in Job \ Forgotten : Used(i)' /\ request'[i].key # NoKey =>
           StatusOf(i)' = IF i = j THEN status
                          ELSE IF i \in Lapsed THEN "denied" ELSE StatusOf(i)
      /\ \A s \in Slot : /\ JobsOf(s) \subseteq JobsOf(s)'
                         /\ \/ reply'[s] = DeniedReplies(Lapsed)[s]
                            \/ reply'[s] = status /\ j \in JobsOf(s)'
  <2>1. ~Used(j)
    BY DEF Accept
  <2> QED
    BY <2>1, AcceptJob
<1>2. ASSUME NEW i \in Job PROVE ReplyFits(i)'
  <2> SUFFICES ASSUME Used(i)', request'[i].key # NoKey, i \notin Forgotten
               PROVE  StatusOf(i)' # "none" /\ (StatusOf(i)' = "denied" => approval'[i] = "denied")
    BY <1>1 DEF ReplyFits
  <2>1. CASE i = j
    BY <1>1, <2>1
  <2>2. CASE i \in Lapsed /\ i # j
    BY <1>1, <2>2
  <2>3. CASE i \notin Lapsed /\ i # j
    BY <1>1, <2>3 DEF JobInv, ReplyInv, ReplyFits
  <2> QED
    BY <2>1, <2>2, <2>3
<1>3. ASSUME NEW s \in Slot PROVE SlotFits(s)'
  <2>0. JobsOf(s) \subseteq JobsOf(s)'
    BY <1>1
  <2>1. CASE reply'[s] = status /\ j \in JobsOf(s)'
    BY <2>1 DEF SlotFits
  <2>2. CASE reply'[s] = DeniedReplies(Lapsed)[s]
    <3>1. CASE \E i \in Lapsed : <<request[i].delegation, request[i].key>> = s
      BY <2>2, <3>1 DEF DeniedReplies, SlotFits
    <3>2. CASE ~\E i \in Lapsed : <<request[i].delegation, request[i].key>> = s
      <4>1. reply'[s] = reply[s]
        BY <2>2, <3>2 DEF DeniedReplies
      <4>2. \A i \in JobsOf(s) : i \in Job /\ i # j /\ i \notin Lapsed
        BY <1>1, <3>2 DEF JobsOf
      <4> QED
        BY <2>0, <4>1, <4>2 DEF SlotFits, JobInv, ReplyInv
    <3> QED
      BY <3>1, <3>2
  <2> QED
    BY <1>1, <2>1, <2>2
<1> QED
  BY <1>2, <1>3 DEF ReplyInv

\* A request that needs approval starts the life of a job.
LEMMA RequestApprovalJob ==
  ASSUME TypeOK, JobInv, NEW p \in Proc, NEW d \in Delegation, NEW op \in Op,
         NEW k \in Key \cup {NoKey}, NEW j \in Job, RequestApproval(p, d, op, k, j)
  PROVE  JobInv'
<1>1. /\ \A i \in Job : Used(i)' <=> Used(i) \/ i = j
      /\ Forgotten' = Forgotten
      /\ KeyInv'
  BY AcceptJob DEF RequestApproval
<1>2. /\ \A i \in Job : approval'[i] = IF i = j THEN "pending"
                                       ELSE IF i \in Lapsed THEN "denied" ELSE approval[i]
      /\ \A i \in Job : i # j => request'[i] = request[i]
      /\ request'[j].op = op /\ op \in NeedsApproval
      /\ ~Used(j) /\ j \notin undone /\ \A q \in Proc : j \notin bindings[q]
      /\ UNCHANGED <<receipts, calls, starting, executing, undone>>
  BY RunningJobs DEF RequestApproval, Accept, DeniedApprovals, TypeOK
<1>3. \A i \in Lapsed : i \in Pending /\ Used(i) /\ request[i].op \in NeedsApproval
  BY DEF Lapsed, Pending, JobInv, ApprovalInv
<1>4. \A i \in Job : /\ Started(i)' <=> Started(i)
                     /\ Begun(i)' <=> Begun(i)
                     /\ Running(i)' <=> Running(i)
  <2>1. \A i \in Job : Started(i)' <=> Started(i)
    BY <1>1, <1>2, <1>3 DEF Started, Pending, JobInv, ApprovalInv
  <2> QED
    BY <1>2, <2>1 DEF Begun, Running
<1>5. ApprovalInv'
  BY <1>1, <1>2, <1>3 DEF JobInv, ApprovalInv
<1>6. RunInv'
  <2> SUFFICES ASSUME NEW i \in Job PROVE RunFits(i)'
    BY DEF RunInv
  <2> QED
    BY <1>2, <1>4 DEF JobInv, RunInv, RunFits
<1>7. BindingInv'
  <2> SUFFICES ASSUME NEW i \in Job PROVE BindingFits(i)'
    BY DEF BindingInv
  <2>1. BindingFits(i)
    BY DEF JobInv, BindingInv
  <2>2. \A q \in Proc : bindings'[q] \subseteq bindings[q] \cup (IF q = p THEN {j} ELSE {})
    BY BindingTypes, {j} \in SUBSET Job DEF RequestApproval
  <2>3. CASE i = j
    BY <1>1, <1>2, <2>2, <2>3 DEF BindingFits
  <2>4. CASE i # j
    BY <1>1, <1>2, <2>1, <2>2, <2>4 DEF BindingFits, TypeOK
  <2> QED
    BY <2>3, <2>4
<1>8. ReplyInv'
  BY <1>2, <1>4, AcceptReplies DEF RequestApproval
<1> QED
  BY <1>1, <1>5, <1>6, <1>7, <1>8 DEF JobInv

\* A process that puts a fresh job or one that nobody runs among its own runs each once.
LEMMA StartJob ==
  ASSUME TypeOK, JobInv, NEW p \in Proc, NEW j \in Job,
         calls[j] = 0, ~Running(j), j \notin receipts,
         starting' = [starting EXCEPT ![p] = @ \cup {j}], UNCHANGED <<receipts, calls, executing>>,
         \A i \in Job : Begun(i)' <=> Begun(i) \/ i = j
  PROVE  RunInv' /\ \A i \in Job : Running(i)' <=> Running(i) \/ i = j
<1>1. \A q \in Proc : /\ starting'[q] = IF q = p THEN starting[q] \cup {j} ELSE starting[q]
                      /\ j \notin starting[q] \cup executing[q]
  BY DEF TypeOK, Running
<1>2. \A i \in Job : Running(i)' <=> Running(i) \/ i = j
  BY <1>1 DEF Running
<1>3. ASSUME NEW i \in Job PROVE RunFits(i)'
  <2>1. RunFits(i)
    BY DEF JobInv, RunInv
  <2>2. CASE i = j
    BY <1>1, <2>1, <2>2 DEF RunFits
  <2>3. CASE i # j
    <3>1. \A q \in Proc : i \in starting'[q] <=> i \in starting[q]
      BY <1>1, <2>3
    <3> QED
      BY <2>1, <2>3, <3>1 DEF RunFits
  <2> QED
    BY <2>2, <2>3
<1> QED
  BY <1>2, <1>3 DEF RunInv

\* A request of an ungated tool starts its job at once.
LEMMA RequestDirectJob ==
  ASSUME TypeOK, JobInv, NEW p \in Proc, NEW d \in Delegation, NEW op \in Op,
         NEW k \in Key \cup {NoKey}, NEW j \in Job, RequestDirect(p, d, op, k, j)
  PROVE  JobInv'
<1>1. /\ \A i \in Job : Used(i)' <=> Used(i) \/ i = j
      /\ Forgotten' = Forgotten /\ j \notin Forgotten
      /\ KeyInv'
  BY AcceptJob DEF RequestDirect
<1>2. /\ \A i \in Job : approval'[i] = IF i \in Lapsed THEN "denied" ELSE approval[i]
      /\ \A i \in Job : i # j => request'[i] = request[i]
      /\ request'[j].op = op /\ op \notin NeedsApproval
      /\ ~Used(j) /\ j \notin undone /\ \A q \in Proc : j \notin bindings[q]
      /\ calls[j] = 0 /\ approval[j] = "none" /\ j \notin receipts /\ ~Running(j)
      /\ starting' = [starting EXCEPT ![p] = @ \cup {j}]
      /\ UNCHANGED <<receipts, calls, executing, undone>>
  BY RunningJobs DEF RequestDirect, Accept, DeniedApprovals, TypeOK
<1>3. \A i \in Lapsed : i \in Pending /\ Used(i) /\ request[i].op \in NeedsApproval
  BY DEF Lapsed, Pending, JobInv, ApprovalInv
<1>4. \A i \in Job : /\ Started(i)' <=> Started(i) \/ i = j
                     /\ Begun(i)' <=> Begun(i) \/ i = j
  <2>1. \A i \in Job : Started(i)' <=> Started(i) \/ i = j
    BY <1>1, <1>2, <1>3 DEF Started, Pending, JobInv, ApprovalInv
  <2> QED
    BY <1>2, <2>1 DEF Begun
<1>5. ApprovalInv'
  BY <1>1, <1>2, <1>3 DEF JobInv, ApprovalInv
<1>6. RunInv' /\ \A i \in Job : Running(i)' <=> Running(i) \/ i = j
  BY <1>2, <1>4, StartJob
<1>7. BindingInv'
  <2> SUFFICES ASSUME NEW i \in Job PROVE BindingFits(i)'
    BY DEF BindingInv
  <2>1. BindingFits(i)
    BY DEF JobInv, BindingInv
  <2>2. \A q \in Proc : bindings'[q] \subseteq bindings[q]
    BY BindingTypes, {} \in SUBSET Job DEF RequestDirect
  <2> QED
    BY <1>1, <1>2, <2>1, <2>2 DEF BindingFits
<1>8. ReplyInv'
  BY <1>2, <1>6, AcceptReplies DEF RequestDirect
<1> QED
  BY <1>1, <1>5, <1>6, <1>7, <1>8 DEF JobInv

\* Nothing but executions that nobody finished begins: the replies go on fitting.
LEMMA SameReplies ==
  ASSUME JobInv, NEW j \in Job, UNCHANGED <<reply, receipts, calls>>,
         calls[j] = 0, ~Used(j) => j \in Forgotten',
         \A i \in Job : i # j => /\ request'[i] = request[i] /\ (Used(i)' <=> Used(i))
                                 /\ approval'[i] = approval[i] /\ (Running(i)' => Running(i))
                                 /\ i \in Forgotten' <=> i \in Forgotten,
         Used(j) => /\ request'[j] = request[j] /\ Used(j)'
                    /\ approval[j] \in {"pending", "approved"}
                    /\ approval'[j] \in {"pending", "approved"} /\ j \notin Forgotten
  PROVE  ReplyInv'
<1>1. ASSUME NEW i \in Job PROVE ReplyFits(i)'
  <2>1. CASE i # j \/ Used(j)
    BY <2>1 DEF JobInv, ReplyInv, ReplyFits, StatusOf
  <2>2. CASE i = j /\ ~Used(j)
    BY <2>2 DEF ReplyFits
  <2> QED
    BY <2>1, <2>2
<1>2. ASSUME NEW s \in Slot PROVE SlotFits(s)'
  <2>1. SlotFits(s)
    BY DEF JobInv, ReplyInv
  <2>2. JobsOf(s) \subseteq JobsOf(s)'
    BY DEF JobsOf
  <2>3. \A i \in JobsOf(s) : i \in Job /\ (i = j => Used(j))
    BY DEF JobsOf
  <2>4. reply[s] = "approval_required" => \E i \in JobsOf(s)' : approval'[i] \in {"pending", "approved"}
    BY <2>1, <2>2, <2>3 DEF SlotFits
  <2>5. reply[s] = "execution_outcome_unknown" =>
          \E i \in JobsOf(s)' : calls[i] = 1 /\ i \notin receipts /\ ~Running(i)'
    BY <2>1, <2>2, <2>3 DEF SlotFits
  <2> QED
    BY <2>1, <2>2, <2>4, <2>5 DEF SlotFits
<1> QED
  BY <1>1, <1>2 DEF ReplyInv

\* An ungated request of which the COMMIT fails starts its job too, which is forgotten.
LEMMA RequestDirectUndoneJob ==
  ASSUME TypeOK, JobInv, NEW p \in Proc, NEW d \in Delegation, NEW op \in Op,
         NEW k \in Key \cup {NoKey}, NEW j \in Job, RequestDirectUndone(p, d, op, k, j)
  PROVE  /\ JobInv'
         /\ \A i \in Job : i # j => /\ request'[i] = request[i]
                                    /\ Used(i)' <=> Used(i)
                                    /\ i \in undone' <=> i \in undone
                                    /\ i \in Forgotten' <=> i \in Forgotten
         /\ \A i \in Job : Running(i)' <=> Running(i) \/ i = j
         /\ ~Used(j) /\ Used(j)' /\ j \in Forgotten'
         /\ request'[j].delegation = d /\ d \notin revoked \cup expired
<1> DEFINE new == [delegation |-> d, key |-> k, op |-> op]
<1>1. /\ ~Used(j) /\ j \notin undone /\ undone' = undone \cup {j}
      /\ request' = [request EXCEPT ![j] = new]
      /\ op \notin NeedsApproval
      /\ calls[j] = 0 /\ approval[j] = "none" /\ j \notin receipts /\ ~Running(j)
      /\ \A q \in Proc : j \notin bindings[q]
      /\ starting' = [starting EXCEPT ![p] = @ \cup {j}]
      /\ UNCHANGED <<approval, reply, receipts, calls, executing>>
      /\ d \notin revoked \cup expired
  BY RunningJobs DEF RequestDirectUndone, Accept, Acceptable, store
<1>2. new \in Request /\ new # NoRequest
  BY ConstantsAssumption DEF Request
<1>3. \A i \in Job : request'[i] = IF i = j THEN new ELSE request[i]
  BY <1>1 DEF TypeOK
<1>4. \A i \in Job : /\ Used(i)' <=> Used(i) \/ i = j
                     /\ i \in Forgotten' <=> i \in Forgotten \/ i = j
  BY <1>1, <1>2, <1>3 DEF Used, Forgotten
<1>5. \A i \in Job : /\ Started(i)' <=> Started(i)
                     /\ Begun(i)' <=> Begun(i) \/ i = j
  <2>1. \A i \in Job : Started(i)' <=> Started(i)
    BY <1>1, <1>3, <1>4 DEF Started
  <2> QED
    BY <1>1, <2>1 DEF Begun
<1>6. ApprovalInv'
  BY <1>1, <1>3, <1>4 DEF JobInv, ApprovalInv
<1>7. KeyInv'
  BY <1>3, <1>4 DEF JobInv, KeyInv
<1>8. RunInv' /\ \A i \in Job : Running(i)' <=> Running(i) \/ i = j
  BY <1>1, <1>5, StartJob
<1>9. BindingInv'
  <2> SUFFICES ASSUME NEW i \in Job PROVE BindingFits(i)'
    BY DEF BindingInv
  <2>1. BindingFits(i)
    BY DEF JobInv, BindingInv
  <2>2. \A q \in Proc : bindings'[q] \subseteq bindings[q]
    BY DroppedBindings DEF RequestDirectUndone
  <2> QED
    BY <1>1, <1>4, <2>1, <2>2 DEF BindingFits
<1>10. ReplyInv'
  BY <1>1, <1>3, <1>4, <1>8, SameReplies
<1>11. request'[j].delegation = d
  BY <1>3
<1> QED
  BY <1>1, <1>3, <1>4, <1>6, <1>7, <1>8, <1>9, <1>10, <1>11 DEF JobInv

\* An approved job starts.
LEMMA ApproveJob ==
  ASSUME TypeOK, JobInv, NEW p \in Proc, NEW j \in Job,
         NEW decision \in {"approved", "denied"}, Approve(p, j, decision)
  PROVE  /\ JobInv'
         /\ j \in Pending /\ Used(j) /\ j \notin undone
         /\ \A i \in Job : /\ approval'[i] = IF i = j THEN "approved" ELSE approval[i]
                           /\ Running(i)' <=> Running(i) \/ i = j
                           /\ Started(i)' <=> Started(i) \/ i = j
<1>1. /\ j \in Pending /\ j \in bindings[p]
      /\ \A i \in Job : approval'[i] = IF i = j THEN "approved" ELSE approval[i]
      /\ starting' = [starting EXCEPT ![p] = @ \cup {j}]
      /\ UNCHANGED <<reply, receipts, request, calls, executing, undone>>
  BY DEF Approve, Approvable, TypeOK, world
<1>2. /\ Used(j) /\ request[j].op \in NeedsApproval /\ j \notin undone
      /\ calls[j] = 0 /\ ~Running(j) /\ j \notin Forgotten
  BY <1>1, RunningJobs
<1>3. j \notin receipts
  BY <1>2 DEF JobInv, RunInv, RunFits
<1>4. Forgotten' = Forgotten
  BY <1>1 DEF Forgotten
<1>5. \A i \in Job : /\ Used(i)' <=> Used(i)
                     /\ Started(i)' <=> Started(i) \/ i = j
                     /\ Begun(i)' <=> Begun(i) \/ i = j
  <2>1. \A i \in Job : /\ Used(i)' <=> Used(i)
                       /\ Started(i)' <=> Started(i) \/ i = j
    BY <1>1, <1>2, <1>4 DEF Used, Started
  <2> QED
    BY <1>1, <2>1 DEF Begun
<1>6. ApprovalInv' /\ KeyInv'
  BY <1>1, <1>4, <1>5 DEF JobInv, ApprovalInv, KeyInv, Pending
<1>7. BindingInv'
  <2>1. \A q \in Proc : bindings'[q] \subseteq bindings[q]
    BY BindingTypes, {} \in SUBSET Job DEF Approve
  <2>2. \A i \in undone : approval'[i] = "approved" => approval[i] = "approved"
    BY <1>1, <1>2 DEF TypeOK
  <2> QED
    BY <1>1, <2>1, <2>2, FewerBindings DEF JobInv
<1>8. RunInv' /\ \A i \in Job : Running(i)' <=> Running(i) \/ i = j
  BY <1>1, <1>2, <1>3, <1>5, StartJob
<1>9. ReplyInv'
  BY <1>1, <1>2, <1>4, <1>5, <1>8, SameReplies DEF Pending
<1> QED
  BY <1>1, <1>2, <1>5, <1>6, <1>7, <1>8, <1>9 DEF JobInv

\* An approval of which the COMMIT fails starts its job too, and leaves it nobody's.
LEMMA ApproveUndoneJob ==
  ASSUME TypeOK, JobInv, NEW p \in Proc, NEW j \in Job,
         NEW decision \in {"approved", "denied"}, ApproveUndone(p, j, decision)
  PROVE  /\ JobInv'
         /\ j \in Pending \ undone /\ Used(j) /\ j \in undone'
         /\ request[j].delegation \notin revoked \cup expired
         /\ \A i \in Job : /\ Running(i)' <=> Running(i) \/ i = j
                           /\ Started(i)' <=> Started(i)
                           /\ i # j => (i \in undone' <=> i \in undone)
<1>1. /\ j \in Pending /\ j \in bindings[p] /\ undone' = undone \cup {j}
      /\ starting' = [starting EXCEPT ![p] = @ \cup {j}]
      /\ UNCHANGED <<approval, reply, receipts, request, calls, executing>>
      /\ request[j].delegation \notin revoked \cup expired
  BY DEF ApproveUndone, Approvable, store
<1>2. /\ Used(j) /\ request[j].op \in NeedsApproval /\ j \notin undone
      /\ calls[j] = 0 /\ ~Running(j) /\ j \notin Forgotten
  BY <1>1, RunningJobs
<1>3. j \notin receipts
  BY <1>2 DEF JobInv, RunInv, RunFits
<1>4. Forgotten' = Forgotten
  BY <1>1, <1>2 DEF Forgotten
<1>5. \A i \in Job : /\ Used(i)' <=> Used(i)
                     /\ Started(i)' <=> Started(i)
                     /\ Begun(i)' <=> Begun(i) \/ i = j
  <2>1. \A i \in Job : /\ Used(i)' <=> Used(i)
                       /\ Started(i)' <=> Started(i)
    BY <1>1, <1>4 DEF Used, Started
  <2> QED
    BY <1>1, <2>1 DEF Begun
<1>6. ApprovalInv' /\ KeyInv'
  BY <1>1, <1>4, <1>5 DEF JobInv, ApprovalInv, KeyInv
<1>7. BindingInv'
  <2> SUFFICES ASSUME NEW i \in Job PROVE BindingFits(i)'
    BY DEF BindingInv
  <2>1. BindingFits(i)
    BY DEF JobInv, BindingInv
  <2>2. /\ \A q \in Proc : bindings'[q] \subseteq bindings[q]
        /\ j \notin bindings'[p]
    BY DroppedBindings DEF ApproveUndone
  <2>3. CASE i = j
    <3>1. \A q \in Proc : j \notin bindings'[q]
      BY <1>1, <2>1, <2>2, <2>3 DEF BindingFits
    <3> QED
      BY <1>1, <1>2, <1>5, <2>3, <3>1 DEF BindingFits, Pending
  <2>4. CASE i # j
    BY <1>1, <1>5, <2>1, <2>2, <2>4 DEF BindingFits
  <2> QED
    BY <2>3, <2>4
<1>8. RunInv' /\ \A i \in Job : Running(i)' <=> Running(i) \/ i = j
  BY <1>1, <1>2, <1>3, <1>5, StartJob
<1>9. ReplyInv'
  BY <1>1, <1>2, <1>4, <1>5, <1>8, SameReplies DEF Pending
<1> QED
  BY <1>1, <1>2, <1>5, <1>6, <1>7, <1>8, <1>9 DEF JobInv

\* A started job makes its one call.
LEMMA CallToolJob ==
  ASSUME TypeOK, JobInv, NEW p \in Proc, NEW j \in Job, CallTool(p, j)
  PROVE  JobInv'
<1>0. \A i \in Job : RunFits(i)
  BY DEF JobInv, RunInv
<1>1. /\ j \in starting[p] /\ Begun(j) /\ calls[j] = 0 /\ j \notin receipts
      /\ \A q \in Proc : j \notin executing[q] /\ (q # p => j \notin starting[q])
  BY <1>0 DEF CallTool, RunFits
<1>2. /\ \A i \in Job : calls'[i] = IF i = j THEN 1 ELSE calls[i]
      /\ \A q \in Proc : /\ starting'[q] = IF q = p THEN starting[q] \ {j} ELSE starting[q]
                         /\ executing'[q] = IF q = p THEN executing[q] \cup {j} ELSE executing[q]
      /\ UNCHANGED <<approval, reply, receipts, request, bindings, undone>>
  <2>1. calls' = [calls EXCEPT ![j] = 1]
    BY <1>1 DEF CallTool
  <2> QED
    BY <2>1 DEF CallTool, TypeOK, store
<1>3. Forgotten' = Forgotten
  BY <1>2 DEF Forgotten
<1>4. \A i \in Job : /\ Used(i)' <=> Used(i)
                     /\ Started(i)' <=> Started(i)
                     /\ Begun(i)' <=> Begun(i)
                     /\ StatusOf(i)' = StatusOf(i)
                     /\ Running(i)' => Running(i)
  <2>1. \A i \in Job : /\ Used(i)' <=> Used(i)
                       /\ Started(i)' <=> Started(i)
    BY <1>2, <1>3 DEF Used, Started
  <2> QED
    BY <1>1, <1>2, <2>1 DEF Begun, StatusOf, Running
<1>5. Running(j)
  BY <1>1 DEF Running
<1>6. ApprovalInv' /\ KeyInv' /\ BindingInv'
  BY <1>2, <1>3, <1>4 DEF JobInv, ApprovalInv, KeyInv, BindingInv, BindingFits
<1>7. RunInv'
  <2> SUFFICES ASSUME NEW i \in Job PROVE RunFits(i)'
    BY DEF RunInv
  <2>1. CASE i = j
    BY <1>1, <1>2, <1>4, <2>1 DEF RunFits
  <2>2. CASE i # j
    <3>1. \A q \in Proc : /\ i \in starting'[q] <=> i \in starting[q]
                          /\ i \in executing'[q] <=> i \in executing[q]
      BY <1>2, <2>2
    <3>2. RunFits(i)
      BY <1>0
    <3> QED
      BY <1>2, <1>4, <2>2, <3>1, <3>2 DEF RunFits
  <2> QED
    BY <2>1, <2>2
<1>8. ReplyInv'
  <2>1. ASSUME NEW i \in Job PROVE ReplyFits(i)'
    BY <1>2, <1>3, <1>4 DEF JobInv, ReplyInv, ReplyFits
  <2>2. ASSUME NEW s \in Slot PROVE SlotFits(s)'
    <3>1. JobsOf(s)' = JobsOf(s) /\ JobsOf(s) \subseteq Job
      BY <1>2, <1>4 DEF JobsOf
    <3>2. \A i \in JobsOf(s) : ~Running(i) => calls'[i] = calls[i] /\ ~Running(i)'
      BY <1>2, <1>4, <1>5, <3>1
    <3> QED
      BY <1>2, <3>1, <3>2 DEF JobInv, ReplyInv, SlotFits
  <2> QED
    BY <2>1, <2>2 DEF ReplyInv
<1> QED
  BY <1>6, <1>7, <1>8 DEF JobInv

\* What the three ways of finishing an execution have in common: the reply of
\* the job alone may change, and only as `status' allows.
LEMMA FinishJob ==
  ASSUME TypeOK, JobInv, NEW p \in Proc, NEW j \in Job, Finish(p, j),
         \A q \in Proc : bindings'[q] \subseteq bindings[q],
         NEW status \in {"executed", "execution_outcome_unknown", "unrecorded"},
         receipts' = IF status = "executed" THEN receipts \cup {j} ELSE receipts,
         status = "unrecorded" => UNCHANGED reply,
         status # "unrecorded" => Answer(j, status)
  PROVE  JobInv'
<1>0. \A i \in Job : RunFits(i)
  BY DEF JobInv, RunInv
<1>1. /\ j \in executing[p] /\ calls[j] = 1 /\ Begun(j) /\ Running(j) /\ j \notin receipts
      /\ \A q \in Proc : executing'[q] = IF q = p THEN executing[q] \ {j} ELSE executing[q]
      /\ UNCHANGED <<approval, request, calls, starting, undone>>
  BY <1>0 DEF Finish, TypeOK, world, RunFits, Running
<1>2. \A q \in Proc : j \notin executing'[q] /\ j \notin starting'[q]
  <2>1. RunFits(j)
    BY <1>0
  <2>2. \A q \in Proc : q # p => j \notin executing[q]
    BY <1>1, <2>1 DEF RunFits
  <2>3. \A q \in Proc : j \notin starting[q]
    BY <1>1, <2>1 DEF RunFits
  <2>4. j \notin executing'[p]
    BY <1>1
  <2> QED
    BY <1>1, <2>2, <2>3, <2>4
<1>3. Used(j) /\ Forgotten' = Forgotten
  BY <1>1, RunningJobs DEF Forgotten, Begun
<1>4. \A i \in Job : /\ Used(i)' <=> Used(i)
                     /\ Started(i)' <=> Started(i)
                     /\ Begun(i)' <=> Begun(i)
                     /\ Running(i)' <=> Running(i) /\ i # j
  <2>1. \A i \in Job : /\ Used(i)' <=> Used(i)
                       /\ Started(i)' <=> Started(i)
    BY <1>1, <1>3 DEF Used, Started
  <2> QED
    BY <1>1, <1>2, <2>1 DEF Begun, Running
<1>5. \A s \in Slot : \/ reply'[s] = reply[s]
                      \/ reply'[s] = status /\ status # "unrecorded" /\ j \in JobsOf(s)
  <2>1. CASE status = "unrecorded" \/ request[j].key = NoKey
    BY <2>1 DEF Answer
  <2>2. CASE status # "unrecorded" /\ request[j].key # NoKey
    BY <1>3, <2>2 DEF Answer, TypeOK, JobsOf
  <2> QED
    BY <2>1, <2>2
<1>6. ApprovalInv' /\ KeyInv' /\ BindingInv'
  BY <1>1, <1>3, <1>4, FewerBindings DEF JobInv, ApprovalInv, KeyInv
<1>7. RunInv'
  <2> SUFFICES ASSUME NEW i \in Job PROVE RunFits(i)'
    BY DEF RunInv
  <2>1. CASE i = j
    BY <1>1, <1>2, <1>4, <2>1 DEF RunFits
  <2>2. CASE i # j
    BY <1>1, <1>4, <1>0, <2>2 DEF RunFits
  <2> QED
    BY <2>1, <2>2
<1>8. ASSUME NEW i \in Job PROVE ReplyFits(i)'
  <2> SUFFICES ASSUME Used(i), request[i].key # NoKey, i \notin Forgotten
               PROVE  StatusOf(i)' # "none" /\ (StatusOf(i)' = "denied" => approval'[i] = "denied")
    BY <1>1, <1>3, <1>4 DEF ReplyFits
  <2>1. <<request[i].delegation, request[i].key>> \in Slot
    BY UsedJob DEF Slot
  <2>2. \/ StatusOf(i)' = StatusOf(i)
        \/ StatusOf(i)' \in {"executed", "execution_outcome_unknown"}
    BY <1>1, <1>5, <2>1 DEF StatusOf
  <2> QED
    BY <1>1, <2>2 DEF JobInv, ReplyInv, ReplyFits
<1>9. ASSUME NEW s \in Slot PROVE SlotFits(s)'
  <2>1. JobsOf(s)' = JobsOf(s) /\ JobsOf(s) \subseteq Job
    BY <1>1, <1>4 DEF JobsOf
  <2>2. CASE reply'[s] = status /\ status # "unrecorded" /\ j \in JobsOf(s)
    BY <1>1, <1>4, <2>1, <2>2 DEF SlotFits
  <2>3. CASE reply'[s] = reply[s]
    <3>1. \A i \in JobsOf(s) : /\ ~Running(i) => i # j /\ ~Running(i)'
                               /\ i \in receipts => i \in receipts'
                               /\ i # j /\ i \notin receipts => i \notin receipts'
      BY <1>1, <1>4, <2>1
    <3> QED
      BY <1>1, <2>1, <2>3, <3>1 DEF JobInv, ReplyInv, SlotFits
  <2> QED
    BY <1>5, <2>2, <2>3
<1> QED
  BY <1>6, <1>7, <1>8, <1>9 DEF JobInv, ReplyInv

\* Executions and bindings that are lost leave the rest: a crash, a restart, a failed sweep.
LEMMA LoseJob ==
  ASSUME TypeOK, JobInv, UNCHANGED <<approval, reply, receipts, request, calls, undone>>,
         \A q \in Proc : /\ starting'[q] \subseteq starting[q]
                         /\ executing'[q] \subseteq executing[q]
                         /\ bindings'[q] \subseteq bindings[q]
  PROVE  JobInv'
<1>1. \A i \in Job : /\ Used(i)' <=> Used(i)
                     /\ Started(i)' <=> Started(i)
                     /\ Begun(i)' <=> Begun(i)
                     /\ StatusOf(i)' = StatusOf(i)
                     /\ Running(i)' => Running(i)
  BY DEF Used, Started, Begun, StatusOf, Running, Forgotten
<1>2. Forgotten' = Forgotten
  BY DEF Forgotten
<1>3. ApprovalInv' /\ KeyInv' /\ BindingInv'
  BY <1>1, <1>2, FewerBindings DEF JobInv, ApprovalInv, KeyInv
<1>4. RunInv'
  <2> SUFFICES ASSUME NEW i \in Job PROVE RunFits(i)'
    BY DEF RunInv
  <2> QED
    BY <1>1 DEF JobInv, RunInv, RunFits
<1>5. ReplyInv'
  <2>1. ASSUME NEW i \in Job PROVE ReplyFits(i)'
    BY <1>1, <1>2 DEF JobInv, ReplyInv, ReplyFits
  <2>2. ASSUME NEW s \in Slot PROVE SlotFits(s)'
    <3>1. JobsOf(s)' = JobsOf(s) /\ JobsOf(s) \subseteq Job
      BY <1>1 DEF JobsOf
    <3> QED
      BY <1>1, <3>1 DEF JobInv, ReplyInv, SlotFits
  <2> QED
    BY <2>1, <2>2 DEF ReplyInv
<1> QED
  BY <1>3, <1>4, <1>5 DEF JobInv

\* Every step preserves the invariant of jobs.
LEMMA NextJob == TypeOK /\ JobInv /\ [Next]_vars => JobInv'
<1> SUFFICES ASSUME TypeOK, JobInv, [Next]_vars PROVE JobInv'
  OBVIOUS
<1>1. ASSUME NEW p \in Proc, NEW d \in Delegation, RevokePassport(p, d)
      PROVE  JobInv'
  BY <1>1, DenyJob, PendingOf(d) \subseteq Pending DEF RevokePassport, world, PendingOf
<1>2. ASSUME NEW p \in Proc, Sweep(p)
      PROVE  JobInv'
  BY <1>2, DenyJob, Lapsed \subseteq Pending DEF Sweep, world, Lapsed
<1>3. ASSUME NEW p \in Proc, NEW j \in Job, NEW decision \in {"approved", "denied"},
             Refuse(p, j, decision)
      PROVE  JobInv'
  BY <1>3, DenyJob, {j} \in SUBSET Pending DEF Refuse, world
<1>4. ASSUME NEW p \in Proc, NEW d \in Delegation, NEW op \in Op,
             NEW k \in Key \cup {NoKey}, NEW j \in Job,
             \/ RequestApproval(p, d, op, k, j)
             \/ RequestDirect(p, d, op, k, j)
             \/ RequestDirectUndone(p, d, op, k, j)
      PROVE  JobInv'
  BY <1>4, RequestApprovalJob, RequestDirectJob, RequestDirectUndoneJob
<1>5. ASSUME NEW p \in Proc, NEW j \in Job, NEW decision \in {"approved", "denied"},
             Approve(p, j, decision) \/ ApproveUndone(p, j, decision)
      PROVE  JobInv'
  BY <1>5, ApproveJob, ApproveUndoneJob
<1>6. ASSUME NEW p \in Proc, NEW j \in Job, CallTool(p, j)
      PROVE  JobInv'
  BY <1>6, CallToolJob
<1> DEFINE Statuses == {"executed", "execution_outcome_unknown", "unrecorded"}
<1>7. ASSUME NEW p \in Proc, NEW j \in Job, FinishExecuted(p, j)
      PROVE  JobInv'
  <2>1. \A q \in Proc : bindings'[q] \subseteq bindings[q]
    BY <1>7, BindingTypes, {} \in SUBSET Job DEF FinishExecuted
  <2> QED
    BY <1>7, <2>1, FinishJob, "executed" \in Statuses DEF FinishExecuted
<1>8. ASSUME NEW p \in Proc, NEW j \in Job, FinishUnknown(p, j)
      PROVE  JobInv'
  <2>1. \A q \in Proc : bindings'[q] \subseteq bindings[q]
    BY <1>8, BindingTypes, {} \in SUBSET Job DEF FinishUnknown
  <2> QED
    BY <1>8, <2>1, FinishJob, "execution_outcome_unknown" \in Statuses DEF FinishUnknown
<1>9. ASSUME NEW p \in Proc, NEW j \in Job, FinishUnrecorded(p, j)
      PROVE  JobInv'
  <2>1. \A q \in Proc : bindings'[q] \subseteq bindings[q]
    BY <1>9 DEF FinishUnrecorded
  <2> QED
    BY <1>9, <2>1, FinishJob, "unrecorded" \in Statuses DEF FinishUnrecorded
<1>10. ASSUME NEW p \in Proc, Crash(p) \/ Restart(p)
       PROVE  JobInv'
  BY <1>10, LoseJob DEF Crash, Restart, TypeOK, store, world
<1>11. ASSUME NEW p \in Proc, RolledBack(p)
       PROVE  JobInv'
  BY <1>11, LoseJob, DroppedBindings DEF RolledBack, store, world
<1>12. ASSUME NEW p \in Proc, NEW d \in Delegation, IssuePassport(p, d)
       PROVE  JobInv'
  BY <1>12, LoseJob, BindingTypes, {} \in SUBSET Job DEF IssuePassport, store
<1>13. ASSUME NEW d \in Delegation, Expire(d)
       PROVE  JobInv'
  BY <1>13, LoseJob DEF Expire, store, memory
<1>14. CASE UNCHANGED vars
  BY <1>14, LoseJob DEF vars, store, memory, world
<1> QED
  BY <1>1, <1>2, <1>3, <1>4, <1>5, <1>6, <1>7, <1>8, <1>9, <1>10, <1>11, <1>12, <1>13,
     <1>14 DEF Next

\* What holds of jobs in every reachable state, with the types it needs.
LEMMA JobInvariant == Spec => [](TypeOK /\ JobInv)
<1>1. Init => TypeOK /\ JobInv
  BY InitType, InitJob
<1>2. TypeOK /\ JobInv /\ [Next]_vars => (TypeOK /\ JobInv)'
  BY NextType, NextJob DEF JobInv
<1> QED
  BY <1>1, <1>2, PTL DEF Spec

-----------------------------------------------------------------------------
(* Theorems about executions *)

\* The store, every process's memory and the history keep their types (TypeOK)
\* whatever the processes do.
THEOREM TypeCorrect == Spec => []TypeOK
BY JobInvariant, PTL

\* At most one tool call for a request, and at most one for an idempotency key,
\* across processes, retries, crashes and restarts, but for direct executions whose COMMIT
\* failed after they were begun (OncePerKey).
THEOREM AtMostOnce == Spec => []OncePerKey
<1>1. TypeOK /\ JobInv => OncePerKey
  <2> SUFFICES ASSUME TypeOK, JobInv PROVE OncePerKey
    OBVIOUS
  <2>1. \A j \in Job : calls[j] \in {0, 1}
    BY DEF JobInv, RunInv, RunFits
  <2>2. \A j \in Job : calls[j] <= 1
    BY <2>1
  <2>3. ASSUME NEW s \in Slot, NEW i \in JobsOf(s) \ Forgotten, NEW j \in JobsOf(s) \ Forgotten
        PROVE  i = j
    <3>1. /\ i \in Job /\ Used(i) /\ request[i].key # NoKey
          /\ j \in Job /\ Used(j) /\ request[j].key # NoKey
          /\ <<request[i].delegation, request[i].key>> = <<request[j].delegation, request[j].key>>
      BY SlotJobs
    <3> QED
      BY <3>1 DEF JobInv, KeyInv
  <2> QED
    BY <2>2, <2>3 DEF OncePerKey
<1> QED
  BY <1>1, JobInvariant, PTL

\* The remembered reply never misreports what happened (ReplyIsTruthful): no job that kept
\* its COMMIT was called for a denied key nor ever will be, and an executed one was called.
THEOREM RepliesTruthful == Spec => []ReplyIsTruthful
<1>1. TypeOK /\ JobInv => ReplyIsTruthful
  <2> SUFFICES ASSUME TypeOK, JobInv, NEW s \in Slot
               PROVE  LET kept == JobsOf(s) \ undone IN
                      /\ reply[s] = "none" => JobsOf(s) \subseteq Forgotten
                      /\ reply[s] = "denied" => \A j \in kept : calls[j] = 0 /\ ~Running(j)
                      /\ reply[s] = "approval_required" =>
                           \E j \in JobsOf(s) : approval[j] \in {"pending", "approved"}
                      /\ reply[s] = "executed" => \E j \in JobsOf(s) : calls[j] > 0 /\ j \in receipts
                      /\ reply[s] = "execution_outcome_unknown" =>
                           \E j \in JobsOf(s) : calls[j] > 0 /\ j \notin receipts
    BY DEF ReplyIsTruthful
  <2>1. SlotFits(s) /\ \A j \in Job : ReplyFits(j) /\ RunFits(j)
    BY DEF JobInv, ReplyInv, RunInv
  <2>2. reply[s] = "none" => JobsOf(s) \subseteq Forgotten
    BY KeyTaken, SlotJobs
  <2>3. ASSUME reply[s] = "denied", NEW j \in JobsOf(s) \ undone
        PROVE  calls[j] = 0 /\ ~Running(j)
    <3>1. /\ j \in Job /\ Used(j) /\ request[j].key # NoKey /\ StatusOf(j) = "denied"
          /\ j \notin Forgotten
      BY <2>3, SlotJobs DEF Forgotten
    <3>2. approval[j] = "denied"
      BY <2>1, <3>1 DEF ReplyFits
    <3>3. ~Begun(j)
      BY <2>3, <3>1, <3>2 DEF Begun, Started, JobInv, ApprovalInv
    <3> QED
      BY <2>1, <3>1, <3>3, RunningJobs DEF RunFits
  <2>4. \A j \in JobsOf(s) : j \in Job /\ (j \in receipts => calls[j] = 1)
    BY <2>1, SlotJobs DEF RunFits
  <2>5. reply[s] = "executed" => \E j \in JobsOf(s) : calls[j] = 1 /\ j \in receipts
    BY <2>1, <2>4 DEF SlotFits
  <2>6. reply[s] = "execution_outcome_unknown" =>
          \E j \in JobsOf(s) : calls[j] = 1 /\ j \notin receipts
    BY <2>1 DEF SlotFits
  <2>7. \A j \in Job : calls[j] = 1 => calls[j] > 0
    OBVIOUS
  <2> QED
    BY <2>1, <2>2, <2>3, <2>4, <2>5, <2>6, <2>7 DEF SlotFits
<1> QED
  BY <1>1, JobInvariant, PTL

-----------------------------------------------------------------------------
(* Budgets *)

\* A reservation id tells apart the requests of one delegation as their keys do.
LEMMA HoldsDiffer ==
  ASSUME NEW a \in Request, NEW b \in Request, NEW i \in Job, NEW j \in Job,
         Hold(a.key, i) = Hold(b.key, j), i # j
  PROVE  a.key # NoKey /\ a.key = b.key
BY ConstantsAssumption DEF Request, Hold

\* Two pending approvals of one delegation hold different reservations.
LEMMA HoldUnique ==
  ASSUME TypeOK, JobInv, NEW i \in Pending, NEW j \in Pending,
         request[i].delegation = request[j].delegation, HoldOf(i) = HoldOf(j)
  PROVE  i = j
<1>1. /\ i \in Job \ Forgotten /\ j \in Job \ Forgotten /\ Used(i) /\ Used(j)
      /\ request[i] \in Request /\ request[j] \in Request
  BY UsedJob, RunningJobs DEF Pending
<1> QED
  BY <1>1, HoldsDiffer DEF HoldOf, JobInv, KeyInv

\* Amounts are numbers, nothing among them.
LEMMA AmountsNat == Amounts \subseteq Nat /\ 0 \in Amounts
BY ConstantsAssumption DEF Amounts

\* What the sum of reservations satisfies, delegation by delegation.
LEMMA TotalFacts ==
  ASSUME NEW f \in [Reservation -> Amounts]
  PROVE  /\ Total[f] \in Nat
         /\ \A g \in [Reservation -> Amounts] :
              (\A r \in Reservation : g[r] = 0 \/ g[r] = f[r]) => Total[g] <= Total[f]
         /\ \A r \in Reservation, x \in Amounts :
              Total[[f EXCEPT ![r] = x]] + f[r] = Total[f] + x
<1>1. Total[f] \in Nat
  BY TotalAssumption
<1>2. ASSUME NEW g \in [Reservation -> Amounts],
             \A r \in Reservation : g[r] = 0 \/ g[r] = f[r]
      PROVE  Total[g] <= Total[f]
  <2>1. \A r \in Reservation : f[r] \in Nat
    BY AmountsNat
  <2>2. \A r \in Reservation : g[r] <= f[r]
    BY <1>2, <2>1
  <2> QED
    BY <2>2, TotalAssumption
<1> QED
  BY <1>1, <1>2, TotalAssumption

BudgetInv == ReservationsMatchPending /\ BudgetWithinLimit

\* Releasing the holds of pending approvals: theirs go, the others stay.
LEMMA ReleasedFacts ==
  ASSUME TypeOK, JobInv, BudgetInv, NEW S \in SUBSET Pending
  PROVE  /\ ReleasedBudgets(S) \in [Delegation -> [Reservation -> Amounts]]
         /\ \A d \in Delegation : Total[ReleasedBudgets(S)[d]] <= Total[reserved[d]]
         /\ \A i \in Pending \ S :
              ReleasedBudgets(S)[request[i].delegation][HoldOf(i)]
                = Charge(request[i].delegation, request[i].op)
         /\ \A d \in Delegation, r \in Reservation : ReleasedBudgets(S)[d][r] # 0 =>
              \E i \in Pending \ S : request[i].delegation = d /\ HoldOf(i) = r
<1>0. S \in SUBSET Job /\ \A i \in Pending : i \in Job /\ Used(i)
  BY RunningJobs DEF Pending
<1>1. ReleasedBudgets(S) \in [Delegation -> [Reservation -> Amounts]]
  BY <1>0, DenyTypes
<1>2. ASSUME NEW d \in Delegation
      PROVE  Total[ReleasedBudgets(S)[d]] <= Total[reserved[d]]
  <2>1. \A r \in Reservation : \/ ReleasedBudgets(S)[d][r] = 0
                               \/ ReleasedBudgets(S)[d][r] = reserved[d][r]
    BY DEF ReleasedBudgets
  <2>2. /\ reserved[d] \in [Reservation -> Amounts]
        /\ ReleasedBudgets(S)[d] \in [Reservation -> Amounts]
    BY <1>1 DEF TypeOK
  <2> QED
    BY <2>1, <2>2, TotalFacts
<1>3. ASSUME NEW i \in Pending \ S
      PROVE  ReleasedBudgets(S)[request[i].delegation][HoldOf(i)]
               = Charge(request[i].delegation, request[i].op)
  <2>1. request[i].delegation \in Delegation /\ HoldOf(i) \in Reservation
    BY <1>0, UsedJob
  <2>2. ~ \E j \in S : /\ request[j].delegation = request[i].delegation
                       /\ HoldOf(j) = HoldOf(i)
    BY <1>0, HoldUnique
  <2>3. ReleasedBudgets(S)[request[i].delegation][HoldOf(i)]
          = reserved[request[i].delegation][HoldOf(i)]
    BY <2>1, <2>2 DEF ReleasedBudgets
  <2> QED
    BY <2>3 DEF BudgetInv, ReservationsMatchPending
<1>4. ASSUME NEW d \in Delegation, NEW r \in Reservation, ReleasedBudgets(S)[d][r] # 0
      PROVE  \E i \in Pending \ S : request[i].delegation = d /\ HoldOf(i) = r
  <2>1. /\ reserved[d][r] # 0
        /\ ~ \E j \in S : request[j].delegation = d /\ HoldOf(j) = r
    BY <1>4 DEF ReleasedBudgets
  <2> QED
    BY <2>1 DEF BudgetInv, ReservationsMatchPending
<1> QED
  BY <1>1, <1>2, <1>3, <1>4

\* Refused approvals give back what they hold.
LEMMA DenyBudget ==
  ASSUME TypeOK, JobInv, BudgetInv, NEW S \in SUBSET Pending, Deny(S),
         UNCHANGED <<committed, request>>
  PROVE  BudgetInv'
<1>1. /\ reserved' = ReleasedBudgets(S)
      /\ Pending' = Pending \ S
      /\ \A i \in Job : HoldOf(i)' = HoldOf(i)
  BY DEF Deny, DeniedApprovals, Pending, HoldOf, TypeOK
<1>2. ReservationsMatchPending'
  BY <1>1, ReleasedFacts DEF ReservationsMatchPending, Pending
<1>3. BudgetWithinLimit'
  <2> SUFFICES ASSUME NEW d \in Limited
               PROVE  committed[d] + Total[reserved'[d]] <= Limit[d]
    BY DEF BudgetWithinLimit
  <2>1. d \in Delegation /\ Limit[d] \in Nat /\ committed[d] \in Nat
    BY ConstantsAssumption DEF TypeOK
  <2>2. Total[reserved'[d]] \in Nat /\ Total[reserved[d]] \in Nat
    BY <1>1, <2>1, ReleasedFacts, TotalFacts DEF TypeOK
  <2>3. Total[reserved'[d]] <= Total[reserved[d]]
    BY <1>1, <2>1, ReleasedFacts
  <2>4. committed[d] + Total[reserved[d]] <= Limit[d]
    BY DEF BudgetInv, BudgetWithinLimit
  <2> QED
    BY <2>1, <2>2, <2>3, <2>4
<1> QED
  BY <1>2, <1>3 DEF BudgetInv

\* What an accepted request finds after its sweep, for both ways it goes on.
LEMMA AcceptBudget ==
  ASSUME TypeOK, JobInv, BudgetInv, NEW p \in Proc,
         NEW d \in Delegation, NEW op \in Op, NEW k \in Key \cup {NoKey}, NEW j \in Job,
         Accept(p, d, op, k, j)
  PROVE  /\ \A i \in Job : i # j => request'[i] = request[i] /\ HoldOf(i)' = HoldOf(i)
         /\ request'[j].delegation = d /\ request'[j].op = op /\ HoldOf(j)' = Hold(k, j)
         /\ ~Used(j) /\ j \notin Pending
         /\ Lapsed \in SUBSET Pending
         /\ Hold(k, j) \in Reservation
         /\ Charge(d, op) \in Amounts
         /\ d \in Limited => /\ Charge(d, op) = Amount[op]
                             /\ committed[d] + Total[ReleasedBudgets(Lapsed)[d]] + Amount[op]
                                  <= Limit[d]
<1> DEFINE new == [delegation |-> d, key |-> k, op |-> op]
<1>1. ~Used(j) /\ \A i \in Job : request'[i] = IF i = j THEN new ELSE request[i]
  BY DEF Accept, TypeOK
<1>2. \A i \in Job : HoldOf(i)' = IF i = j THEN Hold(k, j) ELSE HoldOf(i)
  BY <1>1 DEF HoldOf
<1>3. Lapsed \in SUBSET Pending /\ j \notin Pending
  BY <1>1, RunningJobs DEF Lapsed
<1>4. Hold(k, j) \in Reservation /\ Charge(d, op) \in Amounts
  BY DEF Hold, Reservation, Charge, Amounts
<1>5. d \in Limited => /\ Charge(d, op) = Amount[op]
                       /\ committed[d] + Total[ReleasedBudgets(Lapsed)[d]] + Amount[op] <= Limit[d]
  BY DEF Charge, Accept, Acceptable, FitsBudget
<1> QED
  BY <1>1, <1>2, <1>3, <1>4, <1>5

\* A request reserves its charge if the limit has room.
LEMMA RequestApprovalBudget ==
  ASSUME TypeOK, JobInv, BudgetInv, NEW p \in Proc, NEW d \in Delegation, NEW op \in Op,
         NEW k \in Key \cup {NoKey}, NEW j \in Job, RequestApproval(p, d, op, k, j)
  PROVE  BudgetInv'
<1> DEFINE R == ReleasedBudgets(Lapsed)
           h == Hold(k, j)
           c == Charge(d, op)
<1>1. Accept(p, d, op, k, j) /\ UNCHANGED committed
  BY DEF RequestApproval
<1>2. /\ \A i \in Job : i # j => request'[i] = request[i] /\ HoldOf(i)' = HoldOf(i)
      /\ request'[j].delegation = d /\ request'[j].op = op /\ HoldOf(j)' = h
      /\ ~Used(j) /\ j \notin Pending
      /\ Lapsed \in SUBSET Pending
      /\ h \in Reservation /\ c \in Amounts
      /\ d \in Limited => c = Amount[op] /\ committed[d] + Total[R[d]] + Amount[op] <= Limit[d]
  BY <1>1, AcceptBudget
<1>3. /\ R \in [Delegation -> [Reservation -> Amounts]]
      /\ \A e \in Delegation : Total[R[e]] <= Total[reserved[e]]
      /\ \A i \in Pending \ Lapsed :
           R[request[i].delegation][HoldOf(i)] = Charge(request[i].delegation, request[i].op)
      /\ \A e \in Delegation, r \in Reservation : R[e][r] # 0 =>
           \E i \in Pending \ Lapsed : request[i].delegation = e /\ HoldOf(i) = r
  BY <1>2, ReleasedFacts
<1>4. Pending' = (Pending \ Lapsed) \cup {j}
  BY <1>2 DEF RequestApproval, DeniedApprovals, Pending, TypeOK
<1>5. reserved' = [R EXCEPT ![d] = [R[d] EXCEPT ![h] = c]]
  BY DEF RequestApproval
<1>6. \A e \in Delegation, r \in Reservation :
        reserved'[e][r] = IF e = d /\ r = h THEN c ELSE R[e][r]
  BY <1>2, <1>3, <1>5
<1>7. ASSUME NEW i \in Pending \ Lapsed
      PROVE  /\ request'[i] = request[i] /\ HoldOf(i)' = HoldOf(i)
             /\ request[i].delegation \in Delegation /\ HoldOf(i) \in Reservation
             /\ ~(request[i].delegation = d /\ HoldOf(i) = h)
  <2>1. i \in Job /\ i # j /\ Used(i)
    BY <1>2, RunningJobs DEF Pending
  <2>2. request[i] \in Request /\ request[i].delegation \in Delegation /\ HoldOf(i) \in Reservation
    BY <2>1, UsedJob
  <2>3. CASE request[i].delegation = d /\ HoldOf(i) = h
    <3>1. [delegation |-> d, key |-> k, op |-> op] \in Request
      BY DEF Request
    <3>2. request[i].key # NoKey /\ request[i].key = k
      BY <2>1, <2>2, <2>3, <3>1, HoldsDiffer DEF HoldOf
    <3>3. request'[i].key = request'[j].key /\ request'[i].delegation = request'[j].delegation
      BY <1>1, <1>2, <2>1, <2>3, <3>2 DEF Accept, TypeOK
    <3>4. KeyInv' /\ Used(i)' /\ Used(j)' /\ i \notin Forgotten' /\ j \notin Forgotten'
      BY <2>1, AcceptJob, RunningJobs DEF RequestApproval
    <3> QED
      BY <1>2, <2>1, <3>2, <3>3, <3>4 DEF KeyInv
  <2> QED
    BY <1>2, <2>1, <2>2, <2>3
<1>8. ReservationsMatchPending'
  <2>1. \A i \in Pending' : LET e == request'[i].delegation IN
          reserved'[e][HoldOf(i)'] = Charge(e, request'[i].op)
    <3> SUFFICES ASSUME NEW i \in Pending'
                 PROVE  reserved'[request'[i].delegation][HoldOf(i)']
                          = Charge(request'[i].delegation, request'[i].op)
      OBVIOUS
    <3>1. CASE i = j
      BY <1>2, <1>6, <3>1
    <3>2. CASE i # j
      BY <1>3, <1>4, <1>6, <1>7, <3>2
    <3> QED
      BY <3>1, <3>2
  <2>2. \A e \in Delegation, r \in Reservation : reserved'[e][r] # 0 =>
          \E i \in Pending' : request'[i].delegation = e /\ HoldOf(i)' = r
    <3> SUFFICES ASSUME NEW e \in Delegation, NEW r \in Reservation, reserved'[e][r] # 0
                 PROVE  \E i \in Pending' : request'[i].delegation = e /\ HoldOf(i)' = r
      OBVIOUS
    <3>1. CASE e = d /\ r = h
      BY <1>2, <1>4, <3>1
    <3>2. CASE ~(e = d /\ r = h)
      BY <1>3, <1>4, <1>6, <1>7, <3>2
    <3> QED
      BY <3>1, <3>2
  <2> QED
    BY <2>1, <2>2 DEF ReservationsMatchPending
<1>9. BudgetWithinLimit'
  <2> SUFFICES ASSUME NEW e \in Limited
               PROVE  committed[e] + Total[reserved'[e]] <= Limit[e]
    BY <1>1 DEF BudgetWithinLimit
  <2>1. /\ e \in Delegation /\ Limit[e] \in Nat /\ committed[e] \in Nat
        /\ reserved[e] \in [Reservation -> Amounts] /\ R[e] \in [Reservation -> Amounts]
    BY <1>3, ConstantsAssumption DEF TypeOK
  <2>2. Total[reserved[e]] \in Nat /\ Total[R[e]] \in Nat /\ Total[R[e]] <= Total[reserved[e]]
    BY <1>3, <2>1, TotalFacts
  <2>3. CASE e = d
    <3>1. reserved'[e] = [R[e] EXCEPT ![h] = c]
      BY <1>3, <1>5, <2>1, <2>3
    <3>2. Total[reserved'[e]] + R[e][h] = Total[R[e]] + c
      BY <1>2, <2>1, <3>1, TotalFacts
    <3>3. [R[e] EXCEPT ![h] = c] \in [Reservation -> Amounts]
      BY <1>2, <2>1
    <3>4. Total[reserved'[e]] \in Nat /\ R[e][h] \in Nat /\ c \in Nat
      BY <1>2, <2>1, <3>1, <3>3, TotalFacts, AmountsNat
    <3>5. committed[e] + Total[R[e]] + c <= Limit[e]
      BY <1>2, <2>3
    <3> QED
      BY <2>1, <2>2, <3>2, <3>4, <3>5
  <2>4. CASE e # d
    <3>1. reserved'[e] = R[e]
      BY <1>3, <1>5, <2>1, <2>4
    <3>2. committed[e] + Total[reserved[e]] <= Limit[e]
      BY DEF BudgetInv, BudgetWithinLimit
    <3> QED
      BY <2>1, <2>2, <3>1, <3>2
  <2> QED
    BY <2>3, <2>4
<1> QED
  BY <1>8, <1>9 DEF BudgetInv

\* An ungated request commits its charge if the limit has room.
LEMMA RequestDirectBudget ==
  ASSUME TypeOK, JobInv, BudgetInv, NEW p \in Proc, NEW d \in Delegation, NEW op \in Op,
         NEW k \in Key \cup {NoKey}, NEW j \in Job, RequestDirect(p, d, op, k, j)
  PROVE  BudgetInv'
<1> DEFINE R == ReleasedBudgets(Lapsed)
           c == Charge(d, op)
<1>1. /\ Accept(p, d, op, k, j)
      /\ committed' = [committed EXCEPT ![d] = committed[d] + c]
      /\ reserved' = R
  BY DEF RequestDirect
<1>2. /\ \A i \in Job : i # j => request'[i] = request[i] /\ HoldOf(i)' = HoldOf(i)
      /\ j \notin Pending /\ Lapsed \in SUBSET Pending /\ c \in Amounts
      /\ d \in Limited => c = Amount[op] /\ committed[d] + Total[R[d]] + Amount[op] <= Limit[d]
  BY <1>1, AcceptBudget
<1>3. /\ R \in [Delegation -> [Reservation -> Amounts]]
      /\ \A e \in Delegation : Total[R[e]] <= Total[reserved[e]]
      /\ \A i \in Pending \ Lapsed :
           R[request[i].delegation][HoldOf(i)] = Charge(request[i].delegation, request[i].op)
      /\ \A e \in Delegation, r \in Reservation : R[e][r] # 0 =>
           \E i \in Pending \ Lapsed : request[i].delegation = e /\ HoldOf(i) = r
  BY <1>2, ReleasedFacts
<1>4. Pending' = Pending \ Lapsed
  BY <1>2 DEF RequestDirect, DeniedApprovals, Pending, TypeOK
<1>5. \A i \in Pending \ Lapsed : request'[i] = request[i] /\ HoldOf(i)' = HoldOf(i)
  BY <1>2 DEF Pending
<1>6. ReservationsMatchPending'
  BY <1>1, <1>3, <1>4, <1>5 DEF ReservationsMatchPending
<1>7. BudgetWithinLimit'
  <2> SUFFICES ASSUME NEW e \in Limited
               PROVE  committed'[e] + Total[R[e]] <= Limit[e]
    BY <1>1 DEF BudgetWithinLimit
  <2>1. /\ e \in Delegation /\ Limit[e] \in Nat /\ committed[e] \in Nat
        /\ reserved[e] \in [Reservation -> Amounts] /\ R[e] \in [Reservation -> Amounts]
    BY <1>3, ConstantsAssumption DEF TypeOK
  <2>2. /\ Total[reserved[e]] \in Nat /\ Total[R[e]] \in Nat
        /\ Total[R[e]] <= Total[reserved[e]]
        /\ c \in Nat
    BY <1>2, <1>3, <2>1, TotalFacts, AmountsNat
  <2>3. committed'[e] = IF e = d THEN committed[e] + c ELSE committed[e]
    BY <1>1, <2>1 DEF TypeOK
  <2>4. committed[e] + Total[reserved[e]] <= Limit[e]
    BY DEF BudgetInv, BudgetWithinLimit
  <2>5. e = d => committed[e] + Total[R[e]] + c <= Limit[e]
    BY <1>2
  <2> QED
    BY <2>1, <2>2, <2>3, <2>4, <2>5
<1> QED
  BY <1>6, <1>7 DEF BudgetInv

\* An approval commits what it had reserved.
LEMMA ApproveBudget ==
  ASSUME TypeOK, JobInv, BudgetInv, NEW p \in Proc, NEW j \in Job,
         NEW decision \in {"approved", "denied"}, Approve(p, j, decision)
  PROVE  BudgetInv'
<1> DEFINE d == request[j].delegation
           h == HoldOf(j)
           x == reserved[d][h]
<1>1. j \in Pending /\ Used(j) /\ d \in Delegation /\ h \in Reservation
  BY RunningJobs, UsedJob DEF Approve
<1>2. /\ committed' = [committed EXCEPT ![d] = committed[d] + x]
      /\ reserved' = [reserved EXCEPT ![d] = [reserved[d] EXCEPT ![h] = 0]]
      /\ Pending' = Pending \ {j}
      /\ request' = request
      /\ \A i \in Job : HoldOf(i)' = HoldOf(i)
  BY DEF Approve, CommitBudget, Pending, TypeOK, HoldOf, world
<1>3. \A e \in Delegation, r \in Reservation :
        reserved'[e][r] = IF e = d /\ r = h THEN 0 ELSE reserved[e][r]
  BY <1>1, <1>2 DEF TypeOK
<1>4. ReservationsMatchPending'
  <2>1. ASSUME NEW i \in Pending \ {j}
        PROVE  reserved'[request[i].delegation][HoldOf(i)]
                 = Charge(request[i].delegation, request[i].op)
    <3>1. i \in Job /\ Used(i) /\ i # j
      BY RunningJobs DEF Pending
    <3>2. request[i].delegation \in Delegation /\ HoldOf(i) \in Reservation
      BY <3>1, UsedJob
    <3>3. ~(request[i].delegation = d /\ HoldOf(i) = h)
      BY <1>1, <3>1, HoldUnique
    <3> QED
      BY <1>3, <3>2, <3>3 DEF BudgetInv, ReservationsMatchPending
  <2>2. ASSUME NEW e \in Delegation, NEW r \in Reservation, reserved'[e][r] # 0
        PROVE  \E i \in Pending \ {j} : request[i].delegation = e /\ HoldOf(i) = r
    BY <1>3, <2>2 DEF BudgetInv, ReservationsMatchPending
  <2> QED
    BY <1>2, <2>1, <2>2 DEF ReservationsMatchPending, Pending
<1>5. BudgetWithinLimit'
  <2> SUFFICES ASSUME NEW e \in Limited
               PROVE  committed'[e] + Total[reserved'[e]] <= Limit[e]
    BY DEF BudgetWithinLimit
  <2>1. /\ e \in Delegation /\ Limit[e] \in Nat /\ committed[e] \in Nat
        /\ reserved[e] \in [Reservation -> Amounts]
    BY ConstantsAssumption DEF TypeOK
  <2>2. committed[e] + Total[reserved[e]] <= Limit[e]
    BY DEF BudgetInv, BudgetWithinLimit
  <2>3. CASE e = d
    <3>1. /\ committed'[e] = committed[e] + x
          /\ reserved'[e] = [reserved[e] EXCEPT ![h] = 0]
      BY <1>1, <1>2, <2>3 DEF TypeOK
    <3>2. Total[reserved'[e]] + x = Total[reserved[e]] + 0
      BY <1>1, <2>1, <2>3, <3>1, TotalFacts, AmountsNat
    <3>3. reserved'[e] \in [Reservation -> Amounts]
      BY <2>1, <3>1, AmountsNat
    <3>4. Total[reserved'[e]] \in Nat /\ Total[reserved[e]] \in Nat /\ x \in Nat
      BY <1>1, <2>1, <2>3, <3>3, TotalFacts, AmountsNat
    <3> QED
      BY <2>1, <2>2, <3>1, <3>2, <3>4
  <2>4. CASE e # d
    BY <1>2, <2>1, <2>2, <2>4 DEF TypeOK
  <2> QED
    BY <2>3, <2>4
<1> QED
  BY <1>4, <1>5 DEF BudgetInv

\* Budgets fit at first.
LEMMA InitBudget == Init => BudgetInv
<1> SUFFICES ASSUME Init PROVE BudgetInv
  OBVIOUS
<1>1. Pending = {} /\ \A d \in Delegation : reserved[d] = [r \in Reservation |-> 0]
  BY DEF Init, Pending
<1>2. ReservationsMatchPending
  BY <1>1 DEF ReservationsMatchPending
<1>3. \A d \in Limited : committed[d] + Total[reserved[d]] <= Limit[d]
  BY <1>1, ConstantsAssumption, TotalAssumption DEF Init
<1> QED
  BY <1>2, <1>3 DEF BudgetInv, BudgetWithinLimit

\* Every step keeps budgets fitting.
LEMMA NextBudget == TypeOK /\ JobInv /\ BudgetInv /\ [Next]_vars => BudgetInv'
<1> SUFFICES ASSUME TypeOK, JobInv, BudgetInv, [Next]_vars PROVE BudgetInv'
  OBVIOUS
<1>1. ASSUME NEW p \in Proc, NEW d \in Delegation, RevokePassport(p, d)
      PROVE  BudgetInv'
  BY <1>1, DenyBudget, PendingOf(d) \subseteq Pending DEF RevokePassport, world, PendingOf
<1>2. ASSUME NEW p \in Proc, Sweep(p)
      PROVE  BudgetInv'
  BY <1>2, DenyBudget, Lapsed \subseteq Pending DEF Sweep, world, Lapsed
<1>3. ASSUME NEW p \in Proc, NEW j \in Job, NEW decision \in {"approved", "denied"},
             Refuse(p, j, decision)
      PROVE  BudgetInv'
  BY <1>3, DenyBudget, {j} \in SUBSET Pending DEF Refuse, world
<1>4. ASSUME NEW p \in Proc, NEW d \in Delegation, NEW op \in Op,
             NEW k \in Key \cup {NoKey}, NEW j \in Job,
             RequestApproval(p, d, op, k, j) \/ RequestDirect(p, d, op, k, j)
      PROVE  BudgetInv'
  BY <1>4, RequestApprovalBudget, RequestDirectBudget
<1>5. ASSUME NEW p \in Proc, NEW j \in Job, NEW decision \in {"approved", "denied"},
             Approve(p, j, decision)
      PROVE  BudgetInv'
  BY <1>5, ApproveBudget
<1>6. ASSUME UNCHANGED <<approval, committed, reserved>>,
             \A j \in Pending : request'[j] = request[j]
      PROVE  BudgetInv'
  <2>1. Pending' = Pending /\ \A j \in Pending : HoldOf(j)' = HoldOf(j)
    BY <1>6 DEF Pending, HoldOf
  <2> QED
    BY <1>6, <2>1 DEF BudgetInv, ReservationsMatchPending, BudgetWithinLimit
<1>7. ASSUME NEW p \in Proc, NEW j \in Job,
             CallTool(p, j) \/ FinishExecuted(p, j) \/ FinishUnknown(p, j) \/ FinishUnrecorded(p, j)
      PROVE  BudgetInv'
  BY <1>6, <1>7 DEF CallTool, FinishExecuted, FinishUnknown, FinishUnrecorded, Finish, store, world
<1>8. ASSUME NEW p \in Proc, Crash(p) \/ Restart(p)
      PROVE  BudgetInv'
  BY <1>6, <1>8 DEF Crash, Restart, store, world
<1>9. ASSUME NEW p \in Proc, NEW d \in Delegation, IssuePassport(p, d)
      PROVE  BudgetInv'
  BY <1>6, <1>9 DEF IssuePassport, store
<1>10. ASSUME NEW d \in Delegation, Expire(d)
       PROVE  BudgetInv'
  BY <1>6, <1>10 DEF Expire, store, memory
<1>11. ASSUME NEW p \in Proc, NEW d \in Delegation, NEW op \in Op,
              NEW k \in Key \cup {NoKey}, NEW j \in Job, RequestDirectUndone(p, d, op, k, j)
       PROVE  BudgetInv'
  <2>1. \A i \in Pending : i \in Job /\ i # j
    BY <1>11, RunningJobs DEF RequestDirectUndone, Accept, Pending
  <2> QED
    BY <1>6, <1>11, <2>1, RequestDirectUndoneJob DEF RequestDirectUndone, store
<1>12. ASSUME NEW p \in Proc, NEW j \in Job, NEW decision \in {"approved", "denied"},
              ApproveUndone(p, j, decision)
       PROVE  BudgetInv'
  BY <1>6, <1>12 DEF ApproveUndone, store
<1>13. ASSUME NEW p \in Proc, RolledBack(p)
       PROVE  BudgetInv'
  BY <1>6, <1>13 DEF RolledBack, store, world
<1>14. CASE UNCHANGED vars
  BY <1>6, <1>14 DEF vars, store, memory, world
<1> QED
  BY <1>1, <1>2, <1>3, <1>4, <1>5, <1>7, <1>8, <1>9, <1>10, <1>11, <1>12, <1>13, <1>14 DEF Next

\* Budgets always fit.
LEMMA BudgetInvariant == Spec => []BudgetInv
BY InitBudget, NextBudget, JobInvariant, PTL DEF Spec

\* Committed spend and reservations together stay within max_amount whichever
\* processes reserve, commit and release (BudgetWithinLimit).
THEOREM BudgetSafe == Spec => []BudgetWithinLimit
BY BudgetInvariant, PTL DEF BudgetInv

\* No reservation outlives its pending approval, and none goes missing before it is
\* resolved (ReservationsMatchPending).
THEOREM ReservationsAccountedFor == Spec => []ReservationsMatchPending
BY BudgetInvariant, PTL DEF BudgetInv

-----------------------------------------------------------------------------
(* How each step moves the phases of the jobs *)

JobInvs == TypeOK /\ JobInv

\* A running job is authorised, and one that waits is not undone.
LEMMA PhaseFacts ==
  ASSUME JobInvs, NEW j \in Job
  PROVE  /\ Running(j) => JobPhase(j) = "authorised"
         /\ j \in Pending \ undone => JobPhase(j) = "waiting"
         /\ ~Used(j) => JobPhase(j) = "new"
<1>1. Running(j) => (j \in undone /\ Used(j)) \/ Started(j)
  BY RunningJobs DEF JobInvs, Begun
<1>2. Started(j) => Used(j) /\ approval[j] \notin {"pending", "denied"}
  BY DEF JobInvs, JobInv, ApprovalInv, Started
<1>3. j \in Pending => Used(j) /\ approval[j] = "pending"
  BY RunningJobs DEF JobInvs, Pending
<1> QED
  BY <1>1, <1>2, <1>3 DEF JobPhase

\* The phase of a job that a step leaves alone.
LEMMA SamePhase ==
  ASSUME NEW j \in Job, Used(j)' <=> Used(j), Running(j)' <=> Running(j),
         j \in undone' <=> j \in undone, j \notin undone => approval'[j] = approval[j]
  PROVE  JobPhase(j)' = JobPhase(j)
BY DEF JobPhase

\* Denying jobs refuses exactly them, but for the undone.
LEMMA DenyPhase ==
  ASSUME JobInvs, JobInvs', NEW S \in SUBSET Pending, Deny(S),
         UNCHANGED <<request, starting, executing, calls, undone>>
  PROVE  /\ Authority!Settle(S \ undone, {})
         /\ \A j \in Job : (Started(j)' <=> Started(j)) /\ (Begun(j)' <=> Begun(j))
<1>1. \A j \in Job : approval'[j] = IF j \in S THEN "denied" ELSE approval[j]
  BY DEF Deny, DeniedApprovals
<1>2. \A j \in Job : /\ Used(j)' <=> Used(j)
                     /\ Started(j)' <=> Started(j)
                     /\ Begun(j)' <=> Begun(j)
                     /\ Running(j)' <=> Running(j)
  BY <1>1 DEF Used, Started, Begun, Running, Pending, Forgotten
<1>3. \A j \in S \ undone : j \in Job /\ JobPhase(j) = "waiting" /\ JobPhase(j)' = "refused"
  <2> SUFFICES ASSUME NEW j \in S \ undone
               PROVE  j \in Job /\ JobPhase(j) = "waiting" /\ JobPhase(j)' = "refused"
    OBVIOUS
  <2>1. j \in Job /\ Used(j) /\ JobPhase(j) = "waiting"
    BY PhaseFacts, RunningJobs DEF JobInvs, Pending
  <2>2. Used(j)' /\ approval'[j] = "denied" /\ j \notin undone'
    BY <1>1, <1>2, <2>1
  <2> QED
    BY <2>1, <2>2 DEF JobPhase
<1>4. \A j \in Job \ (S \ undone) : JobPhase(j)' = JobPhase(j)
  BY <1>1, <1>2, SamePhase
<1> QED
  BY <1>2, <1>3, <1>4 DEF Authority!Settle

\* A request submits its job, after refusing what lapsed.
LEMMA RequestPhase ==
  ASSUME JobInvs, JobInvs', NEW p \in Proc, NEW d \in Delegation, NEW op \in Op,
         NEW k \in Key \cup {NoKey}, NEW j \in Job,
         RequestApproval(p, d, op, k, j) \/ RequestDirect(p, d, op, k, j)
  PROVE  /\ Authority!Submit(Lapsed \ undone, j)
         /\ d \notin revoked \cup expired /\ request'[j].delegation = d
         /\ ~Started(j) /\ Used(j)' /\ j \notin undone'
         /\ \A i \in Job : i # j => (Started(i)' <=> Started(i)) /\ (Begun(i)' <=> Begun(i))
<1>0. /\ Accept(p, d, op, k, j)
      /\ UNCHANGED <<calls, undone>>
      /\ d \notin revoked \cup expired
  BY DEF RequestApproval, RequestDirect, Accept, Acceptable
<1>1. /\ ~Used(j)
      /\ \A i \in Job : i # j => request'[i] = request[i]
      /\ request'[j] = [delegation |-> d, key |-> k, op |-> op]
      /\ Used(j)'
  BY <1>0, ConstantsAssumption DEF Accept, JobInvs, TypeOK, Used, Request
<1>2. /\ \A i \in Job : i # j =>
           /\ approval'[i] = IF i \in Lapsed THEN "denied" ELSE approval[i]
           /\ \A q \in Proc : i \in starting'[q] <=> i \in starting[q]
      /\ executing' = executing
      /\ \/ approval'[j] = "pending"
         \/ j \in starting'[p] /\ op \notin NeedsApproval
  <2>1. j \notin Lapsed
    BY <1>1, RunningJobs DEF JobInvs, Lapsed
  <2>2. CASE RequestApproval(p, d, op, k, j)
    BY <2>2 DEF RequestApproval, DeniedApprovals, JobInvs, TypeOK
  <2>3. CASE RequestDirect(p, d, op, k, j)
    BY <2>1, <2>3 DEF RequestDirect, DeniedApprovals, JobInvs, TypeOK
  <2> QED
    BY <2>2, <2>3
<1>3. \A i \in Job : i # j => /\ Used(i)' <=> Used(i)
                              /\ Started(i)' <=> Started(i)
                              /\ Begun(i)' <=> Begun(i)
                              /\ Running(i)' <=> Running(i)
  BY <1>0, <1>1, <1>2 DEF Used, Started, Begun, Running, Lapsed, Pending, Forgotten
<1>4. j \notin undone /\ ~Started(j)
  BY <1>1, RunningJobs DEF JobInvs
<1>5. ASSUME NEW i \in Lapsed \ undone
      PROVE  i \in Job /\ i # j /\ JobPhase(i) = "waiting" /\ JobPhase(i)' = "refused"
  <2>1. i \in Job /\ Used(i) /\ i # j /\ JobPhase(i) = "waiting"
    BY <1>1, PhaseFacts, RunningJobs DEF JobInvs, Lapsed, Pending
  <2>2. Used(i)' /\ approval'[i] = "denied" /\ i \notin undone'
    BY <1>0, <1>2, <1>3, <2>1
  <2> QED
    BY <2>1, <2>2 DEF JobPhase
<1>6. \A i \in Job \ (Lapsed \ undone) : i # j => JobPhase(i)' = JobPhase(i)
  BY <1>0, <1>2, <1>3, SamePhase
<1>7. JobPhase(j) = "new"
  BY <1>1, PhaseFacts
<1>8. JobPhase(j)' \in {"waiting", "authorised"}
  <2>1. CASE approval'[j] = "pending"
    BY <1>0, <1>1, <1>4, <2>1 DEF JobPhase
  <2>2. CASE j \in starting'[p] /\ op \notin NeedsApproval
    <3>1. Used(j)' /\ j \notin undone' /\ Running(j)'
      BY <1>0, <1>1, <1>4, <2>2 DEF Running
    <3>2. approval'[j] \notin {"pending", "denied"}
      BY <1>1, <2>2 DEF JobInvs, JobInv, ApprovalInv
    <3> QED
      BY <3>1, <3>2 DEF JobPhase
  <2> QED
    BY <1>2, <2>1, <2>2
<1> DEFINE to == JobPhase(j)'
           S == Lapsed \ undone
<1>9. [i \in Job |-> JobPhase(i)]' =
        [i \in Job |-> IF i \in S THEN "refused"
                       ELSE IF i = j THEN to ELSE [h \in Job |-> JobPhase(h)][i]]
  BY <1>5, <1>6
<1>10. /\ \A i \in S : [h \in Job |-> JobPhase(h)][i] = "waiting"
       /\ [h \in Job |-> JobPhase(h)][j] = "new"
  BY <1>5, <1>7
<1> QED
  BY <1>0, <1>1, <1>3, <1>4, <1>8, <1>9, <1>10 DEF Authority!Submit

\* So does one whose COMMIT fails: the process goes on to execute it.
LEMMA RequestUndonePhase ==
  ASSUME JobInvs, JobInvs', NEW p \in Proc, NEW d \in Delegation, NEW op \in Op,
         NEW k \in Key \cup {NoKey}, NEW j \in Job, RequestDirectUndone(p, d, op, k, j)
  PROVE  /\ Authority!Submit({}, j)
         /\ d \notin revoked \cup expired /\ request'[j].delegation = d
         /\ \A i \in Job : /\ Started(i)' <=> Started(i)
                           /\ Started(i) => request'[i] = request[i]
                           /\ i # j => (Begun(i)' <=> Begun(i))
<1>1. /\ UNCHANGED <<approval, calls>>
      /\ \A i \in Job : i # j => /\ request'[i] = request[i]
                                 /\ Used(i)' <=> Used(i)
                                 /\ i \in undone' <=> i \in undone
                                 /\ i \in Forgotten' <=> i \in Forgotten
      /\ \A i \in Job : Running(i)' <=> Running(i) \/ i = j
      /\ ~Used(j) /\ Used(j)' /\ j \in Forgotten'
      /\ d \notin revoked \cup expired /\ request'[j].delegation = d
  <2>1. UNCHANGED <<approval, calls>>
    BY DEF RequestDirectUndone, store
  <2> QED
    BY <2>1, RequestDirectUndoneJob DEF JobInvs
<1>2. \A i \in Job : /\ Started(i)' <=> Started(i)
                     /\ Started(i) => request'[i] = request[i]
                     /\ i # j => (Begun(i)' <=> Begun(i))
  BY <1>1 DEF Started, Begun
<1>3. JobPhase(j) = "new" /\ JobPhase(j)' = "authorised"
  <2>1. j \in undone'
    BY <1>1 DEF Forgotten
  <2> QED
    BY <1>1, <2>1, PhaseFacts DEF JobPhase
<1>4. \A i \in Job : i # j => JobPhase(i)' = JobPhase(i)
  BY <1>1, SamePhase
<1> DEFINE to == JobPhase(j)'
<1>5. [i \in Job |-> JobPhase(i)]' =
        [i \in Job |-> IF i \in {} THEN "refused"
                       ELSE IF i = j THEN to ELSE [h \in Job |-> JobPhase(h)][i]]
  BY <1>4
<1> QED
  BY <1>1, <1>2, <1>3, <1>5 DEF Authority!Submit

\* An approval authorises its job, whether or not it is committed.
LEMMA ApprovePhase ==
  ASSUME JobInvs, JobInvs', NEW p \in Proc, NEW j \in Job,
         NEW decision \in {"approved", "denied"},
         Approve(p, j, decision) \/ ApproveUndone(p, j, decision)
  PROVE  /\ Authority!Authorise(j)
         /\ request[j].delegation \notin revoked \cup expired
         /\ \A i \in Job : i # j => (Started(i)' <=> Started(i)) /\ (Begun(i)' <=> Begun(i))
<1>1. /\ j \in Pending \ undone /\ Used(j)
      /\ UNCHANGED <<request, calls>>
      /\ request[j].delegation \notin revoked \cup expired
      /\ \A i \in Job : /\ Running(i)' <=> Running(i) \/ i = j
                        /\ Used(i)' <=> Used(i)
                        /\ i # j => /\ Started(i)' <=> Started(i)
                                    /\ approval'[i] = approval[i]
                                    /\ i \in undone' <=> i \in undone
      /\ j \in undone' \/ approval'[j] = "approved"
  <2>1. UNCHANGED <<request, calls>>
    BY DEF Approve, ApproveUndone, world
  <2>2. \A i \in Job : Used(i)' <=> Used(i)
    BY <2>1 DEF Used
  <2>3. CASE Approve(p, j, decision)
    <3>1. undone' = undone /\ request[j].delegation \notin revoked \cup expired
      BY <2>3 DEF Approve, Approvable, world
    <3> QED
      BY <2>1, <2>2, <2>3, <3>1, ApproveJob DEF JobInvs
  <2>4. CASE ApproveUndone(p, j, decision)
    <3>1. approval' = approval
      BY <2>4 DEF ApproveUndone, store
    <3> QED
      BY <2>1, <2>2, <2>4, <3>1, ApproveUndoneJob DEF JobInvs
  <2> QED
    BY <2>3, <2>4
<1>2. JobPhase(j) = "waiting" /\ JobPhase(j)' = "authorised"
  <2>1. JobPhase(j) = "waiting" /\ Used(j)' /\ Running(j)'
    BY <1>1, PhaseFacts
  <2> QED
    BY <1>1, <2>1 DEF JobPhase
<1>3. \A i \in Job : i # j => JobPhase(i)' = JobPhase(i)
  BY <1>1, SamePhase
<1>4. \A i \in Job : i # j => (Begun(i)' <=> Begun(i))
  BY <1>1 DEF Begun
<1> QED
  BY <1>1, <1>2, <1>3, <1>4 DEF Authority!Authorise, Pending

\* The call performs its job.
LEMMA CallToolPhase ==
  ASSUME JobInvs, JobInvs', NEW p \in Proc, NEW j \in Job, CallTool(p, j)
  PROVE  /\ Authority!Perform(j)
         /\ \A i \in Job : Begun(i)' <=> Begun(i)
<1>1. /\ j \in starting[p] /\ calls[j] = 0 /\ calls' = [calls EXCEPT ![j] = 1]
      /\ \A q \in Proc : /\ starting'[q] = IF q = p THEN starting[q] \ {j} ELSE starting[q]
                         /\ executing'[q] = IF q = p THEN executing[q] \cup {j} ELSE executing[q]
      /\ UNCHANGED <<approval, request, undone>>
  <2>1. j \in starting[p] /\ calls[j] = 0
    BY DEF CallTool, JobInvs, JobInv, RunInv, RunFits
  <2>2. calls' = [calls EXCEPT ![j] = 1]
    BY <2>1 DEF CallTool
  <2> QED
    BY <2>1, <2>2 DEF CallTool, JobInvs, TypeOK, store
<1>2. \A i \in Job : /\ Used(i)' <=> Used(i)
                     /\ Begun(i)' <=> Begun(i)
                     /\ Running(i)' <=> Running(i)
  BY <1>1 DEF Used, Begun, Started, Running, Forgotten
<1>3. \A i \in Job : JobPhase(i)' = JobPhase(i)
  BY <1>1, <1>2, SamePhase
<1>4. JobPhase(j) = "authorised"
  BY <1>1, PhaseFacts DEF Running
<1> QED
  BY <1>1, <1>2, <1>3, <1>4 DEF Authority!Perform

\* Losing executions, which is what finishing one and a crash do.
LEMMA ClosePhase ==
  ASSUME JobInvs, JobInvs', UNCHANGED <<approval, request, calls, undone>>,
         \A q \in Proc : /\ starting'[q] \subseteq starting[q]
                         /\ executing'[q] \subseteq executing[q]
  PROVE  /\ \E S \in SUBSET Job : Authority!Settle({}, S)
         /\ \A i \in Job : Begun(i)' <=> Begun(i)
<1> DEFINE S == {i \in Job : Running(i) /\ ~Running(i)'}
<1>1. \A i \in Job : /\ Used(i)' <=> Used(i)
                     /\ Begun(i)' <=> Begun(i)
                     /\ Running(i)' => Running(i)
  BY DEF Used, Begun, Started, Running, Forgotten
<1>2. ASSUME NEW i \in S
      PROVE  JobPhase(i) = "authorised" /\ JobPhase(i)' = "closed"
  <2>1. JobPhase(i) = "authorised"
    BY PhaseFacts
  <2>2. Used(i) /\ (i \in undone \/ approval[i] \notin {"pending", "denied"})
    BY <2>1 DEF JobPhase
  <2> QED
    BY <1>1, <2>1, <2>2 DEF JobPhase
<1>3. \A i \in Job \ S : JobPhase(i)' = JobPhase(i)
  BY <1>1, SamePhase
<1>4. Authority!Settle({}, S)
  BY <1>2, <1>3 DEF Authority!Settle
<1> QED
  BY <1>1, <1>4

\* A step begins no execution of a withdrawn delegation, and is one of the abstract steps.
StartsNothingWithdrawn ==
  \A j \in Job : Begun(j)' /\ ~Begun(j) =>
    request'[j].delegation \notin revoked \cup expired

\* Every step is one of the authority, and begins nothing that is withdrawn.
LEMMA StepPhase ==
  JobInvs /\ JobInvs' /\ [Next]_vars => StartsNothingWithdrawn /\ [Authority!Next]_(Authority!vars)
<1> SUFFICES ASSUME JobInvs, JobInvs', [Next]_vars
             PROVE  StartsNothingWithdrawn /\ [Authority!Next]_(Authority!vars)
  OBVIOUS
<1> DEFINE Goal == StartsNothingWithdrawn /\ [Authority!Next]_(Authority!vars)
<1>0. ASSUME NEW S \in SUBSET Pending, Deny(S),
             UNCHANGED <<request, starting, executing, calls, undone>>
      PROVE  Goal
  <2>1. Authority!Settle(S \ undone, {}) /\ \A j \in Job : Begun(j)' <=> Begun(j)
    BY <1>0, DenyPhase
  <2>2. S \ undone \in SUBSET Job
    BY DEF Pending
  <2> QED
    BY <2>1, <2>2 DEF StartsNothingWithdrawn, Authority!Next
<1>1. ASSUME NEW p \in Proc, NEW d \in Delegation, RevokePassport(p, d)
      PROVE  Goal
  BY <1>0, <1>1, PendingOf(d) \subseteq Pending DEF RevokePassport, world, PendingOf
<1>2. ASSUME NEW p \in Proc, Sweep(p)
      PROVE  Goal
  BY <1>0, <1>2, Lapsed \subseteq Pending DEF Sweep, world, Lapsed
<1>3. ASSUME NEW p \in Proc, NEW j \in Job, NEW decision \in {"approved", "denied"},
             Refuse(p, j, decision)
      PROVE  Goal
  BY <1>0, <1>3, {j} \in SUBSET Pending DEF Refuse, world
<1>4. ASSUME NEW p \in Proc, NEW d \in Delegation, NEW op \in Op,
             NEW k \in Key \cup {NoKey}, NEW j \in Job,
             RequestApproval(p, d, op, k, j) \/ RequestDirect(p, d, op, k, j)
      PROVE  Goal
  <2>1. /\ Authority!Submit(Lapsed \ undone, j)
        /\ d \notin revoked \cup expired /\ request'[j].delegation = d
        /\ \A i \in Job : i # j => (Begun(i)' <=> Begun(i))
    BY <1>4, RequestPhase
  <2>2. Lapsed \ undone \in SUBSET Job
    BY LapsedJobs
  <2> QED
    BY <2>1, <2>2 DEF StartsNothingWithdrawn, Authority!Next
<1>5. ASSUME NEW p \in Proc, NEW d \in Delegation, NEW op \in Op,
             NEW k \in Key \cup {NoKey}, NEW j \in Job, RequestDirectUndone(p, d, op, k, j)
      PROVE  Goal
  <2>1. /\ Authority!Submit({}, j)
        /\ d \notin revoked \cup expired /\ request'[j].delegation = d
        /\ \A i \in Job : i # j => (Begun(i)' <=> Begun(i))
    BY <1>5, RequestUndonePhase
  <2> QED
    BY <2>1, {} \in SUBSET Job DEF StartsNothingWithdrawn, Authority!Next
<1>6. ASSUME NEW p \in Proc, NEW j \in Job, NEW decision \in {"approved", "denied"},
             Approve(p, j, decision) \/ ApproveUndone(p, j, decision)
      PROVE  Goal
  <2>1. /\ Authority!Authorise(j)
        /\ request[j].delegation \notin revoked \cup expired /\ request' = request
        /\ \A i \in Job : i # j => (Begun(i)' <=> Begun(i))
    BY <1>6, ApprovePhase DEF Approve, ApproveUndone, world
  <2> QED
    BY <2>1 DEF StartsNothingWithdrawn, Authority!Next
<1>7. ASSUME NEW p \in Proc, NEW j \in Job, CallTool(p, j)
      PROVE  Goal
  BY <1>7, CallToolPhase DEF StartsNothingWithdrawn, Authority!Next
<1>8. ASSUME UNCHANGED <<approval, request, calls, undone>>,
             \A q \in Proc : /\ starting'[q] \subseteq starting[q]
                             /\ executing'[q] \subseteq executing[q]
      PROVE  Goal
  BY <1>8, ClosePhase DEF StartsNothingWithdrawn, Authority!Next
<1>9. ASSUME NEW p \in Proc, NEW j \in Job,
             FinishExecuted(p, j) \/ FinishUnknown(p, j) \/ FinishUnrecorded(p, j)
      PROVE  Goal
  BY <1>8, <1>9 DEF FinishExecuted, FinishUnknown, FinishUnrecorded, Finish, world, JobInvs, TypeOK
<1>10. ASSUME NEW p \in Proc, Crash(p) \/ Restart(p) \/ RolledBack(p)
       PROVE  Goal
  BY <1>8, <1>10 DEF Crash, Restart, RolledBack, store, world, JobInvs, TypeOK
<1>11. ASSUME NEW p \in Proc, NEW d \in Delegation, IssuePassport(p, d)
       PROVE  Goal
  BY <1>8, <1>11 DEF IssuePassport, store
<1>12. ASSUME NEW d \in Delegation, Expire(d)
       PROVE  Goal
  BY <1>8, <1>12 DEF Expire, store, memory
<1>13. CASE UNCHANGED vars
  BY <1>8, <1>13 DEF vars, store, memory, world
<1> QED
  BY <1>1, <1>2, <1>3, <1>4, <1>5, <1>6, <1>7, <1>9, <1>10, <1>11, <1>12, <1>13 DEF Next

-----------------------------------------------------------------------------
(* What has been committed *)

\* Nothing is started and nothing is charged: the sums stay.
LEMMA SameSpend ==
  ASSUME TypeOK, committed' = committed,
         \A i \in Job : /\ Started(i)' <=> Started(i)
                        /\ Started(i) => request'[i] = request[i],
         CommittedIsStarted
  PROVE  CommittedIsStarted'
<1>1. ASSUME NEW d \in Delegation
      PROVE  Spend(d)' = Spend(d)
  <2>1. ASSUME NEW r \in Reservation
        PROVE  (IF r \in Job /\ Started(r)' /\ request'[r].delegation = d
                  THEN IF d \in Limited THEN Amount[request'[r].op] ELSE 0 ELSE 0)
               = (IF r \in Job /\ Started(r) /\ request[r].delegation = d
                    THEN IF d \in Limited THEN Amount[request[r].op] ELSE 0 ELSE 0)
    OBVIOUS
  <2> QED
    BY <2>1 DEF Spend, Charge
<1> QED
  BY <1>1 DEF CommittedIsStarted

\* One execution is started and its amount is charged: one term is added.
LEMMA OneMoreSpend ==
  ASSUME TypeOK, TypeOK', CommittedIsStarted, NEW j \in Job, NEW d \in Delegation,
         ~Started(j), Started(j)', request'[j].delegation = d,
         committed' = [committed EXCEPT ![d] = @ + Charge(d, request'[j].op)],
         \A i \in Job : i # j => /\ Started(i)' <=> Started(i)
                                 /\ request'[i] = request[i]
  PROVE  CommittedIsStarted'
<1> DEFINE a == Charge(d, request'[j].op)
<1>1. a \in Amounts /\ j \in Reservation
  BY DEF TypeOK, Started, Used, Request, Charge, Amounts, Reservation
<1>2. \A e \in Delegation : Spend(e) \in [Reservation -> Amounts]
  BY DEF TypeOK, Spend, Started, Used, Request, Charge, Amounts
<1>3. \A e \in Delegation : e # d => Spend(e)' = Spend(e)
  BY DEF Spend, Charge
<1>4. Spend(d)' = [Spend(d) EXCEPT ![j] = a]
  BY <1>1 DEF Spend, Charge
<1>5. Spend(d)[j] = 0
  BY <1>1 DEF Spend
<1>6. /\ Total[Spend(d)] \in Nat
      /\ Total[[Spend(d) EXCEPT ![j] = a]] + Spend(d)[j] = Total[Spend(d)] + a
      /\ Total[[Spend(d) EXCEPT ![j] = a]] \in Nat
  <2> DEFINE f == Spend(d)
             g == [f EXCEPT ![j] = a]
  <2>1. f \in [Reservation -> Amounts] /\ g \in [Reservation -> Amounts]
    BY <1>1, <1>2
  <2>2. Total[f] \in Nat /\ Total[g] \in Nat
    <3> HIDE DEF f, g
    <3> QED
      BY <2>1, TotalFacts
  <2>3. Total[[f EXCEPT ![j] = a]] + f[j] = Total[f] + a
    <3> HIDE DEF f, a
    <3> QED
      BY <1>1, <2>1, TotalFacts
  <2> QED
    BY <2>2, <2>3
<1>7. Total[Spend(d)]' = Total[Spend(d)] + a
  <2>1. a \in Nat
    BY <1>1, AmountsNat
  <2> QED
    BY <1>4, <1>5, <1>6, <2>1
<1>8. committed[d] = Total[Spend(d)] /\ committed'[d] = committed[d] + a
  BY DEF CommittedIsStarted, TypeOK
<1>9. \A e \in Delegation : e # d => committed'[e] = committed[e] /\ committed[e] = Total[Spend(e)]
  BY DEF CommittedIsStarted, TypeOK
<1> QED
  BY <1>3, <1>7, <1>8, <1>9 DEF CommittedIsStarted

\* Nothing is committed at first.
LEMMA InitCommitted == Init => CommittedIsStarted
<1> SUFFICES ASSUME Init, NEW d \in Delegation PROVE committed[d] = Total[Spend(d)]
  BY DEF CommittedIsStarted
<1>1. Spend(d) = [r \in Reservation |-> 0]
  BY DEF Init, Spend, Started, Used
<1> QED
  BY <1>1, TotalAssumption DEF Init

\* A request commits the charge of the job it starts, or nothing.
LEMMA RequestCommitted ==
  ASSUME JobInvs, JobInvs', NEW p \in Proc, NEW d \in Delegation, NEW op \in Op,
         NEW k \in Key \cup {NoKey}, NEW j \in Job, CommittedIsStarted,
         RequestApproval(p, d, op, k, j) \/ RequestDirect(p, d, op, k, j)
  PROVE  CommittedIsStarted'
<1>1. /\ ~Used(j) /\ ~Started(j)
      /\ \A i \in Job : i # j => request'[i] = request[i]
      /\ request'[j] = [delegation |-> d, key |-> k, op |-> op]
      /\ Used(j)'
  BY ConstantsAssumption
  DEF RequestApproval, RequestDirect, Accept, JobInvs, TypeOK, Used, Started, Request
<1>2. \A i \in Job : i # j => (Started(i)' <=> Started(i))
  BY RequestPhase
<1>3. CASE RequestApproval(p, d, op, k, j)
  <2>1. op \in NeedsApproval /\ approval'[j] = "pending" /\ committed' = committed
    BY <1>3 DEF RequestApproval, DeniedApprovals, JobInvs, TypeOK
  <2>2. ~Started(j)'
    BY <1>1, <2>1 DEF Started
  <2> QED
    BY <1>1, <1>2, <2>1, <2>2, SameSpend DEF JobInvs
<1>4. CASE RequestDirect(p, d, op, k, j)
  <2>1. /\ op \notin NeedsApproval
        /\ committed' = [committed EXCEPT ![d] = @ + Charge(d, op)]
    BY <1>4 DEF RequestDirect
  <2>2. Started(j)' /\ request'[j].delegation = d /\ request'[j].op = op
    BY <1>1, <2>1, RequestPhase DEF Started, Forgotten
  <2> QED
    BY <1>1, <1>2, <2>1, <2>2, OneMoreSpend DEF JobInvs
<1> QED
  BY <1>3, <1>4

\* An approval commits the charge of its job.
LEMMA ApproveCommitted ==
  ASSUME JobInvs, JobInvs', BudgetInv, CommittedIsStarted, NEW p \in Proc, NEW j \in Job,
         NEW decision \in {"approved", "denied"}, Approve(p, j, decision)
  PROVE  CommittedIsStarted'
<1> DEFINE d == request[j].delegation
<1>1. /\ j \in Pending /\ request' = request /\ approval'[j] = "approved"
      /\ committed' = [committed EXCEPT ![d] = @ + reserved[d][HoldOf(j)]]
  BY DEF Approve, CommitBudget, world, JobInvs, TypeOK
<1>2. Used(j) /\ request[j].op \in NeedsApproval /\ approval[j] = "pending" /\ d \in Delegation
  BY <1>1, UsedJob DEF JobInvs, JobInv, ApprovalInv, Pending
<1>3. ~Started(j) /\ Started(j)'
  BY <1>2, ApproveJob DEF Started, JobInvs
<1>4. reserved[d][HoldOf(j)] = Charge(d, request[j].op)
  BY <1>1 DEF BudgetInv, ReservationsMatchPending
<1>5. \A i \in Job : i # j => (Started(i)' <=> Started(i))
  BY ApprovePhase
<1> QED
  BY <1>1, <1>2, <1>3, <1>4, <1>5, OneMoreSpend DEF JobInvs

\* Every step keeps the committed budget the spend of what started.
LEMMA NextCommitted ==
  JobInvs /\ JobInvs' /\ BudgetInv /\ CommittedIsStarted /\ [Next]_vars => CommittedIsStarted'
<1> SUFFICES ASSUME JobInvs, JobInvs', BudgetInv, CommittedIsStarted, [Next]_vars
             PROVE  CommittedIsStarted'
  OBVIOUS
<1>1. ASSUME NEW p \in Proc, NEW d \in Delegation, RevokePassport(p, d)
      PROVE  CommittedIsStarted'
  <2>1. \A j \in Job : Started(j)' <=> Started(j)
    BY <1>1, DenyPhase, PendingOf(d) \subseteq Pending DEF RevokePassport, world, PendingOf
  <2> QED
    BY <1>1, <2>1, SameSpend DEF RevokePassport, world, JobInvs
<1>2. ASSUME NEW p \in Proc, Sweep(p)
      PROVE  CommittedIsStarted'
  <2>1. \A j \in Job : Started(j)' <=> Started(j)
    BY <1>2, DenyPhase, Lapsed \subseteq Pending DEF Sweep, world, Lapsed
  <2> QED
    BY <1>2, <2>1, SameSpend DEF Sweep, world, JobInvs
<1>3. ASSUME NEW p \in Proc, NEW j \in Job, NEW decision \in {"approved", "denied"},
             Refuse(p, j, decision)
      PROVE  CommittedIsStarted'
  <2>1. \A i \in Job : Started(i)' <=> Started(i)
    BY <1>3, DenyPhase, {j} \in SUBSET Pending DEF Refuse, world
  <2> QED
    BY <1>3, <2>1, SameSpend DEF Refuse, world, JobInvs
<1>4. ASSUME NEW p \in Proc, NEW d \in Delegation, NEW op \in Op,
             NEW k \in Key \cup {NoKey}, NEW j \in Job,
             RequestApproval(p, d, op, k, j) \/ RequestDirect(p, d, op, k, j)
      PROVE  CommittedIsStarted'
  BY <1>4, RequestCommitted
<1>5. ASSUME NEW p \in Proc, NEW j \in Job, NEW decision \in {"approved", "denied"},
             Approve(p, j, decision)
      PROVE  CommittedIsStarted'
  BY <1>5, ApproveCommitted
<1>6. ASSUME UNCHANGED <<approval, committed, request, undone>>
      PROVE  CommittedIsStarted'
  <2>1. \A i \in Job : Started(i)' <=> Started(i)
    BY <1>6 DEF Started, Used, Forgotten
  <2> QED
    BY <1>6, <2>1, SameSpend DEF JobInvs
<1>7. ASSUME NEW p \in Proc, NEW j \in Job,
             CallTool(p, j) \/ FinishExecuted(p, j) \/ FinishUnknown(p, j) \/ FinishUnrecorded(p, j)
      PROVE  CommittedIsStarted'
  BY <1>6, <1>7 DEF CallTool, FinishExecuted, FinishUnknown, FinishUnrecorded, Finish, store, world
<1>8. ASSUME NEW p \in Proc, Crash(p) \/ Restart(p)
      PROVE  CommittedIsStarted'
  BY <1>6, <1>8 DEF Crash, Restart, store, world
<1>9. ASSUME NEW p \in Proc, NEW d \in Delegation, IssuePassport(p, d)
      PROVE  CommittedIsStarted'
  BY <1>6, <1>9 DEF IssuePassport, store
<1>10. ASSUME NEW d \in Delegation, Expire(d)
       PROVE  CommittedIsStarted'
  BY <1>6, <1>10 DEF Expire, store, memory
<1>11. ASSUME NEW p \in Proc, NEW d \in Delegation, NEW op \in Op,
              NEW k \in Key \cup {NoKey}, NEW j \in Job, RequestDirectUndone(p, d, op, k, j)
       PROVE  CommittedIsStarted'
  <2>1. \A i \in Job : /\ Started(i)' <=> Started(i)
                       /\ Started(i) => request'[i] = request[i]
    BY <1>11, RequestUndonePhase
  <2> QED
    BY <1>11, <2>1, SameSpend DEF RequestDirectUndone, store, JobInvs
<1>12. ASSUME NEW p \in Proc, NEW j \in Job, NEW decision \in {"approved", "denied"},
              ApproveUndone(p, j, decision)
       PROVE  CommittedIsStarted'
  <2>1. \A i \in Job : Started(i)' <=> Started(i)
    BY <1>12, ApproveUndoneJob DEF JobInvs
  <2> QED
    BY <1>12, <2>1, SameSpend DEF ApproveUndone, store, JobInvs
<1>13. ASSUME NEW p \in Proc, RolledBack(p)
       PROVE  CommittedIsStarted'
  BY <1>6, <1>13 DEF RolledBack, store, world
<1>14. CASE UNCHANGED vars
  BY <1>6, <1>14 DEF vars, store, memory, world
<1> QED
  BY <1>1, <1>2, <1>3, <1>4, <1>5, <1>7, <1>8, <1>9, <1>10, <1>11, <1>12, <1>13, <1>14 DEF Next

\* What a delegation has been charged is the sum over the executions persisted
\* under it, each counted once, whichever process started it, on either path, and
\* whatever crashed meanwhile (CommittedIsStarted).
THEOREM CommittedAccountedFor == Spec => []CommittedIsStarted
<1>1. Spec => []JobInvs
  BY JobInvariant DEF JobInvs
<1> QED
  BY <1>1, BudgetInvariant, InitCommitted, NextCommitted, PTL DEF Spec

\* The initial state is the authority's.
LEMMA InitPhase == Init => Authority!Init
<1> SUFFICES ASSUME Init PROVE Authority!Init
  OBVIOUS
<1>1. \A j \in Job : JobPhase(j) = "new"
  BY DEF Init, Used, JobPhase
<1> QED
  BY <1>1 DEF Init, Authority!Init

\* After a revocation or an expiry no process begins an execution of that delegation,
\* whatever it had read before and whether or not its COMMIT fails (WithdrawnStartsNothing).
THEOREM WithdrawalFinal == Spec => WithdrawnStartsNothing
<1>1. Spec => []JobInvs
  BY JobInvariant DEF JobInvs
<1>2. JobInvs /\ JobInvs' /\ [Next]_vars => [StartsNothingWithdrawn]_vars
  BY StepPhase
<1>3. WithdrawnStartsNothing <=> [][StartsNothingWithdrawn]_vars
  BY DEF WithdrawnStartsNothing, StartsNothingWithdrawn
<1> QED
  BY <1>1, <1>2, <1>3, PTL DEF Spec

\* The gateway, with its crashes, retries, concurrent processes and failing COMMITs, is a
\* one-shot authority for every request it accepts (ImplementsOneShot).
THEOREM Refinement == Spec => ImplementsOneShot
<1>1. Spec => []JobInvs
  BY JobInvariant DEF JobInvs
<1>2. JobInvs /\ JobInvs' /\ [Next]_vars => [Authority!Next]_(Authority!vars)
  BY StepPhase
<1> QED
  BY <1>1, <1>2, InitPhase, PTL DEF Spec, ImplementsOneShot, Authority!Spec

-----------------------------------------------------------------------------
(* What TotalAssumption says of Total *)

\* Induction over the naturals, with a set for the property: the smallest natural outside
\* would be the smallest of a set of finite segments.
LEMMA NatSetInduction ==
  ASSUME NEW S, 0 \in S, \A n \in Nat : n \in S => n + 1 \in S
  PROVE  Nat \subseteq S
<1>1. SUFFICES ASSUME NEW t \in Nat, t \notin S
               PROVE  FALSE
  OBVIOUS
<1> DEFINE Missing == {k \in 0 .. t : k \notin S}
           Below(k) == 0 .. k - 1
           Segments == {Below(k) : k \in Missing}
           Whole == Below(t)
<1>2. Segments \subseteq FiniteSubsetsOf(Whole)
  <2>1. SUFFICES ASSUME NEW k \in Missing
                 PROVE  Below(k) \in FiniteSubsetsOf(Whole)
    OBVIOUS
  <2>2. Below(k) \subseteq Whole
    OBVIOUS
  <2>3. IsFiniteSet(Below(k))
    BY FS_Interval
  <2> QED BY <2>2, <2>3 DEF FiniteSubsetsOf
<1>3. Segments # {}
  BY <1>1
<1>4. \E x \in Segments : \A y \in Segments : ~(<<y, x>> \in StrictSubsetOrdering(Whole))
  <2> HIDE DEF Segments, Whole
  <2> QED BY <1>2, <1>3, WFMin, FS_StrictSubsetOrderingWellFounded
<1>5. PICK k \in Missing : \A y \in Segments : ~(<<y, Below(k)>> \in StrictSubsetOrdering(Whole))
  BY <1>4
<1>6. k # 0
  OBVIOUS
<1>7. k - 1 \in Missing
  BY <1>6
<1>8. <<Below(k - 1), Below(k)>> \in StrictSubsetOrdering(Whole)
  <2>1. Below(k - 1) \subseteq Whole /\ Below(k) \subseteq Whole /\ Below(k - 1) \subseteq Below(k)
    OBVIOUS
  <2>2. k - 1 \in Below(k) /\ k - 1 \notin Below(k - 1)
    BY <1>6
  <2> QED BY <2>1, <2>2 DEF StrictSubsetOrdering
<1> QED BY <1>5, <1>7, <1>8

\* sums is the sums of f along an order of the reservations.
SumsAlong(order, n, f, sums) ==
  /\ sums \in [0 .. n -> Nat] /\ sums[0] = 0
  /\ \A k \in Nat : k < n => sums[k + 1] = sums[k] + f[order[k + 1]]

\* Total is what reduce() computes: whatever order the reservations are added up in, the
\* sum of all of them is Total.  So TotalAssumption leaves no choice.
THEOREM TotalIsTheSum ==
  ASSUME NEW n \in Nat, NEW order \in Bijection(1 .. n, Reservation),
         NEW f \in [Reservation -> Amounts], NEW sums, SumsAlong(order, n, f, sums)
  PROVE  Total[f] = sums[n]
<1>1. order \in [1 .. n -> Reservation]
  BY DEF Bijection, Injection
<1>2. \A i, j \in 1 .. n : order[i] = order[j] => i = j
  BY DEF Bijection, Injection, IsInjective
<1>3. \A r \in Reservation : \E i \in 1 .. n : order[i] = r
  BY DEF Bijection, Surjection
<1>4. Amounts \subseteq Nat /\ 0 \in Amounts
  BY ConstantsAssumption DEF Amounts
<1> DEFINE Counted(k) == [r \in Reservation |-> IF \E i \in 1 .. k : order[i] = r THEN f[r] ELSE 0]
           Claim == {k \in Nat : k <= n => Total[Counted(k)] = sums[k]}
<1>5. \A k \in Nat : Counted(k) \in [Reservation -> Amounts]
  BY <1>4
<1>6. 0 \in Claim
  <2>1. Counted(0) = [r \in Reservation |-> 0]
    OBVIOUS
  <2> HIDE DEF Counted
  <2> QED BY <2>1, TotalAssumption DEF SumsAlong
<1>7. ASSUME NEW k \in Nat, k \in Claim
      PROVE  k + 1 \in Claim
  <2>1. SUFFICES ASSUME k + 1 <= n
                 PROVE  Total[Counted(k + 1)] = sums[k + 1]
    OBVIOUS
  <2>2. k + 1 \in 1 .. n /\ k \in 0 .. n /\ k + 1 \in 0 .. n
    BY <2>1
  <2> DEFINE next == order[k + 1]
             a == f[next]
  <2>3. next \in Reservation /\ a \in Amounts
    BY <1>1, <2>2
  <2>4. Counted(k)[next] = 0
    <3>1. ~\E i \in 1 .. k : order[i] = next
      BY <1>2, <2>1
    <3> QED BY <2>3, <3>1
  <2>5. Counted(k + 1) = [Counted(k) EXCEPT ![next] = a]
    <3>1. \A r \in Reservation : r # next => ((\E i \in 1 .. k + 1 : order[i] = r) <=> \E i \in 1 .. k : order[i] = r)
      <4>1. \A i \in 1 .. k + 1 : i \in 1 .. k \/ i = k + 1
        OBVIOUS
      <4>2. \A i \in 1 .. k : i \in 1 .. k + 1
        OBVIOUS
      <4> QED BY <4>1, <4>2
    <3>2. \E i \in 1 .. k + 1 : order[i] = next
      OBVIOUS
    <3> QED BY <2>3, <3>1, <3>2
  <2>6. sums[k + 1] = sums[k] + a /\ sums[k] \in Nat /\ a \in Nat
    <3>1. sums \in [0 .. n -> Nat] /\ \A p \in Nat : p < n => sums[p + 1] = sums[p] + f[order[p + 1]]
      BY DEF SumsAlong
    <3>2. k < n
      BY <2>1
    <3>3. sums[k + 1] = sums[k] + f[order[k + 1]]
      BY <3>1, <3>2
    <3>4. sums[k] \in Nat /\ a \in Nat
      BY <1>4, <2>2, <2>3, <3>1
    <3> QED BY <3>3, <3>4
  <2> HIDE DEF Counted, next, a
  <2>7. Total[Counted(k)] = sums[k]
    BY <1>7, <2>1
  <2>8. Total[[Counted(k) EXCEPT ![next] = a]] + Counted(k)[next] = Total[Counted(k)] + a
    BY <1>5, <2>3, TotalAssumption
  <2>9. Counted(k + 1) \in [Reservation -> Amounts] /\ Total[Counted(k + 1)] \in Nat
    BY <1>5, TotalAssumption
  <2> QED BY <2>4, <2>5, <2>6, <2>7, <2>8, <2>9
<1>8. n \in Claim
  <2> HIDE DEF Claim
  <2> QED BY <1>6, <1>7, NatSetInduction
<1>9. Counted(n) = f
  BY <1>3
<1> HIDE DEF Counted
<1> QED BY <1>8, <1>9

\* What TotalAssumption says, of any function.
IsTotal(total) ==
  /\ total \in [[Reservation -> Amounts] -> Nat]
  /\ total[[r \in Reservation |-> 0]] = 0
  /\ \A f \in [Reservation -> Amounts], r \in Reservation, a \in Amounts :
       total[[f EXCEPT ![r] = a]] + f[r] = total[f] + a
  /\ \A f, g \in [Reservation -> Amounts] :
       (\A r \in Reservation : f[r] <= g[r]) => total[f] <= total[g]

\* Amounts can be added up along any order.
LEMMA SumsExist ==
  ASSUME NEW n \in Nat, NEW order \in [1 .. n -> Reservation], NEW f \in [Reservation -> Nat]
  PROVE  \E sums : SumsAlong(order, n, f, sums)
<1> DEFINE Claim == {k \in Nat : k <= n => \E sums : SumsAlong(order, k, f, sums)}
<1>1. 0 \in Claim
  <2>1. SumsAlong(order, 0, f, [k \in 0 .. 0 |-> 0])
    BY DEF SumsAlong
  <2> QED BY <2>1
<1>2. ASSUME NEW k \in Nat, k \in Claim
      PROVE  k + 1 \in Claim
  <2>1. SUFFICES ASSUME k + 1 <= n
                 PROVE  \E sums : SumsAlong(order, k + 1, f, sums)
    OBVIOUS
  <2>2. PICK sums : SumsAlong(order, k, f, sums)
    BY <1>2, <2>1
  <2>3. k + 1 \in 1 .. n
    BY <2>1
  <2>4. f[order[k + 1]] \in Nat
    BY <2>3
  <2> DEFINE x == f[order[k + 1]]
             longer == [p \in 0 .. k + 1 |-> IF p <= k THEN sums[p] ELSE sums[k] + x]
  <2>5. sums \in [0 .. k -> Nat] /\ sums[0] = 0 /\ \A p \in Nat : p < k => sums[p + 1] = sums[p] + f[order[p + 1]]
    BY <2>2 DEF SumsAlong
  <2>6. longer \in [0 .. k + 1 -> Nat]
    <3>1. \A p \in 0 .. k + 1 : longer[p] \in Nat
      <4> SUFFICES ASSUME NEW p \in 0 .. k + 1
                   PROVE  longer[p] \in Nat
        OBVIOUS
      <4>1. sums[k] \in Nat
        BY <2>5
      <4>2. CASE p <= k
        BY <2>5, <4>2
      <4>3. CASE ~(p <= k)
        BY <2>4, <4>1, <4>3
      <4> QED BY <4>2, <4>3
    <3> QED BY <3>1
  <2>7. longer[0] = 0
    BY <2>5
  <2>8. ASSUME NEW p \in Nat, p < k + 1
        PROVE  longer[p + 1] = longer[p] + f[order[p + 1]]
    <3>1. longer[p] = sums[p]
      BY <2>8
    <3>2. CASE p < k
      <4>1. longer[p + 1] = sums[p + 1]
        BY <3>2
      <4> QED BY <2>5, <3>1, <3>2, <4>1
    <3>3. CASE p = k
      <4>1. longer[p + 1] = sums[k] + x
        BY <3>3
      <4> QED BY <3>1, <3>3, <4>1
    <3> QED BY <2>8, <3>2, <3>3
  <2> HIDE DEF longer
  <2>9. SumsAlong(order, k + 1, f, longer)
    BY <2>6, <2>7, <2>8 DEF SumsAlong
  <2> QED BY <2>9
<1>3. n \in Claim
  <2> HIDE DEF Claim
  <2> QED BY <1>1, <1>2, NatSetInduction
<1> QED BY <1>3

\* Sums of smaller amounts are smaller.
LEMMA SumsMonotone ==
  ASSUME NEW n \in Nat, NEW order \in [1 .. n -> Reservation],
         NEW f \in [Reservation -> Nat], NEW g \in [Reservation -> Nat],
         \A r \in Reservation : f[r] <= g[r],
         NEW lower, SumsAlong(order, n, f, lower), NEW upper, SumsAlong(order, n, g, upper)
  PROVE  lower[n] <= upper[n]
<1> DEFINE Claim == {k \in Nat : k <= n => lower[k] <= upper[k]}
<1>1. /\ lower \in [0 .. n -> Nat] /\ lower[0] = 0 /\ \A k \in Nat : k < n => lower[k + 1] = lower[k] + f[order[k + 1]]
      /\ upper \in [0 .. n -> Nat] /\ upper[0] = 0 /\ \A k \in Nat : k < n => upper[k + 1] = upper[k] + g[order[k + 1]]
  BY DEF SumsAlong
<1>2. 0 \in Claim
  BY <1>1
<1>3. ASSUME NEW k \in Nat, k \in Claim
      PROVE  k + 1 \in Claim
  <2>1. SUFFICES ASSUME k + 1 <= n
                 PROVE  lower[k + 1] <= upper[k + 1]
    OBVIOUS
  <2>2. k + 1 \in 1 .. n /\ k \in 0 .. n
    BY <2>1
  <2> DEFINE r == order[k + 1]
  <2>3. r \in Reservation /\ f[r] \in Nat /\ g[r] \in Nat /\ f[r] <= g[r]
    BY <2>2
  <2>4. lower[k + 1] = lower[k] + f[r] /\ upper[k + 1] = upper[k] + g[r]
    <3>1. k < n
      BY <2>1
    <3> QED BY <1>1, <3>1
  <2>5. lower[k] \in Nat /\ upper[k] \in Nat /\ lower[k] <= upper[k]
    BY <1>1, <1>3, <2>1, <2>2
  <2> HIDE DEF r
  <2> QED BY <2>3, <2>4, <2>5
<1>4. n \in Claim
  <2> HIDE DEF Claim
  <2> QED BY <1>2, <1>3, NatSetInduction
<1> QED BY <1>4

\* If one amount changes, so does the sum, by as much.
LEMMA SumsChange ==
  ASSUME NEW n \in Nat, NEW order \in Bijection(1 .. n, Reservation),
         NEW f \in [Reservation -> Nat], NEW g \in [Reservation -> Nat], NEW r \in Reservation,
         \A q \in Reservation : q # r => g[q] = f[q],
         NEW before, SumsAlong(order, n, f, before), NEW after, SumsAlong(order, n, g, after)
  PROVE  after[n] + f[r] = before[n] + g[r]
<1> DEFINE a == g[r]
<1>1. /\ order \in [1 .. n -> Reservation]
      /\ \A i, j \in 1 .. n : order[i] = order[j] => i = j
      /\ \E i \in 1 .. n : order[i] = r
  BY DEF Bijection, Injection, Surjection, IsInjective
<1>2. PICK at \in 1 .. n : order[at] = r
  BY <1>1
<1>3. /\ before \in [0 .. n -> Nat] /\ before[0] = 0 /\ \A k \in Nat : k < n => before[k + 1] = before[k] + f[order[k + 1]]
      /\ after \in [0 .. n -> Nat] /\ after[0] = 0 /\ \A k \in Nat : k < n => after[k + 1] = after[k] + g[order[k + 1]]
  BY DEF SumsAlong
<1>4. g[r] = a /\ f[r] \in Nat /\ a \in Nat
  OBVIOUS
<1>5. \A k \in 1 .. n : k # at => g[order[k]] = f[order[k]] /\ f[order[k]] \in Nat
  <2>1. SUFFICES ASSUME NEW k \in 1 .. n, k # at
                 PROVE  g[order[k]] = f[order[k]] /\ f[order[k]] \in Nat
    OBVIOUS
  <2>2. order[k] \in Reservation /\ order[k] # r
    BY <1>1, <1>2, <2>1
  <2> QED BY <2>2
<1> HIDE DEF a
<1> DEFINE Claim == {k \in Nat : k <= n => IF k < at THEN after[k] = before[k]
                                          ELSE after[k] + f[r] = before[k] + a}
<1>6. 0 \in Claim
  BY <1>2, <1>3
<1>7. ASSUME NEW k \in Nat, k \in Claim
      PROVE  k + 1 \in Claim
  <2>1. SUFFICES ASSUME k + 1 <= n
                 PROVE  IF k + 1 < at THEN after[k + 1] = before[k + 1]
                        ELSE after[k + 1] + f[r] = before[k + 1] + a
    OBVIOUS
  <2>2. k + 1 \in 1 .. n /\ k \in 0 .. n
    BY <2>1
  <2>3. after[k + 1] = after[k] + g[order[k + 1]] /\ before[k + 1] = before[k] + f[order[k + 1]]
    <3>1. k < n
      BY <2>1
    <3> QED BY <1>3, <3>1
  <2>4. after[k] \in Nat /\ before[k] \in Nat
    BY <1>3, <2>2
  <2>5. IF k < at THEN after[k] = before[k] ELSE after[k] + f[r] = before[k] + a
    BY <1>7, <2>1
  <2>6. CASE k + 1 = at
    <3>1. g[order[k + 1]] = a /\ f[order[k + 1]] = f[r]
      BY <1>2, <1>4, <2>6
    <3>2. k < at /\ ~(k + 1 < at)
      BY <2>6
    <3> QED BY <1>4, <2>3, <2>4, <2>5, <3>1, <3>2
  <2>7. CASE k + 1 # at
    <3>1. g[order[k + 1]] = f[order[k + 1]] /\ f[order[k + 1]] \in Nat
      BY <1>5, <2>2, <2>7
    <3>2. after[k + 1] = after[k] + f[order[k + 1]] /\ before[k + 1] = before[k] + f[order[k + 1]]
      BY <2>3, <3>1
    <3>3. k + 1 < at <=> k < at
      BY <2>7
    <3> DEFINE x == f[order[k + 1]]
    <3>4. x \in Nat /\ after[k + 1] = after[k] + x /\ before[k + 1] = before[k] + x
      BY <3>1, <3>2
    <3> HIDE DEF x
    <3>5. CASE k < at
      BY <2>5, <3>3, <3>4, <3>5
    <3>6. CASE ~(k < at)
      <4>1. after[k] + f[r] = before[k] + a
        BY <2>5, <3>6
      <4>2. after[k + 1] + f[r] = before[k + 1] + a
        <5> DEFINE u == after[k]
                   v == before[k]
                   w == f[r]
        <5>1. u \in Nat /\ v \in Nat /\ w \in Nat /\ x \in Nat /\ a \in Nat /\ u + w = v + a
          BY <1>4, <2>4, <3>4, <4>1
        <5>2. after[k + 1] = u + x /\ before[k + 1] = v + x
          BY <3>4
        <5> HIDE DEF u, v
        <5>3. (u + x) + w = (v + x) + a
          <6> HIDE DEF w
          <6> QED BY <5>1
        <5> QED BY <5>2, <5>3
      <4> QED BY <3>3, <3>6, <4>2
    <3> QED BY <3>5, <3>6
  <2> QED BY <2>6, <2>7
<1>8. n \in Claim
  <2> HIDE DEF Claim
  <2> QED BY <1>6, <1>7, NatSetInduction
<1>9. after[n] + f[r] = before[n] + a
  BY <1>2, <1>8
<1> QED BY <1>9 DEF a

\* And for any finite number of keys and jobs there is such a function: TotalAssumption can
\* be satisfied, whatever the operations spend.
THEOREM TotalExists ==
  ASSUME IsFiniteSet(Reservation)
  PROVE  \E total : IsTotal(total)
<1> DEFINE n == Cardinality(Reservation)
<1>1. n \in Nat /\ \E order : order \in Bijection(1 .. n, Reservation)
  BY FS_CardinalityType DEF ExistsBijection
<1> HIDE DEF n
<1>2. PICK order \in Bijection(1 .. n, Reservation) : TRUE
  BY <1>1
<1>3. order \in [1 .. n -> Reservation]
  BY DEF Bijection, Injection
<1>4. Amounts \subseteq Nat /\ 0 \in Amounts
  BY ConstantsAssumption DEF Amounts
<1> DEFINE Sums(f) == CHOOSE sums : SumsAlong(order, n, f, sums)
           total == [f \in [Reservation -> Amounts] |-> Sums(f)[n]]
<1>5. ASSUME NEW f \in [Reservation -> Amounts]
      PROVE  SumsAlong(order, n, f, Sums(f)) /\ total[f] = Sums(f)[n] /\ f \in [Reservation -> Nat]
  <2>1. f \in [Reservation -> Nat]
    BY <1>4
  <2>2. \E sums : SumsAlong(order, n, f, sums)
    BY <1>1, <1>3, <2>1, SumsExist
  <2> QED BY <2>1, <2>2
<1>6. \A f \in [Reservation -> Amounts] : Sums(f)[n] \in Nat
  <2> SUFFICES ASSUME NEW f \in [Reservation -> Amounts]
               PROVE  Sums(f)[n] \in Nat
    OBVIOUS
  <2>1. SumsAlong(order, n, f, Sums(f))
    BY <1>5
  <2> HIDE DEF Sums
  <2> QED BY <1>1, <2>1 DEF SumsAlong
<1>7. total \in [[Reservation -> Amounts] -> Nat]
  BY <1>6
<1> HIDE DEF Sums, total
<1>8. total[[r \in Reservation |-> 0]] = 0
  <2> DEFINE zero == [r \in Reservation |-> 0]
  <2>1. zero \in [Reservation -> Amounts] /\ zero \in [Reservation -> Nat]
    BY <1>4
  <2> DEFINE none == [k \in 0 .. n |-> 0]
  <2>2. SumsAlong(order, n, zero, none)
    <3>1. \A k \in 1 .. n : order[k] \in Reservation
      BY <1>3
    <3> QED BY <1>1, <3>1 DEF SumsAlong
  <2>3. \A r \in Reservation : zero[r] <= zero[r]
    OBVIOUS
  <2>4. none[n] = 0
    BY <1>1
  <2> HIDE DEF zero, none
  <2>5. SumsAlong(order, n, zero, Sums(zero)) /\ total[zero] = Sums(zero)[n]
    BY <1>5, <2>1
  <2>6. Sums(zero)[n] <= none[n]
    BY <1>1, <1>3, <2>1, <2>2, <2>3, <2>5, SumsMonotone
  <2>7. total[zero] \in Nat /\ total[zero] <= 0
    BY <1>7, <2>1, <2>4, <2>5, <2>6
  <2>8. total[zero] = 0
    BY <2>7
  <2> QED BY <2>8 DEF zero
<1>9. ASSUME NEW f \in [Reservation -> Amounts], NEW r \in Reservation, NEW a \in Amounts
      PROVE  total[[f EXCEPT ![r] = a]] + f[r] = total[f] + a
  <2> DEFINE g == [f EXCEPT ![r] = a]
  <2>1. g \in [Reservation -> Amounts]
    OBVIOUS
  <2>2. SumsAlong(order, n, f, Sums(f)) /\ total[f] = Sums(f)[n] /\ f \in [Reservation -> Nat]
    BY <1>5
  <2>3. SumsAlong(order, n, g, Sums(g)) /\ total[g] = Sums(g)[n] /\ g \in [Reservation -> Nat]
    BY <1>5, <2>1
  <2>4. g[r] = a /\ \A q \in Reservation : q # r => g[q] = f[q]
    OBVIOUS
  <2>5. Sums(g)[n] + f[r] = Sums(f)[n] + g[r]
    <3> HIDE DEF g
    <3> QED BY <1>1, <2>2, <2>3, <2>4, SumsChange, SMTT(40)
  <2> QED BY <2>2, <2>3, <2>4, <2>5
<1>10. ASSUME NEW f \in [Reservation -> Amounts], NEW g \in [Reservation -> Amounts],
              \A r \in Reservation : f[r] <= g[r]
       PROVE  total[f] <= total[g]
  <2>1. SumsAlong(order, n, f, Sums(f)) /\ total[f] = Sums(f)[n] /\ f \in [Reservation -> Nat]
    BY <1>5
  <2>2. SumsAlong(order, n, g, Sums(g)) /\ total[g] = Sums(g)[n] /\ g \in [Reservation -> Nat]
    BY <1>5
  <2>3. Sums(f)[n] <= Sums(g)[n]
    BY <1>1, <1>3, <1>10, <2>1, <2>2, SumsMonotone
  <2> QED BY <2>1, <2>2, <2>3
<1>11. IsTotal(total)
  BY <1>7, <1>8, <1>9, <1>10 DEF IsTotal
<1> QED BY <1>11
=============================================================================
