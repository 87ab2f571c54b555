--------------------------- MODULE LocalAuditsProofs ---------------------------
(***************************************************************************)
(* About what a local audit waits for.                                     *)
(*                                                                         *)
(* The audits: for any number of workers on one repository, an audit is    *)
(* prepared once for its key, and run at most once, on an approval.  For   *)
(* one worker with its crashes and restarts, outcomes are final, records   *)
(* are attended to, and an audit is a one-shot authority.                  *)
(*                                                                         *)
(* The settlement: a trial that runs the charging route has one task until *)
(* it is charged, so that its ledger of pending effects, its events and    *)
(* the scheduler agree at every await; a snapshot without pending effects  *)
(* stays true because a trial runs one route only.                         *)
(***************************************************************************)
EXTENDS MeasuredAudits, CheckoutSettlement, FiniteSetTheorems, TLAPS

-----------------------------------------------------------------------------
(* What the steps do to the records *)

\* A record that is there stays there, and keeps its key.
KeepsKeys == /\ Records' = Records
             /\ \A a \in Records : record'[a].key = record[a].key

\* No record is the absent one.
LEMMA NotNone == \A r \in Record : r # None
  BY MeasuredAssumption

\* What is in the repository is a record.
LEMMA RecordIn == ASSUME TypeOK, NEW a \in Records PROVE a \in Audit /\ record[a] \in Record
  BY DEF TypeOK, Records

\* transition changes the state and the error of one record.
LEMMA TransitionKeeps ==
  ASSUME TypeOK, NEW a \in Records, NEW state \in State,
         NEW error \in {"none", "service_restarted_before_approval",
                        "service_restarted_after_execution_started", "other"},
         Transition(a, state, error)
  PROVE  /\ record' \in [Audit -> Record \cup {None}]
         /\ KeepsKeys
         /\ record'[a].state = state
         /\ record'[a].approval = record[a].approval
         /\ \A b \in Audit \ {a} : record'[b] = record[b]
<1>1. a \in Audit /\ record[a] \in Record
  BY RecordIn
<1> DEFINE why == IF error = "none" THEN record[a].error ELSE error
           new == [record[a] EXCEPT !.state = state, !.error = why]
<1>2. new \in Record /\ new.state = state /\ new.approval = record[a].approval /\ new.key = record[a].key
  BY <1>1 DEF Record
<1>3. record' = [record EXCEPT ![a] = new]
  BY DEF Transition
<1>4. new # None
  BY <1>2, NotNone
<1> HIDE DEF new
<1> QED
  BY <1>1, <1>2, <1>3, <1>4 DEF TypeOK, KeepsKeys, Records

\* The expiry of a pending audit, or nothing.
LEMMA ExpirePendingKeeps ==
  ASSUME TypeOK, NEW a \in Records, ExpirePending(a)
  PROVE  /\ record' \in [Audit -> Record \cup {None}]
         /\ KeepsKeys
         /\ record'[a].state \in {record[a].state, "expired"}
         /\ record'[a].approval = record[a].approval
         /\ \A b \in Audit \ {a} : record'[b] = record[b]
<1>1. CASE Expiring(a)
  <2>1. Transition(a, "expired", "other")
    BY <1>1 DEF ExpirePending
  <2> QED
    BY <2>1, TransitionKeeps DEF State, Terminal
<1>2. CASE ~Expiring(a)
  BY <1>2, RecordIn DEF ExpirePending, KeepsKeys, TypeOK, Records
<1> QED
  BY <1>1, <1>2

\* The start of a service.
LEMMA BootKeeps ==
  ASSUME TypeOK, NEW w \in Worker, Boot(w)
  PROVE  /\ record' \in [Audit -> Record \cup {None}]
         /\ KeepsKeys
         /\ \A a \in Records : /\ record'[a].approval = record[a].approval
                               /\ record'[a].state # "awaiting_approval"
<1>1. \A r \in Record : /\ Recovered(r) \in Record
                        /\ Recovered(r).key = r.key
                        /\ Recovered(r).approval = r.approval
                        /\ Recovered(r).state # "awaiting_approval"
  BY ZenonT(40) DEF Recovered, Record, State, Undecided, Executing, Terminal
<1>2. \A a \in Records : record'[a] = Recovered(record[a])
  BY RecordIn DEF Boot
<1>3. \A a \in Audit \ Records : record'[a] = None
  BY DEF Boot
<1>4. \A a \in Records : Recovered(record[a]) # None
  BY <1>1, RecordIn, NotNone
<1>5. Records' = Records
  BY <1>2, <1>3, <1>4 DEF Records
<1>6. record' \in [Audit -> Record \cup {None}]
  BY <1>1, RecordIn DEF Boot
<1> QED
  BY <1>1, <1>2, <1>5, <1>6, RecordIn DEF KeepsKeys

-----------------------------------------------------------------------------
(* Types, and what workers know *)

\* The typing and KnownInv hold at first.
LEMMA InitKnown == Init => TypeOK /\ KnownInv
  BY DEF Init, TypeOK, KnownInv, Records

\* A live worker's turn is for an audit with a record.
LEMMA AtStepKnown ==
  ASSUME KnownInv, NEW w \in Worker, NEW a \in Audit,
         NEW step \in {"announce", "approve", "deny", "execute", "observe", "threw"},
         AtStep(w, a, step)
  PROVE  a \in Records /\ turn[w] # None /\ turn[w].audit = a
<1>1. [step |-> step, audit |-> a] \in Turn
  BY DEF Turn
<1> QED
  BY <1>1, MeasuredAssumption DEF AtStep, KnownInv

\* The turn of a worker, live or not, is for an audit with a record.
LEMMA TurnKnown ==
  ASSUME KnownInv, NEW w \in Worker, NEW a \in Audit,
         NEW step \in {"announce", "approve", "deny", "execute", "observe", "threw"},
         turn[w] = [step |-> step, audit |-> a]
  PROVE  a \in Records
<1>1. [step |-> step, audit |-> a] \in Turn
  BY DEF Turn
<1> QED
  BY <1>1, MeasuredAssumption DEF KnownInv

\* Every step keeps the typing and KnownInv: no record is ever removed.
LEMMA NextKnown == TypeOK /\ KnownInv /\ [Next]_vars => (TypeOK /\ KnownInv)'
<1> SUFFICES ASSUME TypeOK, KnownInv, [Next]_vars PROVE (TypeOK /\ KnownInv)'
  OBVIOUS
<1>1. ASSUME NEW w \in Worker, NEW k \in Key, NEW a \in Audit, Start(w, k, a)
      PROVE  (TypeOK /\ KnownInv)'
  <2> DEFINE new == [key |-> k, state |-> "preparing", approval |-> "none", error |-> "none"]
  <2>1. new \in Record /\ new # None
    BY NotNone DEF Record, State, Undecided
  <2>2. record' = [record EXCEPT ![a] = new]
    BY <1>1 DEF Start
  <2> HIDE DEF new
  <2>3. Records' = Records \cup {a} /\ record' \in [Audit -> Record \cup {None}]
    BY <2>1, <2>2 DEF Records, TypeOK
  <2> QED
    BY <1>1, <2>3 DEF Start, Await, TypeOK, KnownInv
<1>2. ASSUME NEW w \in Worker, NEW a \in Audit, NEW decision \in {"approve", "deny"},
              Decide(w, a, decision)
      PROVE  (TypeOK /\ KnownInv)'
  <2>1. a \in Records
    BY <1>2 DEF Decide, Then, Yielding, KnownInv
  <2>2. record' \in [Audit -> Record \cup {None}] /\ Records' = Records
    BY <1>2, <2>1, ExpirePendingKeeps DEF Decide, KeepsKeys
  <2> QED
    BY <1>2, <2>1, <2>2 DEF Decide, TypeOK, KnownInv, Turn, Then, Yielding
<1>3. ASSUME NEW w \in Worker, Crash(w)
      PROVE  (TypeOK /\ KnownInv)'
  BY <1>3 DEF Crash, TypeOK, KnownInv, Records
<1>4. ASSUME NEW w \in Worker, Boot(w)
      PROVE  (TypeOK /\ KnownInv)'
  BY <1>4, BootKeeps DEF Boot, TypeOK, KnownInv, KeepsKeys
<1>5. ASSUME NEW a \in Audit, Lapse(a)
      PROVE  (TypeOK /\ KnownInv)'
  BY <1>5 DEF Lapse, TypeOK, KnownInv, Records, State
<1>6. ASSUME NEW w \in Worker, NEW a \in Audit, PrepareFails(w, a)
      PROVE  (TypeOK /\ KnownInv)'
  <2>1. a \in Records
    BY <1>6 DEF PrepareFails, Prepared, Await, Then, Yielding, KnownInv
  <2>2. record' \in [Audit -> Record \cup {None}] /\ Records' = Records
    BY <1>6, <2>1, TransitionKeeps DEF PrepareFails, KeepsKeys, State, Undecided, Executing, Terminal
  <2> QED
    BY <1>6, <2>1, <2>2 DEF PrepareFails, TypeOK, KnownInv, Turn, Prepared, Await, Then, Yielding
<1>7. ASSUME NEW w \in Worker, NEW a \in Audit, PrepareReturns(w, a)
      PROVE  (TypeOK /\ KnownInv)'
  <2>1. a \in Records
    BY <1>7 DEF PrepareReturns, Prepared, Await, Then, Yielding, KnownInv
  <2>2. record' \in [Audit -> Record \cup {None}] /\ Records' = Records
    BY <1>7, <2>1, TransitionKeeps DEF PrepareReturns, KeepsKeys, State, Undecided, Executing, Terminal
  <2> QED
    BY <1>7, <2>1, <2>2 DEF PrepareReturns, TypeOK, KnownInv, Turn, Prepared, Await, Then, Yielding
<1>8. ASSUME NEW w \in Worker, NEW a \in Audit, PrepareUnrecorded(w, a)
      PROVE  (TypeOK /\ KnownInv)'
  BY <1>8 DEF PrepareUnrecorded, TypeOK, KnownInv, Records, Prepared, Await, Yielding
<1>9. ASSUME NEW w \in Worker, NEW a \in Audit, Announce(w, a)
      PROVE  (TypeOK /\ KnownInv)'
  <2>1. a \in Records
    BY <1>9, AtStepKnown DEF Announce, Yield, KnownInv
  <2>2. record' \in [Audit -> Record \cup {None}] /\ Records' = Records
    BY <1>9, AtStepKnown, <2>1, ExpirePendingKeeps DEF Announce, KeepsKeys
  <2> QED
    BY <1>9, AtStepKnown, <2>1, <2>2 DEF Announce, TypeOK, KnownInv, Turn, Yield
<1>10. ASSUME NEW w \in Worker, NEW a \in Audit, Poll(w, a)
      PROVE  (TypeOK /\ KnownInv)'
  <2>1. a \in Records
    BY <1>10 DEF Poll, Expiring
  <2>2. record' \in [Audit -> Record \cup {None}] /\ Records' = Records
    BY <1>10, <2>1, ExpirePendingKeeps DEF Poll, KeepsKeys
  <2> QED
    BY <1>10, <2>1, <2>2 DEF Poll, TypeOK, KnownInv
<1>11. ASSUME NEW w \in Worker, NEW a \in Audit, Approve(w, a)
      PROVE  (TypeOK /\ KnownInv)'
  <2> DEFINE new == [record[a] EXCEPT !.state = "running", !.approval = "approved"]
  <2>1. a \in Records /\ record[a] \in Record
    BY <1>11, RecordIn, AtStepKnown DEF Approve
  <2>2. new \in Record /\ new # None
    BY <2>1, NotNone DEF Record, State, Executing, Terminal
  <2>3. record' = [record EXCEPT ![a] = new]
    BY <1>11 DEF Approve
  <2> HIDE DEF new
  <2>4. record' \in [Audit -> Record \cup {None}] /\ Records' = Records
    BY <2>1, <2>2, <2>3 DEF Records, TypeOK
  <2> QED
    BY <1>11, <2>1, <2>4 DEF Approve, TypeOK, KnownInv, Turn, AtStep, Then, Yield
<1>12. ASSUME NEW w \in Worker, NEW a \in Audit, Deny(w, a)
      PROVE  (TypeOK /\ KnownInv)'
  <2> DEFINE new == [record[a] EXCEPT !.state = "failed", !.approval = "denied", !.error = "other"]
  <2>1. a \in Records /\ record[a] \in Record
    BY <1>12, RecordIn, AtStepKnown DEF Deny
  <2>2. new \in Record /\ new # None
    BY <2>1, NotNone DEF Record, State, Executing, Terminal
  <2>3. record' = [record EXCEPT ![a] = new]
    BY <1>12 DEF Deny
  <2> HIDE DEF new
  <2>4. record' \in [Audit -> Record \cup {None}] /\ Records' = Records
    BY <2>1, <2>2, <2>3 DEF Records, TypeOK
  <2> QED
    BY <1>12, <2>1, <2>4 DEF Deny, TypeOK, KnownInv, Turn, AtStep, Then, Yield
<1>13. ASSUME NEW w \in Worker, NEW a \in Audit, DecideInVain(w, a)
      PROVE  (TypeOK /\ KnownInv)'
  BY <1>13, AtStepKnown DEF DecideInVain, TypeOK, KnownInv, Records, AtStep, Yield
<1>14. ASSUME NEW w \in Worker, NEW a \in Audit, Execute(w, a)
      PROVE  (TypeOK /\ KnownInv)'
  <2>1. a \in Records /\ turn' \in [Worker -> Turn \cup {None}]
    <3>1. a \in Records
      BY <1>14, AtStepKnown DEF Execute
    <3>2. \A step \in {"observe", "threw"} : [step |-> step, audit |-> a] \in Turn
      BY DEF Turn
    <3>3. PICK step \in {"observe", "threw"} : turn' = [turn EXCEPT ![w] = [step |-> step, audit |-> a]]
      BY <1>14 DEF Execute, Then
    <3> QED
      BY <3>1, <3>2, <3>3 DEF TypeOK
  <2>2. \A v \in Worker : turn'[v] # None => turn'[v].audit \in Records
    BY <1>14, <2>1 DEF Execute, Then, KnownInv, TypeOK
  <2>3. runs' \in [Audit -> Nat]
    BY <1>14 DEF Execute, TypeOK
  <2> QED
    BY <1>14, <2>1, <2>2, <2>3 DEF Execute, TypeOK, KnownInv, Records
<1>15. ASSUME NEW w \in Worker, NEW a \in Audit, RunThrows(w, a)
      PROVE  (TypeOK /\ KnownInv)'
  <2>1. a \in Records
    BY <1>15, AtStepKnown DEF RunThrows, Yield, Await, KnownInv
  <2>2. record' \in [Audit -> Record \cup {None}] /\ Records' = Records
    BY <1>15, AtStepKnown, <2>1, TransitionKeeps DEF RunThrows, KeepsKeys, State, Undecided, Executing, Terminal
  <2> QED
    BY <1>15, AtStepKnown, <2>1, <2>2 DEF RunThrows, TypeOK, KnownInv, Turn, Yield, Await
<1>16. ASSUME NEW w \in Worker, NEW a \in Audit, Observe(w, a)
      PROVE  (TypeOK /\ KnownInv)'
  <2>1. a \in Records
    BY <1>16, AtStepKnown DEF Observe, Yield, Await, KnownInv
  <2>2. record' \in [Audit -> Record \cup {None}] /\ Records' = Records
    BY <1>16, AtStepKnown, <2>1, TransitionKeeps DEF Observe, KeepsKeys, State, Undecided, Executing, Terminal
  <2> QED
    BY <1>16, AtStepKnown, <2>1, <2>2 DEF Observe, TypeOK, KnownInv, Turn, Yield, Await
<1>17. ASSUME NEW w \in Worker, NEW a \in Audit, TurnUnrecorded(w, a)
      PROVE  (TypeOK /\ KnownInv)'
  BY <1>17 DEF TurnUnrecorded, TypeOK, KnownInv, Records, Yield
<1>18. ASSUME NEW w \in Worker, NEW a \in Audit, RunSettles(w, a)
      PROVE  (TypeOK /\ KnownInv)'
  <2>1. a \in Records
    BY <1>18 DEF RunSettles, Conclusion, Await, Yielding, KnownInv
  <2>2. record' \in [Audit -> Record \cup {None}] /\ Records' = Records
    BY <1>18, <2>1, TransitionKeeps DEF RunSettles, KeepsKeys, State, Undecided, Executing, Terminal, Conclude
  <2> QED
    BY <1>18, <2>1, <2>2 DEF RunSettles, TypeOK, KnownInv, Turn, Conclusion, Await, Yielding
<1>19. ASSUME NEW w \in Worker, NEW a \in Audit, RunUnrecorded(w, a)
      PROVE  (TypeOK /\ KnownInv)'
  BY <1>19 DEF RunUnrecorded, TypeOK, KnownInv, Records, Conclusion, Await, Yielding
<1>20. CASE UNCHANGED vars
  BY <1>20 DEF vars, TypeOK, KnownInv, Records
<1> QED
  BY <1>1, <1>2, <1>3, <1>4, <1>5, <1>6, <1>7, <1>8, <1>9, <1>10,
     <1>11, <1>12, <1>13, <1>14, <1>15, <1>16, <1>17, <1>18, <1>19, <1>20 DEF Next, GoOn, Resume

-----------------------------------------------------------------------------
(* Preparations, decisions and runs *)

\* A step leaves the approval and the run of an audit alone, and workers at most
\* forget what they do for it.
Untouched(b) ==
  /\ b \in Records' <=> b \in Records
  /\ b \in Records => record'[b].approval = record[b].approval
  /\ runs'[b] = runs[b]
  /\ \A w \in Worker :
       /\ chain'[w][b] \in {chain[w][b], "idle"}
       /\ \A step \in {"execute", "observe", "threw"} :
            turn'[w] = [step |-> step, audit |-> b] => turn[w] = [step |-> step, audit |-> b]

\* The part of RunInv about one audit.
RunInvOf(b) ==
  /\ runs[b] \in {0, 1}
  /\ runs[b] = 1 => b \in Records /\ record[b].approval = "approved"
  /\ \A w \in Worker : Authorised(w, b)

\* RunInv stays true of an audit that a step leaves alone.
LEMMA UntouchedKeepsRun ==
  ASSUME KnownInv, RunInv, NEW b \in Audit, Untouched(b) PROVE RunInvOf(b)'
<1>1. runs'[b] \in {0, 1} /\ (runs'[b] = 1 => b \in Records' /\ record'[b].approval = "approved")
  BY DEF Untouched, RunInv
<1>2. ASSUME NEW w \in Worker PROVE Authorised(w, b)'
  <2>1. Authorised(w, b)
    BY DEF RunInv
  <2>2. chain'[w][b] = "run" => record'[b].approval = "approved"
    BY <2>1 DEF Untouched, Authorised, KnownInv
  <2>3. ASSUME NEW step \in {"execute", "observe", "threw"}, turn'[w] = [step |-> step, audit |-> b]
        PROVE  record'[b].approval = "approved"
    <3>1. turn[w] = [step |-> step, audit |-> b]
      BY <2>3 DEF Untouched
    <3>2. \A other \in {"execute", "observe", "threw"} :
            turn[w] = [step |-> other, audit |-> b] => record[b].approval = "approved"
      BY <2>1, Zenon DEF Authorised
    <3>3. record[b].approval = "approved"
      BY <3>1, <3>2, Zenon
    <3>4. b \in Records
      BY <3>1, TurnKnown
    <3> QED
      BY <3>3, <3>4 DEF Untouched
  <2>4. ASSUME turn'[w] = [step |-> "execute", audit |-> b]
        PROVE  /\ runs'[b] = 0
               /\ \A v \in Worker : turn'[v] = [step |-> "execute", audit |-> b] => v = w
    <3>1. \A v \in Worker : turn'[v] = [step |-> "execute", audit |-> b] =>
                            turn[v] = [step |-> "execute", audit |-> b]
      BY DEF Untouched
    <3>2. /\ runs[b] = 0
          /\ \A v \in Worker : turn[v] = [step |-> "execute", audit |-> b] => v = w
      BY <2>1, <2>4, <3>1 DEF Authorised
    <3> QED
      BY <3>1, <3>2 DEF Untouched
  <2> QED
    BY <2>2, <2>3, <2>4, Zenon DEF Authorised
<1> QED
  BY <1>1, <1>2 DEF RunInvOf

\* RunInv audit by audit.
LEMMA RunInvParts == ASSUME \A b \in Audit : RunInvOf(b)' PROVE RunInv'
  BY DEF RunInv, RunInvOf

\* Records keep their keys and approvals, and none begins to await a decision.
QuietRecords ==
  /\ KeepsKeys
  /\ \A a \in Records :
       /\ record'[a].approval = record[a].approval
       /\ record'[a].state = "awaiting_approval" => record[a].state = "awaiting_approval"

\* A step that starts, approves, denies and runs nothing: such are its records, and
\* workers at most forget.
Quiet ==
  /\ QuietRecords
  /\ prepares' = prepares /\ runs' = runs
  /\ \A w \in Worker : /\ turn'[w] \in {turn[w], None}
                          \/ \E step \in {"announce", "approve", "deny"}, a \in Audit :
                               turn'[w] = [step |-> step, audit |-> a]
                       /\ \A a \in Audit : chain'[w][a] \in {chain[w][a], "idle"}

\* Such a step keeps the three invariants.
LEMMA QuietKeeps ==
  ASSUME TypeOK, KnownInv, StartInv, DecisionInv, RunInv, Quiet
  PROVE  (StartInv /\ DecisionInv /\ RunInv)'
<1>1. StartInv'
  BY DEF Quiet, QuietRecords, KeepsKeys, StartInv
<1>2. DecisionInv'
  BY DEF Quiet, QuietRecords, KeepsKeys, DecisionInv, Records
<1>3. ASSUME NEW w \in Worker, NEW a \in Audit, NEW step \in {"execute", "observe", "threw"},
             turn'[w] = [step |-> step, audit |-> a]
      PROVE  turn[w] = [step |-> step, audit |-> a]
  <2>1. [step |-> step, audit |-> a] \in Turn
    BY DEF Turn
  <2>2. turn'[w] # None
    BY <1>3, <2>1, MeasuredAssumption
  <2>3. ASSUME NEW other \in {"announce", "approve", "deny"}, NEW b \in Audit,
               turn'[w] = [step |-> other, audit |-> b]
        PROVE  FALSE
    <3>1. [step |-> step, audit |-> a].step = [step |-> other, audit |-> b].step
      BY <1>3, <2>3
    <3> QED
      BY <3>1
  <2> QED
    BY <1>3, <2>2, <2>3 DEF Quiet
<1>4. \A a \in Audit : Untouched(a)
  BY <1>3 DEF Quiet, QuietRecords, KeepsKeys, Untouched
<1> QED
  BY <1>1, <1>2, <1>4, UntouchedKeepsRun, RunInvParts

\* The steps that are quiet.
QuietStep ==
  \/ \E w \in Worker : Crash(w) \/ Boot(w)
  \/ \E a \in Audit : Lapse(a)
  \/ \E w \in Worker, a \in Audit :
       \/ Poll(w, a)
       \/ \E decision \in {"approve", "deny"} : Decide(w, a, decision)
       \/ Announce(w, a) \/ DecideInVain(w, a) \/ RunThrows(w, a) \/ TurnUnrecorded(w, a)
       \/ PrepareFails(w, a) \/ PrepareUnrecorded(w, a) \/ RunSettles(w, a) \/ RunUnrecorded(w, a)

\* A transition to a state but awaiting_approval is quiet about records.
LEMMA QuietTransition ==
  ASSUME TypeOK, NEW a \in Records, NEW state \in State \ {"awaiting_approval"},
         NEW error \in {"none", "other"}, Transition(a, state, error)
  PROVE  QuietRecords
  BY TransitionKeeps, RecordIn DEF QuietRecords

\* So is the expiry of a pending audit.
LEMMA QuietExpiry ==
  ASSUME TypeOK, NEW a \in Records, ExpirePending(a)
  PROVE  QuietRecords
  BY ExpirePendingKeeps, RecordIn DEF QuietRecords

\* Those steps are quiet.
LEMMA QuietSteps == TypeOK /\ KnownInv /\ QuietStep => Quiet
<1> SUFFICES ASSUME TypeOK, KnownInv, QuietStep PROVE Quiet
  OBVIOUS
<1>0. UNCHANGED record => QuietRecords
  BY DEF QuietRecords, KeepsKeys, Records
<1>1. ASSUME NEW w \in Worker, Crash(w) PROVE Quiet
  BY <1>0, <1>1 DEF Crash, Quiet, QuietRecords, TypeOK
<1>2. ASSUME NEW w \in Worker, Boot(w) PROVE Quiet
  BY <1>2, BootKeeps DEF Boot, Quiet, QuietRecords
<1>3. ASSUME NEW a \in Audit, Lapse(a) PROVE Quiet
  BY <1>0, <1>3 DEF Lapse, Quiet, QuietRecords
<1>4. ASSUME NEW w \in Worker, NEW a \in Audit, Poll(w, a) PROVE Quiet
  <2>1. QuietRecords
    BY <1>4, QuietExpiry DEF Poll, Expiring
  <2> QED
    BY <1>4, <2>1 DEF Poll, Quiet, QuietRecords
<1>5. ASSUME NEW w \in Worker, NEW a \in Audit, NEW decision \in {"approve", "deny"}, Decide(w, a, decision)
      PROVE  Quiet
  <2>1. QuietRecords
    BY <1>5, QuietExpiry DEF Decide, KnownInv
  <2> QED
    BY <1>5, <2>1 DEF Decide, Then, Quiet, QuietRecords, TypeOK
<1>6. ASSUME NEW w \in Worker, NEW a \in Audit, Announce(w, a) PROVE Quiet
  <2>1. QuietRecords
    BY <1>6, AtStepKnown, QuietExpiry DEF Announce
  <2> QED
    BY <1>6, <2>1 DEF Announce, Yield, Quiet, QuietRecords, TypeOK
<1>7. ASSUME NEW w \in Worker, NEW a \in Audit, DecideInVain(w, a) PROVE Quiet
  BY <1>0, <1>7 DEF DecideInVain, Yield, Quiet, QuietRecords, TypeOK
<1>8. ASSUME NEW w \in Worker, NEW a \in Audit, RunThrows(w, a) PROVE Quiet
  <2>1. QuietRecords
    BY <1>8, AtStepKnown, QuietTransition DEF RunThrows, State, Terminal
  <2> QED
    BY <1>8, <2>1 DEF RunThrows, Yield, Quiet, QuietRecords, TypeOK
<1>9. ASSUME NEW w \in Worker, NEW a \in Audit, TurnUnrecorded(w, a) PROVE Quiet
  BY <1>0, <1>9 DEF TurnUnrecorded, Yield, Quiet, QuietRecords, TypeOK
<1>10. ASSUME NEW w \in Worker, NEW a \in Audit, PrepareFails(w, a) PROVE Quiet
  <2>1. QuietRecords
    BY <1>10, QuietTransition DEF PrepareFails, Prepared, KnownInv, State, Terminal
  <2> QED
    BY <1>10, <2>1 DEF PrepareFails, Prepared, Await, Quiet, QuietRecords, TypeOK
<1>11. ASSUME NEW w \in Worker, NEW a \in Audit, PrepareUnrecorded(w, a) PROVE Quiet
  BY <1>0, <1>11 DEF PrepareUnrecorded, Prepared, Await, Quiet, QuietRecords, TypeOK
<1>12. ASSUME NEW w \in Worker, NEW a \in Audit, RunSettles(w, a) PROVE Quiet
  <2>1. QuietRecords
    BY <1>12, QuietTransition DEF RunSettles, Conclusion, Conclude, KnownInv, State, Terminal
  <2> QED
    BY <1>12, <2>1 DEF RunSettles, Conclusion, Await, Quiet, QuietRecords, TypeOK
<1>13. ASSUME NEW w \in Worker, NEW a \in Audit, RunUnrecorded(w, a) PROVE Quiet
  BY <1>0, <1>13 DEF RunUnrecorded, Conclusion, Await, Quiet, QuietRecords, TypeOK
<1> QED
  BY <1>1, <1>2, <1>3, <1>4, <1>5, <1>6, <1>7, <1>8, <1>9, <1>10, <1>11, <1>12, <1>13 DEF QuietStep

\* Nobody runs an audit that has no approval.
LEMMA UnapprovedIsIdle ==
  ASSUME RunInv, NEW a \in Audit, record[a].approval # "approved"
  PROVE  /\ runs[a] = 0
         /\ \A w \in Worker :
              /\ chain[w][a] # "run"
              /\ \A step \in {"execute", "observe", "threw"} : turn[w] # [step |-> step, audit |-> a]
<1>1. runs[a] = 0
  BY DEF RunInv
<1>2. ASSUME NEW w \in Worker
      PROVE  /\ chain[w][a] # "run"
             /\ \A step \in {"execute", "observe", "threw"} : turn[w] # [step |-> step, audit |-> a]
  <2>1. Authorised(w, a)
    BY DEF RunInv
  <2> QED
    BY <2>1, Zenon DEF Authorised
<1> QED
  BY <1>1, <1>2

\* Nobody runs an audit that has no record.
LEMMA UnknownIsIdle ==
  ASSUME KnownInv, RunInv, NEW a \in Audit, a \notin Records
  PROVE  /\ runs[a] = 0
         /\ \A w \in Worker :
              /\ chain[w][a] = "idle"
              /\ \A step \in {"execute", "observe", "threw"} : turn[w] # [step |-> step, audit |-> a]
<1>1. runs[a] = 0
  BY DEF RunInv
<1> QED
  BY <1>1, TurnKnown, Zenon DEF KnownInv

\* A start makes the one record of its key and the one preparation of that record.
LEMMA StartStep ==
  ASSUME TypeOK, KnownInv, StartInv, DecisionInv, RunInv,
         NEW w \in Worker, NEW k \in Key, NEW a \in Audit, Start(w, k, a)
  PROVE  (StartInv /\ DecisionInv /\ RunInv)'
<1> DEFINE new == [key |-> k, state |-> "preparing", approval |-> "none", error |-> "none"]
<1>1. a \notin Records /\ \A b \in Records : record[b].key # k
  BY DEF Start, Startable
<1>2. record' = [record EXCEPT ![a] = new]
  BY DEF Start
<1>3. /\ new # None /\ new.key = k /\ new.approval = "none" /\ new.state = "preparing"
  BY NotNone DEF Record, State, Undecided
<1> HIDE DEF new
<1>4. /\ Records' = Records \cup {a}
      /\ record'[a] = new
      /\ \A b \in Audit \ {a} : record'[b] = record[b]
  BY <1>2, <1>3 DEF Records, TypeOK
<1>5. /\ chain'[w][a] = "prepare"
      /\ \A v \in Worker, b \in Audit : v # w \/ b # a => chain'[v][b] = chain[v][b]
  BY DEF Start, Await, TypeOK
<1>6. \A v \in Worker : chain[v][a] = "idle"
  BY <1>1 DEF KnownInv
<1>7. StartInv'
  BY <1>1, <1>3, <1>4 DEF Start, StartInv, TypeOK
<1>8. DecisionInv'
  BY <1>1, <1>3, <1>4, <1>5, <1>6 DEF DecisionInv, Records
<1>9. \A b \in Audit \ {a} : Untouched(b)
  BY <1>4, <1>5 DEF Untouched, Start
<1>10. RunInvOf(a)'
  <2>1. \A v \in Worker : Authorised(v, a)'
    <3>1. turn' = turn /\ \A v \in Worker : chain'[v][a] # "run"
      BY <1>5, <1>6 DEF Start
    <3> QED
      BY <1>1, <3>1, UnknownIsIdle, Zenon DEF Authorised
  <2>2. runs'[a] = 0
    BY <1>1, UnknownIsIdle DEF Start
  <2> QED
    BY <2>1, <2>2 DEF RunInvOf
<1> QED
  BY <1>7, <1>8, <1>9, <1>10, UntouchedKeepsRun, RunInvParts

\* The worker that prepares an audit is the only one, and nobody decided it yet.
LEMMA PrepareReturnsStep ==
  ASSUME TypeOK, KnownInv, StartInv, DecisionInv, RunInv,
         NEW w \in Worker, NEW a \in Audit, PrepareReturns(w, a)
  PROVE  (StartInv /\ DecisionInv /\ RunInv)'
<1>1. a \in Records /\ chain[w][a] = "prepare"
  BY DEF PrepareReturns, Prepared, KnownInv
<1>2. /\ KeepsKeys
      /\ record'[a].approval = record[a].approval
      /\ \A b \in Audit \ {a} : record'[b] = record[b]
  BY <1>1, TransitionKeeps DEF PrepareReturns, State, Undecided
<1>3. /\ \A v \in Worker, b \in Audit : chain'[v][b] \in {chain[v][b], "idle"}
      /\ \A v \in Worker : chain'[v][a] # "prepare"
  BY <1>1 DEF PrepareReturns, Prepared, Await, TypeOK, DecisionInv
<1>4. \A b \in Audit, v \in Worker, step \in {"execute", "observe", "threw"} :
        turn'[v] = [step |-> step, audit |-> b] => turn[v] = [step |-> step, audit |-> b]
  <2>1. turn' = [turn EXCEPT ![w] = [step |-> "announce", audit |-> a]]
    BY DEF PrepareReturns, Then
  <2> QED
    BY <2>1 DEF TypeOK
<1>5. StartInv'
  BY <1>2 DEF KeepsKeys, StartInv, PrepareReturns, Prepared
<1>6. DecisionInv'
  <2>1. record[a].approval = "none"
    BY <1>1 DEF DecisionInv
  <2> QED
    BY <1>1, <1>2, <1>3, <2>1 DEF DecisionInv, KeepsKeys, Records
<1>7. \A b \in Audit : Untouched(b)
  BY <1>2, <1>3, <1>4 DEF Untouched, KeepsKeys, PrepareReturns, Prepared
<1> QED
  BY <1>5, <1>6, <1>7, UntouchedKeepsRun, RunInvParts

\* What a decision does to the record of an audit that awaits one.
LEMMA DecidedRecord ==
  ASSUME TypeOK, KnownInv, DecisionInv, NEW a \in Records, Claimable(a),
         NEW state \in {"running", "failed"}, NEW approval \in {"approved", "denied"},
         NEW error, record' = [record EXCEPT ![a] = [record[a] EXCEPT
                                 !.state = state, !.approval = approval, !.error = error]],
         error \in {record[a].error, "other"}
  PROVE  /\ KeepsKeys
         /\ record[a].approval = "none" /\ record'[a].approval = approval
         /\ record'[a].state # "awaiting_approval"
         /\ \A b \in Audit \ {a} : record'[b] = record[b]
         /\ \A v \in Worker : chain[v][a] # "prepare"
<1> DEFINE new == [record[a] EXCEPT !.state = state, !.approval = approval, !.error = error]
<1>1. a \in Audit /\ record[a] \in Record
  BY RecordIn
<1>2. new \in Record /\ new.state = state /\ new.approval = approval /\ new.key = record[a].key
  BY <1>1 DEF Record, State, Executing, Terminal
<1>3. new # None
  BY <1>2, NotNone
<1>4. record[a].approval = "none" /\ \A v \in Worker : chain[v][a] # "prepare"
  BY DEF DecisionInv, Claimable
<1>5. record' = [record EXCEPT ![a] = new]
  OBVIOUS
<1> HIDE DEF new
<1> QED
  BY <1>1, <1>2, <1>3, <1>4, <1>5 DEF TypeOK, KeepsKeys, Records

\* An approval: nobody ran the audit, and now one worker will.
LEMMA ApproveStep ==
  ASSUME TypeOK, KnownInv, StartInv, DecisionInv, RunInv,
         NEW w \in Worker, NEW a \in Audit, Approve(w, a)
  PROVE  (StartInv /\ DecisionInv /\ RunInv)'
<1>1. a \in Records /\ Claimable(a)
  BY AtStepKnown DEF Approve
<1>2. record[a] \in Record
  BY <1>1, RecordIn
<1>3. record' = [record EXCEPT ![a] = [record[a] EXCEPT
                   !.state = "running", !.approval = "approved", !.error = record[a].error]]
  BY <1>1, <1>2 DEF Approve, Record, TypeOK
<1>4. /\ KeepsKeys
      /\ record[a].approval = "none" /\ record'[a].approval = "approved"
      /\ record'[a].state # "awaiting_approval"
      /\ \A b \in Audit \ {a} : record'[b] = record[b]
      /\ \A v \in Worker : chain[v][a] # "prepare"
  BY <1>1, <1>3, DecidedRecord
<1>5. turn' = [turn EXCEPT ![w] = [step |-> "execute", audit |-> a]]
  BY DEF Approve, Then
<1>6. UNCHANGED <<chain, runs, prepares>>
  BY DEF Approve
<1>7. StartInv'
  BY <1>4, <1>6 DEF KeepsKeys, StartInv
<1>8. DecisionInv'
  BY <1>1, <1>4, <1>6 DEF DecisionInv, KeepsKeys, Records
<1>9. ASSUME NEW b \in Audit \ {a} PROVE Untouched(b)
  <2>1. ASSUME NEW v \in Worker, NEW step \in {"execute", "observe", "threw"},
               turn'[v] = [step |-> step, audit |-> b]
        PROVE  turn[v] = [step |-> step, audit |-> b]
    BY <1>5, <2>1 DEF TypeOK
  <2> QED
    BY <2>1, <1>4, <1>6 DEF Untouched, KeepsKeys
<1>10. RunInvOf(a)'
  <2>1. runs'[a] = 0
    BY <1>4, <1>6, UnapprovedIsIdle
  <2>2. \A v \in Worker : turn'[v] = [step |-> "execute", audit |-> a] => v = w
    BY <1>4, <1>5, UnapprovedIsIdle DEF TypeOK
  <2>3. \A v \in Worker : Authorised(v, a)'
    BY <1>4, <2>1, <2>2 DEF Authorised
  <2> QED
    BY <2>1, <2>3 DEF RunInvOf
<1> QED
  BY <1>7, <1>8, <1>9, <1>10, UntouchedKeepsRun, RunInvParts

\* A denial: nobody runs the audit.
LEMMA DenyStep ==
  ASSUME TypeOK, KnownInv, StartInv, DecisionInv, RunInv,
         NEW w \in Worker, NEW a \in Audit, Deny(w, a)
  PROVE  (StartInv /\ DecisionInv /\ RunInv)'
<1>1. a \in Records /\ Claimable(a)
  BY AtStepKnown DEF Deny
<1>2. record' = [record EXCEPT ![a] = [record[a] EXCEPT
                   !.state = "failed", !.approval = "denied", !.error = "other"]]
  BY DEF Deny
<1>3. /\ KeepsKeys
      /\ record[a].approval = "none"
      /\ record'[a].state # "awaiting_approval"
      /\ \A b \in Audit \ {a} : record'[b] = record[b]
      /\ \A v \in Worker : chain[v][a] # "prepare"
  BY <1>1, <1>2, DecidedRecord
<1>4. UNCHANGED <<chain, runs, prepares>>
  BY DEF Deny
<1>5. ASSUME NEW b \in Audit, NEW v \in Worker, NEW step \in {"execute", "observe", "threw"},
             turn'[v] = [step |-> step, audit |-> b]
      PROVE  turn[v] = [step |-> step, audit |-> b]
  <2>1. [step |-> step, audit |-> b] # None
    BY MeasuredAssumption DEF Turn
  <2> QED
    BY <1>5, <2>1 DEF Deny, Yield, TypeOK
<1>6. StartInv'
  BY <1>3, <1>4 DEF KeepsKeys, StartInv
<1>7. DecisionInv'
  BY <1>1, <1>3, <1>4 DEF DecisionInv, KeepsKeys, Records
<1>8. \A b \in Audit \ {a} : Untouched(b)
  BY <1>3, <1>4, <1>5 DEF Untouched, KeepsKeys
<1>9. RunInvOf(a)'
  <2>1. /\ runs'[a] = 0
        /\ \A v \in Worker :
             /\ chain'[v][a] # "run"
             /\ \A step \in {"execute", "observe", "threw"} : turn'[v] # [step |-> step, audit |-> a]
    BY <1>3, <1>4, <1>5, UnapprovedIsIdle
  <2>2. \A v \in Worker : Authorised(v, a)'
    BY <2>1, Zenon DEF Authorised
  <2> QED
    BY <2>1, <2>2 DEF RunInvOf
<1> QED
  BY <1>6, <1>7, <1>8, <1>9, UntouchedKeepsRun, RunInvParts

\* The call of run: the worker that claimed the audit is the only one, and has not
\* called it before.
LEMMA ExecuteStep ==
  ASSUME TypeOK, KnownInv, StartInv, DecisionInv, RunInv,
         NEW w \in Worker, NEW a \in Audit, Execute(w, a)
  PROVE  (StartInv /\ DecisionInv /\ RunInv)'
<1>1. a \in Records /\ turn[w] = [step |-> "execute", audit |-> a]
  BY AtStepKnown DEF Execute, AtStep
<1>2. UNCHANGED <<record, chain, prepares>>
  BY DEF Execute
<1>3. PICK step \in {"observe", "threw"} : turn' = [turn EXCEPT ![w] = [step |-> step, audit |-> a]]
  BY DEF Execute, Then
<1>4. runs' = [runs EXCEPT ![a] = runs[a] + 1]
  BY DEF Execute
<1>5. Authorised(w, a)
  BY <1>1 DEF RunInv
<1>6. record[a].approval = "approved" /\ runs[a] = 0
  <2>1. \A other \in {"execute", "observe", "threw"} :
          turn[w] = [step |-> other, audit |-> a] => record[a].approval = "approved"
    BY <1>5, Zenon DEF Authorised
  <2>2. turn[w] = [step |-> "execute", audit |-> a] => runs[a] = 0
    BY <1>5, Zenon DEF Authorised
  <2> QED
    BY <1>1, <2>1, <2>2
<1>7. \A v \in Worker : turn'[v] # [step |-> "execute", audit |-> a]
  <2>1. \A v \in Worker : turn[v] = [step |-> "execute", audit |-> a] => v = w
    BY <1>1, <1>5, Zenon DEF Authorised
  <2>2. turn'[w] # [step |-> "execute", audit |-> a]
    BY <1>3 DEF TypeOK
  <2> QED
    BY <1>3, <2>1, <2>2 DEF TypeOK
<1>8. StartInv' /\ DecisionInv'
  BY <1>2 DEF StartInv, DecisionInv, Records
<1>9. ASSUME NEW b \in Audit \ {a} PROVE Untouched(b)
  <2>1. ASSUME NEW v \in Worker, NEW other \in {"execute", "observe", "threw"},
               turn'[v] = [step |-> other, audit |-> b]
        PROVE  turn[v] = [step |-> other, audit |-> b]
    BY <1>3, <2>1 DEF TypeOK
  <2> QED
    BY <2>1, <1>2, <1>4 DEF Untouched, Records, TypeOK
<1>10. RunInvOf(a)'
  <2>1. runs'[a] = 1 /\ record'[a].approval = "approved" /\ a \in Records'
    BY <1>1, <1>2, <1>4, <1>6 DEF Records, TypeOK
  <2>2. \A v \in Worker : Authorised(v, a)'
    BY <1>7, <2>1 DEF Authorised
  <2> QED
    BY <2>1, <2>2 DEF RunInvOf
<1> QED
  BY <1>8, <1>9, <1>10, UntouchedKeepsRun, RunInvParts

\* The worker that called run awaits what comes of it.
LEMMA ObserveStep ==
  ASSUME TypeOK, KnownInv, StartInv, DecisionInv, RunInv,
         NEW w \in Worker, NEW a \in Audit, Observe(w, a)
  PROVE  (StartInv /\ DecisionInv /\ RunInv)'
<1>1. a \in Records /\ turn[w] = [step |-> "observe", audit |-> a]
  BY AtStepKnown DEF Observe, AtStep
<1>2. /\ KeepsKeys
      /\ record'[a].state # "awaiting_approval"
      /\ record'[a].approval = record[a].approval
      /\ \A b \in Audit \ {a} : record'[b] = record[b]
  BY <1>1, TransitionKeeps DEF Observe, State, Executing
<1>3. record[a].approval = "approved"
  <2>1. Authorised(w, a)
    BY <1>1 DEF RunInv
  <2>2. \A step \in {"execute", "observe", "threw"} :
          turn[w] = [step |-> step, audit |-> a] => record[a].approval = "approved"
    BY <2>1, Zenon DEF Authorised
  <2> QED
    BY <1>1, <2>2
<1>4. /\ chain' = [chain EXCEPT ![w] = [chain[w] EXCEPT ![a] = "run"]]
      /\ UNCHANGED <<runs, prepares>>
  BY DEF Observe, Await
<1>5. ASSUME NEW b \in Audit, NEW v \in Worker, NEW step \in {"execute", "observe", "threw"},
             turn'[v] = [step |-> step, audit |-> b]
      PROVE  turn[v] = [step |-> step, audit |-> b]
  <2>1. [step |-> step, audit |-> b] # None
    BY MeasuredAssumption DEF Turn
  <2> QED
    BY <1>5, <2>1 DEF Observe, Yield, TypeOK
<1>6. StartInv'
  BY <1>2, <1>4 DEF KeepsKeys, StartInv
<1>7. DecisionInv'
  <2>1. \A v \in Worker : chain[v][a] # "prepare"
    BY <1>1, <1>3 DEF DecisionInv
  <2>2. \A v \in Worker, b \in Audit : chain'[v][b] = "prepare" => chain[v][b] = "prepare"
    BY <1>4 DEF TypeOK
  <2> QED
    BY <1>1, <1>2, <2>1, <2>2 DEF DecisionInv, KeepsKeys, Records
<1>8. \A b \in Audit \ {a} : Untouched(b)
  BY <1>2, <1>4, <1>5 DEF Untouched, KeepsKeys, TypeOK
<1>9. RunInvOf(a)'
  <2>1. record'[a].approval = "approved" /\ a \in Records' /\ runs'[a] \in {0, 1}
    BY <1>1, <1>2, <1>3, <1>4 DEF KeepsKeys, RunInv
  <2>2. ASSUME NEW v \in Worker, turn'[v] = [step |-> "execute", audit |-> a]
        PROVE  /\ runs'[a] = 0
               /\ \A u \in Worker : turn'[u] = [step |-> "execute", audit |-> a] => u = v
    <3>1. \A u \in Worker : turn'[u] = [step |-> "execute", audit |-> a] =>
                            turn[u] = [step |-> "execute", audit |-> a]
      BY <1>1, <1>5
    <3>2. Authorised(v, a)
      BY <1>1 DEF RunInv
    <3> QED
      BY <1>4, <2>2, <3>1, <3>2 DEF Authorised
  <2>3. \A v \in Worker : Authorised(v, a)'
    BY <2>1, <2>2 DEF Authorised
  <2> QED
    BY <2>1, <2>3 DEF RunInvOf
<1> QED
  BY <1>6, <1>7, <1>8, <1>9, UntouchedKeepsRun, RunInvParts

-----------------------------------------------------------------------------
(* The theorems *)

\* The inductive invariant holds at first.
LEMMA InitInv == Init => IInv
<1> SUFFICES ASSUME Init PROVE IInv
  OBVIOUS
<1>1. TypeOK /\ KnownInv
  BY InitKnown
<1>2. StartInv /\ DecisionInv
  BY DEF Init, StartInv, DecisionInv, Records
<1>3. ASSUME NEW w \in Worker, NEW a \in Audit PROVE Authorised(w, a)
  <2>1. \A step \in {"execute", "observe", "threw"} : [step |-> step, audit |-> a] # None
    BY MeasuredAssumption DEF Turn
  <2>2. \A step \in {"execute", "observe", "threw"} : turn[w] # [step |-> step, audit |-> a]
    BY <2>1 DEF Init
  <2>3. chain[w][a] # "run"
    BY DEF Init
  <2> QED
    BY <2>2, <2>3, Zenon DEF Authorised
<1>4. RunInv
  BY <1>3 DEF Init, RunInv
<1> QED
  BY <1>1, <1>2, <1>4 DEF IInv

\* Every step keeps the inductive invariant.
LEMMA NextInv == IInv /\ [Next]_vars => IInv'
<1> SUFFICES ASSUME IInv, [Next]_vars PROVE IInv'
  OBVIOUS
<1>1. TypeOK /\ KnownInv /\ StartInv /\ DecisionInv /\ RunInv
  BY DEF IInv
<1>2. (TypeOK /\ KnownInv)'
  BY <1>1, NextKnown
<1>3. CASE UNCHANGED vars
  BY <1>1, <1>3 DEF vars, IInv, TypeOK, KnownInv, StartInv, DecisionInv, RunInv, Authorised, Records
<1>4. CASE QuietStep
  BY <1>1, <1>2, <1>4, QuietSteps, QuietKeeps DEF IInv
<1>5. CASE \E w \in Worker, a \in Audit :
             \/ \E k \in Key : Start(w, k, a)
             \/ PrepareReturns(w, a) \/ Approve(w, a) \/ Deny(w, a) \/ Execute(w, a) \/ Observe(w, a)
  BY <1>1, <1>2, <1>5, StartStep, PrepareReturnsStep, ApproveStep, DenyStep,
     ExecuteStep, ObserveStep DEF IInv
<1> QED
  BY <1>3, <1>4, <1>5 DEF Next, GoOn, Resume, QuietStep

\* The inductive invariant always holds.
LEMMA Invariant == Spec => []IInv
  BY InitInv, NextInv, PTL DEF Spec

\* Every variable keeps to its type.
THEOREM TypeCorrect == Spec => []TypeOK
<1>1. IInv => TypeOK
  BY DEF IInv
<1> QED
  BY <1>1, Invariant, PTL

\* Whatever the number of workers, and wherever they crash and restart, concurrent
\* decisions run the audited route at most once, on a recorded approval.
THEOREM RunsAtMostOnce == Spec => []RunsOnce
<1>1. IInv => RunsOnce
  BY DEF IInv, RunInv, RunsOnce
<1> QED
  BY <1>1, Invariant, PTL

\* Retries of a start, in whatever worker, find the one record of their key, which
\* was prepared once.
THEOREM OnePreparation == Spec => []OneAuditPerKey
<1>1. IInv => OneAuditPerKey
  BY DEF IInv, StartInv, OneAuditPerKey
<1> QED
  BY <1>1, Invariant, PTL

-----------------------------------------------------------------------------
(* One worker *)

\* One server runs on the repository, with any number of crashes and restarts.
Sole == \A v, w \in Worker : v = w

Steps == {"announce", "approve", "deny", "execute", "observe", "threw"}
Doing(w, a, step) == turn[w] = [step |-> step, audit |-> a]

\* SoleInv, audit by audit.
FitsAt(b) ==
  /\ ApprovalFits(b)
  /\ \A w \in Worker : /\ WorkFits(w, b)
                       /\ w \in up /\ b \in Records => AttendedBy(w, b)

\* A turn is for one audit and one step.
LEMMA TurnIsOne ==
  /\ \A s, t \in Steps, a, b \in Audit :
       [step |-> s, audit |-> a] = [step |-> t, audit |-> b] => s = t /\ a = b
  /\ \A s \in Steps, a \in Audit : [step |-> s, audit |-> a] # None
<1>1. ASSUME NEW s \in Steps, NEW t \in Steps, NEW a \in Audit, NEW b \in Audit,
             [step |-> s, audit |-> a] = [step |-> t, audit |-> b]
      PROVE  s = t /\ a = b
  <2>1. /\ [step |-> s, audit |-> a].step = [step |-> t, audit |-> b].step
        /\ [step |-> s, audit |-> a].audit = [step |-> t, audit |-> b].audit
    BY <1>1
  <2> QED
    BY <2>1
<1>2. \A s \in Steps, a \in Audit : [step |-> s, audit |-> a] \in Turn
  BY DEF Turn, Steps
<1> QED
  BY <1>1, <1>2, MeasuredAssumption

\* A step of the worker for one audit leaves the others to themselves.
TouchesOnly(w, a) ==
  /\ w \in up /\ up' = up
  /\ \A b \in Audit \ {a} :
       /\ record'[b] = record[b]
       /\ chain'[w][b] = chain[w][b]
       /\ b \in decidable[w] => b \in decidable'[w]
       /\ b \in dropped => b \in dropped'
  /\ turn[w] = None \/ \E s \in Steps : Doing(w, a, s)
  /\ turn'[w] = None \/ \E s \in Steps : Doing(w, a, s)'

\* What touches one audit of a sole worker leaves the others as they fit.
LEMMA OthersFit ==
  ASSUME Sole, SoleInv, NEW w \in Worker, NEW a \in Audit, TouchesOnly(w, a),
         NEW b \in Audit \ {a}
  PROVE  FitsAt(b)'
<1>1. FitsAt(b)
  BY DEF SoleInv, FitsAt
<1>2. /\ record'[b] = record[b] /\ w \in up /\ up' = up
      /\ chain'[w][b] = chain[w][b]
      /\ b \in decidable[w] => b \in decidable'[w]
      /\ b \in dropped => b \in dropped'
      /\ b \in Records' <=> b \in Records
  BY DEF TouchesOnly, Records
<1>3. \A s \in Steps : ~Doing(w, b, s) /\ ~Doing(w, b, s)'
  <2>1. \A s, t \in Steps : /\ Doing(w, a, t) => ~Doing(w, b, s)
                            /\ Doing(w, a, t)' => ~Doing(w, b, s)'
    BY TurnIsOne DEF Doing
  <2>2. \A s \in Steps : /\ turn[w] = None => ~Doing(w, b, s)
                         /\ turn'[w] = None => ~Doing(w, b, s)'
    BY TurnIsOne DEF Doing
  <2> QED
    BY <2>1, <2>2 DEF TouchesOnly
<1>4. ApprovalFits(b)'
  BY <1>1, <1>2 DEF FitsAt, ApprovalFits
<1>5. ASSUME NEW v \in Worker
      PROVE  WorkFits(v, b)'
  <2>1. v = w
    BY DEF Sole
  <2>2. /\ chain'[w][b] = "prepare" => record'[b].state = "preparing"
        /\ chain'[w][b] = "run" => record'[b].state = "waiting_for_effects"
    BY <1>1, <1>2 DEF FitsAt, WorkFits
  <2>3. \A s \in Steps : turn'[w] # [step |-> s, audit |-> b]
    BY <1>3 DEF Doing
  <2> QED
    BY <1>2, <2>1, <2>2, <2>3 DEF WorkFits, Steps
<1>6. ASSUME NEW v \in Worker, v \in up', b \in Records'
      PROVE  AttendedBy(v, b)'
  <2>1. v = w
    BY DEF Sole
  <2>2. AttendedBy(w, b)
    BY <1>1, <1>2, <1>6, <2>1 DEF FitsAt
  <2> QED
    BY <1>2, <1>3, <2>1, <2>2 DEF AttendedBy, Awaited, Steps, Doing
<1> QED
  BY <1>4, <1>5, <1>6 DEF FitsAt

\* A worker's step moves the record of one audit at most, along its life.
StateMove(a) ==
  /\ a \in Records /\ Records' = Records
  /\ \A b \in Audit \ {a} : record'[b] = record[b]
  /\ runs' = runs
  /\ \/ record'[a] = record[a]
     \/ record[a].state \in Undecided /\ record'[a].state \in Undecided \cup Executing
     \/ /\ record[a].state \in Undecided /\ record'[a].state \in Terminal
        /\ record'[a].approval # "approved"
     \/ record[a].state \in Executing /\ record'[a].state \in Executing
     \/ /\ record[a].state \in Executing /\ record'[a].state \in Terminal
        /\ record'[a].approval = "approved"

TerminalKept == \A a \in Records : record[a].state \in Terminal => record'[a] = record[a]
Implemented == TerminalKept /\ [Authority!Next]_(Authority!vars)

\* The states of one kind are of no other.
LEMMA StateKinds ==
  \A s : /\ s \in Undecided => s \notin Executing \cup Terminal
         /\ s \in Executing => s \notin Undecided \cup Terminal
BY DEF Undecided, Executing, Terminal

\* The phase of an audit, kind by kind.
LEMMA PhaseOf ==
  ASSUME NEW a \in Audit
  PROVE  /\ a \notin Records => Phase(a) = "new"
         /\ a \in Records /\ record[a].state \in Undecided => Phase(a) = "waiting"
         /\ a \in Records /\ record[a].state \in Executing => Phase(a) = "authorised"
         /\ a \in Records /\ record[a].state \notin Undecided \cup Executing =>
              Phase(a) = IF record[a].approval = "approved" THEN "closed" ELSE "refused"
BY StateKinds DEF Phase

\* The phase of an audit after a step, by the state of its record.
LEMMA PhaseOfNext ==
  ASSUME NEW a \in Audit
  PROVE  /\ a \notin Records' => Phase(a)' = "new"
         /\ a \in Records' /\ record'[a].state \in Undecided => Phase(a)' = "waiting"
         /\ a \in Records' /\ record'[a].state \in Executing => Phase(a)' = "authorised"
         /\ a \in Records' /\ record'[a].state \notin Undecided \cup Executing =>
              Phase(a)' = IF record'[a].approval = "approved" THEN "closed" ELSE "refused"
BY StateKinds DEF Phase

\* An audit whose record stays is in the phase it was in.
LEMMA SamePhase ==
  ASSUME NEW a \in Audit, record'[a] = record[a], a \in Records' <=> a \in Records
  PROVE  Phase(a)' = Phase(a)
BY PhaseOf, PhaseOfNext

\* A move of one record's state is a step of the authority or none.
LEMMA MoveImplements ==
  ASSUME NEW a \in Audit, StateMove(a) PROVE Implemented
<1>1. /\ a \in Records /\ a \in Records'
      /\ Records' = Records /\ runs' = runs
      /\ \A b \in Audit \ {a} : record'[b] = record[b] /\ Phase(b)' = Phase(b)
  BY SamePhase DEF StateMove
<1>2. TerminalKept
  BY <1>1, StateKinds DEF StateMove, TerminalKept, Records
<1>3. CASE Phase(a)' = Phase(a)
  <2>1. \A b \in Audit : Phase(b)' = Phase(b)
    BY <1>1, <1>3
  <2> QED
    BY <1>1, <1>2, <2>1 DEF Implemented, Authority!vars
<1>4. CASE Phase(a) = "waiting" /\ Phase(a)' = "refused"
  <2>1. Authority!Settle({a}, {})
    BY <1>1, <1>4 DEF Authority!Settle
  <2> QED
    BY <1>2, <2>1, {a} \in SUBSET Audit, {} \in SUBSET Audit DEF Implemented, Authority!Next
<1>5. CASE Phase(a) = "waiting" /\ Phase(a)' = "authorised"
  <2>1. Authority!Authorise(a)
    BY <1>1, <1>5 DEF Authority!Authorise
  <2> QED
    BY <1>2, <2>1 DEF Implemented, Authority!Next
<1>6. CASE Phase(a) = "authorised" /\ Phase(a)' = "closed"
  <2>1. Authority!Settle({}, {a})
    BY <1>1, <1>6 DEF Authority!Settle
  <2> QED
    BY <1>2, <2>1, {a} \in SUBSET Audit, {} \in SUBSET Audit DEF Implemented, Authority!Next
<1>7. \/ Phase(a)' = Phase(a)
      \/ Phase(a) = "waiting" /\ Phase(a)' \in {"refused", "authorised"}
      \/ Phase(a) = "authorised" /\ Phase(a)' = "closed"
  <2>1. CASE record'[a] = record[a]
    BY <1>1, <2>1, SamePhase
  <2>2. CASE record[a].state \in Undecided /\ record'[a].state \in Undecided \cup Executing
    BY <1>1, <2>2, PhaseOf, PhaseOfNext
  <2>3. CASE /\ record[a].state \in Undecided /\ record'[a].state \in Terminal
             /\ record'[a].approval # "approved"
    BY <1>1, <2>3, PhaseOf, PhaseOfNext, StateKinds
  <2>4. CASE record[a].state \in Executing /\ record'[a].state \in Executing
    BY <1>1, <2>4, PhaseOf, PhaseOfNext
  <2>5. CASE /\ record[a].state \in Executing /\ record'[a].state \in Terminal
             /\ record'[a].approval = "approved"
    BY <1>1, <2>5, PhaseOf, PhaseOfNext, StateKinds
  <2> QED
    BY <2>1, <2>2, <2>3, <2>4, <2>5 DEF StateMove
<1> QED
  BY <1>3, <1>4, <1>5, <1>6, <1>7

-----------------------------------------------------------------------------
(* What the one worker does for an audit *)

\* The invariants, before a step and, for the ones proved already, after it.
SoleHyp == Sole /\ IInv /\ IInv' /\ SoleInv

Progress(w, a) == TouchesOnly(w, a) /\ FitsAt(a)' /\ Implemented

\* Once its turn is over, what the worker awaits has to fit.
LEMMA IdleFits ==
  ASSUME Sole, NEW w \in Worker, NEW a \in Audit, w \in up', turn'[w] = None,
         ApprovalFits(a)',
         chain'[w][a] = "prepare" => record'[a].state = "preparing",
         chain'[w][a] = "run" => record'[a].state = "waiting_for_effects",
         a \in dropped' \/ Awaited(w, a)'
  PROVE  FitsAt(a)'
<1>1. \A s \in Steps : turn'[w] # [step |-> s, audit |-> a]
  BY TurnIsOne
<1>2. WorkFits(w, a)' /\ AttendedBy(w, a)'
  BY <1>1 DEF WorkFits, AttendedBy, Steps
<1> QED
  BY <1>2 DEF FitsAt, Sole

\* During its turn, the step has to fit as well.
LEMMA BusyFits ==
  ASSUME Sole, NEW w \in Worker, NEW a \in Audit, w \in up', ApprovalFits(a)',
         chain'[w][a] = "prepare" => record'[a].state = "preparing",
         chain'[w][a] = "run" => record'[a].state = "waiting_for_effects",
         NEW s \in Steps, turn'[w] = [step |-> s, audit |-> a],
         s = "announce" => record'[a].state = "awaiting_approval",
         s \in {"execute", "observe", "threw"} => record'[a].state = "running",
         s \in {"approve", "deny"} => a \in dropped' \/ Awaited(w, a)'
  PROVE  FitsAt(a)'
<1>1. \A t \in Steps : turn'[w] = [step |-> t, audit |-> a] => t = s
  BY TurnIsOne
<1>2. WorkFits(w, a)'
  BY <1>1 DEF WorkFits, Steps
<1>3. AttendedBy(w, a)'
  BY DEF AttendedBy, Steps
<1> QED
  BY <1>2, <1>3 DEF FitsAt, Sole

\* A terminal record needs nobody.
LEMMA TerminalFits ==
  ASSUME Sole, NEW w \in Worker, NEW a \in Audit, w \in up', turn'[w] = None,
         chain'[w][a] = "idle", record'[a].state \in Terminal
  PROVE  FitsAt(a)'
<1>1. ApprovalFits(a)' /\ Awaited(w, a)'
  BY StateKinds DEF ApprovalFits, Awaited, Terminal, Undecided, Executing
<1> QED
  BY <1>1, IdleFits

\* What is known of the audit a step is for.
LEMMA SoleFacts ==
  ASSUME SoleHyp, NEW w \in Worker, NEW a \in Audit
  PROVE  /\ TypeOK /\ TypeOK' /\ Sole
         /\ ApprovalFits(a) /\ WorkFits(w, a)
         /\ w \in up /\ a \in Records => AttendedBy(w, a)
         /\ turn[w] # None => turn[w].audit \in Records
         /\ chain[w][a] # "idle" => a \in Records
         /\ decidable[w] \subseteq Records
         /\ a \in Records => record[a] \in Record
BY RecordIn DEF SoleHyp, IInv, SoleInv, KnownInv

\* A turn that is at a step is at no other.
LEMMA AtStepFacts ==
  ASSUME SoleHyp, NEW w \in Worker, NEW a \in Audit, NEW s \in Steps, AtStep(w, a, s)
  PROVE  /\ w \in up /\ a \in Records /\ Doing(w, a, s)
         /\ \A t \in Steps : Doing(w, a, t) => t = s
<1>1. w \in up /\ Doing(w, a, s)
  BY DEF AtStep, Doing
<1>2. a \in Records
  BY AtStepKnown DEF SoleHyp, IInv, Steps
<1> QED
  BY <1>1, <1>2, TurnIsOne DEF Doing

\* prepare settles.
LEMMA PreparedFacts ==
  ASSUME SoleHyp, NEW w \in Worker, NEW a \in Audit, Prepared(w, a)
  PROVE  /\ w \in up /\ up' = up /\ turn[w] = None /\ a \in Records
         /\ record[a].state = "preparing" /\ record[a].approval = "none"
         /\ chain'[w][a] = "idle" /\ \A b \in Audit \ {a} : chain'[w][b] = chain[w][b]
         /\ decidable' = decidable /\ runs' = runs
<1>1. chain[w][a] = "prepare" /\ w \in up /\ turn[w] = None
  BY DEF Prepared, Yielding
<1>2. a \in Records /\ record[a].state = "preparing"
  BY <1>1, SoleFacts DEF WorkFits
<1>3. record[a].approval = "none"
  BY <1>2, SoleFacts DEF ApprovalFits, Undecided
<1>4. chain'[w][a] = "idle" /\ \A b \in Audit \ {a} : chain'[w][b] = chain[w][b]
  BY SoleFacts DEF Prepared, Await, TypeOK
<1> QED
  BY <1>1, <1>2, <1>3, <1>4 DEF Prepared

\* A preparation fails: the invariant is kept, and the authority follows.
LEMMA PrepareFailsProgress ==
  ASSUME SoleHyp, NEW w \in Worker, NEW a \in Audit, PrepareFails(w, a)
  PROVE  Progress(w, a)
<1>1. Prepared(w, a) /\ Transition(a, "failed", "other") /\ turn' = turn /\ dropped' = dropped
  BY DEF PrepareFails
<1>2. /\ w \in up /\ up' = up /\ turn[w] = None /\ a \in Records
      /\ record[a].state = "preparing" /\ record[a].approval = "none"
      /\ chain'[w][a] = "idle" /\ \A b \in Audit \ {a} : chain'[w][b] = chain[w][b]
      /\ decidable' = decidable /\ runs' = runs
  BY <1>1, PreparedFacts
<1>3. /\ KeepsKeys /\ record'[a].state = "failed" /\ record'[a].approval = record[a].approval
      /\ \A b \in Audit \ {a} : record'[b] = record[b]
  BY <1>1, <1>2, SoleFacts, TransitionKeeps DEF State, Terminal
<1>4. TouchesOnly(w, a)
  BY <1>1, <1>2, <1>3 DEF TouchesOnly
<1>5. FitsAt(a)'
  BY <1>1, <1>2, <1>3, SoleFacts, TerminalFits DEF Terminal
<1>6. StateMove(a)
  BY <1>2, <1>3 DEF StateMove, KeepsKeys, Undecided, Terminal
<1> QED
  BY <1>4, <1>5, <1>6, MoveImplements DEF Progress

\* A preparation returns: the invariant is kept, and the authority follows.
LEMMA PrepareReturnsProgress ==
  ASSUME SoleHyp, NEW w \in Worker, NEW a \in Audit, PrepareReturns(w, a)
  PROVE  Progress(w, a)
<1>1. /\ Prepared(w, a) /\ Transition(a, "awaiting_approval", "none") /\ dropped' = dropped
      /\ turn' = [turn EXCEPT ![w] = [step |-> "announce", audit |-> a]]
  BY DEF PrepareReturns, Then
<1>2. /\ w \in up /\ up' = up /\ turn[w] = None /\ a \in Records
      /\ record[a].state = "preparing" /\ record[a].approval = "none"
      /\ chain'[w][a] = "idle" /\ \A b \in Audit \ {a} : chain'[w][b] = chain[w][b]
      /\ decidable' = decidable /\ runs' = runs
  BY <1>1, PreparedFacts
<1>3. /\ KeepsKeys /\ record'[a].state = "awaiting_approval"
      /\ record'[a].approval = record[a].approval
      /\ \A b \in Audit \ {a} : record'[b] = record[b]
  BY <1>1, <1>2, SoleFacts, TransitionKeeps DEF State, Undecided
<1>4. turn'[w] = [step |-> "announce", audit |-> a]
  BY <1>1, SoleFacts DEF TypeOK
<1>5. TouchesOnly(w, a)
  BY <1>1, <1>2, <1>3, <1>4 DEF TouchesOnly, Doing, Steps
<1>6. ApprovalFits(a)'
  BY <1>2, <1>3 DEF ApprovalFits, Executing
<1>7. FitsAt(a)'
  BY <1>2, <1>3, <1>4, <1>6, SoleFacts, BusyFits DEF Steps
<1>8. StateMove(a)
  BY <1>2, <1>3 DEF StateMove, KeepsKeys, Undecided
<1> QED
  BY <1>5, <1>7, <1>8, MoveImplements DEF Progress

\* A preparation's outcome is not recorded: the invariant is kept, and the authority follows.
LEMMA PrepareUnrecordedProgress ==
  ASSUME SoleHyp, NEW w \in Worker, NEW a \in Audit, PrepareUnrecorded(w, a)
  PROVE  Progress(w, a)
<1>1. Prepared(w, a) /\ record' = record /\ turn' = turn /\ dropped' = dropped \cup {a}
  BY DEF PrepareUnrecorded
<1>2. /\ w \in up /\ up' = up /\ turn[w] = None /\ a \in Records
      /\ record[a].state = "preparing" /\ record[a].approval = "none"
      /\ chain'[w][a] = "idle" /\ \A b \in Audit \ {a} : chain'[w][b] = chain[w][b]
      /\ decidable' = decidable /\ runs' = runs
  BY <1>1, PreparedFacts
<1>3. TouchesOnly(w, a)
  BY <1>1, <1>2 DEF TouchesOnly
<1>4. ApprovalFits(a)'
  BY <1>1, <1>2 DEF ApprovalFits, Executing
<1>5. FitsAt(a)'
  BY <1>1, <1>2, <1>4, SoleFacts, IdleFits
<1>6. StateMove(a)
  BY <1>1, <1>2 DEF StateMove, Records
<1> QED
  BY <1>3, <1>5, <1>6, MoveImplements DEF Progress

\* The expiry of an audit that awaits its decision, or nothing.
LEMMA ExpiryFacts ==
  ASSUME SoleHyp, NEW w \in Worker, NEW a \in Records, ExpirePending(a), runs' = runs
  PROVE  /\ StateMove(a)
         /\ \/ record'[a] = record[a]
            \/ record[a].state = "awaiting_approval" /\ record'[a].state = "expired"
         /\ ApprovalFits(a)'
         /\ \A b \in Audit \ {a} : record'[b] = record[b]
         /\ Records' = Records /\ a \in Audit
<1>1. /\ KeepsKeys /\ record'[a].approval = record[a].approval
      /\ \A b \in Audit \ {a} : record'[b] = record[b]
      /\ a \in Audit
  BY ExpirePendingKeeps, RecordIn, SoleFacts DEF SoleHyp, IInv
<1>2. \/ record'[a] = record[a]
      \/ record[a].state = "awaiting_approval" /\ record'[a].state = "expired"
  <2>1. CASE Expiring(a)
    <3>1. Transition(a, "expired", "other") /\ record[a].state = "awaiting_approval"
      BY <2>1 DEF ExpirePending, Expiring
    <3> QED
      BY <3>1, TransitionKeeps DEF SoleHyp, IInv, State, Terminal
  <2>2. CASE ~Expiring(a)
    BY <2>2 DEF ExpirePending
  <2> QED
    BY <2>1, <2>2
<1>3. ApprovalFits(a)
  BY <1>1 DEF SoleHyp, SoleInv
<1>4. StateMove(a)
  BY <1>1, <1>2, <1>3 DEF StateMove, KeepsKeys, ApprovalFits, Undecided, Terminal
<1>5. ApprovalFits(a)'
  BY <1>1, <1>2, <1>3, StateKinds DEF ApprovalFits, KeepsKeys, Terminal
<1> QED
  BY <1>1, <1>2, <1>4, <1>5 DEF KeepsKeys

\* After it, what the worker awaited still fits.
LEMMA ExpiryChain ==
  ASSUME SoleHyp, NEW w \in Worker, NEW a \in Records, chain' = chain,
         \/ record'[a] = record[a]
         \/ record[a].state = "awaiting_approval" /\ record'[a].state = "expired"
  PROVE  /\ chain'[w][a] = "prepare" => record'[a].state = "preparing"
         /\ chain'[w][a] = "run" => record'[a].state = "waiting_for_effects"
         /\ Awaited(w, a) /\ decidable[w] \subseteq decidable'[w] => Awaited(w, a)'
<1>1. a \in Audit
  BY DEF Records
<1>2. WorkFits(w, a)
  BY <1>1, SoleFacts
<1>3. /\ chain'[w][a] = "prepare" => record'[a].state = "preparing"
      /\ chain'[w][a] = "run" => record'[a].state = "waiting_for_effects"
  BY <1>2 DEF WorkFits
<1>4. Awaited(w, a) /\ decidable[w] \subseteq decidable'[w] => Awaited(w, a)'
  BY StateKinds DEF Awaited, Terminal
<1> QED
  BY <1>3, <1>4

\* A poll may expire the audit: the invariant is kept, and the authority follows.
LEMMA PollProgress ==
  ASSUME SoleHyp, NEW w \in Worker, NEW a \in Audit, Poll(w, a)
  PROVE  Progress(w, a)
<1>1. /\ a \in Records /\ ExpirePending(a) /\ w \in up /\ turn[w] = None
      /\ UNCHANGED <<up, chain, decidable, turn, dropped, runs>>
  BY DEF Poll, Yielding, Expiring
<1>2. /\ StateMove(a) /\ ApprovalFits(a)'
      /\ \/ record'[a] = record[a]
         \/ record[a].state = "awaiting_approval" /\ record'[a].state = "expired"
      /\ \A b \in Audit \ {a} : record'[b] = record[b]
  BY <1>1, ExpiryFacts
<1>3. a \in dropped \/ Awaited(w, a)
  <2>1. AttendedBy(w, a) /\ \A s \in Steps : turn[w] # [step |-> s, audit |-> a]
    BY <1>1, SoleFacts, TurnIsOne
  <2> QED
    BY <2>1 DEF AttendedBy, Steps
<1>4. FitsAt(a)'
  BY <1>1, <1>2, <1>3, ExpiryChain, IdleFits, SoleFacts
<1>5. TouchesOnly(w, a)
  BY <1>1, <1>2 DEF TouchesOnly
<1> QED
  BY <1>2, <1>4, <1>5, MoveImplements DEF Progress

\* A decision begins a turn: the invariant is kept, and the authority follows.
LEMMA DecideProgress ==
  ASSUME SoleHyp, NEW w \in Worker, NEW a \in Audit, NEW decision \in {"approve", "deny"},
         Decide(w, a, decision)
  PROVE  Progress(w, a)
<1>1. /\ a \in Records /\ ExpirePending(a) /\ w \in up /\ turn[w] = None
      /\ UNCHANGED <<up, chain, decidable, dropped, runs>>
      /\ turn'[w] = [step |-> decision, audit |-> a]
  BY SoleFacts DEF Decide, Yielding, Then, TypeOK
<1>2. /\ StateMove(a) /\ ApprovalFits(a)'
      /\ \/ record'[a] = record[a]
         \/ record[a].state = "awaiting_approval" /\ record'[a].state = "expired"
      /\ \A b \in Audit \ {a} : record'[b] = record[b]
  BY <1>1, ExpiryFacts
<1>3. a \in dropped \/ Awaited(w, a)
  <2>1. AttendedBy(w, a) /\ \A s \in Steps : turn[w] # [step |-> s, audit |-> a]
    BY <1>1, SoleFacts, TurnIsOne
  <2> QED
    BY <2>1 DEF AttendedBy, Steps
<1>4. FitsAt(a)'
  BY <1>1, <1>2, <1>3, ExpiryChain, BusyFits, SoleFacts DEF Steps
<1>5. TouchesOnly(w, a)
  BY <1>1, <1>2 DEF TouchesOnly, Doing, Steps
<1> QED
  BY <1>2, <1>4, <1>5, MoveImplements DEF Progress

\* A turn ends.
LEMMA YieldFacts ==
  ASSUME SoleHyp, NEW w \in Worker, Yield(w) PROVE turn'[w] = None
BY SoleFacts DEF Yield, SoleHyp, IInv, TypeOK

\* The audit becomes decidable: the invariant is kept, and the authority follows.
LEMMA AnnounceProgress ==
  ASSUME SoleHyp, NEW w \in Worker, NEW a \in Audit, Announce(w, a)
  PROVE  Progress(w, a)
<1>1. /\ a \in Records /\ ExpirePending(a) /\ w \in up /\ Doing(w, a, "announce")
      /\ UNCHANGED <<up, chain, dropped, runs>> /\ turn'[w] = None
      /\ decidable' = IF record'[a].state = "awaiting_approval"
                      THEN [decidable EXCEPT ![w] = decidable[w] \cup {a}] ELSE decidable
  BY AtStepFacts, YieldFacts DEF Announce, Steps
<1>2. /\ StateMove(a) /\ ApprovalFits(a)'
      /\ \/ record'[a] = record[a]
         \/ record[a].state = "awaiting_approval" /\ record'[a].state = "expired"
      /\ \A b \in Audit \ {a} : record'[b] = record[b]
  BY <1>1, ExpiryFacts
<1>3. record[a].state = "awaiting_approval"
  <2>1. turn[w] = [step |-> "announce", audit |-> a]
    BY <1>1 DEF Doing
  <2>2. WorkFits(w, a)
    BY SoleFacts
  <2>3. turn[w] = [step |-> "announce", audit |-> a] => record[a].state = "awaiting_approval"
    BY <2>2 DEF WorkFits
  <2> QED BY <2>1, <2>3
<1>4. decidable[w] \subseteq decidable'[w]
  BY <1>1, SoleFacts DEF TypeOK
<1>5. Awaited(w, a)'
  BY <1>1, <1>2, <1>3, SoleFacts DEF Awaited, Executing, TypeOK
<1>6. FitsAt(a)'
  BY <1>1, <1>2, <1>5, ExpiryChain, IdleFits, SoleFacts
<1>7. TouchesOnly(w, a)
  BY <1>1, <1>2, <1>4 DEF TouchesOnly, Steps
<1> QED
  BY <1>2, <1>6, <1>7, MoveImplements DEF Progress

\* A decision finds nothing to decide: the invariant is kept, and the authority follows.
LEMMA DecideInVainProgress ==
  ASSUME SoleHyp, NEW w \in Worker, NEW a \in Audit, DecideInVain(w, a)
  PROVE  Progress(w, a)
<1>1. PICK s \in {"approve", "deny"} : AtStep(w, a, s)
  BY DEF DecideInVain
<1>2. /\ a \in Records /\ w \in up /\ Doing(w, a, s) /\ turn'[w] = None
      /\ UNCHANGED <<record, up, chain, decidable, dropped, runs>>
      /\ \A t \in Steps : Doing(w, a, t) => t = s
  BY <1>1, AtStepFacts, YieldFacts DEF DecideInVain, Steps
<1>3. a \in dropped \/ Awaited(w, a)
  BY <1>2, SoleFacts DEF AttendedBy, Doing, Steps
<1>4. FitsAt(a)'
  <2>1. ApprovalFits(a)' /\ (Awaited(w, a) => Awaited(w, a)')
    BY <1>2, SoleFacts DEF ApprovalFits, Awaited, Records
  <2> QED
    BY <1>2, <1>3, <2>1, ExpiryChain, IdleFits, SoleFacts
<1>5. StateMove(a)
  BY <1>2 DEF StateMove, Records
<1>6. TouchesOnly(w, a)
  BY <1>2 DEF TouchesOnly, Steps
<1> QED
  BY <1>4, <1>5, <1>6, MoveImplements DEF Progress

\* Nobody prepares or runs an audit that awaits its decision.
LEMMA WaitingIsIdle ==
  ASSUME SoleHyp, NEW w \in Worker, NEW a \in Audit, record[a].state = "awaiting_approval"
  PROVE  chain[w][a] = "idle"
<1>1. WorkFits(w, a) /\ TypeOK
  BY SoleFacts
<1> QED
  BY <1>1 DEF WorkFits, TypeOK

\* The record of an audit that awaits its decision when the decision comes.
Decided(a, new) == Claimable(a) /\ record' = [record EXCEPT ![a] = new]

\* A decision finds an undecided record and no promise of its run.
LEMMA DecisionFacts ==
  ASSUME SoleHyp, NEW w \in Worker, NEW a \in Records, NEW new \in Record, Decided(a, new)
  PROVE  /\ Records' = Records /\ \A b \in Audit \ {a} : record'[b] = record[b]
         /\ record[a].state = "awaiting_approval" /\ record[a].approval = "none"
         /\ record'[a] = new
         /\ chain[w][a] = "idle"
<1>1. record[a].state = "awaiting_approval" /\ a \in Audit
  BY DEF Decided, Claimable, Records
<1>2. chain[w][a] = "idle" /\ record[a].approval = "none"
  BY <1>1, WaitingIsIdle, SoleFacts DEF ApprovalFits, Undecided
<1>3. record \in [Audit -> Record \cup {None}] /\ new # None
  BY NotNone DEF SoleHyp, IInv, TypeOK
<1>4. record'[a] = new /\ \A b \in Audit \ {a} : record'[b] = record[b]
  BY <1>1, <1>3 DEF Decided
<1>5. Records' = Records
  BY <1>3, <1>4 DEF Records
<1> QED
  BY <1>1, <1>2, <1>4, <1>5

\* A human approves: the invariant is kept, and the authority follows.
LEMMA ApproveProgress ==
  ASSUME SoleHyp, NEW w \in Worker, NEW a \in Audit, Approve(w, a)
  PROVE  Progress(w, a)
<1>1. /\ a \in Records /\ w \in up /\ Doing(w, a, "approve") /\ Claimable(a)
      /\ UNCHANGED <<up, chain, decidable, dropped, runs>>
      /\ turn'[w] = [step |-> "execute", audit |-> a]
  BY AtStepFacts, SoleFacts DEF Approve, Steps, Then, TypeOK
<1> DEFINE new == [record[a] EXCEPT !.state = "running", !.approval = "approved"]
<1>2. /\ new \in Record /\ new.state = "running" /\ new.approval = "approved"
      /\ record' = [record EXCEPT ![a] = new]
  <2>1. record[a] \in Record
    BY <1>1, SoleFacts
  <2> QED
    BY <1>1, <2>1, SoleFacts DEF Approve, Record, State, Executing, TypeOK
<1> HIDE DEF new
<1>3. /\ Records' = Records /\ \A b \in Audit \ {a} : record'[b] = record[b]
      /\ record[a].state = "awaiting_approval"
      /\ record'[a].state = "running" /\ record'[a].approval = "approved"
      /\ chain[w][a] = "idle"
  <2>1. Decided(a, new)
    BY <1>1, <1>2 DEF Decided
  <2> QED
    BY <1>1, <1>2, <2>1, DecisionFacts
<1>4. ApprovalFits(a)'
  BY <1>3 DEF ApprovalFits, Undecided
<1>5. FitsAt(a)'
  BY <1>1, <1>3, <1>4, SoleFacts, BusyFits DEF Steps
<1>6. StateMove(a)
  BY <1>1, <1>3 DEF StateMove, Undecided, Executing
<1>7. TouchesOnly(w, a)
  BY <1>1, <1>3 DEF TouchesOnly, Doing, Steps
<1> QED
  BY <1>5, <1>6, <1>7, MoveImplements DEF Progress

\* A human denies: the invariant is kept, and the authority follows.
LEMMA DenyProgress ==
  ASSUME SoleHyp, NEW w \in Worker, NEW a \in Audit, Deny(w, a)
  PROVE  Progress(w, a)
<1>1. /\ a \in Records /\ w \in up /\ Doing(w, a, "deny") /\ Claimable(a)
      /\ UNCHANGED <<up, chain, decidable, dropped, runs>>
      /\ turn'[w] = None
  BY AtStepFacts, YieldFacts DEF Deny, Steps
<1> DEFINE new == [record[a] EXCEPT !.state = "failed", !.approval = "denied", !.error = "other"]
<1>0. /\ new \in Record /\ new.state = "failed" /\ new.approval = "denied"
      /\ record' = [record EXCEPT ![a] = new]
  <2>1. record[a] \in Record
    BY <1>1, SoleFacts
  <2> QED
    BY <1>1, <2>1, SoleFacts DEF Deny, Record, State, Terminal, TypeOK
<1> HIDE DEF new
<1>2. /\ Records' = Records /\ \A b \in Audit \ {a} : record'[b] = record[b]
      /\ record[a].state = "awaiting_approval"
      /\ record'[a].state = "failed" /\ record'[a].approval = "denied"
      /\ chain[w][a] = "idle"
  <2>1. Decided(a, new)
    BY <1>0, <1>1 DEF Decided
  <2> QED
    BY <1>0, <1>1, <2>1, DecisionFacts
<1>3. FitsAt(a)'
  BY <1>1, <1>2, SoleFacts, TerminalFits DEF Terminal
<1>4. StateMove(a)
  BY <1>1, <1>2 DEF StateMove, Undecided, Terminal
<1>5. TouchesOnly(w, a)
  BY <1>1, <1>2 DEF TouchesOnly, Steps
<1> QED
  BY <1>3, <1>4, <1>5, MoveImplements DEF Progress

\* An audit that the worker runs: it is running, on an approval.
LEMMA RunningFacts ==
  ASSUME SoleHyp, NEW w \in Worker, NEW a \in Audit, NEW s \in {"execute", "observe", "threw"},
         AtStep(w, a, s)
  PROVE  /\ a \in Records /\ w \in up /\ Doing(w, a, s)
         /\ record[a].state = "running" /\ record[a].approval = "approved"
         /\ chain[w][a] = "idle"
<1>1. a \in Records /\ w \in up /\ Doing(w, a, s)
  BY AtStepFacts DEF Steps
<1>2. WorkFits(w, a) /\ ApprovalFits(a) /\ TypeOK
  BY SoleFacts
<1>3. record[a].state = "running"
  BY <1>1, <1>2 DEF WorkFits, Doing
<1>4. chain[w][a] = "idle"
  BY <1>2, <1>3 DEF WorkFits, TypeOK
<1> QED
  BY <1>1, <1>2, <1>3, <1>4 DEF ApprovalFits, Executing

\* The run is called: the invariant is kept, and the authority follows.
LEMMA ExecuteProgress ==
  ASSUME SoleHyp, NEW w \in Worker, NEW a \in Audit, Execute(w, a)
  PROVE  Progress(w, a)
<1>1. /\ a \in Records /\ w \in up /\ Doing(w, a, "execute")
      /\ record[a].state = "running" /\ record[a].approval = "approved"
      /\ chain[w][a] = "idle"
  BY RunningFacts DEF Execute
<1>2. PICK s \in {"observe", "threw"} : turn'[w] = [step |-> s, audit |-> a]
  BY SoleFacts DEF Execute, Then, TypeOK
<1>3. UNCHANGED <<record, up, chain, decidable, dropped>> /\ Records' = Records
  BY DEF Execute, Records
<1>4. runs[a] = 0
  <2>1. Authorised(w, a)
    BY DEF SoleHyp, IInv, RunInv
  <2> QED
    BY <1>1, <2>1, Zenon DEF Authorised, Doing
<1>5. runs' = [runs EXCEPT ![a] = 1]
  BY <1>4 DEF Execute
<1>6. FitsAt(a)'
  <2>1. ApprovalFits(a)'
    BY <1>1, <1>3, SoleFacts DEF ApprovalFits
  <2> QED
    BY <1>1, <1>2, <1>3, <2>1, SoleFacts, BusyFits DEF Steps
<1>7. TouchesOnly(w, a)
  BY <1>1, <1>2, <1>3 DEF TouchesOnly, Doing, Steps
<1>8. Implemented
  <2>1. \A b \in Audit : Phase(b)' = Phase(b)
    BY <1>3, SamePhase
  <2>2. Phase(a) = "authorised"
    BY <1>1, PhaseOf DEF Executing
  <2>3. Authority!Perform(a)
    BY <1>4, <1>5, <2>1, <2>2 DEF Authority!Perform
  <2> QED
    BY <1>3, <2>3 DEF Implemented, TerminalKept, Authority!Next
<1> QED
  BY <1>6, <1>7, <1>8 DEF Progress

\* The run throws at once: the invariant is kept, and the authority follows.
LEMMA RunThrowsProgress ==
  ASSUME SoleHyp, NEW w \in Worker, NEW a \in Audit, RunThrows(w, a)
  PROVE  Progress(w, a)
<1>1. /\ a \in Records /\ w \in up /\ Doing(w, a, "threw")
      /\ record[a].state = "running" /\ record[a].approval = "approved"
      /\ chain[w][a] = "idle"
  BY RunningFacts DEF RunThrows
<1>2. /\ UNCHANGED <<up, chain, decidable, dropped, runs>> /\ turn'[w] = None
      /\ Transition(a, "outcome_unknown", "other")
  BY YieldFacts DEF RunThrows
<1>3. /\ KeepsKeys /\ record'[a].state = "outcome_unknown"
      /\ record'[a].approval = record[a].approval
      /\ \A b \in Audit \ {a} : record'[b] = record[b]
  BY <1>1, <1>2, SoleFacts, TransitionKeeps DEF State, Terminal
<1>4. FitsAt(a)'
  BY <1>1, <1>2, <1>3, SoleFacts, TerminalFits DEF Terminal
<1>5. StateMove(a)
  BY <1>1, <1>2, <1>3 DEF StateMove, KeepsKeys, Executing, Terminal
<1>6. TouchesOnly(w, a)
  BY <1>1, <1>2, <1>3 DEF TouchesOnly, Steps
<1> QED
  BY <1>4, <1>5, <1>6, MoveImplements DEF Progress

\* The run's effects are awaited: the invariant is kept, and the authority follows.
LEMMA ObserveProgress ==
  ASSUME SoleHyp, NEW w \in Worker, NEW a \in Audit, Observe(w, a)
  PROVE  Progress(w, a)
<1>1. /\ a \in Records /\ w \in up /\ Doing(w, a, "observe")
      /\ record[a].state = "running" /\ record[a].approval = "approved"
  BY RunningFacts DEF Observe
<1>2. /\ UNCHANGED <<up, decidable, dropped, runs>> /\ turn'[w] = None
      /\ Transition(a, "waiting_for_effects", "none")
      /\ chain'[w][a] = "run" /\ \A b \in Audit \ {a} : chain'[w][b] = chain[w][b]
  BY YieldFacts, SoleFacts DEF Observe, Await, TypeOK
<1>3. /\ KeepsKeys /\ record'[a].state = "waiting_for_effects"
      /\ record'[a].approval = record[a].approval
      /\ \A b \in Audit \ {a} : record'[b] = record[b]
  BY <1>1, <1>2, SoleFacts, TransitionKeeps DEF State, Executing
<1>4. ApprovalFits(a)' /\ Awaited(w, a)'
  BY <1>1, <1>2, <1>3 DEF ApprovalFits, Awaited, Undecided
<1>5. FitsAt(a)'
  BY <1>1, <1>2, <1>3, <1>4, SoleFacts, IdleFits
<1>6. StateMove(a)
  BY <1>1, <1>2, <1>3 DEF StateMove, KeepsKeys, Executing
<1>7. TouchesOnly(w, a)
  BY <1>1, <1>2, <1>3 DEF TouchesOnly, Steps
<1> QED
  BY <1>5, <1>6, <1>7, MoveImplements DEF Progress

\* A turn's transaction fails: the invariant is kept, and the authority follows.
LEMMA TurnUnrecordedProgress ==
  ASSUME SoleHyp, NEW w \in Worker, NEW a \in Audit, TurnUnrecorded(w, a)
  PROVE  Progress(w, a)
<1>1. PICK s \in {"announce", "observe", "threw"} : AtStep(w, a, s)
  BY DEF TurnUnrecorded
<1>2. a \in Records /\ w \in up /\ Doing(w, a, s)
  BY <1>1, AtStepFacts DEF Steps
<1>3. /\ UNCHANGED <<record, up, chain, decidable, runs>> /\ turn'[w] = None
      /\ dropped' = dropped \cup {a} /\ Records' = Records
  BY YieldFacts DEF TurnUnrecorded, Records
<1>4. FitsAt(a)'
  <2>1. ApprovalFits(a)'
    BY <1>3, SoleFacts DEF ApprovalFits
  <2> QED
    BY <1>2, <1>3, <2>1, ExpiryChain, IdleFits, SoleFacts
<1>5. StateMove(a)
  BY <1>2, <1>3 DEF StateMove
<1>6. TouchesOnly(w, a)
  BY <1>2, <1>3 DEF TouchesOnly, Steps
<1> QED
  BY <1>4, <1>5, <1>6, MoveImplements DEF Progress

\* run settles.
LEMMA ConclusionFacts ==
  ASSUME SoleHyp, NEW w \in Worker, NEW a \in Audit, Conclusion(w, a)
  PROVE  /\ w \in up /\ up' = up /\ turn[w] = None /\ turn' = turn /\ a \in Records
         /\ record[a].state = "waiting_for_effects" /\ record[a].approval = "approved"
         /\ chain'[w][a] = "idle" /\ \A b \in Audit \ {a} : chain'[w][b] = chain[w][b]
         /\ decidable' = decidable /\ runs' = runs
<1>1. chain[w][a] = "run" /\ w \in up /\ turn[w] = None
  BY DEF Conclusion, Yielding
<1>2. a \in Records /\ record[a].state = "waiting_for_effects"
  BY <1>1, SoleFacts DEF WorkFits
<1>3. record[a].approval = "approved"
  BY <1>2, SoleFacts DEF ApprovalFits, Executing
<1>4. chain'[w][a] = "idle" /\ \A b \in Audit \ {a} : chain'[w][b] = chain[w][b]
  BY SoleFacts DEF Conclusion, Await, TypeOK
<1> QED
  BY <1>1, <1>2, <1>3, <1>4 DEF Conclusion

\* The run settles: the invariant is kept, and the authority follows.
LEMMA RunSettlesProgress ==
  ASSUME SoleHyp, NEW w \in Worker, NEW a \in Audit, RunSettles(w, a)
  PROVE  Progress(w, a)
<1>1. /\ w \in up /\ up' = up /\ turn[w] = None /\ turn' = turn /\ a \in Records
      /\ record[a].state = "waiting_for_effects" /\ record[a].approval = "approved"
      /\ chain'[w][a] = "idle" /\ \A b \in Audit \ {a} : chain'[w][b] = chain[w][b]
      /\ decidable' = decidable /\ runs' = runs /\ dropped' = dropped
  BY ConclusionFacts DEF RunSettles
<1>2. PICK state \in Terminal, error \in {"none", "other"} : Transition(a, state, error)
  BY DEF RunSettles, Conclude, Terminal
<1>3. /\ KeepsKeys /\ record'[a].state \in Terminal
      /\ record'[a].approval = record[a].approval
      /\ \A b \in Audit \ {a} : record'[b] = record[b]
  BY <1>1, <1>2, SoleFacts, TransitionKeeps DEF State
<1>4. FitsAt(a)'
  BY <1>1, <1>3, SoleFacts, TerminalFits
<1>5. StateMove(a)
  BY <1>1, <1>3 DEF StateMove, KeepsKeys, Executing
<1>6. TouchesOnly(w, a)
  BY <1>1, <1>3 DEF TouchesOnly
<1> QED
  BY <1>4, <1>5, <1>6, MoveImplements DEF Progress

\* The run's outcome is not recorded: the invariant is kept, and the authority follows.
LEMMA RunUnrecordedProgress ==
  ASSUME SoleHyp, NEW w \in Worker, NEW a \in Audit, RunUnrecorded(w, a)
  PROVE  Progress(w, a)
<1>1. /\ w \in up /\ up' = up /\ turn[w] = None /\ turn' = turn /\ a \in Records
      /\ record[a].state = "waiting_for_effects" /\ record[a].approval = "approved"
      /\ chain'[w][a] = "idle" /\ \A b \in Audit \ {a} : chain'[w][b] = chain[w][b]
      /\ decidable' = decidable /\ runs' = runs
      /\ record' = record /\ Records' = Records /\ dropped' = dropped \cup {a}
  BY ConclusionFacts DEF RunUnrecorded, Records
<1>2. ApprovalFits(a)'
  BY <1>1, SoleFacts DEF ApprovalFits
<1>3. FitsAt(a)'
  BY <1>1, <1>2, SoleFacts, IdleFits
<1>4. StateMove(a)
  BY <1>1 DEF StateMove
<1>5. TouchesOnly(w, a)
  BY <1>1 DEF TouchesOnly
<1> QED
  BY <1>3, <1>4, <1>5, MoveImplements DEF Progress

\* An audit starts: the invariant is kept, and the authority follows.
LEMMA StartProgress ==
  ASSUME SoleHyp, NEW w \in Worker, NEW k \in Key, NEW a \in Audit, Start(w, k, a)
  PROVE  Progress(w, a)
<1> DEFINE new == [key |-> k, state |-> "preparing", approval |-> "none", error |-> "none"]
<1>1. /\ a \notin Records /\ w \in up /\ turn[w] = None /\ record' = [record EXCEPT ![a] = new]
      /\ UNCHANGED <<up, decidable, turn, dropped, runs>>
      /\ chain'[w][a] = "prepare" /\ \A b \in Audit \ {a} : chain'[w][b] = chain[w][b]
  BY SoleFacts DEF Start, Startable, Yielding, Await, TypeOK
<1>2. new \in Record /\ new # None /\ new.state = "preparing" /\ new.approval = "none"
  BY NotNone DEF Record, State, Undecided
<1> HIDE DEF new
<1>3. /\ record'[a] = new /\ \A b \in Audit \ {a} : record'[b] = record[b]
      /\ Records' = Records \cup {a}
  BY <1>1, <1>2, SoleFacts DEF TypeOK, Records
<1>4. ApprovalFits(a)' /\ Awaited(w, a)'
  BY <1>1, <1>2, <1>3 DEF ApprovalFits, Awaited, Executing
<1>5. FitsAt(a)'
  BY <1>1, <1>2, <1>3, <1>4, SoleFacts, IdleFits
<1>6. TouchesOnly(w, a)
  BY <1>1, <1>3 DEF TouchesOnly
<1>7. Implemented
  <2>1. \A b \in Audit \ {a} : Phase(b)' = Phase(b)
    BY <1>3, SamePhase
  <2>2. Phase(a) = "new" /\ Phase(a)' = "waiting"
    BY <1>1, <1>2, <1>3, PhaseOf, PhaseOfNext DEF Undecided
  <2>3. Authority!Submit({}, a)
    BY <1>1, <2>1, <2>2 DEF Authority!Submit
  <2>4. TerminalKept
    BY <1>1, <1>3 DEF TerminalKept, Records
  <2> QED
    BY <2>3, <2>4, {} \in SUBSET Audit DEF Implemented, Authority!Next
<1> QED
  BY <1>5, <1>6, <1>7 DEF Progress

\* Nothing moves but the clock, or nothing at all.
LEMMA UnmovedProgress ==
  ASSUME SoleInv, UNCHANGED <<record, up, chain, decidable, turn, dropped, runs>>
  PROVE  SoleInv' /\ Implemented
<1>1. SoleInv'
  BY DEF SoleInv, ApprovalFits, WorkFits, AttendedBy, Awaited, Records
<1>2. \A a \in Audit : Phase(a)' = Phase(a)
  BY SamePhase DEF Records
<1> QED
  BY <1>1, <1>2 DEF Implemented, TerminalKept, Authority!vars

\* A crash loses everything the worker had to do.
LEMMA CrashProgress ==
  ASSUME SoleHyp, NEW w \in Worker, Crash(w)
  PROVE  SoleInv' /\ Implemented
<1>1. /\ UNCHANGED <<record, runs>> /\ w \notin up' /\ turn'[w] = None /\ Records' = Records
      /\ \A a \in Audit : chain'[w][a] = "idle"
  BY DEF Crash, Records, SoleHyp, IInv, TypeOK
<1>2. ASSUME NEW a \in Audit
      PROVE  FitsAt(a)'
  <2>1. ApprovalFits(a)'
    BY <1>1 DEF ApprovalFits, SoleHyp, SoleInv
  <2>2. \A s \in Steps : turn'[w] # [step |-> s, audit |-> a]
    BY <1>1, TurnIsOne
  <2>3. WorkFits(w, a)'
    BY <1>1, <2>2 DEF WorkFits, Steps
  <2> QED
    BY <1>1, <2>1, <2>3 DEF FitsAt, SoleHyp, Sole
<1>3. \A a \in Audit : Phase(a)' = Phase(a)
  BY <1>1, SamePhase
<1> QED
  BY <1>1, <1>2, <1>3 DEF SoleInv, FitsAt, Implemented, TerminalKept, Authority!vars

\* The start of the service resolves whatever the worker before it left.
LEMMA BootProgress ==
  ASSUME SoleHyp, NEW w \in Worker, Boot(w)
  PROVE  SoleInv' /\ Implemented
<1>1. /\ w \notin up /\ UNCHANGED <<chain, turn, runs>> /\ TypeOK
  BY DEF Boot, SoleHyp, IInv
<1>2. /\ Records' = Records
      /\ \A a \in Records : /\ record[a] \in Record /\ record'[a] = Recovered(record[a])
                            /\ record'[a].approval = record[a].approval
  BY BootKeeps, RecordIn DEF Boot, KeepsKeys, SoleHyp, IInv
<1>3. \A a \in Records :
        /\ record'[a].state \in Terminal
        /\ record[a].state \in Terminal => record'[a] = record[a]
  <2>1. \A r \in Record : /\ Recovered(r).state \in Terminal
                          /\ r.state \in Terminal => Recovered(r) = r
    BY DEF Recovered, Record, State, Undecided, Executing, Terminal
  <2> QED
    BY <1>2, <2>1
<1>4. ASSUME NEW a \in Audit
      PROVE  FitsAt(a)'
  <2>1. WorkFits(w, a)
    BY DEF SoleHyp, SoleInv
  <2>2. chain'[w][a] = "idle" /\ turn'[w] = None
    BY <1>1, <2>1 DEF WorkFits
  <2>3. \A s \in Steps : turn'[w] # [step |-> s, audit |-> a]
    BY <2>2, TurnIsOne
  <2>4. WorkFits(w, a)'
    BY <2>2, <2>3 DEF WorkFits, Steps
  <2>5. ApprovalFits(a)'
    BY <1>2, <1>3, StateKinds DEF ApprovalFits
  <2>6. a \in Records' => Awaited(w, a)'
    BY <1>2, <1>3, StateKinds DEF Awaited, Terminal
  <2> QED
    BY <2>4, <2>5, <2>6 DEF FitsAt, AttendedBy, SoleHyp, Sole
<1> DEFINE S == {a \in Records : record[a].state \in Undecided}
           T == {a \in Records : record[a].state \in Executing}
<1>5. \A a \in S : Phase(a) = "waiting" /\ Phase(a)' = "refused"
  <2>1. ASSUME NEW a \in S
        PROVE  a \in Audit /\ a \in Records /\ record[a].approval = "none"
    BY DEF SoleHyp, SoleInv, ApprovalFits, Records
  <2> QED
    BY <1>2, <1>3, <2>1, PhaseOf, PhaseOfNext, StateKinds
<1>6. \A a \in T : Phase(a) = "authorised" /\ Phase(a)' = "closed"
  <2>1. ASSUME NEW a \in T
        PROVE  a \in Audit /\ a \in Records /\ record[a].approval = "approved"
    BY DEF SoleHyp, SoleInv, ApprovalFits, Records
  <2> QED
    BY <1>2, <1>3, <2>1, PhaseOf, PhaseOfNext, StateKinds
<1>7. ASSUME NEW a \in Audit, a \notin S, a \notin T
      PROVE  Phase(a)' = Phase(a)
  <2>1. CASE a \in Records
    <3>1. record[a].state \in Terminal
      BY <1>2, <1>7, <2>1 DEF Record, State
    <3> QED
      BY <1>2, <1>3, <2>1, <3>1, SamePhase
  <2>2. CASE a \notin Records
    BY <1>2, <2>2, PhaseOf, PhaseOfNext
  <2> QED
    BY <2>1, <2>2
<1>8. Authority!Settle(S, T)
  <2>1. /\ \A a \in S : a \notin T
        /\ S \subseteq Audit /\ T \subseteq Audit
    BY StateKinds DEF Records
  <2> HIDE DEF S, T
  <2> QED
    BY <1>1, <1>5, <1>6, <1>7, <2>1 DEF Authority!Settle
<1>9. S \in SUBSET Audit /\ T \in SUBSET Audit
  BY DEF Records
<1>10. TerminalKept
  BY <1>3 DEF TerminalKept
<1>11. Implemented
  BY <1>8, <1>9, <1>10 DEF Implemented, Authority!Next
<1> QED
  BY <1>4, <1>11 DEF SoleInv, FitsAt

\* Every step of one worker keeps SoleInv, and is one of the abstract steps.
LEMMA SoleStep == SoleHyp /\ [Next]_vars => SoleInv' /\ Implemented
<1> SUFFICES ASSUME SoleHyp, [Next]_vars PROVE SoleInv' /\ Implemented
  OBVIOUS
<1>1. ASSUME NEW w \in Worker, NEW a \in Audit, Progress(w, a)
      PROVE  SoleInv' /\ Implemented
  <2>1. \A b \in Audit : FitsAt(b)'
    BY <1>1, OthersFit DEF Progress, SoleHyp
  <2> QED
    BY <1>1, <2>1 DEF Progress, SoleInv, FitsAt
<1>2. ASSUME NEW w \in Worker, Crash(w) \/ Boot(w)
      PROVE  SoleInv' /\ Implemented
  BY <1>2, CrashProgress, BootProgress
<1>3. ASSUME NEW a \in Audit, Lapse(a)
      PROVE  SoleInv' /\ Implemented
  BY <1>3, UnmovedProgress DEF Lapse, SoleHyp
<1>4. ASSUME NEW w \in Worker, NEW a \in Audit,
             \/ \E k \in Key : Start(w, k, a)
             \/ Poll(w, a)
             \/ \E decision \in {"approve", "deny"} : Decide(w, a, decision)
      PROVE  SoleInv' /\ Implemented
  BY <1>1, <1>4, StartProgress, PollProgress, DecideProgress
<1>5. ASSUME NEW w \in Worker, NEW a \in Audit, GoOn(w, a)
      PROVE  SoleInv' /\ Implemented
  BY <1>1, <1>5, AnnounceProgress, ApproveProgress, DenyProgress, DecideInVainProgress,
     ExecuteProgress, RunThrowsProgress, ObserveProgress, TurnUnrecordedProgress DEF GoOn
<1>6. ASSUME NEW w \in Worker, NEW a \in Audit, Resume(w, a)
      PROVE  SoleInv' /\ Implemented
  BY <1>1, <1>6, PrepareFailsProgress, PrepareReturnsProgress, PrepareUnrecordedProgress,
     RunSettlesProgress, RunUnrecordedProgress DEF Resume
<1>7. CASE UNCHANGED vars
  BY <1>7, UnmovedProgress DEF vars, SoleHyp
<1> QED
  BY <1>2, <1>3, <1>4, <1>5, <1>6, <1>7 DEF Next

\* The invariant of a sole worker holds at first.
LEMMA InitSole == Init => SoleInv /\ Authority!Init
<1> SUFFICES ASSUME Init PROVE SoleInv /\ Authority!Init
  OBVIOUS
<1>1. Records = {} /\ \A a \in Audit, s \in Steps : [step |-> s, audit |-> a] # None
  BY TurnIsOne DEF Init, Records
<1>2. ASSUME NEW a \in Audit, NEW w \in Worker
      PROVE  WorkFits(w, a)
  BY <1>1 DEF Init, WorkFits, Steps
<1>3. SoleInv
  BY <1>1, <1>2 DEF SoleInv, ApprovalFits
<1>4. \A a \in Audit : Phase(a) = "new"
  BY <1>1, PhaseOf
<1> QED
  BY <1>3, <1>4 DEF Init, Authority!Init

\* And always.
LEMMA SoleInvariant == ASSUME Sole PROVE Spec => []SoleInv
<1>1. IInv /\ IInv' /\ SoleInv /\ [Next]_vars => SoleInv'
  BY SoleStep DEF SoleHyp
<1> QED
  BY <1>1, InitSole, Invariant, PTL DEF Spec

\* Where one server has the repository to itself, crashes and restarts included, a
\* terminal record keeps its outcome: no late continuation, expiry, decision or
\* recovery changes it (TerminalIsFinal).
THEOREM OutcomesFinal == ASSUME Sole PROVE Spec => TerminalIsFinal
<1>1. IInv /\ IInv' /\ SoleInv /\ [Next]_vars => [TerminalKept]_vars
  BY SoleStep DEF SoleHyp, Implemented
<1>2. TerminalIsFinal <=> [][TerminalKept]_vars
  BY DEF TerminalIsFinal, TerminalKept
<1> QED
  BY <1>1, <1>2, SoleInvariant, Invariant, PTL DEF Spec

\* There, an audit is a one-shot authority for its run (ImplementsOneShot).
THEOREM Refinement == ASSUME Sole PROVE Spec => ImplementsOneShot
<1>1. IInv /\ IInv' /\ SoleInv /\ [Next]_vars => [Authority!Next]_(Authority!vars)
  BY SoleStep DEF SoleHyp, Implemented
<1> QED
  BY <1>1, InitSole, SoleInvariant, Invariant, PTL DEF Spec, ImplementsOneShot, Authority!Spec

\* There, too, no record is left behind at any time: while the server lives, each that
\* is not terminal is being worked on, can be decided by a human, or lost a
\* transaction (what Settles says of every state).
THEOREM RecordsAreAttended == ASSUME Sole PROVE Spec => [](\A a \in Audit : Attended(a))
<1>1. TypeOK /\ SoleInv => \A a \in Audit : Attended(a)
  <2> SUFFICES ASSUME TypeOK, SoleInv, NEW a \in Audit, a \in Records, NEW w \in up
               PROVE  a \in dropped \/ (turn[w] # None /\ turn[w].audit = a) \/ Awaited(w, a)
    BY DEF Attended
  <2>1. AttendedBy(w, a)
    BY DEF SoleInv, TypeOK
  <2>2. \A s \in Steps : turn[w] = [step |-> s, audit |-> a] => turn[w] # None /\ turn[w].audit = a
    BY TurnIsOne
  <2> QED
    BY <2>1, <2>2 DEF AttendedBy, Steps
<1>2. IInv => TypeOK
  BY DEF IInv
<1> QED
  BY <1>1, <1>2, SoleInvariant, Invariant, PTL

-----------------------------------------------------------------------------
(* The settlement of effects *)

Task == [id : Nat, due : Nat, trial : Trial]

Watching == [pc : {"check"}, deadline : Nat, left : Nat, charge : BOOLEAN]
Sleeping == [pc : {"sleep", "wake"}, deadline : Nat, target : Nat]
Showing == [pc : {"settled", "observed"}, charge : BOOLEAN]
Bare == [pc : {"none", "failed", "inconclusive"}]
Observation == Watching \cup Sleeping \cup Showing \cup Bare

SettlementTypeOK ==
  /\ lanes \in Nat \ {0} /\ delay \in Nat \ {0} /\ clock \in Nat /\ nextId \in Nat
  /\ tasks \subseteq Task
  /\ stage \in [Trial -> {"new", "live", "gone"}]
  /\ executed \subseteq Trial /\ charged \subseteq Trial
  /\ pending \in [Trial -> Nat]
  /\ observer \in [Trial -> Observation]

HasTask(t) == \E x \in tasks : x.trial = t

\* The scheduler, the events and the ledger of a trial agree.
LedgerOf(t) ==
  /\ HasTask(t) => IsLive(t) /\ t \in executed \cap Charging /\ t \notin charged
  /\ \A x, y \in tasks : x.trial = t /\ y.trial = t => x = y
  /\ t \in charged => t \in executed \cap Charging
  /\ stage[t] = "new" => t \notin executed /\ pending[t] = 0
  /\ IsLive(t) => /\ pending[t] = IF HasTask(t) THEN 1 ELSE 0
                  /\ t \in executed \cap Charging /\ ~HasTask(t) => t \in charged

\* What an observation has seen is the whole effect, once nothing was pending.
ObserverOf(t) ==
  LET o == observer[t] IN
  /\ o.pc # "failed"
  /\ t \in executed <=> o.pc # "none"
  /\ t \in UnderWay => IsLive(t)
  /\ o.pc \in {"settled", "observed"} \/ (o.pc = "check" /\ o.left = 0) =>
       ~HasTask(t) /\ (o.charge <=> t \in Charging)

NoneOverdue == \A x \in tasks : x.due >= clock

\* One observation at a time: the effect comes at a known distance from the deadline.
OneLane ==
  /\ \A t, u \in UnderWay : t = u
  /\ (\A t \in Trial : ~Ongoing(t, "sleep")) => \A x \in tasks : x.due > clock
  /\ \A t \in Trial :
       LET o == observer[t] IN
       /\ o.pc \in {"check", "sleep", "wake"} => \A x \in tasks : x.trial = t => x.due + Timeout = o.deadline + delay
       /\ o.pc = "sleep" => o.target <= o.deadline
       /\ o.pc = "check" => o.left = pending[t]
       /\ t \in UnderWay /\ t \in charged => delay <= Timeout
       /\ o.pc = "inconclusive" => t \in Charging /\ delay > Timeout
       /\ o.pc = "observed" /\ t \in Charging => delay <= Timeout

SettlementInv ==
  /\ SettlementTypeOK /\ NoneOverdue
  /\ \A t \in Trial : LedgerOf(t)
  /\ \A t \in Trial : ObserverOf(t)
  /\ lanes = 1 => OneLane

-----------------------------------------------------------------------------
(* Helpers *)

\* A set of at most one member.
LEMMA CountOne ==
  ASSUME NEW S, \A x, y \in S : x = y
  PROVE  Cardinality(S) = IF S = {} THEN 0 ELSE 1
<1>1. CASE S = {}
  BY <1>1, FS_EmptySet
<1>2. ASSUME NEW x \in S PROVE Cardinality(S) = 1
  <2>1. S = {x}
    OBVIOUS
  <2> QED
    BY <2>1, FS_Singleton
<1> QED
  BY <1>1, <1>2

\* A sleep is no longer than what is left.
LEMMA NapLength ==
  ASSUME NEW d \in Nat, clock \in Nat, clock < d
  PROVE  Nap(d) \in Nat /\ clock + Nap(d) <= d
<1> DEFINE S == {PollInterval, d - clock}
<1>1. PollInterval \in Nat /\ d - clock \in Nat
  BY SettlementAssumption
<1>2. \E x \in S : \A y \in S : x =< y
  BY <1>1
<1>3. Nap(d) \in S /\ \A y \in S : Nap(d) =< y
  BY <1>2 DEF Nap, Min
<1> QED
  BY <1>1, <1>3

\* The steps of an observation.
LEMMA ByStep ==
  ASSUME NEW o \in Observation
  PROVE  /\ o.pc \in {"none", "failed", "inconclusive", "check", "sleep", "wake", "settled", "observed"}
         /\ o.pc = "check" => o.deadline \in Nat /\ o.left \in Nat /\ o.charge \in BOOLEAN
         /\ o.pc \in {"sleep", "wake"} => o.deadline \in Nat /\ o.target \in Nat
         /\ o.pc \in {"settled", "observed"} => o.charge \in BOOLEAN
  BY DEF Observation, Watching, Sleeping, Showing, Bare

\* Under way, step by step.
LEMMA UnderWaySteps ==
  ASSUME SettlementTypeOK, NEW t \in Trial
  PROVE  t \in UnderWay <=> observer[t].pc \in {"check", "sleep", "wake", "settled"}
<1>1. observer[t] \in Observation
  BY DEF SettlementTypeOK
<1> QED
  BY <1>1, ByStep DEF UnderWay, Finished

\* An observation is not disturbed by what leaves its trial running and adds no task to it.
LEMMA ObserverStays ==
  ASSUME NEW t \in Trial, ObserverOf(t), observer'[t] = observer[t],
         t \in executed' <=> t \in executed,
         IsLive(t) /\ t \in UnderWay => IsLive(t)',
         \A x \in tasks' : x.trial = t => x \in tasks
  PROVE  ObserverOf(t)'
  BY DEF ObserverOf, HasTask, UnderWay

\* A read finds the fixture consistent.
LEMMA ReadSucceeds ==
  ASSUME NEW t \in Trial, NEW d, Read(t, d), IsLive(t), IsLive(t)', LedgerOf(t)'
  PROVE  Goto(t, [pc |-> "check", deadline |-> d, left |-> pending'[t], charge |-> t \in charged])
<1>1. \A x, y \in TasksOf(t)' : x = y
  BY DEF LedgerOf, TasksOf
<1>2. HasTask(t)' <=> TasksOf(t)' # {}
  BY DEF HasTask, TasksOf
<1>3. PendingCount(t)' = Cardinality(TasksOf(t)')
  BY DEF PendingCount
<1>4. PendingCount(t)' = IF HasTask(t)' THEN 1 ELSE 0
  BY <1>1, <1>2, <1>3, CountOne
<1>5. pending'[t] = IF HasTask(t)' THEN 1 ELSE 0
  BY DEF LedgerOf
<1> QED
  BY <1>4, <1>5 DEF Read

-----------------------------------------------------------------------------
(* Steps of the adapter *)

\* A trial that is provisioned has done nothing.
LEMMA ProvisionStep == ASSUME SettlementInv, NEW t \in Trial, Provision(t) PROVE SettlementInv'
<1>1. /\ stage' = [stage EXCEPT ![t] = "live"] /\ stage[t] = "new"
      /\ UNCHANGED <<lanes, delay, clock, nextId, tasks, executed, pending, charged, observer>>
  BY DEF Provision, scheduler
<1>2. SettlementTypeOK' /\ NoneOverdue'
  BY <1>1 DEF SettlementInv, SettlementTypeOK, NoneOverdue
<1>3. stage'[t] = "live" /\ \A u \in Trial \ {t} : stage'[u] = stage[u]
  BY <1>1 DEF SettlementInv, SettlementTypeOK
<1>4. \A u \in Trial : LedgerOf(u)'
  <2>1. \A u \in Trial \ {t} : LedgerOf(u)'
    BY <1>1, <1>3 DEF SettlementInv, LedgerOf, HasTask, IsLive
  <2>2. LedgerOf(t)'
    BY <1>1, <1>3 DEF SettlementInv, LedgerOf, HasTask, IsLive
  <2> QED
    BY <2>1, <2>2
<1>5. \A u \in Trial : ObserverOf(u)'
  BY <1>1, <1>3, ObserverStays DEF SettlementInv, IsLive
<1>6. lanes' = 1 => OneLane'
  BY <1>1 DEF SettlementInv, OneLane, UnderWay, Ongoing
<1> QED
  BY <1>2, <1>4, <1>5, <1>6 DEF SettlementInv

\* Releasing a trial whose observation is over cancels its tasks.
LEMMA ReleaseStep == ASSUME SettlementInv, NEW t \in Trial, Release(t) PROVE SettlementInv'
<1>1. /\ stage' = [stage EXCEPT ![t] = "gone"] /\ IsLive(t) /\ t \notin UnderWay
      /\ tasks' = {x \in tasks : x.trial # t}
      /\ UNCHANGED <<lanes, delay, clock, nextId, executed, pending, charged, observer>>
  BY DEF Release, CancelScope, TasksOf
<1>2. SettlementTypeOK' /\ NoneOverdue'
  BY <1>1 DEF SettlementInv, SettlementTypeOK, NoneOverdue
<1>3. stage'[t] = "gone" /\ \A u \in Trial \ {t} : stage'[u] = stage[u]
  BY <1>1 DEF SettlementInv, SettlementTypeOK
<1>4. \A u \in Trial : LedgerOf(u)'
  <2>1. ASSUME NEW u \in Trial \ {t} PROVE LedgerOf(u)'
    <3>1. HasTask(u)' <=> HasTask(u)
      BY <1>1 DEF HasTask
    <3>2. LedgerOf(u) /\ (IsLive(u)' <=> IsLive(u))
      BY <1>3 DEF SettlementInv, IsLive
    <3> QED
      BY <1>1, <1>3, <3>1, <3>2 DEF LedgerOf
  <2>2. LedgerOf(t)'
    <3>1. ~HasTask(t)' /\ ~IsLive(t)'
      BY <1>1, <1>3 DEF HasTask, IsLive
    <3> QED
      BY <1>1, <1>3, <3>1 DEF SettlementInv, LedgerOf
  <2> QED
    BY <2>1, <2>2
<1>5. \A u \in Trial : ObserverOf(u)'
  BY <1>1, <1>3, ObserverStays DEF SettlementInv, IsLive
<1>6. lanes' = 1 => OneLane'
  BY <1>1 DEF SettlementInv, OneLane, UnderWay, Ongoing
<1> QED
  BY <1>2, <1>4, <1>5, <1>6 DEF SettlementInv

\* A trial runs one route, once; nobody else is observed when there is one lane.
LEMMA RunStep == ASSUME SettlementInv, NEW t \in Trial, Run(t) PROVE SettlementInv'
<1> DEFINE task == [id |-> nextId + 1, due |-> clock + delay, trial |-> t]
           seen == [pc |-> "check", deadline |-> clock + Timeout, left |-> pending'[t], charge |-> t \in charged]
<1>1. /\ IsLive(t) /\ t \notin executed /\ Cardinality(UnderWay) < lanes
      /\ executed' = executed \cup {t}
      /\ \/ t \in Charging /\ tasks' = tasks \cup {task} /\ nextId' = nextId + 1
                           /\ pending' = [pending EXCEPT ![t] = @ + 1]
         \/ t \notin Charging /\ UNCHANGED <<tasks, nextId, pending>>
      /\ Read(t, clock + Timeout)
      /\ UNCHANGED <<lanes, delay, clock, stage, charged>>
  BY DEF Run, ScheduleCharge
<1>2. /\ SettlementTypeOK /\ LedgerOf(t) /\ ObserverOf(t) /\ Timeout \in Nat /\ PollInterval \in Nat
  BY SettlementAssumption DEF SettlementInv
<1>3. task \in Task /\ task.due = clock + delay /\ task.trial = t
  BY <1>2 DEF SettlementTypeOK, Task
<1>4. ~HasTask(t) /\ pending[t] = 0 /\ t \notin charged /\ observer[t].pc = "none"
  BY <1>1, <1>2 DEF LedgerOf, ObserverOf
<1> HIDE DEF task
<1>5. /\ pending' \in [Trial -> Nat] /\ pending'[t] = IF t \in Charging THEN 1 ELSE 0
      /\ \A u \in Trial \ {t} : pending'[u] = pending[u]
  BY <1>1, <1>2, <1>4 DEF SettlementTypeOK
<1>6. /\ IsLive(t)' /\ tasks' \subseteq Task
      /\ \A x \in tasks' : x \in tasks \/ (x = task /\ t \in Charging)
      /\ HasTask(t)' <=> t \in Charging
      /\ \A u \in Trial \ {t} : HasTask(u)' <=> HasTask(u)
  BY <1>1, <1>2, <1>3, <1>4 DEF IsLive, HasTask, SettlementTypeOK
<1>7. LedgerOf(t)'
  <2>1. \A x \in tasks' : x.trial = t => x = task
    BY <1>4, <1>6 DEF HasTask
  <2>2. stage'[t] # "new"
    BY <1>1 DEF IsLive
  <2> QED
    BY <1>1, <1>4, <1>5, <1>6, <2>1, <2>2 DEF LedgerOf
<1>8. \A u \in Trial \ {t} : LedgerOf(u)'
  <2> SUFFICES ASSUME NEW u \in Trial \ {t} PROVE LedgerOf(u)'
    OBVIOUS
  <2>1. LedgerOf(u) /\ (IsLive(u)' <=> IsLive(u))
    BY <1>1 DEF SettlementInv, IsLive
  <2>2. \A x \in tasks' : x.trial = u => x \in tasks
    BY <1>3, <1>6
  <2> QED
    BY <1>1, <1>5, <1>6, <2>1, <2>2 DEF LedgerOf
<1>9. Goto(t, seen)
  BY <1>1, <1>6, <1>7, ReadSucceeds
<1>10. seen \in Observation
  BY <1>2, <1>5 DEF Observation, Watching, SettlementTypeOK
<1>11. /\ observer' \in [Trial -> Observation] /\ observer'[t] = seen
       /\ \A u \in Trial \ {t} : observer'[u] = observer[u]
  BY <1>2, <1>9, <1>10 DEF Goto, SettlementTypeOK
<1>12. SettlementTypeOK'
  BY <1>1, <1>2, <1>5, <1>6, <1>11 DEF SettlementTypeOK
<1>13. clock \in Nat /\ delay \in Nat /\ delay > 0
  BY <1>2 DEF SettlementTypeOK
<1>14. NoneOverdue'
  BY <1>1, <1>3, <1>6, <1>13 DEF SettlementInv, NoneOverdue
<1>15. ObserverOf(t)'
  <2>1. seen.pc = "check" /\ seen.left = pending'[t] /\ (seen.charge <=> t \in charged)
    OBVIOUS
  <2>2. seen.left = 0 => t \notin Charging /\ ~HasTask(t)' /\ ~seen.charge
    BY <1>4, <1>5, <1>6, <2>1
  <2>3. t \in executed' /\ IsLive(t)'
    BY <1>1, <1>6
  <2> HIDE DEF seen
  <2> QED
    BY <1>11, <2>1, <2>2, <2>3 DEF ObserverOf
<1>16. \A u \in Trial \ {t} : ObserverOf(u)'
  <2> SUFFICES ASSUME NEW u \in Trial \ {t} PROVE ObserverOf(u)'
    OBVIOUS
  <2>1. /\ ObserverOf(u) /\ observer'[u] = observer[u] /\ (u \in executed' <=> u \in executed)
        /\ (IsLive(u) => IsLive(u)') /\ \A x \in tasks' : x.trial = u => x \in tasks
    BY <1>1, <1>3, <1>6, <1>11 DEF SettlementInv, IsLive
  <2> QED
    BY <2>1, ObserverStays
<1>17. ASSUME lanes = 1 PROVE OneLane'
  <2>1. UnderWay = {}
    <3>1. IsFiniteSet(UnderWay) /\ Cardinality(UnderWay) < 1
      BY <1>1, <1>17, SettlementAssumption, FS_Subset DEF UnderWay
    <3>2. Cardinality(UnderWay) \in Nat
      BY <3>1, FS_CardinalityType
    <3> QED
      BY <3>1, <3>2, FS_EmptySet
  <2>2. OneLane
    BY <1>17 DEF SettlementInv
  <2>3. \A u \in Trial : observer[u].pc \notin {"check", "sleep", "wake", "settled"}
    BY <1>2, <2>1, UnderWaySteps
  <2>4. \A u \in Trial \ {t} : u \notin UnderWay'
    BY <1>11, <2>1 DEF UnderWay
  <2>5. \A x \in tasks' : x.due > clock'
    <3>1. \A x \in tasks : x.due > clock
      BY <2>2, <2>3 DEF OneLane, Ongoing
    <3> QED
      BY <1>1, <1>3, <1>6, <1>13, <3>1
  <2>6. \A u, v \in UnderWay' : u = v
    BY <2>4 DEF UnderWay
  <2>7. \A x \in tasks' : x.trial = t => x.due + Timeout = seen.deadline + delay'
    BY <1>1, <1>2, <1>3, <1>4, <1>6, <1>13 DEF HasTask
  <2>8. \A u \in Trial \ {t} : observer'[u].pc \notin {"check", "sleep", "wake", "settled"}
    BY <1>11, <2>3
  <2>9. ASSUME NEW u \in Trial \ {t}
        PROVE  /\ observer'[u].pc = "inconclusive" => u \in Charging /\ delay' > Timeout
               /\ observer'[u].pc = "observed" /\ u \in Charging => delay' <= Timeout
    BY <1>1, <1>11, <2>2 DEF OneLane
  <2>10. seen.pc = "check" /\ seen.left = pending'[t] /\ t \notin charged'
    BY <1>1, <1>4
  <2> HIDE DEF seen
  <2> QED
    BY <1>11, <2>4, <2>5, <2>6, <2>7, <2>8, <2>9, <2>10 DEF OneLane
<1> QED
  BY <1>1, <1>7, <1>8, <1>12, <1>14, <1>15, <1>16, <1>17 DEF SettlementInv

-----------------------------------------------------------------------------
(* Steps of an observation *)

\* An observation moves on to o, and nothing else changes.
LEMMA ObserverMoves ==
  ASSUME SettlementInv, NEW t \in Trial, NEW o \in Observation,
         observer' = [observer EXCEPT ![t] = o], UNCHANGED <<scheduler, fixture>>,
         t \in UnderWay, o.pc \in {"check", "settled", "inconclusive", "observed"},
         observer[t].pc # "sleep",
         o.pc \in {"settled", "observed"} \/ (o.pc = "check" /\ o.left = 0) =>
           ~HasTask(t) /\ (o.charge <=> t \in Charging),
         o.pc = "check" => o.left = pending[t] /\ observer[t].pc = "wake" /\ o.deadline = observer[t].deadline,
         lanes = 1 /\ o.pc = "inconclusive" => t \in Charging /\ delay > Timeout,
         lanes = 1 /\ o.pc = "observed" /\ t \in Charging => delay <= Timeout
  PROVE  SettlementInv'
<1>1. observer' \in [Trial -> Observation] /\ observer'[t] = o
      /\ \A u \in Trial \ {t} : observer'[u] = observer[u]
  BY DEF SettlementInv, SettlementTypeOK
<1>2. UNCHANGED <<lanes, delay, clock, nextId, tasks, stage, executed, pending, charged>>
  BY DEF scheduler, fixture
<1>3. SettlementTypeOK' /\ NoneOverdue' /\ \A u \in Trial : LedgerOf(u)'
  BY <1>1, <1>2 DEF SettlementInv, SettlementTypeOK, NoneOverdue, LedgerOf, HasTask, IsLive
<1>4. \A u \in Trial \ {t} : ObserverOf(u)'
  BY <1>1, <1>2, ObserverStays DEF SettlementInv, IsLive
<1>5. ObserverOf(t)'
  <2>1. t \in executed /\ IsLive(t)
    BY DEF SettlementInv, ObserverOf, UnderWay
  <2> QED
    BY <1>1, <1>2, <2>1 DEF ObserverOf, HasTask, IsLive
<1>6. ASSUME lanes = 1 PROVE OneLane'
  <2>1. OneLane
    BY <1>6 DEF SettlementInv
  <2>2. \A u \in Trial \ {t} : u \notin UnderWay
    BY <2>1 DEF OneLane
  <2>3. SettlementTypeOK
    BY DEF SettlementInv
  <2>4. \A u \in Trial \ {t} : observer[u].pc \notin {"check", "sleep", "wake", "settled"} /\ u \notin UnderWay'
    BY <1>1, <2>2, <2>3, UnderWaySteps DEF UnderWay
  <2>5. \A u, v \in UnderWay' : u = v
    BY <2>4 DEF UnderWay
  <2>6. \A x \in tasks' : x.due > clock'
    <3>1. \A u \in Trial : ~Ongoing(u, "sleep")
      BY <2>4 DEF Ongoing
    <3> QED
      BY <1>2, <2>1, <3>1 DEF OneLane
  <2>7. ASSUME NEW u \in Trial \ {t}
        PROVE  /\ observer'[u].pc \notin {"check", "sleep", "wake"}
               /\ observer'[u].pc = "inconclusive" => u \in Charging /\ delay' > Timeout
               /\ observer'[u].pc = "observed" /\ u \in Charging => delay' <= Timeout
    BY <1>1, <1>2, <2>1, <2>4 DEF OneLane
  <2>8. o.pc = "check" => \A x \in tasks : x.trial = t => x.due + Timeout = o.deadline + delay
    BY <2>1 DEF OneLane
  <2>9. t \in charged => delay <= Timeout
    BY <2>1 DEF OneLane
  <2> QED
    BY <1>1, <1>2, <1>6, <2>4, <2>5, <2>6, <2>7, <2>8, <2>9 DEF OneLane
<1> QED
  BY <1>2, <1>3, <1>4, <1>5, <1>6 DEF SettlementInv

\* A snapshot arrives with nothing pending, or too late.
LEMMA SettleStep == ASSUME SettlementInv, NEW t \in Trial, Settle(t) PROVE SettlementInv'
<1> DEFINE o == [pc |-> "settled", charge |-> observer[t].charge]
<1>1. observer[t].pc = "check" /\ observer[t].left = 0 /\ observer' = [observer EXCEPT ![t] = o]
      /\ UNCHANGED <<scheduler, fixture>>
  BY DEF Settle, Ongoing, Goto
<1>2. observer[t].charge \in BOOLEAN /\ t \in UnderWay
  BY <1>1, ByStep, UnderWaySteps DEF SettlementInv, SettlementTypeOK
<1>3. o \in Observation /\ o.pc = "settled" /\ o.charge = observer[t].charge
  BY <1>2 DEF Observation, Showing
<1>4. ~HasTask(t) /\ (observer[t].charge <=> t \in Charging)
  BY <1>1 DEF SettlementInv, ObserverOf
<1> HIDE DEF o
<1> QED
  BY <1>1, <1>2, <1>3, <1>4, ObserverMoves

\* With one lane, the effect that is still pending comes after the deadline.
LEMMA GiveUpStep == ASSUME SettlementInv, NEW t \in Trial, GiveUp(t) PROVE SettlementInv'
<1> DEFINE o == [pc |-> "inconclusive"]
<1>1. observer[t].pc = "check" /\ observer[t].left # 0 /\ clock >= observer[t].deadline
      /\ observer' = [observer EXCEPT ![t] = o] /\ UNCHANGED <<scheduler, fixture>>
  BY DEF GiveUp, Ongoing, Goto, OutOfTime
<1>2. observer[t].deadline \in Nat /\ t \in UnderWay /\ clock \in Nat /\ delay \in Nat /\ Timeout \in Nat
  BY <1>1, ByStep, UnderWaySteps, SettlementAssumption DEF SettlementInv, SettlementTypeOK
<1>3. o \in Observation /\ o.pc = "inconclusive"
  BY DEF Observation, Bare
<1>4. ASSUME lanes = 1 PROVE t \in Charging /\ delay > Timeout
  <2>1. OneLane /\ LedgerOf(t) /\ ObserverOf(t)
    BY <1>4 DEF SettlementInv
  <2>2. pending[t] # 0 /\ IsLive(t)
    BY <1>1, <1>2, <2>1 DEF OneLane, ObserverOf
  <2>3. PICK x \in tasks : x.trial = t
    BY <2>1, <2>2 DEF LedgerOf, HasTask
  <2>4. t \in Charging
    BY <2>1, <2>3 DEF LedgerOf, HasTask
  <2>5. x.due + Timeout = observer[t].deadline + delay
    BY <1>1, <2>1, <2>3 DEF OneLane
  <2>6. \A u \in Trial : ~Ongoing(u, "sleep")
    <3>1. SettlementTypeOK
      BY DEF SettlementInv
    <3> SUFFICES ASSUME NEW u \in Trial, observer[u].pc = "sleep" PROVE FALSE
      BY DEF Ongoing
    <3>2. u \in UnderWay
      BY <3>1, UnderWaySteps
    <3> QED
      BY <1>1, <1>2, <2>1, <3>2 DEF OneLane
  <2>7. x.due > clock /\ x.due \in Nat
    BY <2>1, <2>6 DEF OneLane, SettlementInv, SettlementTypeOK, Task
  <2> QED
    BY <1>1, <1>2, <2>4, <2>5, <2>7
<1> HIDE DEF o
<1> QED
  BY <1>1, <1>2, <1>3, <1>4, ObserverMoves

\* The evidence is what the snapshot said.
LEMMA CollectStep == ASSUME SettlementInv, NEW t \in Trial, Collect(t) PROVE SettlementInv'
<1> DEFINE o == [pc |-> "observed", charge |-> t \in charged]
<1>1. observer[t].pc = "settled" /\ UNCHANGED <<scheduler, fixture>>
  BY DEF Collect, Ongoing
<1>2. t \in UnderWay
  BY <1>1, UnderWaySteps DEF SettlementInv, SettlementTypeOK
<1>3. LedgerOf(t) /\ ObserverOf(t)
  BY DEF SettlementInv
<1>4. IsLive(t) /\ t \in executed /\ ~HasTask(t) /\ (observer[t].charge <=> t \in Charging)
  BY <1>1, <1>2, <1>3 DEF ObserverOf
<1>5. pending[t] = 0 /\ (t \in charged <=> t \in Charging)
  BY <1>3, <1>4 DEF LedgerOf
<1>6. observer' = [observer EXCEPT ![t] = o]
  BY <1>4, <1>5 DEF Collect, Goto
<1>7. o \in Observation /\ o.pc = "observed" /\ (o.charge <=> t \in charged)
  <2>1. o \in Showing
    BY DEF Showing
  <2>2. o \in Observation
    BY <2>1 DEF Observation
  <2>3. o.pc = "observed" /\ o.charge = (t \in charged)
    OBVIOUS
  <2> QED
    BY <2>2, <2>3
<1>8. lanes = 1 /\ t \in Charging => delay <= Timeout
  BY <1>2, <1>5 DEF SettlementInv, OneLane
<1> HIDE DEF o
<1> QED
  BY <1>1, <1>2, <1>4, <1>5, <1>6, <1>7, <1>8, ObserverMoves

\* A sleeper reads the fixture again.
LEMMA WakeStep == ASSUME SettlementInv, NEW t \in Trial, Wake(t) PROVE SettlementInv'
<1> DEFINE o == [pc |-> "check", deadline |-> observer[t].deadline, left |-> pending'[t], charge |-> t \in charged]
<1>1. observer[t].pc = "wake" /\ UNCHANGED <<scheduler, fixture>> /\ Read(t, observer[t].deadline)
  BY DEF Wake, Ongoing
<1>2. t \in UnderWay /\ observer[t].deadline \in Nat
  BY <1>1, ByStep, UnderWaySteps DEF SettlementInv, SettlementTypeOK
<1>3. LedgerOf(t) /\ ObserverOf(t) /\ pending[t] \in Nat
  BY DEF SettlementInv, SettlementTypeOK
<1>4. IsLive(t) /\ t \in executed
  BY <1>1, <1>2, <1>3 DEF ObserverOf
<1>5. IsLive(t)' /\ LedgerOf(t)' /\ pending' = pending
  BY <1>1, <1>3, <1>4 DEF scheduler, fixture, LedgerOf, IsLive, HasTask
<1>6. observer' = [observer EXCEPT ![t] = o]
  BY <1>1, <1>4, <1>5, ReadSucceeds DEF Goto
<1>7. /\ o \in Observation /\ o.pc = "check" /\ o.left = pending[t] /\ o.deadline = observer[t].deadline
      /\ (o.charge <=> t \in charged)
  <2>1. o \in Watching
    BY <1>2, <1>3, <1>5 DEF Watching
  <2>2. o \in Observation
    BY <2>1 DEF Observation
  <2>3. /\ o.pc = "check" /\ o.left = pending[t] /\ o.deadline = observer[t].deadline
        /\ o.charge = (t \in charged)
    BY <1>5
  <2> QED
    BY <2>2, <2>3
<1>8. pending[t] = 0 => ~HasTask(t) /\ (t \in charged <=> t \in Charging)
  BY <1>3, <1>4 DEF LedgerOf
<1> HIDE DEF o
<1> QED
  BY <1>1, <1>2, <1>6, <1>7, <1>8, ObserverMoves

\* One turn of a sleep: a task runs, whosever it is, or the sleep ends.
LEMMA SleepTurn ==
  ASSUME SettlementInv, NEW t \in Trial, t \in UnderWay, NEW deadline \in Nat, NEW target \in Nat,
         Sleep(t, deadline, target), UNCHANGED <<lanes, delay, nextId, stage, executed>>,
         lanes = 1 => /\ target <= deadline
                      /\ \A x \in tasks : x.trial = t => x.due + Timeout = deadline + delay
  PROVE  SettlementInv'
<1>1. SettlementTypeOK /\ NoneOverdue /\ Timeout \in Nat /\ ObserverOf(t)
  BY SettlementAssumption DEF SettlementInv
<1>2. t \in executed /\ IsLive(t)
  BY <1>1 DEF ObserverOf, UnderWay
<1>3. PICK o \in Sleeping :
        /\ observer' = [observer EXCEPT ![t] = o]
        /\ o.deadline = deadline /\ o.target = target
        /\ \/ o.pc = "wake" /\ DueBy(target) = {} /\ clock' = target /\ UNCHANGED <<tasks, charged, pending>>
           \/ o.pc = "sleep" /\ \E x \in NextDue(target) : tasks' = tasks \ {x} /\ clock' = x.due /\ Charge(x.trial)
  <2> DEFINE step(pc) == [pc |-> pc, deadline |-> deadline, target |-> target]
  <2>1. step("wake") \in Sleeping /\ step("sleep") \in Sleeping
    BY DEF Sleeping
  <2> QED
    BY <2>1 DEF Sleep, Goto
<1>4. o \in Observation /\ o.pc \in {"sleep", "wake"}
  BY DEF Observation, Sleeping
<1>5. observer' \in [Trial -> Observation] /\ observer'[t] = o
      /\ \A u \in Trial \ {t} : observer'[u] = observer[u]
  BY <1>1, <1>3, <1>4 DEF SettlementTypeOK
<1>6. tasks' \subseteq tasks /\ tasks \subseteq Task
  BY <1>1, <1>3 DEF SettlementTypeOK
<1>7. \A u \in Trial : ObserverOf(u)'
  <2>1. \A u \in Trial \ {t} : ObserverOf(u)'
    BY <1>5, <1>6, ObserverStays DEF SettlementInv, IsLive
  <2>2. ObserverOf(t)'
    BY <1>2, <1>4, <1>5 DEF ObserverOf, IsLive
  <2> QED
    BY <2>1, <2>2
<1>8. ASSUME o.pc = "wake", DueBy(target) = {}, clock' = target, UNCHANGED <<tasks, charged, pending>>
      PROVE  /\ SettlementTypeOK' /\ NoneOverdue' /\ \A u \in Trial : LedgerOf(u)'
             /\ \A x \in tasks' : x.due > clock'
  <2>1. \A x \in tasks : x.due > target /\ x.due \in Nat
    BY <1>6, <1>8 DEF DueBy, Task
  <2>2. NoneOverdue' /\ \A x \in tasks' : x.due > clock'
    BY <1>8, <2>1 DEF NoneOverdue
  <2>3. SettlementTypeOK'
    BY <1>1, <1>5, <1>8 DEF SettlementTypeOK
  <2>4. \A u \in Trial : LedgerOf(u)'
    BY <1>8 DEF SettlementInv, LedgerOf, HasTask, IsLive
  <2> QED
    BY <2>2, <2>3, <2>4
<1>9. ASSUME o.pc = "sleep", NEW x \in NextDue(target), tasks' = tasks \ {x}, clock' = x.due, Charge(x.trial)
      PROVE  /\ SettlementTypeOK' /\ NoneOverdue' /\ \A u \in Trial : LedgerOf(u)'
             /\ x \in tasks /\ x.due <= target /\ x.due \in Nat
             /\ charged' = charged \cup {x.trial}
  <2>1. x \in tasks /\ x.due <= target /\ \A y \in DueBy(target) \ {x} : Earlier(x, y)
    BY DEF NextDue, DueBy
  <2>2. PICK c \in Trial : c = x.trial
    BY <1>6, <2>1 DEF Task
  <2>3. LedgerOf(c) /\ HasTask(c)
    BY <2>1, <2>2 DEF SettlementInv, HasTask
  <2>4. IsLive(c) /\ c \in executed \cap Charging /\ pending[c] = 1
        /\ charged' = charged \cup {c} /\ pending' = [pending EXCEPT ![c] = @ - 1]
    BY <1>9, <2>2, <2>3 DEF LedgerOf, Charge
  <2>5. pending' \in [Trial -> Nat] /\ pending'[c] = 0 /\ \A u \in Trial \ {c} : pending'[u] = pending[u]
    BY <1>1, <2>4 DEF SettlementTypeOK
  <2>6. x.due \in Nat /\ \A y \in tasks : y.due \in Nat
    BY <1>6, <2>1 DEF Task
  <2>7. SettlementTypeOK'
    BY <1>1, <1>5, <1>6, <1>9, <2>4, <2>5, <2>6 DEF SettlementTypeOK
  <2>8. NoneOverdue'
    <3> SUFFICES ASSUME NEW y \in tasks \ {x} PROVE y.due >= x.due
      BY <1>9 DEF NoneOverdue
    <3>1. CASE y.due <= target
      BY <2>1, <2>6, <3>1 DEF DueBy, Earlier
    <3>2. CASE ~(y.due <= target)
      BY <2>1, <2>6, <3>2
    <3> QED
      BY <3>1, <3>2
  <2>9. LedgerOf(c)'
    <3>1. ~HasTask(c)'
      BY <1>9, <2>1, <2>2, <2>3 DEF LedgerOf, HasTask
    <3>2. stage'[c] # "new"
      BY <2>4 DEF IsLive
    <3> QED
      BY <1>6, <2>3, <2>4, <2>5, <3>1, <3>2 DEF LedgerOf
  <2>10. ASSUME NEW u \in Trial \ {c} PROVE LedgerOf(u)'
    <3>1. HasTask(u)' <=> HasTask(u)
      BY <1>9, <2>2 DEF HasTask
    <3>2. LedgerOf(u) /\ (IsLive(u)' <=> IsLive(u)) /\ (u \in charged' <=> u \in charged)
      BY <2>4 DEF SettlementInv, IsLive
    <3> QED
      BY <1>6, <2>5, <3>1, <3>2 DEF LedgerOf
  <2> QED
    BY <2>1, <2>2, <2>4, <2>6, <2>7, <2>8, <2>9, <2>10
<1>10. ASSUME lanes = 1 PROVE OneLane'
  <2>1. OneLane
    BY <1>10 DEF SettlementInv
  <2>2. \A u \in Trial \ {t} : u \notin UnderWay
    BY <2>1 DEF OneLane
  <2>3. \A u \in Trial \ {t} : observer[u].pc \notin {"check", "sleep", "wake", "settled"} /\ u \notin UnderWay'
    BY <1>1, <1>5, <2>2, UnderWaySteps DEF UnderWay
  <2>4. \A u, v \in UnderWay' : u = v
    BY <2>3 DEF UnderWay
  <2>5. (\A u \in Trial : ~Ongoing(u, "sleep")') => \A x \in tasks' : x.due > clock'
    <3>1. o.pc = "sleep" => Ongoing(t, "sleep")'
      BY <1>5 DEF Ongoing
    <3> QED
      BY <1>3, <1>8, <3>1
  <2>6. ASSUME NEW u \in Trial \ {t}
        PROVE  /\ observer'[u].pc \notin {"check", "sleep", "wake"}
               /\ observer'[u].pc = "inconclusive" => u \in Charging /\ delay' > Timeout
               /\ observer'[u].pc = "observed" /\ u \in Charging => delay' <= Timeout
    BY <1>5, <2>1, <2>3 DEF OneLane
  <2>7. \A x \in tasks' : x.trial = t => x.due + Timeout = o.deadline + delay'
    BY <1>3, <1>6, <1>10
  <2>8. o.pc = "sleep" => o.target <= o.deadline
    BY <1>3, <1>10
  <2>9. t \in charged' => delay' <= Timeout
    <3>1. CASE t \in charged
      BY <2>1, <3>1 DEF OneLane
    <3>2. ASSUME t \in charged', t \notin charged PROVE delay <= Timeout
      <4>1. PICK x \in NextDue(target) : tasks' = tasks \ {x} /\ clock' = x.due /\ Charge(x.trial) /\ o.pc = "sleep"
        BY <1>3, <3>2
      <4>2. x \in tasks /\ x.due <= target /\ x.due \in Nat /\ x.trial = t
        BY <1>9, <3>2, <4>1
      <4>3. x.due + Timeout = deadline + delay /\ target <= deadline /\ delay \in Nat
        BY <1>1, <1>10, <4>2 DEF SettlementTypeOK
      <4> QED
        BY <1>1, <4>2, <4>3
    <3> QED
      BY <3>1, <3>2
  <2> QED
    BY <1>4, <1>5, <2>3, <2>4, <2>5, <2>6, <2>7, <2>8, <2>9 DEF OneLane
<1> QED
  BY <1>3, <1>7, <1>8, <1>9, <1>10 DEF SettlementInv

\* A sleep begins, to the next poll or to the deadline.
LEMMA FallAsleepStep == ASSUME SettlementInv, NEW t \in Trial, FallAsleep(t) PROVE SettlementInv'
<1> DEFINE d == observer[t].deadline
<1>1. /\ observer[t].pc = "check" /\ ~(clock >= d) /\ Sleep(t, d, clock + Nap(d))
      /\ UNCHANGED <<lanes, delay, nextId, stage, executed>>
  BY DEF FallAsleep, Ongoing, OutOfTime
<1>2. d \in Nat /\ clock \in Nat /\ t \in UnderWay
  BY <1>1, ByStep, UnderWaySteps DEF SettlementInv, SettlementTypeOK
<1>3. clock + Nap(d) \in Nat /\ clock + Nap(d) <= d
  BY <1>1, <1>2, NapLength
<1>4. lanes = 1 => \A x \in tasks : x.trial = t => x.due + Timeout = d + delay
  BY <1>1 DEF SettlementInv, OneLane
<1> HIDE DEF d
<1> QED
  BY <1>1, <1>2, <1>3, <1>4, SleepTurn

\* A sleep goes on.
LEMMA SleepOnStep == ASSUME SettlementInv, NEW t \in Trial, SleepOn(t) PROVE SettlementInv'
<1>1. /\ observer[t].pc = "sleep" /\ Sleep(t, observer[t].deadline, observer[t].target)
      /\ UNCHANGED <<lanes, delay, nextId, stage, executed>>
  BY DEF SleepOn, Ongoing
<1>2. observer[t].deadline \in Nat /\ observer[t].target \in Nat /\ t \in UnderWay
  BY <1>1, ByStep, UnderWaySteps DEF SettlementInv, SettlementTypeOK
<1>3. lanes = 1 => /\ observer[t].target <= observer[t].deadline
                   /\ \A x \in tasks : x.trial = t => x.due + Timeout = observer[t].deadline + delay
  BY <1>1 DEF SettlementInv, OneLane
<1> QED
  BY <1>1, <1>2, <1>3, SleepTurn

-----------------------------------------------------------------------------

\* Nothing has run when the adapter is created.
LEMMA SettlementInitially == SettlementInit => SettlementInv
<1> SUFFICES ASSUME SettlementInit PROVE SettlementInv
  OBVIOUS
<1>1. SettlementTypeOK
  BY SettlementAssumption DEF SettlementInit, SettlementTypeOK, Observation, Bare
<1>2. tasks = {} /\ executed = {} /\ charged = {}
      /\ \A t \in Trial : stage[t] = "new" /\ pending[t] = 0 /\ observer[t].pc = "none"
  BY DEF SettlementInit
<1>3. NoneOverdue
  BY <1>2 DEF NoneOverdue
<1>4. \A t \in Trial : LedgerOf(t)
  BY <1>2 DEF LedgerOf, HasTask, IsLive
<1>5. \A t \in Trial : ObserverOf(t)
  BY <1>2 DEF ObserverOf, UnderWay
<1>6. OneLane
  BY <1>2 DEF OneLane, UnderWay
<1> QED
  BY <1>1, <1>3, <1>4, <1>5, <1>6 DEF SettlementInv

\* Every step keeps the ledgers and the observations consistent.
LEMMA SettlementSteps == SettlementInv /\ [SettlementNext]_settlementVars => SettlementInv'
<1> SUFFICES ASSUME SettlementInv, [SettlementNext]_settlementVars PROVE SettlementInv'
  OBVIOUS
<1>1. ASSUME NEW t \in Trial, ObserverStep(t) PROVE SettlementInv'
  BY <1>1, SettleStep, GiveUpStep, FallAsleepStep, SleepOnStep, WakeStep, CollectStep DEF ObserverStep
<1>2. CASE UNCHANGED settlementVars
  <2>1. /\ UNCHANGED <<lanes, delay, clock, nextId, tasks>>
        /\ UNCHANGED <<stage, executed, pending, charged, observer>>
    BY <1>2 DEF settlementVars, scheduler, fixture
  <2>2. SettlementTypeOK' /\ NoneOverdue' /\ \A t \in Trial : LedgerOf(t)'
    BY <2>1 DEF SettlementInv, SettlementTypeOK, NoneOverdue, LedgerOf, HasTask, IsLive
  <2>3. \A t \in Trial : ObserverOf(t)'
    BY <2>1, ObserverStays DEF SettlementInv, IsLive
  <2>4. lanes' = 1 => OneLane'
    BY <2>1 DEF SettlementInv, OneLane, UnderWay, Ongoing
  <2> QED
    BY <2>2, <2>3, <2>4 DEF SettlementInv
<1> QED
  BY <1>1, <1>2, ProvisionStep, RunStep, ReleaseStep DEF SettlementNext

\* Throughout.
LEMMA SettlementInvariant == SettlementInit /\ [][SettlementNext]_settlementVars => []SettlementInv
  BY SettlementInitially, SettlementSteps, PTL

\* The scheduler, the fixture and the observations hold what they should.
THEOREM SettlementTypeCorrect == SettlementInit /\ [][SettlementNext]_settlementVars => []SettlementTypeOK
<1>1. SettlementInv => SettlementTypeOK
  BY DEF SettlementInv
<1> QED
  BY <1>1, SettlementInvariant, PTL

\* A conclusive observation shows every effect that its route will ever have, however the
\* sleeps of concurrent observations interleave; and no effect is overdue or orphaned
\* (EffectsSeen).
THEOREM EvidenceComplete == SettlementInit /\ [][SettlementNext]_settlementVars => []EffectsSeen
<1>1. ASSUME SettlementInv PROVE EffectsSeen
  <2>1. ASSUME NEW t \in Trial, Ongoing(t, "observed")
        PROVE  (observer[t].charge <=> t \in Charging) /\ TasksOf(t) = {}
    BY <1>1, <2>1 DEF SettlementInv, ObserverOf, Ongoing, HasTask, TasksOf
  <2>2. ASSUME NEW x \in tasks PROVE x.due >= clock /\ IsLive(x.trial)
    <3>1. x.trial \in Trial
      BY <1>1 DEF SettlementInv, SettlementTypeOK, Task
    <3> QED
      BY <1>1, <3>1 DEF SettlementInv, NoneOverdue, LedgerOf, HasTask
  <2> QED
    BY <2>1, <2>2 DEF EffectsSeen
<1> QED
  BY <1>1, SettlementInvariant, PTL

\* One observation at a time is inconclusive only when the effect comes after the timeout,
\* and shows an effect only when it came within it (InTimeIsConclusive).
THEOREM TimeoutExact == SettlementInit /\ [][SettlementNext]_settlementVars => []InTimeIsConclusive
<1>1. ASSUME SettlementInv PROVE InTimeIsConclusive
  BY <1>1 DEF SettlementInv, OneLane, InTimeIsConclusive, Ongoing
<1> QED
  BY <1>1, SettlementInvariant, PTL

\* No assertion of the fixture or of the adapter ever fails: the scheduler and the ledger
\* agree at every read.
THEOREM LedgerAgrees ==
  SettlementInit /\ [][SettlementNext]_settlementVars => [](\A t \in Trial : ~Ongoing(t, "failed"))
<1>1. SettlementInv => \A t \in Trial : ~Ongoing(t, "failed")
  BY DEF SettlementInv, ObserverOf, Ongoing
<1> QED
  BY <1>1, SettlementInvariant, PTL
================================================================================
