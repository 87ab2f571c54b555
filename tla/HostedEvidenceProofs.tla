------------------------ MODULE HostedEvidenceProofs -------------------------
(***************************************************************************)
(* For any releases, plans and times: the authorisation of a release is    *)
(* used at most once, whoever uses it; hosted evidence is stored only for  *)
(* what happened; and a completed audit verifies, as it is stored and as a *)
(* portable proof, until one statement of it is changed.                   *)
(*                                                                         *)
(* The argument: only the run that an audit is executing changes what it   *)
(* has come to, so its state, its secret and the number of its runs go     *)
(* together (ReleaseInv). A completion leaves the record alone until it    *)
(* has all its answers, so what it has in hand stays true of the record    *)
(* and of the release (HostedInv), although it was read before.            *)
(***************************************************************************)
EXTENDS HostedEvidence, TLAPS

-----------------------------------------------------------------------------
(* The one-use authorisation of a release *)

\* Where each audit is in its life.
LifeFits(r) ==
  LET record == release[r] IN
  /\ r \in running <=> record.state = "executing"
  /\ record.state \in {"none", "awaiting_approval"} => record.secret = NoSecret
  /\ record.state \in {"approved", "executing"} => record.secret \in Secret
  /\ record.state \in {"none", "awaiting_approval", "approved"} => runs[r] = 0

ReleaseRecords ==
  /\ release \in [Release -> Record]
  /\ plans \subseteq Release /\ running \subseteq Release
  /\ runs \in [Release -> Nat]

ReleaseInv == ReleaseRecords /\ \A r \in Release : LifeFits(r)

\* What the auditor may do to an audit, whoever reads the clock and calls it.
AuditStep(r) ==
  \/ \E intent \in Intent, complete \in BOOLEAN, now \in Nat : Prepare(r, intent, complete, now)
  \/ \E secret \in Secret, now \in Nat : ApproveRelease(r, secret, now)
  \/ \E now \in Nat : ApproveTooLate(r, now)
  \/ \E secret, intent : \E now, drift \in Nat :
       \/ RunDenied(r, secret, intent, now)
       \/ RunExecutes(r, secret, intent, now, drift)
       \/ RunFindsNoPlan(r, secret, intent, now, drift)
  \/ \E tool \in Verdict : RunCompletes(r, tool)
  \/ RunThrows(r)

\* Some intent is the exact one, and what is offered is an intent.
LEMMA OfferedTypes == Exact \in Intent /\ WrongTool \in Intent /\ WrongAgent \in Intent /\ WrongArgs \in Intent
<1>1. (\E a \in Agent : TRUE) /\ (\E t \in Tool : TRUE) /\ (\E x \in Args : TRUE)
  BY ReleaseAssumption
<1>2. Exact \in Intent
  <2>1. PICK a \in Agent, t \in Tool, x \in Args : TRUE
    BY <1>1
  <2>2. [agent |-> a, tool |-> t, args |-> x] \in Intent
    BY DEF Intent
  <2> QED
    BY <2>2 DEF Exact
<1>3. /\ (CHOOSE t \in Tool : t # Exact.tool) \in Tool
      /\ (CHOOSE a \in Agent : a # Exact.agent) \in Agent
      /\ (CHOOSE x \in Args : x # Exact.args) \in Args
  BY ReleaseAssumption
<1> QED
  BY <1>2, <1>3 DEF WrongTool, WrongAgent, WrongArgs, Intent

\* A run executes only an approved audit.
LEMMA ExecutesApproved ==
  ASSUME NEW r \in Release, ReleaseInv, NEW secret, NEW intent, NEW now \in Nat,
         release[r].state # "none", Reply(r, secret, intent, now) = "execute"
  PROVE  release[r].state = "approved"
<1>1. release[r].state \in ReleaseState /\ release[r].expiresAt \in Nat
  BY DEF ReleaseInv, ReleaseRecords, Record
<1> QED
  BY <1>1 DEF Reply, ReleaseState, Used

\* Only what waits, or is approved and unused, is answered that it has expired.
LEMMA ExpiresWaiting ==
  ASSUME NEW r \in Release, ReleaseInv, NEW secret, NEW intent, NEW now \in Nat,
         release[r].state # "none", Reply(r, secret, intent, now) = "authorization_expired"
  PROVE  release[r].state \in {"awaiting_approval", "approved", "expired"}
<1>1. release[r].state \in ReleaseState /\ release[r].expiresAt \in Nat
  BY DEF ReleaseInv, ReleaseRecords, Record
<1> QED
  BY <1>1 DEF Reply, ReleaseState, Used

\* A step of one release keeps the invariant of all.
LEMMA ReleaseSteps == ASSUME ReleaseInv, NEW r \in Release, AuditStep(r) PROVE ReleaseInv'
<1> USE DEF ReleaseInv, ReleaseRecords, LifeFits
<1>1. ASSUME NEW intent \in Intent, NEW complete \in BOOLEAN, NEW now \in Nat, Prepare(r, intent, complete, now)
      PROVE  ReleaseInv'
  <2> DEFINE new == [NoRecord EXCEPT !.state = "awaiting_approval", !.intent = intent,
                                     !.expiresAt = now + PlanTTL, !.complete = complete]
  <2>1. new \in Record /\ new.state = "awaiting_approval" /\ new.secret = NoSecret
    <3>1. now + PlanTTL \in Nat
      BY ReleaseAssumption
    <3> QED
      BY <3>1, OfferedTypes DEF Record, NoRecord, ReleaseState, Verdict
  <2>2. release' = [release EXCEPT ![r] = new]
    BY <1>1 DEF Prepare
  <2> HIDE DEF new
  <2>3. /\ release' \in [Release -> Record]
        /\ release'[r] = new /\ \A q \in Release \ {r} : release'[q] = release[q]
    BY <2>1, <2>2
  <2> QED
    BY <1>1, <2>1, <2>3 DEF Prepare
<1>2. ASSUME NEW secret \in Secret, NEW now \in Nat, ApproveRelease(r, secret, now)
      PROVE  ReleaseInv'
  BY <1>2, ZenonT(40) DEF ApproveRelease, Record, ReleaseState
<1>3. ASSUME NEW now \in Nat, ApproveTooLate(r, now)
      PROVE  ReleaseInv'
  BY <1>3 DEF ApproveTooLate, SetState, Record, ReleaseState
<1>4. ASSUME NEW secret, NEW intent, NEW now \in Nat, RunDenied(r, secret, intent, now)
      PROVE  ReleaseInv'
  <2>1. CASE Reply(r, secret, intent, now) = "authorization_expired"
    <3>1. release[r].state \in {"awaiting_approval", "approved", "expired"}
      BY <1>4, <2>1, ExpiresWaiting DEF RunDenied
    <3> QED
      BY <1>4, <2>1, <3>1 DEF RunDenied, SetState, Record, ReleaseState
  <2>2. CASE Reply(r, secret, intent, now) # "authorization_expired"
    BY <1>4, <2>2 DEF RunDenied
  <2> QED
    BY <2>1, <2>2
<1>5. ASSUME NEW secret, NEW intent, NEW now \in Nat, NEW drift \in Nat, RunExecutes(r, secret, intent, now, drift)
      PROVE  ReleaseInv'
  <2>1. release[r].state = "approved"
    BY <1>5, ExecutesApproved DEF RunExecutes
  <2> QED
    BY <1>5, <2>1 DEF RunExecutes, SetState, Record, ReleaseState
<1>6. ASSUME NEW secret, NEW intent, NEW now \in Nat, NEW drift \in Nat, RunFindsNoPlan(r, secret, intent, now, drift)
      PROVE  ReleaseInv'
  <2>1. release[r].state = "approved"
    BY <1>6, ExecutesApproved DEF RunFindsNoPlan
  <2> QED
    BY <1>6, <2>1 DEF RunFindsNoPlan, SetState, Record, ReleaseState
<1>7. ASSUME NEW tool \in Verdict, RunCompletes(r, tool)
      PROVE  ReleaseInv'
  <2>1. ReleaseVerdict(release[r].complete, tool) \in Verdict
    BY <1>7 DEF ReleaseVerdict, Verdict
  <2>2. /\ release' \in [Release -> Record]
        /\ release'[r].state = "completed" /\ release'[r].secret = release[r].secret
        /\ \A q \in Release \ {r} : release'[q] = release[q]
    <3> DEFINE verdict == ReleaseVerdict(release[r].complete, tool)
               new == [release[r] EXCEPT !.state = "completed", !.tool = tool, !.verdict = verdict]
    <3>1. release' = [release EXCEPT ![r] = new]
      BY <1>7 DEF RunCompletes
    <3>2. verdict \in Verdict
      BY <2>1
    <3> HIDE DEF verdict
    <3>3. new \in Record /\ new.state = "completed" /\ new.secret = release[r].secret
      BY <1>7, <3>2 DEF Record, ReleaseState
    <3> QED
      BY <3>1, <3>3
  <2> QED
    BY <1>7, <2>2 DEF RunCompletes
<1>8. ASSUME RunThrows(r)
      PROVE  ReleaseInv'
  BY <1>8 DEF RunThrows, SetState, Record, ReleaseState
<1> QED
  BY <1>1, <1>2, <1>3, <1>4, <1>5, <1>6, <1>7, <1>8 DEF AuditStep

\* Every step of the auditor by itself is one of these.
LEMMA ReleaseNextSteps ==
  ASSUME ReleaseInv, auditClock \in Nat, [ReleaseNext]_<<auditClock, releaseVars>>
  PROVE  auditClock' \in Nat /\ (UNCHANGED releaseVars \/ \E r \in Release : AuditStep(r))
<1>1. CASE AuditTick /\ UNCHANGED releaseVars
  BY <1>1 DEF AuditTick
<1>2. ASSUME NEW r \in Release, ReleaseStep(r), UNCHANGED auditClock
      PROVE  AuditStep(r)
  <2>1. MaxDrift \in Nat
    BY ReleaseAssumption
  <2>2. ASSUME NEW intent \in {Exact, WrongArgs}, NEW complete \in BOOLEAN, Prepare(r, intent, complete, auditClock)
        PROVE  AuditStep(r)
    BY <2>2, OfferedTypes DEF AuditStep
  <2>3. ASSUME NEW secret \in Secret, ApproveRelease(r, secret, auditClock)
        PROVE  AuditStep(r)
    BY <2>3 DEF AuditStep
  <2>4. ASSUME ApproveTooLate(r, auditClock)
        PROVE  AuditStep(r)
    BY <2>4 DEF AuditStep
  <2>5. ASSUME NEW secret, NEW intent, RunDenied(r, secret, intent, auditClock)
        PROVE  AuditStep(r)
    BY <2>5, <2>1 DEF AuditStep
  <2>6. ASSUME NEW secret, NEW intent, NEW drift \in 0 .. MaxDrift,
               RunExecutes(r, secret, intent, auditClock, drift) \/ RunFindsNoPlan(r, secret, intent, auditClock, drift)
        PROVE  AuditStep(r)
    <3>1. drift \in Nat
      BY <2>1
    <3> QED
      BY <2>6, <3>1 DEF AuditStep
  <2>7. ASSUME (\E tool \in Verdict : RunCompletes(r, tool)) \/ RunThrows(r)
        PROVE  AuditStep(r)
    BY <2>7 DEF AuditStep
  <2> QED
    BY <1>2, <2>2, <2>3, <2>4, <2>5, <2>6, <2>7 DEF ReleaseStep
<1> QED
  BY <1>1, <1>2 DEF ReleaseNext

-----------------------------------------------------------------------------
(* The refinement *)

\* The phase of a record, by its state.
LEMMA PhaseByState ==
  ASSUME NEW record
  PROVE  /\ record.state = "none" => Phase(record) = "new"
         /\ record.state = "awaiting_approval" => Phase(record) = "waiting"
         /\ record.state \in {"approved", "executing"} => Phase(record) = "authorised"
         /\ record.state \in {"completed", "outcome_unknown"} => Phase(record) = "closed"
         /\ record.state = "expired" /\ record.secret = NoSecret => Phase(record) = "refused"
         /\ record.state = "expired" /\ record.secret \in Secret => Phase(record) = "closed"
  BY ReleaseAssumption DEF Phase

\* How a step of the auditor moves the phase of its audit.
LEMMA PhaseMoves ==
  ASSUME ReleaseInv, NEW r \in Release, AuditStep(r)
  PROVE  /\ \A q \in Release \ {r} : release'[q] = release[q] /\ runs'[q] = runs[q]
         /\ release[r].state \in Ended => release'[r] = release[r]
         /\ \/ runs'[r] = runs[r] /\ Phase(release'[r]) = Phase(release[r])
            \/ runs'[r] = runs[r] /\ Phase(release[r]) = "new" /\ Phase(release'[r]) = "waiting"
            \/ runs'[r] = runs[r] /\ Phase(release[r]) = "waiting" /\ Phase(release'[r]) \in {"authorised", "refused"}
            \/ runs'[r] = runs[r] /\ Phase(release[r]) = "authorised" /\ Phase(release'[r]) = "closed"
            \/ /\ runs[r] = 0 /\ runs'[r] = 1
               /\ Phase(release[r]) = "authorised" /\ Phase(release'[r]) = "authorised"
<1> USE ReleaseAssumption DEF ReleaseInv, ReleaseRecords, LifeFits
<1>1. ASSUME NEW intent \in Intent, NEW complete \in BOOLEAN, NEW now \in Nat, Prepare(r, intent, complete, now)
      PROVE  /\ runs' = runs /\ \A q \in Release \ {r} : release'[q] = release[q]
             /\ release[r].state = "none" /\ release'[r].state = "awaiting_approval"
  BY <1>1 DEF Prepare, NoRecord
<1>2. ASSUME NEW secret \in Secret, NEW now \in Nat, ApproveRelease(r, secret, now)
      PROVE  /\ runs' = runs /\ \A q \in Release \ {r} : release'[q] = release[q]
             /\ release[r].state = "awaiting_approval" /\ release'[r].state = "approved"
  BY <1>2 DEF ApproveRelease
<1>3. ASSUME NEW now \in Nat, ApproveTooLate(r, now)
      PROVE  /\ runs' = runs /\ \A q \in Release \ {r} : release'[q] = release[q]
             /\ release[r].state = "awaiting_approval" /\ release'[r].state = "expired"
             /\ release'[r].secret = NoSecret
  BY <1>3 DEF ApproveTooLate, SetState, Record
<1>4. ASSUME NEW secret, NEW intent, NEW now \in Nat, RunDenied(r, secret, intent, now)
      PROVE  /\ runs' = runs /\ \A q \in Release \ {r} : release'[q] = release[q]
             /\ \/ release'[r] = release[r]
                \/ /\ release[r].state \in {"awaiting_approval", "approved"} /\ release'[r].state = "expired"
                   /\ release'[r].secret = release[r].secret
  <2>1. CASE Reply(r, secret, intent, now) = "authorization_expired"
    <3>1. release[r].state \in {"awaiting_approval", "approved", "expired"}
      BY <1>4, <2>1, ExpiresWaiting DEF RunDenied
    <3>2. release' = [release EXCEPT ![r].state = "expired"] /\ runs' = runs /\ release[r] \in Record
      BY <1>4, <2>1 DEF RunDenied, SetState
    <3>3. release[r].state = "expired" => [release[r] EXCEPT !.state = "expired"] = release[r]
      BY <3>2 DEF Record
    <3> QED
      BY <3>1, <3>2, <3>3
  <2>2. CASE Reply(r, secret, intent, now) # "authorization_expired"
    BY <1>4, <2>2 DEF RunDenied
  <2> QED
    BY <2>1, <2>2
<1>5. ASSUME NEW secret, NEW intent, NEW now \in Nat, NEW drift \in Nat, RunExecutes(r, secret, intent, now, drift)
      PROVE  /\ \A q \in Release \ {r} : release'[q] = release[q] /\ runs'[q] = runs[q]
             /\ release[r].state = "approved" /\ release'[r].state = "executing"
             /\ runs[r] = 0 /\ runs'[r] = 1
  <2>1. release[r].state = "approved"
    BY <1>5, ExecutesApproved DEF RunExecutes
  <2> QED
    BY <1>5, <2>1 DEF RunExecutes, SetState
<1>6. ASSUME NEW secret, NEW intent, NEW now \in Nat, NEW drift \in Nat, RunFindsNoPlan(r, secret, intent, now, drift)
      PROVE  /\ runs' = runs /\ \A q \in Release \ {r} : release'[q] = release[q]
             /\ release[r].state = "approved" /\ release'[r].state = "outcome_unknown"
  <2>1. release[r].state = "approved"
    BY <1>6, ExecutesApproved DEF RunFindsNoPlan
  <2> QED
    BY <1>6, <2>1 DEF RunFindsNoPlan, SetState
<1>7. ASSUME NEW tool \in Verdict, RunCompletes(r, tool)
      PROVE  /\ runs' = runs /\ \A q \in Release \ {r} : release'[q] = release[q]
             /\ release[r].state = "executing" /\ release'[r].state = "completed"
  <2> DEFINE new == [release[r] EXCEPT !.state = "completed", !.tool = tool,
                                       !.verdict = ReleaseVerdict(release[r].complete, tool)]
  <2>1. release' = [release EXCEPT ![r] = new] /\ release[r] \in Record
    BY <1>7 DEF RunCompletes
  <2>2. new.state = "completed"
    BY <2>1 DEF Record
  <2> HIDE DEF new
  <2> QED
    BY <1>7, <2>1, <2>2 DEF RunCompletes
<1>8. ASSUME RunThrows(r)
      PROVE  /\ runs' = runs /\ \A q \in Release \ {r} : release'[q] = release[q]
             /\ release[r].state = "executing" /\ release'[r].state = "outcome_unknown"
  BY <1>8 DEF RunThrows, SetState
<1> DEFINE Goal ==
         /\ \A q \in Release \ {r} : release'[q] = release[q] /\ runs'[q] = runs[q]
         /\ release[r].state \in Ended => release'[r] = release[r]
         /\ \/ runs'[r] = runs[r] /\ Phase(release'[r]) = Phase(release[r])
            \/ runs'[r] = runs[r] /\ Phase(release[r]) = "new" /\ Phase(release'[r]) = "waiting"
            \/ runs'[r] = runs[r] /\ Phase(release[r]) = "waiting" /\ Phase(release'[r]) \in {"authorised", "refused"}
            \/ runs'[r] = runs[r] /\ Phase(release[r]) = "authorised" /\ Phase(release'[r]) = "closed"
            \/ /\ runs[r] = 0 /\ runs'[r] = 1
               /\ Phase(release[r]) = "authorised" /\ Phase(release'[r]) = "authorised"
<1> HIDE DEF ReleaseInv, ReleaseRecords, LifeFits
<1>a. /\ release[r].state \in {"none", "awaiting_approval"} => release[r].secret = NoSecret
      /\ release[r].state \in {"approved", "executing"} => release[r].secret \in Secret
  BY DEF ReleaseInv, LifeFits
<1> USE <1>a, PhaseByState DEF Ended
<1>9. ASSUME /\ runs' = runs /\ \A q \in Release \ {r} : release'[q] = release[q],
             \/ release[r].state = "none" /\ release'[r].state = "awaiting_approval"
             \/ release[r].state = "awaiting_approval" /\ release'[r].state = "approved"
             \/ release[r].state = "approved" /\ release'[r].state = "outcome_unknown"
             \/ release[r].state = "executing" /\ release'[r].state = "completed"
             \/ release[r].state = "executing" /\ release'[r].state = "outcome_unknown"
      PROVE  Goal
  BY <1>9
<1>10. ASSUME /\ runs' = runs /\ \A q \in Release \ {r} : release'[q] = release[q],
              \/ release'[r] = release[r]
              \/ /\ release[r].state \in {"awaiting_approval", "approved"} /\ release'[r].state = "expired"
                 /\ release'[r].secret = release[r].secret
       PROVE  Goal
  BY <1>10
<1>11. ASSUME NEW now \in Nat, ApproveTooLate(r, now)
       PROVE  Goal
  BY <1>3, <1>11
<1>12. ASSUME NEW secret, NEW intent, NEW now \in Nat, NEW drift \in Nat, RunExecutes(r, secret, intent, now, drift)
       PROVE  Goal
  BY <1>5, <1>12
<1> HIDE DEF Goal
<1>13. ASSUME NEW secret, NEW intent, NEW now \in Nat, RunDenied(r, secret, intent, now)
       PROVE  Goal
  BY <1>4, <1>10, <1>13
<1>14. ASSUME \E intent \in Intent, complete \in BOOLEAN, now \in Nat : Prepare(r, intent, complete, now)
       PROVE  Goal
  BY <1>1, <1>9, <1>14
<1>15. ASSUME \E secret \in Secret, now \in Nat : ApproveRelease(r, secret, now)
       PROVE  Goal
  BY <1>2, <1>9, <1>15
<1>16. ASSUME NEW secret, NEW intent, NEW now \in Nat, NEW drift \in Nat, RunFindsNoPlan(r, secret, intent, now, drift)
       PROVE  Goal
  BY <1>6, <1>9, <1>16
<1>17. ASSUME (\E tool \in Verdict : RunCompletes(r, tool)) \/ RunThrows(r)
       PROVE  Goal
  BY <1>7, <1>8, <1>9, <1>17
<1> HIDE <1>a, PhaseByState
<1>18. ASSUME NEW secret, NEW intent, NEW now \in Nat, NEW drift \in Nat,
              \/ RunDenied(r, secret, intent, now)
              \/ RunExecutes(r, secret, intent, now, drift)
              \/ RunFindsNoPlan(r, secret, intent, now, drift)
       PROVE  Goal
  BY <1>12, <1>13, <1>16, <1>18
<1>19. Goal
  <2>1. CASE \E secret, intent : \E now, drift \in Nat :
               \/ RunDenied(r, secret, intent, now)
               \/ RunExecutes(r, secret, intent, now, drift)
               \/ RunFindsNoPlan(r, secret, intent, now, drift)
    BY ONLY <2>1, <1>18
  <2>2. CASE ~ \E secret, intent : \E now, drift \in Nat :
               \/ RunDenied(r, secret, intent, now)
               \/ RunExecutes(r, secret, intent, now, drift)
               \/ RunFindsNoPlan(r, secret, intent, now, drift)
    <3>1. \/ \E intent \in Intent, complete \in BOOLEAN, now \in Nat : Prepare(r, intent, complete, now)
          \/ \E secret \in Secret, now \in Nat : ApproveRelease(r, secret, now)
          \/ \E now \in Nat : ApproveTooLate(r, now)
          \/ \E tool \in Verdict : RunCompletes(r, tool)
          \/ RunThrows(r)
      BY ONLY <2>2, AuditStep(r) DEF AuditStep
    <3>2. CASE \E now \in Nat : ApproveTooLate(r, now)
      BY ONLY <3>2, <1>11
    <3> QED
      BY <3>1, <3>2, <1>14, <1>15, <1>17
  <2> QED
    BY <2>1, <2>2
<1> QED
  BY <1>19 DEF Goal

-----------------------------------------------------------------------------
(* It keeps its promise *)

\* Every record has a phase of the abstract authorisation.
LEMMA PhasesDiffer ==
  ASSUME ReleaseInv, NEW q \in Release PROVE Phase(release[q]) \in Authorisation!Phase
BY ReleaseAssumption DEF Authorisation!Phase, Phase

\* Each step of an audit is a step of the promise, or changes nothing it speaks of, ...
LEMMA AuditStepImplements ==
  ASSUME ReleaseInv, NEW r \in Release, AuditStep(r)
  PROVE  [Authorisation!Next]_(Authorisation!vars)
<1> DEFINE ph == [q \in Release |-> Phase(release[q])]
           next == [q \in Release |-> Phase(release'[q])]
<1>1. /\ \A q \in Release \ {r} : release'[q] = release[q] /\ runs'[q] = runs[q]
      /\ \/ runs'[r] = runs[r] /\ Phase(release'[r]) = Phase(release[r])
         \/ runs'[r] = runs[r] /\ Phase(release[r]) = "new" /\ Phase(release'[r]) = "waiting"
         \/ runs'[r] = runs[r] /\ Phase(release[r]) = "waiting" /\ Phase(release'[r]) \in {"authorised", "refused"}
         \/ runs'[r] = runs[r] /\ Phase(release[r]) = "authorised" /\ Phase(release'[r]) = "closed"
         \/ /\ runs[r] = 0 /\ runs'[r] = 1
            /\ Phase(release[r]) = "authorised" /\ Phase(release'[r]) = "authorised"
  BY PhaseMoves
<1>2. runs \in [Release -> Nat] /\ runs' \in [Release -> Nat]
  BY ReleaseSteps DEF ReleaseInv, ReleaseRecords
<1>3. /\ ph[r] = Phase(release[r]) /\ next[r] = Phase(release'[r])
      /\ \A q \in Release \ {r} : next[q] = ph[q]
      /\ DOMAIN ph = Release /\ DOMAIN next = Release
      /\ ph = [q \in Release |-> ph[q]] /\ next = [q \in Release |-> next[q]]
  BY <1>1
<1>4. ph' = next
  OBVIOUS
<1> HIDE DEF ph, next
<1>5. CASE runs'[r] = runs[r] /\ Phase(release'[r]) = Phase(release[r])
  <2>1. runs' = runs /\ ph' = ph
    BY <1>1, <1>2, <1>3, <1>4, <1>5
  <2> QED
    BY <2>1 DEF Authorisation!vars, ph
<1>6. CASE runs'[r] = runs[r] /\ Phase(release[r]) = "new" /\ Phase(release'[r]) = "waiting"
  <2>1. runs' = runs /\ ph[r] = "new" /\ ph' = [q \in Release |-> IF q = r THEN "waiting" ELSE ph[q]]
    BY <1>1, <1>2, <1>3, <1>4, <1>6
  <2>2. ph' = [q \in Release |-> IF q \in {} THEN "refused" ELSE IF q = r THEN "waiting" ELSE ph[q]]
    BY <2>1
  <2>3. Authorisation!Submit({}, r)
    BY <2>1, <2>2 DEF Authorisation!Submit, ph
  <2>4. {} \in SUBSET Release
    OBVIOUS
  <2> QED
    BY <2>3, <2>4 DEF Authorisation!Next
<1>7. CASE runs'[r] = runs[r] /\ Phase(release[r]) = "waiting" /\ Phase(release'[r]) = "authorised"
  <2>1. runs' = runs /\ ph[r] = "waiting" /\ ph' = [ph EXCEPT ![r] = "authorised"]
    BY <1>1, <1>2, <1>3, <1>4, <1>7
  <2>2. Authorisation!Authorise(r)
    BY <2>1 DEF Authorisation!Authorise, ph
  <2> QED
    BY <2>2 DEF Authorisation!Next
<1>8. CASE /\ runs'[r] = runs[r]
           /\ \/ Phase(release[r]) = "waiting" /\ Phase(release'[r]) = "refused"
              \/ Phase(release[r]) = "authorised" /\ Phase(release'[r]) = "closed"
  <2> DEFINE to == Phase(release'[r])
             S == IF to = "refused" THEN {r} ELSE {}
             T == IF to = "refused" THEN {} ELSE {r}
  <2>0. \/ ph[r] = "waiting" /\ to = "refused"
        \/ ph[r] = "authorised" /\ to = "closed"
    BY <1>3, <1>8
  <2>a. next[r] = to
    BY <1>3
  <2> HIDE DEF to
  <2>1. runs' = runs /\ ph' = [q \in Release |-> IF q = r THEN to ELSE ph[q]]
    BY <1>1, <1>2, <1>3, <1>4, <1>8, <2>a
  <2>2. /\ ph' = [q \in Release |-> IF q \in S THEN "refused" ELSE IF q \in T THEN "closed" ELSE ph[q]]
        /\ S \subseteq Release /\ T \subseteq Release
        /\ \A q \in S : ph[q] = "waiting"
        /\ \A q \in T : ph[q] = "authorised"
    BY <2>1, <2>0
  <2> HIDE DEF S, T
  <2>3. Authorisation!Settle(S, T)
    BY <2>1, <2>2 DEF Authorisation!Settle, ph
  <2> QED
    BY <2>2, <2>3 DEF Authorisation!Next
<1>9. CASE /\ runs[r] = 0 /\ runs'[r] = 1
           /\ Phase(release[r]) = "authorised" /\ Phase(release'[r]) = "authorised"
  <2>1. ph[r] = "authorised" /\ ph' = ph /\ runs' = [runs EXCEPT ![r] = 1]
    BY <1>1, <1>2, <1>3, <1>4, <1>9
  <2>2. Authorisation!Perform(r)
    BY <2>1, <1>9 DEF Authorisation!Perform, ph
  <2> QED
    BY <2>2 DEF Authorisation!Next
<1> QED
  BY <1>1, <1>5, <1>6, <1>7, <1>8, <1>9

\* ... and so does a step of anybody who uses the auditor.
LEMMA UsersImplement ==
  ASSUME ReleaseInv, UNCHANGED releaseVars \/ \E r \in Release : AuditStep(r)
  PROVE  /\ ReleaseInv'
         /\ [Authorisation!Next]_(Authorisation!vars)
         /\ \A r \in Release : release[r].state \in Ended => release'[r] = release[r]
<1>1. CASE UNCHANGED releaseVars
  BY <1>1 DEF releaseVars, ReleaseInv, ReleaseRecords, LifeFits, Authorisation!vars
<1>2. ASSUME NEW r \in Release, AuditStep(r)
      PROVE  \A q \in Release : release[q].state \in Ended => release'[q] = release[q]
  BY <1>2, PhaseMoves
<1> QED
  BY <1>1, <1>2, ReleaseSteps, AuditStepImplements

\* At first there are no releases, and no authorisations.
LEMMA ReleaseInitial == ReleaseInit => ReleaseInv /\ Authorisation!Init /\ auditClock \in Nat
<1> SUFFICES ASSUME ReleaseInit PROVE ReleaseInv /\ Authorisation!Init /\ auditClock \in Nat
  OBVIOUS
<1>1. NoRecord \in Record /\ NoRecord.state = "none" /\ NoRecord.secret = NoSecret
  BY OfferedTypes DEF NoRecord, Record, ReleaseState, Verdict
<1>2. \A r \in Release : release[r] = NoRecord
  BY DEF ReleaseInit
<1>3. ReleaseInv
  BY <1>1, <1>2 DEF ReleaseInit, ReleaseInv, ReleaseRecords, LifeFits
<1>4. \A r \in Release : Phase(release[r]) = "new"
  BY <1>1, <1>2, PhaseByState
<1>5. Authorisation!Init
  BY <1>4 DEF Authorisation!Init, ReleaseInit
<1> QED
  BY <1>3, <1>5 DEF ReleaseInit

\* An audit of a generated release is prepared, approved or refused, put to execution at most
\* once and only while it is approved, and ends in a state that is final, however many runs
\* with its capability arrive, in what order and with what clock readings.
THEOREM ReleaseKeepsPromise == ReleaseSpec => ReleaseImplementsOneShot
<1> DEFINE I == ReleaseInv /\ auditClock \in Nat
           Final == \A r \in Release : release[r].state \in Ended => release'[r] = release[r]
<1>1. ReleaseInit => I /\ Authorisation!Init
  BY ReleaseInitial
<1>2. I /\ [ReleaseNext]_<<auditClock, releaseVars>> => I' /\ [Authorisation!Next]_(Authorisation!vars) /\ [Final]_releaseVars
  BY ReleaseNextSteps, UsersImplement
<1> QED
  BY <1>1, <1>2, PTL DEF ReleaseSpec, ReleaseImplementsOneShot

-----------------------------------------------------------------------------
(* What a hosted audit has come to *)

HostedState == {"none", "awaiting_approval", "running", "waiting_for_effects", "completed", "failed"}
Answer == {"invalid_capability", "tool_binding_mismatch", "agent_identity_mismatch", "argument_substitution",
           "execute", "authorization_replayed"}
Receipt == [approvedAt : Nat, expiresAt : Nat, reviewed : Plan]
Document == [audit : Hosted, generatedAt : Nat, retentionUntil : Nat, approval : Receipt, review : Plan,
             receipt : [audit : Hosted, plan : Plan, invokedAt : Nat, result : Verdict, settledAt : Nat],
             checks : Seq(Answer), complete : BOOLEAN, tool : Verdict, verdict : Verdict,
             boundary : [plan : Plan, generatedAt : Nat, tool : Verdict]]
HostedRecord == [state : HostedState, review : Plan \cup {Null}, approvalExpiresAt : Nat, retentionUntil : Nat,
                 approval : Receipt \cup {Null}, leaseUntil : Nat,
                 invocation : [audit : Hosted, plan : Plan, invokedAt : Nat] \cup {Null},
                 evidence : Document \cup {Null}]
CompletionRecord == [step : {"none", "prepare", "approve", "probe"}, after : Nat, now : Nat,
                     plan : Plan \cup {Null}, checks : Seq(Answer)]

HostedTypes ==
  /\ auditClock \in Nat /\ deployed \in Plan
  /\ hosted \in [Hosted -> HostedRecord]
  /\ completion \in [Hosted -> CompletionRecord]

\* What the approval commits to, and how far from the window's start it can be.
Reviewed(h) ==
  LET x == hosted[h] IN
  /\ x.approval \in Receipt
  /\ x.approval.expiresAt = x.approvalExpiresAt /\ x.approval.reviewed = x.review
  /\ x.approval.approvedAt <= x.approvalExpiresAt
  /\ x.approvalExpiresAt <= x.approval.approvedAt + ReviewWindow + MaxSkew

Invoked(h) ==
  LET x == hosted[h] IN
  /\ x.invocation \in [audit : Hosted, plan : Plan, invokedAt : Nat]
  /\ x.invocation.audit = h /\ x.invocation.plan = x.review

\* The record, by its state.
RecordFits(h) ==
  LET x == hosted[h] IN
  /\ x.state # "none" => x.review \in Plan
  /\ x.state = "awaiting_approval" => x.approvalExpiresAt <= auditClock + ReviewWindow
  /\ x.state \in {"running", "waiting_for_effects", "completed"} => Reviewed(h)
  /\ x.state \in {"waiting_for_effects", "completed"} => Invoked(h)
  /\ x.state = "waiting_for_effects" <=> completion[h].step # "none"

\* The authorisation and the answers of the runs so far, by the step of the completion.
ChecksFit(h) ==
  LET c == completion[h]
      n == Len(c.checks) IN
  /\ n <= 6
  /\ \A i \in 1 .. n : c.checks[i] = Expected[i]
  /\ n <= 4 => release[h].state = "approved" /\ h \in plans
  /\ n >= 5 => release[h].state \in {"executing", "completed"} /\ runs[h] = 1
  /\ n = 6 => release[h].state = "completed"

AuthorisationFits(h) ==
  LET c == completion[h]
      r == release[h] IN
  /\ hosted[h].state \in {"none", "awaiting_approval", "running"} \/ c.step = "prepare" => r.state = "none"
  /\ c.step \in {"approve", "probe"} =>
       /\ c.plan = hosted[h].review
       /\ hosted[h].invocation.invokedAt <= c.now
       /\ r.intent = Exact /\ r.complete = TRUE /\ r.expiresAt = c.now + PlanTTL
  /\ c.step = "prepare" => c.after = hosted[h].invocation.invokedAt
  /\ c.step = "approve" => r.state = "awaiting_approval" /\ c.checks = <<>> /\ h \in plans
  /\ c.step = "probe" => ChecksFit(h)
  /\ r.state = "completed" => r.verdict = ReleaseVerdict(r.complete, r.tool)

\* The stored evidence: of this audit, and as the verifier wants it.
EvidenceFits(h) ==
  LET x == hosted[h]
      e == x.evidence
      r == release[h] IN
  x.state = "completed" =>
    /\ r.state = "completed" /\ runs[h] = 1
    /\ e \in Document /\ e.audit = h /\ e.review = x.review /\ e.approval = x.approval
    /\ e.retentionUntil = x.retentionUntil /\ x.retentionUntil = e.generatedAt + Retention30
    /\ e.verdict = r.verdict
    /\ Objection(e, e.review) = "valid"

Fits(h) == RecordFits(h) /\ AuthorisationFits(h) /\ EvidenceFits(h)

HostedInv == HostedTypes /\ \A h \in Hosted : Fits(h)

\* The six answers that a completion waits for.
LEMMA ExpectedAnswers ==
  /\ Len(Expected) = 6
  /\ Expected[1] = "invalid_capability" /\ Expected[2] = "tool_binding_mismatch"
  /\ Expected[3] = "agent_identity_mismatch" /\ Expected[4] = "argument_substitution"
  /\ Expected[5] = "execute" /\ Expected[6] = "authorization_replayed"
BY DEF Expected

\* The intents that the completion probes with differ in one respect each.
LEMMA ProbesDiffer ==
  /\ WrongTool.agent = Exact.agent /\ WrongTool.tool # Exact.tool
  /\ WrongAgent.agent # Exact.agent
  /\ WrongArgs.agent = Exact.agent /\ WrongArgs.tool = Exact.tool /\ WrongArgs.args # Exact.args
<1>1. /\ (CHOOSE t \in Tool : t # Exact.tool) # Exact.tool
      /\ (CHOOSE a \in Agent : a # Exact.agent) # Exact.agent
      /\ (CHOOSE x \in Args : x # Exact.args) # Exact.args
  BY ReleaseAssumption
<1> QED
  BY <1>1, OfferedTypes DEF WrongTool, WrongAgent, WrongArgs, Intent

\* What an approved release answers to the four requests that nobody was authorised to make.
LEMMA ProbeAnswers ==
  ASSUME NEW h \in Release,
         release[h].intent = Exact, NEW now \in Nat, release[h].expiresAt = now + PlanTTL,
         release[h].state = "approved", release[h].secret \in Secret
  PROVE  /\ Reply(h, NoSecret, Exact, now) = "invalid_capability"
         /\ \A secret : /\ Reply(h, secret, WrongTool, now) = "tool_binding_mismatch"
                        /\ Reply(h, secret, WrongAgent, now) = "agent_identity_mismatch"
                        /\ Reply(h, secret, WrongArgs, now) = "argument_substitution"
         /\ Reply(h, release[h].secret, Exact, now) = "execute"
<1>1. ~(now >= now + PlanTTL) /\ NoSecret # release[h].secret
  BY ReleaseAssumption
<1>2. \A secret, intent :
        Reply(h, secret, intent, now) =
          IF intent.agent # Exact.agent THEN "agent_identity_mismatch"
          ELSE IF intent.tool # Exact.tool THEN "tool_binding_mismatch"
          ELSE IF intent.args # Exact.args THEN "argument_substitution"
          ELSE IF secret = NoSecret \/ secret # release[h].secret THEN "invalid_capability"
          ELSE "execute"
  BY <1>1 DEF Reply, Used
<1> QED
  BY <1>1, <1>2, ProbesDiffer

\* A completed release answers that it was replayed, whatever the request.
LEMMA ReplayAnswer ==
  ASSUME NEW h \in Release, release[h].state = "completed", NEW secret, NEW intent, NEW now
  PROVE  Reply(h, secret, intent, now) = "authorization_replayed"
BY DEF Reply, Used

\* The six requests of a completion: what each alters of what was approved.
LEMMA ProbeOf ==
  ASSUME NEW h \in Hosted
  PROVE  /\ Len(Probes(h)) = 6
         /\ Probes(h)[1].secret = NoSecret /\ Probes(h)[1].intent = Exact
         /\ Probes(h)[2].intent = WrongTool
         /\ Probes(h)[3].intent = WrongAgent
         /\ Probes(h)[4].intent = WrongArgs
         /\ Probes(h)[5].secret = release[h].secret /\ Probes(h)[5].intent = Exact
BY DEF Probes

\* Each run of a completion is answered as the verifier expects it.
LEMMA AnsweredAsExpected ==
  ASSUME ReleaseInv, HostedInv, NEW h \in Hosted,
         completion[h].step = "probe", Len(completion[h].checks) < 6, release[h].state # "executing"
  PROVE  LET n == Len(completion[h].checks)
             probe == Probes(h)[n + 1] IN
         /\ n \in 0 .. 5
         /\ Reply(h, probe.secret, probe.intent, completion[h].now) = Expected[n + 1]
         /\ n <= 4 => release[h].state = "approved"
         /\ n = 5 => release[h].state = "completed"
<1> DEFINE n == Len(completion[h].checks)
<1>1. /\ n \in Nat /\ n < 6 /\ h \in Release /\ completion[h].now \in Nat
      /\ release[h].intent = Exact /\ release[h].expiresAt = completion[h].now + PlanTTL
      /\ n <= 4 => release[h].state = "approved" /\ release[h].secret \in Secret
      /\ n >= 5 => release[h].state = "completed"
  BY EvidenceAssumption DEF HostedInv, HostedTypes, CompletionRecord, Fits, AuthorisationFits, ChecksFit, ReleaseInv, LifeFits
<1> HIDE DEF n
<1>2. n \in {0, 1, 2, 3, 4, 5}
  BY <1>1
<1>3. CASE n = 5
  BY <1>1, <1>3, ReplayAnswer, ExpectedAnswers DEF n
<1>4. CASE n # 5
  <2>1. n + 1 \in {1, 2, 3, 4, 5} /\ release[h].state = "approved" /\ release[h].secret \in Secret
    BY <1>1, <1>2, <1>4
  <2> DEFINE answer == Reply(h, Probes(h)[n + 1].secret, Probes(h)[n + 1].intent, completion[h].now)
  <2>2. ASSUME n + 1 = 1 PROVE answer = Expected[n + 1]
    <3>1. answer = Reply(h, NoSecret, Exact, completion[h].now)
      BY <2>2, ProbeOf
    <3> QED
      BY <1>1, <2>1, <2>2, <3>1, ProbeAnswers, ExpectedAnswers
  <2>3. ASSUME n + 1 = 2 PROVE answer = Expected[n + 1]
    <3>1. answer = Reply(h, Probes(h)[2].secret, WrongTool, completion[h].now)
      BY <2>3, ProbeOf
    <3> QED
      BY <1>1, <2>1, <2>3, <3>1, ProbeAnswers, ExpectedAnswers
  <2>4. ASSUME n + 1 = 3 PROVE answer = Expected[n + 1]
    <3>1. answer = Reply(h, Probes(h)[3].secret, WrongAgent, completion[h].now)
      BY <2>4, ProbeOf
    <3> QED
      BY <1>1, <2>1, <2>4, <3>1, ProbeAnswers, ExpectedAnswers
  <2>5. ASSUME n + 1 = 4 PROVE answer = Expected[n + 1]
    <3>1. answer = Reply(h, Probes(h)[4].secret, WrongArgs, completion[h].now)
      BY <2>5, ProbeOf
    <3> QED
      BY <1>1, <2>1, <2>5, <3>1, ProbeAnswers, ExpectedAnswers
  <2>6. ASSUME n + 1 = 5 PROVE answer = Expected[n + 1]
    <3>1. answer = Reply(h, release[h].secret, Exact, completion[h].now)
      BY <2>6, ProbeOf
    <3> QED
      BY <1>1, <2>1, <2>6, <3>1, ProbeAnswers, ExpectedAnswers
  <2>7. answer = Expected[n + 1]
    BY <2>1, <2>2, <2>3, <2>4, <2>5, <2>6
  <2> QED
    BY <1>2, <1>4, <2>1, <2>7 DEF n
<1> QED
  BY <1>3, <1>4

-----------------------------------------------------------------------------
(* The completion, step by step *)

\* What a step leaves of an audit that it does not touch.
LEMMA FitsKept ==
  ASSUME HostedTypes, NEW q \in Hosted, Fits(q), auditClock' \in Nat, auditClock <= auditClock',
         hosted'[q] = hosted[q], completion'[q] = completion[q], release'[q] = release[q], runs'[q] = runs[q],
         q \in plans' <=> q \in plans
  PROVE  Fits(q)'
<1>0. hosted[q].approvalExpiresAt \in Nat /\ ReviewWindow \in Nat
  BY EvidenceAssumption DEF HostedTypes, HostedRecord
<1>1. RecordFits(q)'
  BY <1>0 DEF Fits, RecordFits, Reviewed, Invoked, HostedTypes
<1>2. AuthorisationFits(q)'
  BY DEF Fits, AuthorisationFits, ChecksFit
<1>3. EvidenceFits(q)'
  BY DEF Fits, EvidenceFits
<1> QED
  BY <1>1, <1>2, <1>3 DEF Fits

\* A step that touches one audit has to be right for that one.
OthersKept(h) ==
  \A q \in Release \ {h} : /\ release'[q] = release[q] /\ runs'[q] = runs[q]
                           /\ q \in plans' <=> q \in plans

\* A step that changes one audit and its release keeps the invariant if that audit still fits.
LEMMA OneAudit ==
  ASSUME HostedInv, NEW h \in Hosted, auditClock' = auditClock, deployed' = deployed, OthersKept(h),
         hosted' \in [Hosted -> HostedRecord], completion' \in [Hosted -> CompletionRecord],
         \A q \in Hosted \ {h} : hosted'[q] = hosted[q] /\ completion'[q] = completion[q],
         Fits(h)'
  PROVE  HostedInv'
<1>1. HostedTypes'
  BY DEF HostedInv, HostedTypes
<1>2. ASSUME NEW q \in Hosted \ {h} PROVE Fits(q)'
  <2>1. q \in Release \ {h} /\ hosted'[q] = hosted[q] /\ completion'[q] = completion[q] /\ auditClock \in Nat
    BY EvidenceAssumption DEF HostedInv, HostedTypes
  <2>2. HostedTypes /\ Fits(q) /\ auditClock <= auditClock'
    BY <2>1 DEF HostedInv, HostedTypes
  <2> QED
    BY <2>1, <2>2, FitsKept DEF OthersKept
<1> QED
  BY <1>1, <1>2 DEF HostedInv

\* An audit that nobody completes has nothing in hand.
LEMMA IdleIs == <<>> \in Seq(Answer) /\ Idle \in CompletionRecord /\ Idle.step = "none"
<1>1. <<>> \in Seq(Answer)
  OBVIOUS
<1> QED
  BY <1>1 DEF Idle, CompletionRecord

\* A process reads a clock that is not far from the time.
LEMMA ReadingIs == Reading \subseteq Nat /\ \A t \in Reading : t <= auditClock /\ auditClock <= t + MaxSkew
BY ReleaseAssumption DEF Reading

\* Creation: a record that waits for its reviewer.
LEMMA CreateKeeps == ASSUME HostedInv, NEW h \in Hosted, CreateHosted(h) PROVE HostedInv'
<1> PICK now \in Reading :
      /\ hosted[h].state = "none"
      /\ hosted' = [hosted EXCEPT ![h] = [NoHosted EXCEPT !.state = "awaiting_approval", !.review = deployed,
                    !.approvalExpiresAt = now + ReviewWindow, !.retentionUntil = now + Retention30]]
      /\ UNCHANGED <<auditClock, releaseVars, deployed, completion>>
  BY DEF CreateHosted
<1> DEFINE new == [NoHosted EXCEPT !.state = "awaiting_approval", !.review = deployed,
                    !.approvalExpiresAt = now + ReviewWindow, !.retentionUntil = now + Retention30]
<1>1. /\ now \in Nat /\ now <= auditClock /\ auditClock \in Nat /\ deployed \in Plan
      /\ now + ReviewWindow \in Nat /\ now + Retention30 \in Nat /\ ReviewWindow \in Nat
  BY ReadingIs, EvidenceAssumption DEF HostedInv, HostedTypes
<1>2. new \in HostedRecord /\ new.state = "awaiting_approval" /\ new.approvalExpiresAt = now + ReviewWindow
  BY <1>1 DEF HostedRecord, NoHosted, HostedState
<1>3. hosted' = [hosted EXCEPT ![h] = new]
  OBVIOUS
<1> HIDE DEF new
<1>4. hosted'[h] = new /\ completion'[h] = completion[h] /\ UNCHANGED <<auditClock, release, runs, plans, completion>>
  BY <1>3 DEF HostedInv, HostedTypes, releaseVars
<1>5. Fits(h)'
  <2>1. RecordFits(h)'
    BY <1>1, <1>2, <1>4 DEF HostedInv, HostedTypes, Fits, RecordFits
  <2>2. AuthorisationFits(h)'
    BY <1>2, <1>4 DEF HostedInv, HostedTypes, Fits, RecordFits, AuthorisationFits
  <2>3. EvidenceFits(h)'
    BY <1>2, <1>4 DEF EvidenceFits
  <2> QED
    BY <2>1, <2>2, <2>3 DEF Fits
<1>6. /\ hosted' \in [Hosted -> HostedRecord] /\ completion' \in [Hosted -> CompletionRecord]
      /\ \A q \in Hosted \ {h} : hosted'[q] = hosted[q] /\ completion'[q] = completion[q]
  BY <1>2, <1>3, <1>4 DEF HostedInv, HostedTypes
<1> QED
  BY <1>4, <1>5, <1>6, OneAudit DEF OthersKept

\* The approval of the reviewer, in time or too late.
LEMMA ApproveKeeps == ASSUME HostedInv, NEW h \in Hosted, ApproveHosted(h) PROVE HostedInv'
<1> PICK now \in Reading :
      /\ hosted[h].state = "awaiting_approval" /\ now < hosted[h].approvalExpiresAt
      /\ hosted' = [hosted EXCEPT ![h] = [hosted[h] EXCEPT !.state = "running",
           !.approval = [approvedAt |-> now, expiresAt |-> hosted[h].approvalExpiresAt, reviewed |-> hosted[h].review],
           !.leaseUntil = now + InvocationLease]]
      /\ UNCHANGED <<auditClock, releaseVars, deployed, completion>>
  BY DEF ApproveHosted
<1> DEFINE old == hosted[h]
           new == [old EXCEPT !.state = "running",
           !.approval = [approvedAt |-> now, expiresAt |-> old.approvalExpiresAt, reviewed |-> old.review],
           !.leaseUntil = now + InvocationLease]
<1>1. /\ now \in Nat /\ now + InvocationLease \in Nat /\ now < old.approvalExpiresAt /\ auditClock \in Nat
      /\ auditClock <= now + MaxSkew /\ MaxSkew \in Nat /\ ReviewWindow \in Nat
      /\ old.approvalExpiresAt <= auditClock + ReviewWindow /\ old.approvalExpiresAt \in Nat
  BY ReadingIs, EvidenceAssumption DEF HostedInv, HostedTypes, HostedRecord, Fits, RecordFits
<1>2. old \in HostedRecord
  BY DEF HostedInv, HostedTypes
<1>3. hosted' = [hosted EXCEPT ![h] = new] /\ old.state = "awaiting_approval" /\ old.review \in Plan
  BY DEF HostedInv, Fits, RecordFits
<1> HIDE DEF old
<1>4. /\ new \in HostedRecord /\ new.state = "running" /\ new.review = old.review
      /\ new.approval = [approvedAt |-> now, expiresAt |-> old.approvalExpiresAt, reviewed |-> old.review]
      /\ new.approvalExpiresAt = old.approvalExpiresAt
  BY <1>1, <1>2, <1>3 DEF HostedRecord, HostedState, Receipt
<1> HIDE DEF new
<1>5. hosted'[h] = new /\ UNCHANGED <<auditClock, release, runs, plans, completion>>
  BY <1>3 DEF HostedInv, HostedTypes, releaseVars
<1>6. Fits(h)'
  <2>0. Reviewed(h)'
    <3>1. new.approval \in Receipt
      BY <1>1, <1>3, <1>4 DEF Receipt
    <3>2. old.approvalExpiresAt <= now + ReviewWindow + MaxSkew
      BY <1>1
    <3>3. /\ new.approval.expiresAt = new.approvalExpiresAt /\ new.approval.reviewed = new.review
          /\ new.approval.approvedAt = now
      BY <1>4
    <3>4. new.approvalExpiresAt = old.approvalExpiresAt /\ now <= old.approvalExpiresAt
      BY <1>1, <1>4
    <3> QED
      BY <1>5, <3>1, <3>2, <3>3, <3>4 DEF Reviewed
  <2>1. RecordFits(h)'
    <3>1. hosted[h].state = "waiting_for_effects" <=> completion[h].step # "none"
      BY DEF HostedInv, Fits, RecordFits
    <3> QED
      BY <1>3, <1>4, <1>5, <2>0, <3>1 DEF RecordFits, old
  <2>2. AuthorisationFits(h)'
    BY <1>3, <1>4, <1>5 DEF HostedInv, HostedTypes, Fits, RecordFits, AuthorisationFits, old
  <2>3. EvidenceFits(h)'
    BY <1>4, <1>5 DEF EvidenceFits
  <2> QED
    BY <2>1, <2>2, <2>3 DEF Fits
<1>7. /\ hosted' \in [Hosted -> HostedRecord] /\ completion' \in [Hosted -> CompletionRecord]
      /\ \A q \in Hosted \ {h} : hosted'[q] = hosted[q] /\ completion'[q] = completion[q]
  BY <1>3, <1>4, <1>5 DEF HostedInv, HostedTypes
<1> QED
  BY <1>5, <1>6, <1>7, OneAudit DEF OthersKept

\* An invocation by somebody else than the completion.
LEMMA InvokeKeeps == ASSUME HostedInv, NEW h \in Hosted, InvokeHosted(h) PROVE HostedInv'
<1> PICK now \in Reading :
      /\ hosted[h].state = "running"
      /\ hosted' = [hosted EXCEPT ![h] = [hosted[h] EXCEPT !.state = "waiting_for_effects",
           !.invocation = [audit |-> h, plan |-> hosted[h].review, invokedAt |-> now]]]
      /\ completion' = [completion EXCEPT ![h] = [Idle EXCEPT !.step = "prepare", !.after = now]]
      /\ UNCHANGED <<auditClock, releaseVars, deployed>>
  BY DEF InvokeHosted
<1> DEFINE old == hosted[h]
           new == [old EXCEPT !.state = "waiting_for_effects",
                              !.invocation = [audit |-> h, plan |-> old.review, invokedAt |-> now]]
           c == [Idle EXCEPT !.step = "prepare", !.after = now]
<1>1. now \in Nat /\ auditClock \in Nat /\ old \in HostedRecord /\ old.state = "running" /\ old.review \in Plan
  BY ReadingIs DEF HostedInv, HostedTypes, Fits, RecordFits
<1>2. hosted' = [hosted EXCEPT ![h] = new] /\ completion' = [completion EXCEPT ![h] = c]
  OBVIOUS
<1>3. c \in CompletionRecord /\ c.step = "prepare" /\ c.after = now
  BY <1>1, IdleIs DEF Idle, CompletionRecord
<1> HIDE DEF old, c
<1>4. /\ new \in HostedRecord /\ new.state = "waiting_for_effects" /\ new.review = old.review
      /\ new.approval = old.approval /\ new.approvalExpiresAt = old.approvalExpiresAt
      /\ new.invocation = [audit |-> h, plan |-> old.review, invokedAt |-> now]
  BY <1>1 DEF HostedRecord, HostedState, Receipt
<1> HIDE DEF new
<1>5. hosted'[h] = new /\ completion'[h] = c /\ UNCHANGED <<auditClock, release, runs, plans>>
  BY <1>2 DEF HostedInv, HostedTypes, releaseVars
<1>6. Fits(h)'
  <2>1. RecordFits(h)'
    BY <1>1, <1>3, <1>4, <1>5 DEF HostedInv, HostedTypes, Fits, RecordFits, Reviewed, Invoked, old
  <2>2. AuthorisationFits(h)'
    BY <1>1, <1>3, <1>4, <1>5 DEF HostedInv, HostedTypes, Fits, RecordFits, AuthorisationFits, old
  <2>3. EvidenceFits(h)'
    BY <1>4, <1>5 DEF EvidenceFits
  <2> QED
    BY <2>1, <2>2, <2>3 DEF Fits
<1>7. /\ auditClock' = auditClock /\ deployed' = deployed
      /\ \A q \in Release \ {h} : /\ release'[q] = release[q] /\ runs'[q] = runs[q]
                                  /\ q \in plans' <=> q \in plans
  BY <1>5
<1>8. /\ hosted' \in [Hosted -> HostedRecord] /\ completion' \in [Hosted -> CompletionRecord]
      /\ \A q \in Hosted \ {h} : hosted'[q] = hosted[q] /\ completion'[q] = completion[q]
  BY <1>2, <1>3, <1>4 DEF HostedInv, HostedTypes
<1> QED
  BY <1>6, <1>7, <1>8, OneAudit DEF OthersKept

\* A completion that fails leaves a failure on the record, whatever the release has become.
LEMMA FailKeeps ==
  ASSUME HostedInv, NEW h \in Hosted, completion[h].step # "none", Fail(h),
         auditClock' = auditClock, deployed' = deployed, OthersKept(h),
         release'[h].state = "completed" => release'[h].verdict = ReleaseVerdict(release'[h].complete, release'[h].tool)
  PROVE  HostedInv'
<1>1. /\ hosted' \in [Hosted -> HostedRecord] /\ completion' \in [Hosted -> CompletionRecord]
      /\ \A q \in Hosted \ {h} : hosted'[q] = hosted[q] /\ completion'[q] = completion[q]
      /\ hosted'[h].state = "failed" /\ hosted'[h].review = hosted[h].review /\ completion'[h] = Idle
  BY IdleIs DEF HostedInv, HostedTypes, Fail, Step, HostedRecord, HostedState
<1>2. hosted[h].review \in Plan
  BY DEF HostedInv, Fits, RecordFits
<1>3. Fits(h)'
  <2>1. RecordFits(h)'
    BY <1>1, <1>2, IdleIs DEF RecordFits
  <2>2. AuthorisationFits(h)'
    BY <1>1, IdleIs DEF AuthorisationFits
  <2>3. EvidenceFits(h)'
    BY <1>1 DEF EvidenceFits
  <2> QED
    BY <2>1, <2>2, <2>3 DEF Fits
<1> QED
  BY <1>1, <1>3, OneAudit

\* A completion takes place on an audit whose effects are awaited.
Completing(h) ==
  /\ hosted[h].state = "waiting_for_effects" /\ hosted[h] \in HostedRecord
  /\ completion[h] \in CompletionRecord /\ hosted[h].review \in Plan
  /\ RecordFits(h) /\ AuthorisationFits(h) /\ Reviewed(h) /\ Invoked(h) /\ h \in Release

\* As long as a completion is under way, its audit is being completed.
LEMMA WhileCompleting ==
  ASSUME HostedInv, NEW h \in Hosted, completion[h].step # "none"
  PROVE  Completing(h)
BY EvidenceAssumption DEF HostedInv, HostedTypes, Fits, RecordFits, Completing

\* A completion that moves on keeps the record; what the release has become must fit.
LEMMA CompletionKeeps ==
  ASSUME HostedInv, NEW h \in Hosted, completion[h].step # "none", UNCHANGED <<auditClock, deployed, hosted>>,
         OthersKept(h), completion'[h] \in CompletionRecord, completion'[h].step # "none",
         completion' = [completion EXCEPT ![h] = completion'[h]], AuthorisationFits(h)'
  PROVE  HostedInv'
<1>1. /\ hosted' \in [Hosted -> HostedRecord] /\ completion' \in [Hosted -> CompletionRecord]
      /\ \A q \in Hosted \ {h} : hosted'[q] = hosted[q] /\ completion'[q] = completion[q]
  BY DEF HostedInv, HostedTypes
<1>2. RecordFits(h)' /\ EvidenceFits(h)'
  BY WhileCompleting DEF Completing, RecordFits, EvidenceFits, Reviewed, Invoked
<1> QED
  BY <1>1, <1>2, OneAudit DEF Fits

\* The completion validates the approval and prepares the release, at one reading of the clock.
LEMMA PrepareKeeps == ASSUME ReleaseInv, HostedInv, NEW h \in Hosted, PrepareCompletion(h) PROVE HostedInv'
<1> PICK now \in Reading :
      /\ completion[h].step = "prepare" /\ now >= completion[h].after
      /\ Prepare(h, Exact, TRUE, now)
      /\ IF StillReviewed(h)
         THEN /\ Step(h, [Idle EXCEPT !.step = "approve", !.now = now, !.plan = deployed])
              /\ UNCHANGED hosted
         ELSE Fail(h)
      /\ UNCHANGED <<auditClock, deployed>>
  BY DEF PrepareCompletion
<1> DEFINE new == [NoRecord EXCEPT !.state = "awaiting_approval", !.intent = Exact,
                                   !.expiresAt = now + PlanTTL, !.complete = TRUE]
<1>1. now \in Nat /\ h \in Release /\ deployed \in Plan
  BY ReadingIs, EvidenceAssumption DEF HostedInv, HostedTypes
<1>2. /\ new.state = "awaiting_approval" /\ new.intent = Exact /\ new.complete = TRUE
      /\ new.expiresAt = now + PlanTTL
  BY DEF NoRecord
<1>3. release' = [release EXCEPT ![h] = new] /\ plans' = plans \cup {h} /\ runs' = runs
  BY DEF Prepare
<1> HIDE DEF new
<1>4. OthersKept(h) /\ release'[h] = new
  BY <1>1, <1>3 DEF OthersKept, ReleaseInv, ReleaseRecords
<1>5. CASE StillReviewed(h)
  <2> DEFINE c == [Idle EXCEPT !.step = "approve", !.now = now, !.plan = deployed]
  <2>1. c \in CompletionRecord /\ c.step = "approve" /\ c.now = now /\ c.plan = deployed /\ c.checks = <<>>
    BY <1>1, IdleIs DEF Idle, CompletionRecord
  <2>2. completion' = [completion EXCEPT ![h] = c] /\ hosted' = hosted
    BY <1>5 DEF Step
  <2> HIDE DEF c
  <2>3. completion'[h] = c
    BY <2>2 DEF HostedInv, HostedTypes
  <2>4. hosted[h].invocation.invokedAt <= now /\ hosted[h].review = deployed /\ hosted[h].state = "waiting_for_effects"
    BY <1>5, WhileCompleting DEF Completing, AuthorisationFits, StillReviewed
  <2>5. AuthorisationFits(h)'
    BY <1>2, <1>3, <1>4, <2>1, <2>2, <2>3, <2>4 DEF AuthorisationFits
  <2> QED
    BY <1>4, <2>1, <2>2, <2>3, <2>5, CompletionKeeps
<1>6. CASE ~StillReviewed(h)
  BY <1>2, <1>4, <1>6, FailKeeps
<1> QED
  BY <1>5, <1>6

\* The completion approves its release, and gets the secret.
LEMMA ApprovalKeeps == ASSUME ReleaseInv, HostedInv, NEW h \in Hosted, ApproveCompletion(h) PROVE HostedInv'
<1> PICK secret \in Secret :
      /\ completion[h].step = "approve"
      /\ ApproveRelease(h, secret, completion[h].now)
      /\ Step(h, [completion[h] EXCEPT !.step = "probe"])
      /\ UNCHANGED <<auditClock, deployed, hosted>>
  BY DEF ApproveCompletion
<1> DEFINE c == [completion[h] EXCEPT !.step = "probe"]
<1>1. Completing(h)
  BY WhileCompleting
<1>2. c \in CompletionRecord /\ c.step = "probe" /\ c.now = completion[h].now /\ c.plan = completion[h].plan /\ c.checks = <<>>
  BY <1>1 DEF Completing, CompletionRecord, AuthorisationFits
<1>3. completion' = [completion EXCEPT ![h] = c]
  BY DEF Step
<1> HIDE DEF c
<1>4. completion'[h] = c
  BY <1>3 DEF HostedInv, HostedTypes
<1>5. /\ OthersKept(h) /\ release'[h].state = "approved" /\ release'[h].intent = release[h].intent
      /\ release'[h].expiresAt = release[h].expiresAt /\ release'[h].complete = release[h].complete
      /\ UNCHANGED <<plans, runs>>
  BY <1>1 DEF Completing, OthersKept, ApproveRelease, ReleaseInv, ReleaseRecords, Record
<1>6. ChecksFit(h)'
  <2>1. Len(c.checks) = 0 /\ h \in plans
    BY <1>1, <1>2 DEF Completing, AuthorisationFits
  <2> QED
    BY <1>4, <1>5, <2>1 DEF ChecksFit
<1>7. AuthorisationFits(h)'
  BY <1>1, <1>2, <1>4, <1>5, <1>6 DEF Completing, AuthorisationFits
<1> QED
  BY <1>2, <1>3, <1>4, <1>5, <1>7, CompletionKeeps

\* The last answer is added to those before.
LEMMA OneMoreCheck ==
  ASSUME NEW checks \in Seq(Answer), NEW reply \in Answer,
         \A i \in 1 .. Len(checks) : checks[i] = Expected[i], reply = Expected[Len(checks) + 1]
  PROVE  /\ Append(checks, reply) \in Seq(Answer)
         /\ Len(Append(checks, reply)) = Len(checks) + 1
         /\ \A i \in 1 .. Len(checks) + 1 : Append(checks, reply)[i] = Expected[i]
<1>1. /\ Append(checks, reply) \in Seq(Answer)
      /\ Len(Append(checks, reply)) = Len(checks) + 1
      /\ \A i \in 1 .. Len(checks) : Append(checks, reply)[i] = checks[i]
      /\ Append(checks, reply)[Len(checks) + 1] = reply
  OBVIOUS
<1>2. \A i \in 1 .. Len(checks) + 1 : i \in 1 .. Len(checks) \/ i = Len(checks) + 1
  OBVIOUS
<1> QED
  BY <1>1, <1>2

\* The completion sends its next request, and notes the answer.
LEMMA ProbeKeeps == ASSUME ReleaseInv, HostedInv, NEW h \in Hosted, ProbeRelease(h) PROVE HostedInv'
<1> DEFINE checks == completion[h].checks
           n == Len(checks)
           probe == Probes(h)[n + 1]
           reply == Reply(h, probe.secret, probe.intent, completion[h].now)
           c == [completion[h] EXCEPT !.checks = Append(@, reply)]
<1>1. /\ completion[h].step = "probe" /\ n < Len(Probes(h)) /\ release[h].state # "executing"
      /\ RunDenied(h, probe.secret, probe.intent, completion[h].now)
         \/ RunExecutes(h, probe.secret, probe.intent, completion[h].now, 0)
      /\ completion' = [completion EXCEPT ![h] = c]
      /\ UNCHANGED <<auditClock, deployed, hosted>>
  BY DEF ProbeRelease, Step
<1>2. Completing(h) /\ checks \in Seq(Answer) /\ n \in Nat
  BY <1>1, WhileCompleting DEF Completing, CompletionRecord
<1>3. /\ n \in 0 .. 5 /\ reply = Expected[n + 1]
      /\ n <= 4 => release[h].state = "approved"
      /\ n = 5 => release[h].state = "completed"
  BY <1>1, ProbeOf, AnsweredAsExpected
<1> HIDE DEF reply
<1>4. ChecksFit(h)
  BY <1>1, <1>2 DEF Completing, AuthorisationFits
<1>5. \A i \in 1 .. n : checks[i] = Expected[i]
  BY <1>4 DEF ChecksFit
<1> HIDE DEF n
<1>6. reply \in Answer
  <2>1. n + 1 \in {1, 2, 3, 4, 5, 6}
    BY <1>3
  <2> QED
    BY <1>3, <2>1, ExpectedAnswers DEF Answer
<1>a. /\ Append(checks, reply) \in Seq(Answer)
      /\ Len(Append(checks, reply)) = n + 1
      /\ \A i \in 1 .. n + 1 : Append(checks, reply)[i] = Expected[i]
  BY <1>2, <1>3, <1>5, <1>6, OneMoreCheck DEF n
<1>7. /\ c \in CompletionRecord /\ c.step = "probe" /\ c.now = completion[h].now /\ c.plan = completion[h].plan
      /\ c.checks = Append(checks, reply)
  BY <1>1, <1>2, <1>a DEF Completing, CompletionRecord
<1> HIDE DEF c
<1>8. completion'[h] = c
  BY <1>1 DEF HostedInv, HostedTypes
<1>9. /\ Len(c.checks) = n + 1
      /\ \A i \in 1 .. n + 1 : c.checks[i] = Expected[i]
  BY <1>7, <1>a
<1>10. CASE n = 4
  <2>1. reply = "execute"
    BY <1>3, <1>10, ExpectedAnswers
  <2>2. RunExecutes(h, probe.secret, probe.intent, completion[h].now, 0)
    BY <1>1, <2>1 DEF RunDenied, reply
  <2>3. /\ OthersKept(h) /\ release'[h].state = "executing" /\ release'[h].intent = release[h].intent
        /\ release'[h].expiresAt = release[h].expiresAt /\ release'[h].complete = release[h].complete
        /\ runs'[h] = 1
    <3>1. runs[h] = 0
      BY <1>2, <1>3, <1>10 DEF Completing, ReleaseInv, LifeFits
    <3> QED
      BY <1>2, <2>2, <3>1 DEF OthersKept, RunExecutes, SetState, Completing, ReleaseInv, ReleaseRecords, Record
  <2>4. ChecksFit(h)'
    BY <1>8, <1>9, <1>10, <2>3 DEF ChecksFit, n
  <2>5. AuthorisationFits(h)'
    BY <1>1, <1>2, <1>7, <1>8, <2>3, <2>4 DEF Completing, AuthorisationFits
  <2> QED
    BY <1>1, <1>7, <1>8, <2>3, <2>5, CompletionKeeps
<1>11. CASE n # 4
  <2>1. n + 1 \in {1, 2, 3, 4, 6}
    BY <1>3, <1>11
  <2>2. reply # "execute" /\ reply # "authorization_expired"
    BY <1>3, <2>1, ExpectedAnswers
  <2>3. RunDenied(h, probe.secret, probe.intent, completion[h].now) /\ UNCHANGED releaseVars
    BY <1>1, <2>2 DEF RunDenied, RunExecutes, reply, releaseVars
  <2>4. OthersKept(h) /\ UNCHANGED <<release, plans, runs>>
    BY <2>3 DEF OthersKept, releaseVars
  <2>5. ChecksFit(h)'
    <3>1. /\ n + 1 <= 6
          /\ n + 1 <= 4 => n <= 4
          /\ n + 1 >= 5 => n >= 5
          /\ n + 1 = 6 => n = 5
      BY <1>3, <1>11
    <3>2. /\ n <= 4 => release[h].state = "approved" /\ h \in plans
          /\ n >= 5 => release[h].state \in {"executing", "completed"} /\ runs[h] = 1
      BY <1>4 DEF ChecksFit, n
    <3> QED
      BY <1>3, <1>8, <1>9, <2>4, <3>1, <3>2 DEF ChecksFit
  <2>6. AuthorisationFits(h)'
    BY <1>1, <1>2, <1>7, <1>8, <2>4, <2>5 DEF Completing, AuthorisationFits
  <2> QED
    BY <1>1, <1>7, <1>8, <2>4, <2>6, CompletionKeeps
<1> QED
  BY <1>10, <1>11

\* The tool of the approved request returns.
LEMMA ReturnKeeps == ASSUME ReleaseInv, HostedInv, NEW h \in Hosted, ProbeReturns(h) PROVE HostedInv'
<1> PICK tool \in Verdict : completion[h].step = "probe" /\ RunCompletes(h, tool) /\ UNCHANGED <<auditClock, evidenceVars>>
  BY DEF ProbeReturns
<1> DEFINE verdict == ReleaseVerdict(release[h].complete, tool)
           new == [release[h] EXCEPT !.state = "completed", !.tool = tool, !.verdict = verdict]
<1>1. Completing(h) /\ release[h] \in Record
  BY WhileCompleting DEF Completing, ReleaseInv, ReleaseRecords
<1>2. release' = [release EXCEPT ![h] = new]
  BY DEF RunCompletes
<1> HIDE DEF verdict
<1>3. /\ new.state = "completed" /\ new.tool = tool /\ new.verdict = verdict /\ new.intent = release[h].intent
      /\ new.expiresAt = release[h].expiresAt /\ new.complete = release[h].complete
  BY <1>1 DEF Record
<1> HIDE DEF new
<1>4. /\ OthersKept(h) /\ release'[h] = new /\ UNCHANGED <<plans, runs, auditClock, deployed, hosted, completion>>
      /\ release[h].state = "executing"
  BY <1>1, <1>2 DEF OthersKept, RunCompletes, Completing, ReleaseInv, ReleaseRecords, LifeFits, evidenceVars
<1>5. ChecksFit(h) /\ completion[h].checks \in Seq(Answer)
  BY <1>1 DEF Completing, CompletionRecord, AuthorisationFits
<1>6. ChecksFit(h)'
  BY <1>3, <1>4, <1>5 DEF ChecksFit
<1>7. AuthorisationFits(h)'
  BY <1>1, <1>3, <1>4, <1>6 DEF Completing, AuthorisationFits, verdict
<1> QED
  BY <1>1, <1>4, <1>7, CompletionKeeps DEF Completing, HostedInv, HostedTypes

\* The tool of the approved request throws.
LEMMA ThrowKeeps == ASSUME ReleaseInv, HostedInv, NEW h \in Hosted, ProbeThrows(h) PROVE HostedInv'
<1>1. h \in Release /\ OthersKept(h) /\ release'[h].state = "outcome_unknown"
  BY EvidenceAssumption DEF ProbeThrows, RunThrows, SetState, OthersKept, ReleaseInv, ReleaseRecords, Record
<1> QED
  BY <1>1, FailKeeps DEF ProbeThrows

-----------------------------------------------------------------------------
(* Every step *)

\* Two sequences of a length with the same elements are one.
LEMMA SameSequence ==
  ASSUME NEW S, NEW a \in Seq(S), NEW b \in Seq(S), Len(a) = Len(b), \A i \in 1 .. Len(a) : a[i] = b[i]
  PROVE  a = b
<1>1. a = [i \in 1 .. Len(a) |-> a[i]] /\ b = [i \in 1 .. Len(b) |-> b[i]]
  OBVIOUS
<1> QED
  BY <1>1, Zenon

\* What the evidence of a completion is, once all its runs are answered.
LEMMA EvidenceOf ==
  ASSUME ReleaseInv, HostedInv, NEW h \in Hosted,
         completion[h].step = "probe", Len(completion[h].checks) = Len(Expected)
  PROVE  LET e == Evidence(h)
             c == completion[h]
             r == release[h] IN
         /\ r.state = "completed" /\ runs[h] = 1 /\ r.verdict = ReleaseVerdict(r.complete, r.tool)
         /\ e \in Document /\ e.audit = h /\ e.review = hosted[h].review /\ e.approval = hosted[h].approval
         /\ e.retentionUntil = RetainedUntil(h) /\ e.generatedAt = c.now /\ c.now \in Nat
         /\ e.checks = Expected /\ e.verdict = r.verdict /\ e.tool = r.tool /\ e.complete = r.complete
         /\ e.receipt.audit = h /\ e.receipt.plan = hosted[h].review /\ e.receipt.result = r.tool
         /\ e.receipt.settledAt = c.now /\ e.receipt.invokedAt = hosted[h].invocation.invokedAt
         /\ hosted[h].invocation.invokedAt <= c.now
         /\ e.boundary.plan = hosted[h].review /\ e.boundary.generatedAt = c.now /\ e.boundary.tool = r.tool
         /\ e.review = c.plan
<1>1. Completing(h) /\ Len(completion[h].checks) = 6
  BY WhileCompleting, ExpectedAnswers
<1>2. ChecksFit(h) /\ release[h] \in Record /\ completion[h].plan = hosted[h].review
  BY <1>1 DEF Completing, AuthorisationFits, ReleaseInv, ReleaseRecords
<1>3. completion[h].checks = Expected
  <2>1. completion[h].checks \in Seq(Answer) /\ Expected \in Seq(Answer)
    BY <1>1 DEF Completing, CompletionRecord, Expected, Answer
  <2>2. \A i \in 1 .. Len(completion[h].checks) : completion[h].checks[i] = Expected[i]
    BY <1>1, <1>2 DEF ChecksFit
  <2> QED
    BY <1>1, <2>1, <2>2, ExpectedAnswers, SameSequence
<1>4. completion[h].now + Retention30 \in Nat /\ completion[h].now \in Nat
  BY <1>1, EvidenceAssumption DEF Completing, CompletionRecord
<1>5. hosted[h].approval \in Receipt /\ hosted[h].invocation \in [audit : Hosted, plan : Plan, invokedAt : Nat]
  BY <1>1 DEF Completing, Reviewed, Invoked
<1> DEFINE e == Evidence(h)
           i == hosted[h].invocation
           c == completion[h]
           r == release[h]
           receipt == [audit |-> i.audit, plan |-> i.plan, invokedAt |-> i.invokedAt,
                       result |-> r.tool, settledAt |-> c.now]
           boundary == [plan |-> c.plan, generatedAt |-> c.now, tool |-> r.tool]
<1>6. e = [audit |-> h, generatedAt |-> c.now, retentionUntil |-> RetainedUntil(h),
           approval |-> hosted[h].approval, review |-> hosted[h].review, receipt |-> receipt,
           checks |-> c.checks, complete |-> r.complete, tool |-> r.tool, verdict |-> r.verdict,
           boundary |-> boundary]
  BY DEF Evidence
<1>7. /\ receipt \in [audit : Hosted, plan : Plan, invokedAt : Nat, result : Verdict, settledAt : Nat]
      /\ boundary \in [plan : Plan, generatedAt : Nat, tool : Verdict]
  BY <1>1, <1>2, <1>4, <1>5 DEF Record, Completing
<1>8. c.checks \in Seq(Answer) /\ RetainedUntil(h) \in Nat /\ r.complete \in BOOLEAN /\ r.tool \in Verdict /\ r.verdict \in Verdict
      /\ hosted[h].review \in Plan
  BY <1>1, <1>2, <1>4 DEF RetainedUntil, Record, Completing, CompletionRecord
<1>9. receipt.audit = h /\ receipt.plan = hosted[h].review /\ i.invokedAt <= c.now
  BY <1>1 DEF Completing, Invoked, AuthorisationFits
<1>10. r.state = "completed" /\ runs[h] = 1 /\ r.verdict = ReleaseVerdict(r.complete, r.tool)
  BY <1>1, <1>2 DEF ChecksFit, Completing, AuthorisationFits
<1>11. receipt.result = r.tool /\ receipt.settledAt = c.now /\ receipt.invokedAt = i.invokedAt
       /\ boundary.plan = hosted[h].review /\ boundary.generatedAt = c.now /\ boundary.tool = r.tool
  BY <1>2
<1> HIDE DEF receipt, boundary, e
<1>12. e \in Document
  BY <1>5, <1>6, <1>7, <1>8, <1>4 DEF Document
<1> QED
  BY <1>2, <1>3, <1>4, <1>6, <1>9, <1>10, <1>11, <1>12 DEF e

\* The six answers are there, as expected, and the evidence is stored and signed.
LEMMA StoreKeeps == ASSUME ReleaseInv, HostedInv, NEW h \in Hosted, StoreEvidence(h) PROVE HostedInv'
<1> DEFINE old == hosted[h]
           e == Evidence(h)
           until == RetainedUntil(h)
           new == [old EXCEPT !.state = "completed", !.retentionUntil = until, !.evidence = e]
<1>1. /\ completion[h].step = "probe" /\ Len(completion[h].checks) = Len(Expected) /\ OwnObjection(h) = "valid"
      /\ hosted' = [hosted EXCEPT ![h] = new] /\ completion' = [completion EXCEPT ![h] = Idle]
      /\ UNCHANGED <<auditClock, release, runs, plans, deployed>>
  BY DEF StoreEvidence, Step, releaseVars
<1>2. Completing(h) /\ old \in HostedRecord
  BY <1>1, WhileCompleting DEF Completing
<1>3. /\ release[h].state = "completed" /\ runs[h] = 1
      /\ release[h].verdict = ReleaseVerdict(release[h].complete, release[h].tool)
      /\ e \in Document /\ e.audit = h /\ e.review = old.review /\ e.approval = old.approval
      /\ e.retentionUntil = until /\ until = e.generatedAt + Retention30
      /\ e.verdict = release[h].verdict /\ Objection(e, e.review) = "valid"
  BY <1>1, EvidenceOf DEF RetainedUntil, OwnObjection
<1>4. until \in Nat
  BY <1>3 DEF Document
<1> HIDE DEF old, e, until
<1>5. /\ new \in HostedRecord /\ new.state = "completed" /\ new.review = old.review /\ new.evidence = e
      /\ new.approval = old.approval /\ new.approvalExpiresAt = old.approvalExpiresAt
      /\ new.invocation = old.invocation /\ new.retentionUntil = until
  BY <1>2, <1>3, <1>4 DEF HostedRecord, HostedState
<1> HIDE DEF new
<1>6. hosted'[h] = new /\ completion'[h] = Idle
  BY <1>1 DEF HostedInv, HostedTypes
<1>7. RecordFits(h)'
  BY <1>2, <1>5, <1>6, IdleIs DEF RecordFits, Completing, Reviewed, Invoked, old
<1>8. AuthorisationFits(h)'
  BY <1>1, <1>3, <1>5, <1>6, IdleIs DEF AuthorisationFits
<1>9. EvidenceFits(h)'
  BY <1>1, <1>3, <1>5, <1>6 DEF EvidenceFits
<1>10. OthersKept(h)
  BY <1>1 DEF OthersKept
<1>11. /\ hosted' \in [Hosted -> HostedRecord] /\ completion' \in [Hosted -> CompletionRecord]
       /\ \A q \in Hosted \ {h} : hosted'[q] = hosted[q] /\ completion'[q] = completion[q]
  BY <1>1, <1>5, IdleIs DEF HostedInv, HostedTypes
<1> QED
  BY <1>1, <1>7, <1>8, <1>9, <1>10, <1>11, OneAudit DEF Fits

\* An answer was not the expected one.
LEMMA RefuseKeeps == ASSUME ReleaseInv, HostedInv, NEW h \in Hosted, RefuseEvidence(h) PROVE HostedInv'
<1>1. completion[h].step # "none" /\ Fail(h) /\ UNCHANGED <<auditClock, release, runs, plans, deployed>>
  BY DEF RefuseEvidence, releaseVars
<1>2. OthersKept(h) /\ Completing(h)
  BY <1>1, WhileCompleting DEF OthersKept
<1> QED
  BY <1>1, <1>2, FailKeeps DEF Completing, AuthorisationFits

\* Neither time nor a deployment disturbs what is known of the audits.
LEMMA WorldKeeps ==
  ASSUME HostedInv, \/ AuditTick /\ UNCHANGED <<releaseVars, evidenceVars>>
                    \/ \E plan \in Plan : Redeploy(plan)
  PROVE  HostedInv'
<1>1. /\ UNCHANGED <<release, runs, plans, hosted, completion>> /\ deployed' \in Plan
      /\ auditClock' \in Nat /\ auditClock <= auditClock'
  BY DEF AuditTick, Redeploy, releaseVars, evidenceVars, HostedInv, HostedTypes
<1>2. HostedTypes'
  BY <1>1 DEF HostedInv, HostedTypes
<1>3. ASSUME NEW q \in Hosted PROVE Fits(q)'
  BY <1>1, FitsKept DEF HostedInv
<1> QED
  BY <1>2, <1>3 DEF HostedInv

\* A hosted audit uses the auditor only as the auditor may be used, ...
LEMMA EvidenceUses ==
  ASSUME ReleaseInv, HostedInv, [EvidenceNext]_<<auditClock, releaseVars, evidenceVars>>
  PROVE  UNCHANGED releaseVars \/ \E r \in Release : AuditStep(r)
<1>1. CASE \/ AuditTick /\ UNCHANGED <<releaseVars, evidenceVars>>
           \/ \E plan \in Plan : Redeploy(plan)
           \/ UNCHANGED <<auditClock, releaseVars, evidenceVars>>
  BY <1>1 DEF Redeploy
<1>2. ASSUME NEW h \in Hosted,
             \/ CreateHosted(h) \/ ApproveHosted(h) \/ InvokeHosted(h)
             \/ PrepareCompletion(h) \/ ApproveCompletion(h) \/ ProbeRelease(h) \/ ProbeReturns(h) \/ ProbeThrows(h)
             \/ StoreEvidence(h) \/ RefuseEvidence(h)
      PROVE  UNCHANGED releaseVars \/ AuditStep(h)
  <2>0. completion[h].now \in Nat
    BY DEF HostedInv, HostedTypes, CompletionRecord
  <2>1. CASE CreateHosted(h) \/ ApproveHosted(h) \/ InvokeHosted(h) \/ StoreEvidence(h) \/ RefuseEvidence(h)
    BY <2>1 DEF CreateHosted, ApproveHosted, InvokeHosted, StoreEvidence, RefuseEvidence
  <2>2. CASE PrepareCompletion(h)
    <3>1. PICK now \in Reading : Prepare(h, Exact, TRUE, now)
      BY <2>2 DEF PrepareCompletion
    <3>2. now \in Nat
      BY ReadingIs
    <3> QED
      BY <3>1, <3>2, OfferedTypes DEF AuditStep
  <2>3. CASE ApproveCompletion(h)
    BY <2>0, <2>3 DEF ApproveCompletion, AuditStep
  <2>4. CASE ProbeRelease(h)
    <3>1. PICK secret, intent : \/ RunDenied(h, secret, intent, completion[h].now)
                                \/ RunExecutes(h, secret, intent, completion[h].now, 0)
      BY <2>4 DEF ProbeRelease
    <3> QED
      BY <2>0, <3>1 DEF AuditStep
  <2>5. CASE ProbeReturns(h) \/ ProbeThrows(h)
    BY <2>5 DEF ProbeReturns, ProbeThrows, AuditStep
  <2> QED
    BY <1>2, <2>1, <2>2, <2>3, <2>4, <2>5
<1> QED
  BY <1>1, <1>2, EvidenceAssumption DEF EvidenceNext

\* ... and keeps what is known of it.
LEMMA EvidenceSteps ==
  ASSUME ReleaseInv, HostedInv, [EvidenceNext]_<<auditClock, releaseVars, evidenceVars>>
  PROVE  HostedInv'
<1>1. CASE UNCHANGED <<auditClock, releaseVars, evidenceVars>>
  BY <1>1 DEF releaseVars, evidenceVars, HostedInv, HostedTypes, Fits, RecordFits, Reviewed, Invoked, AuthorisationFits,
              ChecksFit, EvidenceFits
<1> QED
  BY <1>1, CreateKeeps, ApproveKeeps, InvokeKeeps, PrepareKeeps, ApprovalKeeps, ProbeKeeps, ReturnKeeps, ThrowKeeps,
     StoreKeeps, RefuseKeeps, WorldKeeps DEF EvidenceNext

\* At first nothing is hosted.
LEMMA EvidenceInitial == EvidenceInit => ReleaseInv /\ HostedInv
<1> SUFFICES ASSUME EvidenceInit PROVE ReleaseInv /\ HostedInv
  OBVIOUS
<1>1. ReleaseInv /\ auditClock \in Nat /\ \A h \in Hosted : release[h].state = "none"
  <2>1. NoRecord.state = "none"
    BY DEF NoRecord
  <2> QED
    BY <2>1, ReleaseInitial, EvidenceAssumption DEF EvidenceInit, ReleaseInit
<1>2. NoHosted \in HostedRecord /\ NoHosted.state = "none"
  BY DEF NoHosted, HostedRecord, HostedState
<1>3. HostedTypes
  BY <1>1, <1>2, IdleIs DEF HostedTypes, EvidenceInit
<1>4. \A h \in Hosted : hosted[h] = NoHosted /\ completion[h] = Idle
  BY DEF EvidenceInit
<1>5. \A h \in Hosted : Fits(h)
  BY <1>1, <1>2, <1>4, IdleIs DEF Fits, RecordFits, AuthorisationFits, EvidenceFits
<1> QED
  BY <1>1, <1>3, <1>5 DEF HostedInv

-----------------------------------------------------------------------------
(* Theorems *)

\* Both invariants hold in every behaviour.
LEMMA EvidenceAlways == EvidenceSpec => [](ReleaseInv /\ HostedInv)
<1> DEFINE I == ReleaseInv /\ HostedInv
<1>1. EvidenceInit => I
  BY EvidenceInitial
<1>2. I /\ [EvidenceNext]_<<auditClock, releaseVars, evidenceVars>> => I'
  BY EvidenceUses, EvidenceSteps, UsersImplement
<1> QED
  BY <1>1, <1>2, PTL DEF EvidenceSpec

\* What the verifier has found of evidence that it calls valid.
LEMMA ValidMeans ==
  ASSUME NEW e, NEW plan, Objection(e, plan) = "valid"
  PROVE  /\ e.approval.reviewed = e.review /\ ~(e.approval.approvedAt > e.approval.expiresAt)
         /\ e.checks = Expected
         /\ e.receipt.audit = e.audit /\ e.receipt.plan = e.review /\ e.receipt.result = e.boundary.tool
         /\ InTime(e)
         /\ e.boundary.plan = e.review /\ e.tool = e.boundary.tool
         /\ e.verdict = ReleaseVerdict(e.complete, e.tool)
BY DEF Objection, ReceiptSettled, ReceiptBound

\* Evidence that one deployment accepts is accepted by those of its profile, and by no other.
LEMMA ProfileDecides ==
  ASSUME NEW e, NEW plan, Objection(e, e.review) = "valid"
  PROVE  Objection(e, plan) = "valid" <=> OwnProfile(e, plan)
BY DEF Objection, OwnProfile

\* Evidence is stored only for what happened: whatever is deployed meanwhile, however the
\* clocks of the isolates differ and however many audits are completed at once, a completed
\* audit executed the plan that was reviewed, once and in time.
THEOREM EvidenceEarned == EvidenceSpec => []EvidenceIsEarned
<1>1. ReleaseInv /\ HostedInv => EvidenceIsEarned
  <2> SUFFICES ASSUME ReleaseInv, HostedInv, NEW h \in Completed
               PROVE  LET e == hosted[h].evidence IN
                      /\ runs[h] = 1 /\ release[h].state = "completed"
                      /\ e.boundary.plan = hosted[h].review /\ hosted[h].approval.reviewed = e.boundary.plan
                      /\ SubSeq(e.checks, 1, 4) = SubSeq(Expected, 1, 4)
                      /\ hosted[h].approval.approvedAt <= e.generatedAt
                      /\ e.generatedAt <= hosted[h].approvalExpiresAt
                      /\ hosted[h].retentionUntil - e.generatedAt = Retention30
                      /\ e.verdict = release[h].verdict
    BY DEF EvidenceIsEarned
  <2> DEFINE e == hosted[h].evidence
  <2>1. EvidenceFits(h) /\ RecordFits(h) /\ hosted[h].state = "completed" /\ hosted[h] \in HostedRecord
    BY DEF Completed, HostedInv, HostedTypes, Fits
  <2>2. /\ runs[h] = 1 /\ release[h].state = "completed"
        /\ e \in Document /\ e.review = hosted[h].review /\ e.approval = hosted[h].approval
        /\ hosted[h].retentionUntil = e.generatedAt + Retention30
        /\ e.verdict = release[h].verdict /\ Objection(e, e.review) = "valid"
    BY <2>1 DEF EvidenceFits
  <2>3. Reviewed(h)
    BY <2>1 DEF RecordFits
  <2> HIDE DEF e
  <2>4. /\ e.checks = Expected /\ e.boundary.plan = e.review /\ e.approval.reviewed = e.review
        /\ InTime(e)
    BY <2>2, ValidMeans
  <2>5. /\ e.approval.approvedAt <= e.generatedAt /\ e.generatedAt <= e.approval.expiresAt
        /\ e.generatedAt \in Nat
    BY <2>2, <2>4 DEF InTime, Document
  <2>6. hosted[h].retentionUntil - e.generatedAt = Retention30
    BY <2>2, <2>5, EvidenceAssumption
  <2> QED
    BY <2>2, <2>3, <2>4, <2>5, <2>6 DEF Reviewed, e
<1> QED
  BY <1>1, EvidenceAlways, PTL

\* Evidence that was earned is never lost to the arena's own verifier: it objects only when
\* the review window was over or a clock was behind.
THEOREM FailuresHaveCause == EvidenceSpec => []FailureHasCause
<1>1. ReleaseInv /\ HostedInv => FailureHasCause
  <2> SUFFICES ASSUME ReleaseInv, HostedInv, NEW h \in Hosted,
                      completion[h].step = "probe", Len(completion[h].checks) = Len(Expected),
                      ~(completion[h].now > hosted[h].approvalExpiresAt),
                      ~(completion[h].now < hosted[h].approval.approvedAt)
               PROVE  OwnObjection(h) = "valid"
    BY DEF FailureHasCause
  <2> DEFINE e == Evidence(h)
             now == completion[h].now
             a == hosted[h].approval
  <2>1. Completing(h)
    BY WhileCompleting
  <2>2. /\ a \in Receipt /\ a.expiresAt = hosted[h].approvalExpiresAt /\ a.reviewed = hosted[h].review
        /\ a.approvedAt <= a.expiresAt /\ a.expiresAt <= a.approvedAt + ReviewWindow + MaxSkew
    BY <2>1 DEF Completing, Reviewed
  <2>3. a.approvedAt \in Nat /\ a.expiresAt \in Nat
    BY <2>2 DEF Receipt
  <2>4. /\ e.review = hosted[h].review /\ e.approval = a /\ e.audit = h
        /\ e.retentionUntil = now + Retention30 /\ e.generatedAt = now /\ now \in Nat
        /\ e.checks = Expected /\ e.verdict = ReleaseVerdict(e.complete, e.tool)
        /\ e.receipt.audit = h /\ e.receipt.plan = hosted[h].review /\ e.receipt.result = e.tool
        /\ e.receipt.settledAt >= e.receipt.invokedAt
        /\ e.boundary.plan = hosted[h].review /\ e.boundary.generatedAt = now /\ e.boundary.tool = e.tool
    BY EvidenceOf DEF RetainedUntil
  <2>5. now <= a.expiresAt /\ a.approvedAt <= now
    BY <2>2, <2>3, <2>4
  <2> HIDE DEF e, now, a
  <2>6. InTime(e)
    <3>1. Retention30 \in Nat /\ ReviewWindow \in Nat /\ MaxSkew \in Nat /\ Retention30 > ReviewWindow + MaxSkew
      BY EvidenceAssumption
    <3>2. now + Retention30 > a.expiresAt /\ now + Retention30 - now >= Retention30
      BY <2>2, <2>3, <2>4, <2>5, <3>1
    <3>3. e.approval = a /\ e.generatedAt = now /\ e.boundary.generatedAt = now /\ e.retentionUntil = now + Retention30
      BY <2>4
    <3>4. e.generatedAt = e.boundary.generatedAt /\ e.approval.approvedAt <= e.boundary.generatedAt
      BY <2>5, <3>3
    <3>5. e.boundary.generatedAt <= e.approval.expiresAt /\ e.retentionUntil > e.approval.expiresAt
      BY <2>5, <3>2, <3>3
    <3>6. e.retentionUntil - e.generatedAt >= Retention30
      BY <2>4, <3>1, <3>2, <3>3
    <3> QED
      BY <3>4, <3>5, <3>6 DEF InTime
  <2>7. ReceiptSettled(e)
    BY <2>4 DEF ReceiptSettled, ReceiptBound
  <2>8. ~(a.approvedAt > a.expiresAt)
    BY <2>2, <2>3
  <2>9. OwnProfile(e, completion[h].plan)
    BY <2>4, EvidenceOf DEF OwnProfile, e
  <2> QED
    BY <2>2, <2>4, <2>6, <2>7, <2>8, <2>9 DEF OwnObjection, Objection, e
<1> QED
  BY <1>1, EvidenceAlways, PTL

\* A valid document with one statement changed is not valid.
LEMMA AlteredObjected ==
  ASSUME NEW e \in Document, Objection(e, e.review) = "valid", NEW a \in Altered(e), NEW plan
  PROVE  Objection(a, plan) # "valid"
<1> SUFFICES ASSUME Objection(a, plan) = "valid" PROVE FALSE
  OBVIOUS
<1>1. /\ e.approval.reviewed = e.review /\ e.checks = Expected
      /\ e.receipt.audit = e.audit /\ e.receipt.result = e.boundary.tool
      /\ e.verdict = ReleaseVerdict(e.complete, e.tool)
  BY ValidMeans
<1>2. /\ a.approval.reviewed = a.review /\ a.checks = Expected
      /\ a.receipt.audit = a.audit /\ a.receipt.result = a.boundary.tool
      /\ a.verdict = ReleaseVerdict(a.complete, a.tool)
  BY ValidMeans
<1>3. ASSUME NEW p \in Plan \ {e.review}, a = [e EXCEPT !.review = p] PROVE FALSE
  <2>1. a.review = p /\ a.approval = e.approval
    BY <1>3 DEF Document
  <2> QED
    BY <1>1, <1>2, <1>3, <2>1
<1>4. ASSUME NEW v \in Verdict \ {e.verdict}, a = [e EXCEPT !.verdict = v] PROVE FALSE
  <2>1. a.verdict = v /\ a.complete = e.complete /\ a.tool = e.tool
    BY <1>4 DEF Document
  <2> QED
    BY <1>1, <1>2, <1>4, <2>1
<1>5. ASSUME NEW v \in Verdict \ {e.receipt.result}, a = [e EXCEPT !.receipt.result = v] PROVE FALSE
  <2>1. a.receipt.result = v /\ a.boundary = e.boundary
    BY <1>5 DEF Document
  <2> QED
    BY <1>1, <1>2, <1>5, <2>1
<1>6. ASSUME NEW h \in Release \ {e.audit}, a = [e EXCEPT !.receipt.audit = h] PROVE FALSE
  <2>1. a.receipt.audit = h /\ a.audit = e.audit
    BY <1>6 DEF Document
  <2> QED
    BY <1>1, <1>2, <1>6, <2>1
<1>7. ASSUME a = [e EXCEPT !.checks[6] = "execute"] PROVE FALSE
  <2>1. a.checks = [Expected EXCEPT ![6] = "execute"]
    BY <1>1, <1>7 DEF Document
  <2>2. 6 \in DOMAIN Expected
    BY DEF Expected
  <2>3. a.checks[6] = "execute"
    BY <2>1, <2>2
  <2> QED
    BY <1>2, <2>3, ExpectedAnswers
<1> QED
  BY <1>3, <1>4, <1>5, <1>6, <1>7 DEF Altered

\* A completed record verifies as it is stored and as a portable proof exactly under the
\* deployments of its own profile, and with one statement changed it verifies under none,
\* even if the arena itself signs it.
THEOREM PortableProofsVerify == EvidenceSpec => []ProofsVerify
<1>1. ReleaseInv /\ HostedInv => ProofsVerify
  <2> SUFFICES ASSUME ReleaseInv, HostedInv, NEW h \in Completed
               PROVE  LET p == Portable(h) IN
                      /\ RecordVerifies(h) <=> OwnProfile(p.evidence, deployed)
                      /\ ProofVerifies(p) <=> OwnProfile(p.evidence, deployed)
                      /\ \A e \in Altered(p.evidence) : ~ProofVerifies([p EXCEPT !.evidence = e, !.signed = e])
                      /\ \A other \in Release \ {h} : ~ProofVerifies([p EXCEPT !.audit = other])
    BY DEF ProofsVerify
  <2> DEFINE e == hosted[h].evidence
             p == Portable(h)
  <2>1. EvidenceFits(h) /\ RecordFits(h) /\ hosted[h].state = "completed"
    BY DEF Completed, HostedInv, Fits
  <2>2. /\ e \in Document /\ e.audit = h /\ e.review = hosted[h].review /\ e.approval = hosted[h].approval
        /\ e.retentionUntil = hosted[h].retentionUntil /\ Objection(e, e.review) = "valid"
    BY <2>1 DEF EvidenceFits
  <2>3. e.approval.expiresAt = hosted[h].approvalExpiresAt
    BY <2>1, <2>2 DEF RecordFits, Reviewed
  <2>4. p = [audit |-> h, approvalExpiresAt |-> hosted[h].approvalExpiresAt,
             retentionUntil |-> hosted[h].retentionUntil, evidence |-> e, signed |-> e]
    BY DEF Portable
  <2> HIDE DEF p, e
  <2>9. Objection(e, deployed) = "valid" <=> OwnProfile(e, deployed)
    BY <2>2, ProfileDecides
  <2>5. RecordVerifies(h) <=> OwnProfile(p.evidence, deployed)
    BY <2>2, <2>3, <2>4, <2>9 DEF RecordVerifies, e
  <2>6. ProofVerifies(p) <=> OwnProfile(p.evidence, deployed)
    BY <2>2, <2>3, <2>4, <2>9 DEF ProofVerifies
  <2>7. ASSUME NEW a \in Altered(p.evidence) PROVE ~ProofVerifies([p EXCEPT !.evidence = a, !.signed = a])
    <3>1. Objection(a, deployed) # "valid"
      BY <2>2, <2>4, <2>7, AlteredObjected
    <3>2. [p EXCEPT !.evidence = a, !.signed = a].evidence = a
      BY <2>4
    <3> QED
      BY <3>1, <3>2 DEF ProofVerifies
  <2>8. ASSUME NEW other \in Release \ {h} PROVE ~ProofVerifies([p EXCEPT !.audit = other])
    <3>1. [p EXCEPT !.audit = other].evidence = e /\ [p EXCEPT !.audit = other].audit = other
      BY <2>4
    <3> QED
      BY <2>2, <2>8, <3>1 DEF ProofVerifies
  <2> QED
    BY <2>5, <2>6, <2>7, <2>8 DEF p
<1> QED
  BY <1>1, EvidenceAlways, PTL

\* The authorisation that a hosted audit uses keeps its promise under every use that the
\* completion makes of it, not only under those of its own step relation.
THEOREM EvidenceKeepsPromise == EvidenceSpec => ReleaseImplementsOneShot
<1> DEFINE I == ReleaseInv /\ HostedInv
           Final == \A r \in Release : release[r].state \in Ended => release'[r] = release[r]
<1>1. EvidenceInit => I /\ Authorisation!Init
  BY EvidenceInitial, ReleaseInitial DEF EvidenceInit
<1>2. I /\ [EvidenceNext]_<<auditClock, releaseVars, evidenceVars>>
        => I' /\ [Authorisation!Next]_(Authorisation!vars) /\ [Final]_releaseVars
  BY EvidenceUses, EvidenceSteps, UsersImplement
<1> QED
  BY <1>1, <1>2, PTL DEF EvidenceSpec, ReleaseImplementsOneShot
=============================================================================
