-------------------------- MODULE HostedAuditProofs --------------------------
(***************************************************************************)
(* For any requests, audits, clocks and bounds: the rows of the hosted     *)
(* audit store are earned, settled audits stay, and an audit is a one-shot *)
(* authority.                                                              *)
(***************************************************************************)
EXTENDS HostedAudit, TLAPS

-----------------------------------------------------------------------------
(* Types *)

\* The step that a request is at determines what it remembers.
LEMMA ByStep ==
  ASSUME NEW h \in HandlerState
  PROVE  /\ h.pc = "rotating" => h \in Rotating
         /\ h.pc = "inserting" => h \in Inserting
         /\ h.pc = "recovering" => h \in Recovering
         /\ h.pc = "sweeping" => h \in Sweeping
         /\ h.pc = "pruning" => h \in Pruning
         /\ h.pc = "approving" => h \in Approving
         /\ h.pc = "invoking" => h \in Invoking
         /\ h.pc \in Owner => h \in Owning
  BY DEF HandlerState, Idle, Rotating, Inserting, Recovering, Sweeping, Pruning, Approving,
         Invoking, Owning, Owner

\* A request that is not being served remembers nothing.
LEMMA IdleState == Idle \in HandlerState /\ Idle.pc = "idle"
  BY DEF HandlerState, Idle

\* A row is in the table.
LEMMA RowIn == ASSUME TypeOK, NEW a \in Rows PROVE a \in Audit /\ row[a] \in Row /\ row[a] # None
  BY DEF TypeOK, Rows

\* Bounds of the times that are stored.
LEMMA Times ==
  ASSUME NEW now \in Time
  PROVE  /\ now \in Until /\ now + Window \in Until /\ now + LeaseTime \in Until
         /\ now + Retention \in Until /\ 0 \in Until /\ now \in Nat
  BY HostedAssumption DEF Time, Until

-----------------------------------------------------------------------------
(* What every step leaves to the others *)

Only(r) == \A q \in Handler \ {r} : handler'[q] = handler[q]

\* Approvals stand.
ProofKept == \A a \in Audit : proof[a] # None => proof'[a] = proof[a]

\* What the other requests remember stays true, as long as their executions are left alone.
LEMMA OtherRequests ==
  ASSUME IInv, NEW r \in Handler, Only(r), ProofKept,
         born \subseteq born', minted \subseteq minted', clock <= clock', clock' \in Nat,
         \A q \in Handler \ {r} : handler[q].pc \in Owner =>
           claims'[handler[q].id] = claims[handler[q].id] /\ runs'[handler[q].id] = runs[handler[q].id]
  PROVE  \A q \in Handler \ {r} : RequestFits(q)'
<1> SUFFICES ASSUME NEW q \in Handler \ {r} PROVE RequestFits(q)'
  OBVIOUS
<1>1. RequestFits(q) /\ handler'[q] = handler[q] /\ handler[q] \in HandlerState /\ clock \in Nat
  BY HostedAssumption DEF IInv, RequestInv, Only, TypeOK, Time
<1>2. born \subseteq Audit
  BY DEF IInv, TypeOK
<1>3. \A a, s : Remembered(a, s) => /\ a \in born'
                                    /\ s.state = "awaiting_approval" => s.approvedBy = None /\ s.lease = None
                                    /\ s.state \in Executing => s.approvedBy = proof'[a] /\ proof'[a] # None
  BY <1>2 DEF Remembered, ProofKept
<1>4. handler[q].pc \in {"inserting", "sweeping", "pruning"} => handler[q].now \in Nat
  BY <1>1, ByStep, HostedAssumption DEF Inserting, Sweeping, Pruning, Time
<1>5. handler'[q].pc \in Owner => OwnerFits(q)'
  BY <1>1 DEF RequestFits, OwnerFits
<1>6. handler'[q].pc \in {"rotating", "approving", "invoking"} \cup Owner =>
        Remembered(handler[q].id, handler[q].seen)'
  BY <1>1, <1>3 DEF RequestFits, Remembered
<1>7. handler'[q].pc = "pruning" => \A x \in handler'[q].todo : Remembered(x[1], x[2])'
  BY <1>1, <1>3 DEF RequestFits, Remembered
<1>8. /\ handler'[q].pc \in {"sweeping", "pruning"} => handler'[q].cap \in minted'
      /\ handler'[q].pc \in {"inserting", "sweeping", "pruning"} => handler'[q].now <= clock'
      /\ handler'[q].pc = "invoking" => handler'[q].seen.state = "running"
  BY <1>1, <1>4 DEF RequestFits
<1> QED
  BY <1>5, <1>6, <1>7, <1>8 DEF RequestFits

\* No two requests own one execution, if none becomes an owner of another one's.
LEMMA OneOwner ==
  ASSUME IInv, NEW r \in Handler, Only(r),
         handler'[r].pc \in Owner => \A q \in Handler \ {r} :
           handler[q].pc \in Owner => handler[q].id # handler'[r].id
  PROVE  OwnerInv'
  BY DEF IInv, OwnerInv, Only

\* A row that is not written still fits.
LEMMA OtherRows ==
  ASSUME IInv, NEW a \in Audit, born \subseteq born', granted \subseteq granted',
         \A b \in Audit \ {a} : /\ row'[b] = row[b] /\ proof'[b] = proof[b]
                               /\ claims'[b] = claims[b] /\ runs'[b] = runs[b]
  PROVE  \A b \in Audit \ {a} : (b \in Rows' => RowFits(b)') /\ AuditFits(b)'
  BY DEF IInv, RowInv, AuditInv, Rows, RowFits, AuditFits

-----------------------------------------------------------------------------
(* Steps of one request, by what they write *)

\* A step that writes nothing.
LEMMA QuietStep ==
  ASSUME IInv, NEW r \in Handler, NEW h \in HandlerState,
         handler' = [handler EXCEPT ![r] = h],
         delivered \subseteq delivered', delivered' \subseteq minted,
         UNCHANGED <<row, clock, born, minted, granted, proof, claims, runs>>,
         RequestFits(r)',
         h.pc \in Owner => handler[r].pc \in Owner /\ handler[r].id = h.id
  PROVE  IInv'
<1>1. handler' \in [Handler -> HandlerState] /\ handler'[r] = h /\ Only(r)
  BY DEF IInv, TypeOK, Only
<1>2. TypeOK'
  BY <1>1 DEF IInv, TypeOK
<1>3. RequestInv'
  <2>1. clock \in Nat
    BY HostedAssumption DEF IInv, TypeOK, Time
  <2>2. \A q \in Handler \ {r} : RequestFits(q)'
    BY <1>1, <2>1, OtherRequests DEF ProofKept
  <2> QED
    BY <2>2 DEF RequestInv
<1>4. OwnerInv'
  BY <1>1, OneOwner DEF IInv, OwnerInv
<1>5. RowInv' /\ LeaseInv' /\ AuditInv'
  BY DEF IInv, RowInv, LeaseInv, AuditInv, Rows, RowFits, AuditFits
<1> QED
  BY <1>2, <1>3, <1>4, <1>5 DEF IInv

\* A request that becomes idle fits.
LEMMA IdleFits == ASSUME NEW r \in Handler, handler'[r] = Idle PROVE RequestFits(r)'
  BY DEF RequestFits, Idle, Owner

\* A request gives up, or is over.
LEMMA IdleStep ==
  ASSUME IInv, NEW r \in Handler, Goto(r, Idle),
         delivered \subseteq delivered', delivered' \subseteq minted,
         UNCHANGED <<row, clock, born, minted, granted, proof, claims, runs>>
  PROVE  IInv'
<1>1. Idle.pc \notin Owner
  BY DEF Idle, Owner
<1>2. handler'[r] = Idle
  BY DEF Goto, IInv, TypeOK
<1> QED
  BY <1>1, <1>2, QuietStep, IdleFits, IdleState DEF Goto

\* A step that writes the row of one audit and leaves executions alone.
LEMMA WriteStep ==
  ASSUME IInv, NEW r \in Handler, NEW h \in HandlerState, NEW a \in Audit, NEW s \in Row,
         handler' = [handler EXCEPT ![r] = h],
         row' = [row EXCEPT ![a] = s],
         proof' \in [Audit -> Capability \cup {None}], ProofKept,
         \A b \in Audit \ {a} : proof'[b] = proof[b],
         minted \subseteq minted', minted' \subseteq Capability,
         delivered' \subseteq minted',
         granted \subseteq granted', granted' \subseteq Lease,
         UNCHANGED <<clock, born, claims, runs>>,
         RequestFits(r)',
         h.pc \in Owner => handler[r].pc \in Owner /\ handler[r].id = h.id,
         a \in Rows, s.lease \in {None, row[a].lease} \/ s.lease \notin granted,
         RowFits(a)', AuditFits(a)'
  PROVE  IInv'
<1>1. handler' \in [Handler -> HandlerState] /\ handler'[r] = h /\ Only(r)
  BY DEF IInv, TypeOK, Only
<1>2. row' \in [Audit -> Row \cup {None}] /\ row'[a] = s /\ \A b \in Audit \ {a} : row'[b] = row[b]
  BY DEF IInv, TypeOK
<1>3. TypeOK'
  BY <1>1, <1>2 DEF IInv, TypeOK
<1>4. RequestInv'
  <2>1. clock \in Nat
    BY HostedAssumption DEF IInv, TypeOK, Time
  <2>2. \A q \in Handler \ {r} : RequestFits(q)'
    BY <1>1, <2>1, OtherRequests
  <2> QED
    BY <2>2 DEF RequestInv
<1>5. OwnerInv'
  BY <1>1, OneOwner DEF IInv, OwnerInv
<1>6. RowInv' /\ AuditInv'
  <2>1. \A b \in Audit \ {a} : (b \in Rows' => RowFits(b)') /\ AuditFits(b)'
    BY <1>2, OtherRows
  <2> QED
    BY <2>1 DEF RowInv, AuditInv, Rows
<1>7. LeaseInv'
  <2> SUFFICES ASSUME NEW b \in Rows', NEW c \in Rows',
                      row'[b].lease # None, row'[b].lease = row'[c].lease, b # c
               PROVE  FALSE
    BY DEF LeaseInv
  <2>1. b \in Audit /\ c \in Audit
    BY DEF Rows
  <2>2. \A d \in Audit \ {a} : d \in Rows' => d \in Rows /\ row'[d].lease = row[d].lease
    BY <1>2 DEF Rows
  <2>3. \A d \in Rows : row[d].lease # None => row[d].lease \in granted
    BY DEF IInv, RowInv, RowFits
  <2>4. CASE b # a /\ c # a
    BY <2>1, <2>2, <2>4 DEF IInv, LeaseInv
  <2>5. CASE b = a
    BY <1>2, <2>1, <2>2, <2>3, <2>5 DEF IInv, LeaseInv
  <2>6. CASE c = a
    BY <1>2, <2>1, <2>2, <2>3, <2>6 DEF IInv, LeaseInv
  <2> QED
    BY <2>4, <2>5, <2>6
<1> QED
  BY <1>3, <1>4, <1>5, <1>6, <1>7 DEF IInv

\* A row that is failed: it was in the state that was read, and is still lapsed.
LEMMA FailStep ==
  ASSUME IInv, NEW r \in Handler, NEW h \in HandlerState, NEW a \in Audit, NEW s \in Row,
         NEW now \in Time, Remembered(a, s), StillLapsed(a, s, now),
         handler' = [handler EXCEPT ![r] = h],
         row' = [row EXCEPT ![a] = Failed(s, now)],
         UNCHANGED <<clock, born, minted, delivered, granted, proof, claims, runs>>,
         RequestFits(r)', h.pc \notin Owner
  PROVE  IInv'
<1> DEFINE new == Failed(s, now)
<1>1. /\ new \in Row /\ new.state = "failed" /\ new.lease = None
      /\ new.approvedBy = s.approvedBy
  BY Times DEF Failed, Row, State, Settled
<1> HIDE DEF new
<1>2. row'[a] = new /\ a \in Rows
  BY DEF IInv, TypeOK, StillLapsed, new
<1>3. s.approvedBy = proof[a] /\ a \in born
  <2>1. row[a].state = s.state /\ row[a].state \in {"awaiting_approval"} \cup Executing
    BY DEF StillLapsed, Lapsed
  <2> QED
    BY <1>2, <2>1 DEF Remembered, IInv, RowInv, RowFits
<1>4. RowFits(a)'
  BY <1>1, <1>2, <1>3 DEF RowFits, Executing
<1>5. AuditFits(a)'
  BY DEF IInv, AuditInv, AuditFits
<1>6. row' = [row EXCEPT ![a] = new]
  BY DEF new
<1>7. /\ proof' \in [Audit -> Capability \cup {None}] /\ ProofKept
      /\ minted' \subseteq Capability /\ delivered' \subseteq minted' /\ granted' \subseteq Lease
  BY DEF IInv, TypeOK, ProofKept
<1> QED
  BY <1>1, <1>2, <1>4, <1>5, <1>6, <1>7, WriteStep

-----------------------------------------------------------------------------
(* POST /api/audits *)

\* What a request has read is remembered.
LEMMA ReadRow == ASSUME IInv, NEW a \in Rows PROVE Remembered(a, row[a]) /\ row[a] \in Row
  BY RowIn DEF IInv, RowInv, RowFits, Remembered, Executing

\* The lookup by idempotency key leads to the insertion or to the rotation.
LEMMA LookupStep ==
  ASSUME IInv, NEW r \in Handler, NEW k \in IdemKey, NEW now \in Time, Lookup(r, k, now)
  PROVE  IInv'
<1>1. handler[r] = Idle /\ handler[r].pc \notin Owner /\ now <= clock
  BY DEF Lookup, Arrived, Idle, Owner
<1>2. CASE HasKey(k) = {}
  <2> DEFINE h == [pc |-> "inserting", now |-> now, key |-> k]
  <2>1. h \in HandlerState /\ h.pc \notin Owner
    BY DEF HandlerState, Inserting, Owner
  <2>2. handler' = [handler EXCEPT ![r] = h]
    BY <1>2 DEF Lookup, Goto
  <2>3. handler'[r] = h
    BY <2>2 DEF IInv, TypeOK
  <2>4. RequestFits(r)'
    BY <1>1, <2>3 DEF Lookup, RequestFits, Owner
  <2> QED
    BY <2>1, <2>2, <2>4, QuietStep DEF Lookup, IInv, TypeOK
<1>3. ASSUME NEW a \in HasKey(k), Goto(r, [pc |-> "rotating", now |-> now, id |-> a, seen |-> row[a]])
      PROVE  IInv'
  <2> DEFINE h == [pc |-> "rotating", now |-> now, id |-> a, seen |-> row[a]]
  <2>1. a \in Rows /\ a \in Audit
    BY DEF HasKey, Rows
  <2>2. h \in HandlerState /\ h.pc \notin Owner
    BY <2>1, ReadRow DEF HandlerState, Rotating, Owner
  <2>3. handler' = [handler EXCEPT ![r] = h]
    BY <1>3 DEF Goto
  <2>4. handler'[r] = h
    BY <2>3 DEF IInv, TypeOK
  <2>5. Remembered(a, row[a])'
    BY <2>1, ReadRow DEF Lookup, Remembered
  <2>6. RequestFits(r)'
    BY <2>4, <2>5 DEF Lookup, RequestFits, Owner
  <2> QED
    BY <2>2, <2>3, <2>6, QuietStep DEF Lookup, IInv, TypeOK
<1> QED
  BY <1>2, <1>3 DEF Lookup

\* A rotation needs the row to wait still; it replaces the capability only.
LEMMA RotateStep ==
  ASSUME IInv, NEW r \in Handler, NEW c \in Capability, Rotate(r, c)
  PROVE  IInv'
<1>1. PICK h \in Rotating : h = handler[r]
  BY ByStep DEF Rotate, IInv, TypeOK
<1>2. PICK a \in Audit : a = h.id /\ h.seen \in Row /\ h.now \in Time /\ Remembered(a, h.seen)
  BY <1>1 DEF Rotating, IInv, RequestInv, RequestFits
<1> DEFINE new == [h.seen EXCEPT !.cap = c, !.updated = h.now]
<1>3. /\ new \in Row /\ new.state = "awaiting_approval" /\ new.lease = None /\ new.approvedBy = None
  BY <1>1, <1>2 DEF Row, Rotate, Remembered
<1>4. row' = [row EXCEPT ![a] = new] /\ row[a].state = "awaiting_approval" /\ a \in Rows
  BY <1>1, <1>2 DEF Rotate, Stored
<1>5. row'[a] = new
  BY <1>2, <1>4 DEF IInv, TypeOK
<1>6. proof[a] = None /\ claims[a] = 0 /\ a \in born
  BY <1>4 DEF IInv, RowInv, RowFits
<1> HIDE DEF new
<1>7. RowFits(a)'
  BY <1>3, <1>5, <1>6 DEF Rotate, RowFits, Executing
<1>8. AuditFits(a)'
  BY <1>2 DEF Rotate, IInv, AuditInv, AuditFits
<1>9. handler'[r] = Idle /\ handler' = [handler EXCEPT ![r] = Idle]
  BY DEF Rotate, Goto, IInv, TypeOK
<1>10. RequestFits(r)' /\ Idle \in HandlerState /\ Idle.pc \notin Owner
  BY <1>9, IdleFits, IdleState DEF Owner
<1>11. /\ minted \subseteq minted' /\ minted' \subseteq Capability /\ delivered' \subseteq minted'
       /\ granted' \subseteq Lease /\ ProofKept /\ proof' \in [Audit -> Capability \cup {None}]
  BY DEF Rotate, IInv, TypeOK, ProofKept
<1> QED
  BY <1>2, <1>3, <1>4, <1>7, <1>8, <1>9, <1>10, <1>11, WriteStep DEF Rotate

\* A new audit has neither approval nor lease, and its id was never used.
LEMMA InsertStep ==
  ASSUME IInv, NEW r \in Handler, NEW a \in Audit, NEW c \in Capability, Insert(r, a, c)
  PROVE  IInv'
<1> DEFINE h == handler[r]
           new == NewRow(h.key, h.now, c)
<1>1. h \in Inserting /\ h.now <= clock /\ h.pc \notin Owner
  BY ByStep DEF Insert, IInv, TypeOK, RequestInv, RequestFits, Owner
<1>2. h.now \in Time /\ h.key \in IdemKey
  BY <1>1 DEF Inserting
<1>3. /\ new \in Row /\ new.state = "awaiting_approval" /\ new.lease = None /\ new.approvedBy = None
  BY <1>2, Times DEF NewRow, Row, State
<1>4. row' = [row EXCEPT ![a] = new] /\ a \notin born
  BY DEF Insert, Stored
<1> HIDE DEF new
<1>5. row'[a] = new /\ row' \in [Audit -> Row \cup {None}]
  BY <1>3, <1>4 DEF IInv, TypeOK
<1>6. a \notin Rows /\ proof[a] = None /\ claims[a] = 0
  BY <1>4 DEF IInv, RowInv, RowFits, AuditInv, AuditFits
<1>7. PICK g \in {[pc |-> "sweeping", now |-> h.now, cap |-> c], [pc |-> "recovering", key |-> h.key]} :
        handler' = [handler EXCEPT ![r] = g]
  BY DEF Insert, Goto
<1>8. g \in HandlerState /\ g.pc \notin Owner
  BY <1>2 DEF HandlerState, Sweeping, Recovering, Owner
<1>9. handler'[r] = g /\ handler' \in [Handler -> HandlerState] /\ Only(r)
  BY <1>7, <1>8 DEF IInv, TypeOK, Only
<1>10. RequestFits(r)'
  BY <1>1, <1>7, <1>9 DEF Insert, RequestFits, Owner
<1>11. TypeOK'
  BY <1>5, <1>9 DEF Insert, IInv, TypeOK
<1>12. RequestInv'
  <2>1. clock \in Nat /\ ProofKept
    BY HostedAssumption DEF IInv, TypeOK, Time, Insert, ProofKept
  <2>2. \A q \in Handler \ {r} : RequestFits(q)'
    BY <1>9, <2>1, OtherRequests DEF Insert
  <2> QED
    BY <1>10, <2>2 DEF RequestInv
<1>13. OwnerInv'
  BY <1>8, <1>9, OneOwner
<1>14. \A b \in Audit \ {a} : (b \in Rows' => RowFits(b)') /\ AuditFits(b)'
  BY <1>4, OtherRows DEF Insert, IInv, TypeOK
<1>15. RowInv' /\ AuditInv'
  <2>1. RowFits(a)'
    BY <1>3, <1>5, <1>6 DEF Insert, RowFits, Executing
  <2>2. AuditFits(a)'
    BY DEF Insert, IInv, AuditInv, AuditFits
  <2> QED
    BY <1>14, <2>1, <2>2 DEF RowInv, AuditInv, Rows
<1>16. LeaseInv'
  BY <1>3, <1>4, <1>5 DEF IInv, LeaseInv, Rows, TypeOK
<1> QED
  BY <1>11, <1>12, <1>13, <1>15, <1>16 DEF IInv

\* A failed insertion leaves the table alone.
LEMMA InsertThrowsStep ==
  ASSUME IInv, NEW r \in Handler, InsertThrows(r)
  PROVE  IInv'
<1> DEFINE g == [pc |-> "recovering", key |-> handler[r].key]
<1>1. handler[r] \in Inserting
  BY ByStep DEF InsertThrows, IInv, TypeOK
<1>2. g \in HandlerState /\ g.pc \notin Owner
  BY <1>1 DEF HandlerState, Recovering, Inserting, Owner
<1>3. handler' = [handler EXCEPT ![r] = g] /\ handler'[r] = g
  BY DEF InsertThrows, Goto, IInv, TypeOK
<1>4. RequestFits(r)'
  BY <1>3 DEF RequestFits, Owner
<1> QED
  BY <1>2, <1>3, <1>4, QuietStep DEF InsertThrows, IInv, TypeOK

\* The recovery reads the row that another insertion left.
LEMMA RecoverStep ==
  ASSUME IInv, NEW r \in Handler, Recover(r)
  PROVE  IInv'
<1>1. PICK a \in HasKey(handler[r].key) :
        Goto(r, [pc |-> "rotating", now |-> clock, id |-> a, seen |-> row[a]])
  BY DEF Recover
<1> DEFINE h == [pc |-> "rotating", now |-> clock, id |-> a, seen |-> row[a]]
<1>2. a \in Rows /\ a \in Audit
  BY DEF HasKey, Rows
<1>3. h \in HandlerState /\ h.pc \notin Owner
  BY <1>2, ReadRow DEF HandlerState, Rotating, Owner, IInv, TypeOK
<1>4. handler' = [handler EXCEPT ![r] = h] /\ handler'[r] = h
  BY <1>1 DEF Goto, IInv, TypeOK
<1>5. Remembered(a, row[a])'
  BY <1>2, ReadRow DEF Recover, Remembered
<1>6. RequestFits(r)'
  BY <1>4, <1>5 DEF Recover, RequestFits, Owner
<1> QED
  BY <1>3, <1>4, <1>6, QuietStep DEF Recover, IInv, TypeOK

\* The cleanup remembers the rows that it found lapsed.
LEMMA SelectLapsedStep ==
  ASSUME IInv, NEW r \in Handler, SelectLapsed(r)
  PROVE  IInv'
<1> DEFINE h == handler[r]
           lapsed == {b \in Rows : Lapsed(row[b], h.now)}
           found == {<<a, row[a]>> : a \in lapsed}
           g == [pc |-> "pruning", now |-> h.now, cap |-> h.cap, todo |-> found]
<1>1. h \in Sweeping /\ h.now <= clock /\ h.cap \in minted
  BY ByStep DEF SelectLapsed, IInv, TypeOK, RequestInv, RequestFits
<1>2. found \subseteq Audit \X Row
  BY RowIn DEF IInv
<1>3. \A x \in found : Remembered(x[1], x[2])
  BY ReadRow
<1> HIDE DEF found
<1>4. g \in HandlerState /\ g.pc \notin Owner
  BY <1>1, <1>2 DEF HandlerState, Sweeping, Pruning, Owner
<1>5. handler' = [handler EXCEPT ![r] = g]
  BY DEF SelectLapsed, Goto, found
<1>6. handler'[r] = g
  BY <1>5 DEF IInv, TypeOK
<1>7. \A x \in found : Remembered(x[1], x[2])'
  BY <1>3 DEF SelectLapsed, Remembered
<1>8. RequestFits(r)'
  BY <1>1, <1>6, <1>7 DEF SelectLapsed, RequestFits, Owner
<1> QED
  BY <1>4, <1>5, <1>8, QuietStep DEF SelectLapsed, IInv, TypeOK

\* The cleanup fails one of them, if it still is as it was found.
LEMMA FailNextStep ==
  ASSUME IInv, NEW r \in Handler, NEW a \in Audit, FailNext(r, a)
  PROVE  IInv'
<1> DEFINE h == handler[r]
<1>1. h \in Pruning /\ RequestFits(r)
  BY ByStep DEF FailNext, IInv, TypeOK, RequestInv
<1>2. PICK x \in h.todo :
        /\ x[1] = a
        /\ IF StillLapsed(a, x[2], h.now) THEN Stored(a, Failed(x[2], h.now)) ELSE UNCHANGED row
        /\ Goto(r, [h EXCEPT !.todo = h.todo \ {x}])
  BY DEF FailNext
<1> DEFINE g == [h EXCEPT !.todo = h.todo \ {x}]
<1>3. /\ g \in HandlerState /\ g.pc = "pruning" /\ g.now = h.now /\ g.cap = h.cap
      /\ g.todo \subseteq h.todo
  BY <1>1 DEF HandlerState, Pruning
<1>4. x[2] \in Row /\ h.now \in Time /\ Remembered(a, x[2])
  BY <1>1, <1>2 DEF Pruning, RequestFits
<1>5. handler' = [handler EXCEPT ![r] = g]
  BY <1>2 DEF Goto
<1> HIDE DEF g
<1>6. handler'[r] = g
  BY <1>5 DEF IInv, TypeOK
<1>7. \A y \in g.todo : Remembered(y[1], y[2])'
  BY <1>1, <1>3 DEF FailNext, RequestFits, Remembered, Pruning
<1>8. RequestFits(r)' /\ g.pc \notin Owner
  BY <1>1, <1>3, <1>6, <1>7 DEF FailNext, RequestFits, Owner, Pruning
<1>9. CASE StillLapsed(a, x[2], h.now)
  <2>1. row' = [row EXCEPT ![a] = Failed(x[2], h.now)]
    BY <1>2, <1>9 DEF Stored
  <2> QED
    BY <1>3, <1>4, <1>5, <1>8, <1>9, <2>1, FailStep DEF FailNext
<1>10. CASE ~StillLapsed(a, x[2], h.now)
  <2>1. row' = row
    BY <1>2, <1>10
  <2> QED
    BY <1>3, <1>5, <1>8, <2>1, QuietStep DEF FailNext, IInv, TypeOK
<1> QED
  BY <1>9, <1>10

\* The deletion leaves rows that fit.
LEMMA DeleteOldStep ==
  ASSUME IInv, NEW r \in Handler, DeleteOld(r)
  PROVE  IInv'
<1>1. handler[r].cap \in minted
  BY DEF DeleteOld, IInv, RequestInv, RequestFits
<1>2. handler'[r] = Idle /\ handler' \in [Handler -> HandlerState] /\ Only(r)
  BY IdleState DEF DeleteOld, Goto, IInv, TypeOK, Only
<1>3. \A a \in Audit : row'[a] \in {row[a], None}
  BY DEF DeleteOld
<1>4. row' \in [Audit -> Row \cup {None}] /\ delivered' \subseteq minted
  BY <1>1 DEF DeleteOld, IInv, TypeOK
<1>5. TypeOK'
  BY <1>2, <1>4 DEF DeleteOld, IInv, TypeOK
<1>6. RequestInv'
  <2>1. clock \in Nat /\ ProofKept
    BY HostedAssumption DEF IInv, TypeOK, Time, DeleteOld, ProofKept
  <2>2. \A q \in Handler \ {r} : RequestFits(q)'
    BY <1>2, <2>1, OtherRequests DEF DeleteOld
  <2> QED
    BY <1>2, <2>2, IdleFits DEF RequestInv
<1>7. OwnerInv'
  BY <1>2, OneOwner DEF Idle, Owner
<1>8. \A a \in Rows' : a \in Rows /\ row'[a] = row[a]
  BY <1>3 DEF Rows
<1>9. RowInv'
  BY <1>8 DEF DeleteOld, IInv, RowInv, RowFits
<1>10. LeaseInv'
  BY <1>8 DEF IInv, LeaseInv
<1>11. AuditInv'
  BY DEF DeleteOld, IInv, AuditInv, AuditFits
<1> QED
  BY <1>5, <1>6, <1>7, <1>9, <1>10, <1>11 DEF IInv

\* A cleanup that throws is over.
LEMMA CleanupThrowsStep ==
  ASSUME IInv, NEW r \in Handler, CleanupThrows(r)
  PROVE  IInv'
<1>1. handler[r].cap \in minted
  BY DEF CleanupThrows, IInv, RequestInv, RequestFits
<1> QED
  BY <1>1, IdleStep DEF CleanupThrows, IInv, TypeOK

-----------------------------------------------------------------------------
(* POST /api/audits/approve *)

\* The approving request reads its audit.
LEMMA LoadForApprovalStep ==
  ASSUME IInv, NEW r \in Handler, NEW a \in Audit, NEW c \in Capability, NEW now \in Time,
         LoadForApproval(r, a, c, now)
  PROVE  IInv'
<1> DEFINE h == [pc |-> "approving", now |-> now, id |-> a, seen |-> row[a], cap |-> c]
<1>1. a \in Rows
  BY DEF LoadForApproval
<1>2. h \in HandlerState /\ h.pc \notin Owner
  BY <1>1, ReadRow DEF HandlerState, Approving, Owner
<1>3. handler' = [handler EXCEPT ![r] = h]
  BY DEF LoadForApproval, Goto
<1>4. handler'[r] = h
  BY <1>3 DEF IInv, TypeOK
<1>5. Remembered(a, row[a])'
  BY <1>1, ReadRow DEF LoadForApproval, Remembered
<1>6. RequestFits(r)'
  BY <1>4, <1>5 DEF LoadForApproval, RequestFits, Owner
<1> QED
  BY <1>2, <1>3, <1>6, QuietStep DEF LoadForApproval, IInv, TypeOK

\* A claim that finds the audit lapsed fails it.
LEMMA FailClaimedStep ==
  ASSUME IInv, NEW r \in Handler, FailClaimed(r)
  PROVE  IInv'
<1>1. PICK h \in Approving \cup Invoking : h = handler[r]
  BY ByStep DEF FailClaimed, IInv, TypeOK
<1>2. PICK a \in Audit : a = h.id
  BY <1>1 DEF Approving, Invoking
<1>3. h.seen \in Row /\ h.now \in Time /\ Remembered(a, h.seen)
  BY <1>1, <1>2 DEF Approving, Invoking, IInv, RequestInv, RequestFits
<1>4. /\ StillLapsed(a, h.seen, h.now)
      /\ row' = [row EXCEPT ![a] = Failed(h.seen, h.now)]
      /\ handler' = [handler EXCEPT ![r] = Idle]
  BY <1>1, <1>2 DEF FailClaimed, Stored, Goto
<1>5. RequestFits(r)' /\ Idle.pc \notin Owner
  BY <1>4, IdleFits DEF IInv, TypeOK, Idle, Owner
<1> QED
  BY <1>3, <1>4, <1>5, IdleState, FailStep DEF FailClaimed

\* An approval takes a new lease, and is that of the capability presented.
LEMMA ClaimApprovalStep ==
  ASSUME IInv, NEW r \in Handler, NEW l \in Lease, ClaimApproval(r, l)
  PROVE  IInv'
<1>1. PICK h \in Approving : h = handler[r]
  BY ByStep DEF ClaimApproval, IInv, TypeOK
<1>2. PICK a \in Audit : a = h.id
  BY <1>1 DEF Approving
<1>3. h.seen \in Row /\ h.now \in Time /\ h.cap \in Capability /\ h.now + LeaseTime \in Until
  BY <1>1, Times DEF Approving
<1> DEFINE new == [h.seen EXCEPT !.state = "running", !.updated = h.now, !.lease = l,
                                 !.leaseUntil = h.now + LeaseTime, !.approvedBy = h.seen.cap]
<1>4. /\ new \in Row /\ new.state = "running" /\ new.lease = l /\ new.approvedBy = h.seen.cap
  BY <1>3 DEF Row, State, Executing
<1>5. /\ row' = [row EXCEPT ![a] = new] /\ a \in Rows /\ row[a].state = "awaiting_approval"
      /\ h.seen.cap = h.cap /\ l \notin granted
      /\ granted' = granted \cup {l} /\ proof' = [proof EXCEPT ![a] = h.cap]
      /\ handler' = [handler EXCEPT ![r] = Idle]
      /\ UNCHANGED <<clock, born, minted, delivered, claims, runs>>
  BY <1>1, <1>2 DEF ClaimApproval, Approvable, Stored, Goto
<1> HIDE DEF new
<1>6. row'[a] = new /\ proof'[a] = h.cap /\ handler'[r] = Idle
  BY <1>5 DEF IInv, TypeOK
<1>7. proof[a] = None /\ claims[a] = 0 /\ a \in born
  BY <1>5 DEF IInv, RowInv, RowFits
<1>8. l # None /\ h.cap # None
  BY <1>3, HostedAssumption
<1>9. RowFits(a)'
  BY <1>4, <1>5, <1>6, <1>7, <1>8 DEF RowFits, Executing
<1>10. AuditFits(a)'
  BY <1>5, <1>7 DEF IInv, AuditInv, AuditFits
<1>11. /\ proof' \in [Audit -> Capability \cup {None}] /\ ProofKept
       /\ \A b \in Audit \ {a} : proof'[b] = proof[b]
       /\ minted' \subseteq Capability /\ delivered' \subseteq minted' /\ granted' \subseteq Lease
  BY <1>3, <1>5, <1>7 DEF IInv, TypeOK, ProofKept
<1>12. RequestFits(r)' /\ Idle.pc \notin Owner
  BY <1>6, IdleFits DEF Idle, Owner
<1> QED
  BY <1>4, <1>5, <1>9, <1>10, <1>11, <1>12, IdleState, WriteStep

-----------------------------------------------------------------------------
(* POST /api/audits/invoke *)

\* The invoking request reads its audit.
LEMMA LoadForInvocationStep ==
  ASSUME IInv, NEW r \in Handler, NEW a \in Audit, NEW l \in Lease, NEW now \in Time,
         LoadForInvocation(r, a, l, now)
  PROVE  IInv'
<1> DEFINE h == [pc |-> "invoking", now |-> now, id |-> a, seen |-> row[a], lease |-> l]
<1>1. a \in Rows /\ row[a].state = "running"
  BY DEF LoadForInvocation
<1>2. h \in HandlerState /\ h.pc \notin Owner
  BY <1>1, ReadRow DEF HandlerState, Invoking, Owner
<1>3. handler' = [handler EXCEPT ![r] = h]
  BY DEF LoadForInvocation, Goto
<1>4. handler'[r] = h
  BY <1>3 DEF IInv, TypeOK
<1>5. Remembered(a, row[a])'
  BY <1>1, ReadRow DEF LoadForInvocation, Remembered
<1>6. RequestFits(r)'
  BY <1>1, <1>4, <1>5 DEF LoadForInvocation, RequestFits, Owner
<1> QED
  BY <1>2, <1>3, <1>6, QuietStep DEF LoadForInvocation, IInv, TypeOK

\* The claim makes the request the owner of the execution, which nobody has been before.
LEMMA ClaimInvocationStep ==
  ASSUME IInv, NEW r \in Handler, ClaimInvocation(r)
  PROVE  IInv'
<1>1. PICK h \in Invoking : h = handler[r]
  BY ByStep DEF ClaimInvocation, IInv, TypeOK
<1>2. PICK a \in Audit : a = h.id
  BY <1>1 DEF Invoking
<1>3. h.seen \in Row /\ h.now \in Time /\ h.now + LeaseTime \in Until /\ h.seen.state = "running"
      /\ Remembered(a, h.seen)
  BY <1>1, <1>2, Times DEF Invoking, IInv, RequestInv, RequestFits
<1> DEFINE new == [h.seen EXCEPT !.state = "waiting_for_effects", !.updated = h.now,
                                 !.leaseUntil = h.now + LeaseTime]
           g == [pc |-> "executing", id |-> a, seen |-> new]
<1>4. /\ new \in Row /\ new.state = "waiting_for_effects" /\ new.lease = h.seen.lease
      /\ new.approvedBy = h.seen.approvedBy
  BY <1>3 DEF Row, State, Executing
<1>5. /\ row' = [row EXCEPT ![a] = new] /\ a \in Rows /\ row[a].state = "running"
      /\ row[a].lease = h.seen.lease
      /\ claims' = [claims EXCEPT ![a] = @ + 1]
      /\ handler' = [handler EXCEPT ![r] = g]
      /\ UNCHANGED <<clock, born, minted, delivered, granted, proof, runs>>
  BY <1>1, <1>2 DEF ClaimInvocation, Claimable, Stored, Goto
<1> HIDE DEF new
<1>6. g \in HandlerState /\ g.pc = "executing" /\ g.id = a /\ g.seen = new
  BY <1>4 DEF HandlerState, Owning
<1> HIDE DEF g
<1>7. /\ row' \in [Audit -> Row \cup {None}] /\ row'[a] = new
      /\ \A b \in Audit \ {a} : row'[b] = row[b]
      /\ handler' \in [Handler -> HandlerState] /\ handler'[r] = g /\ Only(r)
  BY <1>4, <1>5, <1>6 DEF IInv, TypeOK, Only
<1>8. claims[a] = 0 /\ a \in born /\ proof[a] # None /\ h.seen.lease # None /\ h.seen.lease \in granted
  BY <1>5 DEF IInv, RowInv, RowFits, Executing
<1>9. claims' \in [Audit -> Nat] /\ claims'[a] = 1 /\ \A b \in Audit \ {a} : claims'[b] = claims[b]
  BY <1>5, <1>8 DEF IInv, TypeOK
<1>10. runs[a] \in Seq(Time) /\ Len(runs[a]) = 0
  BY <1>8 DEF IInv, TypeOK, AuditInv, AuditFits
<1>11. runs[a] = <<>>
  BY <1>10
<1>12. TypeOK'
  BY <1>5, <1>7, <1>9 DEF IInv, TypeOK
<1>13. \A q \in Handler \ {r} : handler[q].pc \in Owner => handler[q].id # a /\ handler[q].id \in Audit
  <2> SUFFICES ASSUME NEW q \in Handler \ {r}, handler[q].pc \in Owner
               PROVE  handler[q].id # a /\ handler[q].id \in Audit
    OBVIOUS
  <2>1. handler[q] \in Owning
    BY ByStep DEF IInv, TypeOK
  <2>2. claims[handler[q].id] = 1
    BY DEF IInv, RequestInv, RequestFits, OwnerFits
  <2> QED
    BY <1>8, <2>1, <2>2 DEF Owning
<1>14. RequestInv'
  <2>1. clock \in Nat /\ ProofKept
    BY <1>5, HostedAssumption DEF IInv, TypeOK, Time, ProofKept
  <2>2. \A q \in Handler \ {r} : RequestFits(q)'
    BY <1>5, <1>7, <1>9, <1>13, <2>1, OtherRequests
  <2>3. Remembered(a, new)'
    BY <1>3, <1>4, <1>5 DEF Remembered, Executing
  <2>4. RequestFits(r)'
    BY <1>4, <1>5, <1>6, <1>7, <1>9, <1>11, <2>3 DEF RequestFits, OwnerFits, Owner
  <2> QED
    BY <2>2, <2>4 DEF RequestInv
<1>15. OwnerInv'
  BY <1>6, <1>7, <1>13, OneOwner
<1>16. RowInv' /\ AuditInv'
  <2>1. \A b \in Audit \ {a} : (b \in Rows' => RowFits(b)') /\ AuditFits(b)'
    BY <1>5, <1>7, <1>9, OtherRows
  <2>2. RowFits(a)'
    BY <1>3, <1>4, <1>5, <1>7, <1>8 DEF RowFits, Remembered, Executing
  <2>3. AuditFits(a)'
    BY <1>5, <1>8, <1>9, <1>10 DEF AuditFits
  <2> QED
    BY <2>1, <2>2, <2>3 DEF RowInv, AuditInv, Rows
<1>17. LeaseInv'
  BY <1>4, <1>5, <1>7 DEF IInv, LeaseInv, Rows
<1> QED
  BY <1>12, <1>14, <1>15, <1>16, <1>17 DEF IInv

\* The end of an execution: the owner keeps its claim, and the run is recorded.
LEMMA RunStep ==
  ASSUME IInv, NEW r \in Handler, NEW a \in Audit, NEW g \in HandlerState,
         handler[r].pc = "executing", handler[r].id = a,
         handler' = [handler EXCEPT ![r] = g], g.id = a,
         runs' = [runs EXCEPT ![a] = Append(@, clock)],
         UNCHANGED <<row, clock, born, minted, delivered, granted, proof, claims>>,
         g.pc \in {"saving", "giving_up"}, g.seen.state = "waiting_for_effects",
         g.seen.approvedBy = handler[r].seen.approvedBy,
         g.pc = "saving" => g.seen.result /\ g.seen.retain = clock + Retention
  PROVE  IInv'
<1>1. handler' \in [Handler -> HandlerState] /\ handler'[r] = g /\ Only(r)
  BY DEF IInv, TypeOK, Only
<1>2. /\ claims[a] = 1 /\ runs[a] = <<>>
      /\ handler[r].seen.state = "waiting_for_effects" /\ Remembered(a, handler[r].seen)
  BY DEF IInv, RequestInv, RequestFits, OwnerFits, Owner
<1>3. clock \in Time /\ clock \in Nat
  BY HostedAssumption DEF IInv, TypeOK, Time
<1>4. runs'[a] = <<clock>> /\ \A b \in Audit \ {a} : runs'[b] = runs[b]
  BY <1>2 DEF IInv, TypeOK
<1>5. runs' \in [Audit -> Seq(Time)] /\ Len(runs'[a]) = 1 /\ runs'[a][1] = clock
  <2>1. <<clock>> \in Seq(Time) /\ Len(<<clock>>) = 1 /\ <<clock>>[1] = clock
    BY <1>3
  <2>2. Append(runs[a], clock) = <<clock>>
    BY <1>2, <1>3
  <2>3. runs' = [runs EXCEPT ![a] = <<clock>>]
    BY <2>2
  <2> QED
    BY <1>4, <2>1, <2>3 DEF IInv, TypeOK
<1>6. TypeOK'
  BY <1>1, <1>5 DEF IInv, TypeOK
<1>7. \A q \in Handler \ {r} : handler[q].pc \in Owner => handler[q].id # a /\ handler[q].id \in Audit
  BY ByStep DEF IInv, TypeOK, OwnerInv, Owner, Owning
<1>8. RequestInv'
  <2>1. ProofKept
    BY DEF ProofKept
  <2>2. \A q \in Handler \ {r} : RequestFits(q)'
    BY <1>1, <1>3, <1>4, <1>7, <2>1, OtherRequests
  <2>3. RequestFits(r)'
    BY <1>1, <1>2, <1>5 DEF RequestFits, OwnerFits, Owner, Remembered, Executing
  <2> QED
    BY <2>2, <2>3 DEF RequestInv
<1>9. OwnerInv'
  BY <1>1, <1>7, OneOwner
<1>10. RowInv' /\ AuditInv'
  <2>1. \A b \in Audit \ {a} : (b \in Rows' => RowFits(b)') /\ AuditFits(b)'
    BY <1>4, OtherRows
  <2>2. a \in Rows' => RowFits(a)'
    <3>1. a \in Rows => RowFits(a) /\ row[a].state # "completed"
      BY <1>2 DEF IInv, RowInv, RowFits
    <3> QED
      BY <3>1 DEF RowFits, Rows
  <2>3. AuditFits(a)'
    BY <1>2, <1>5 DEF IInv, AuditInv, AuditFits
  <2> QED
    BY <2>1, <2>2, <2>3 DEF RowInv, AuditInv, Rows
<1>11. LeaseInv'
  BY DEF IInv, LeaseInv, Rows
<1> QED
  BY <1>6, <1>8, <1>9, <1>10, <1>11 DEF IInv

\* The execution ends with a signed result, or throws before or after its renewal.
LEMMA ExecuteStep ==
  ASSUME IInv, NEW r \in Handler, Execute(r) \/ ExecuteThrows(r)
  PROVE  IInv'
<1>1. PICK h \in Owning : h = handler[r] /\ h.pc = "executing"
  BY ByStep DEF Execute, ExecuteThrows, IInv, TypeOK, Owner
<1>2. PICK a \in Audit : a = h.id
  BY <1>1 DEF Owning
<1>3. h.seen \in Row /\ h.seen.state = "waiting_for_effects"
  BY <1>1 DEF Owning, IInv, RequestInv, RequestFits, OwnerFits, Owner
<1> DEFINE renewed == Renewed(h.seen)
           signed == [renewed EXCEPT !.result = TRUE]
<1>4. /\ renewed \in Row /\ renewed.state = "waiting_for_effects" /\ renewed.approvedBy = h.seen.approvedBy
      /\ signed \in Row /\ signed.state = "waiting_for_effects" /\ signed.approvedBy = h.seen.approvedBy
      /\ signed.result /\ signed.retain = clock + Retention
  BY <1>3, Times DEF Renewed, Row, IInv, TypeOK
<1> HIDE DEF renewed, signed
<1> DEFINE saving == [h EXCEPT !.pc = "saving", !.seen = signed]
           failing(s) == [h EXCEPT !.pc = "giving_up", !.seen = s]
<1>5. /\ saving \in HandlerState /\ saving.pc = "saving" /\ saving.id = a /\ saving.seen = signed
      /\ \A s \in {h.seen, renewed} : /\ failing(s) \in HandlerState /\ failing(s).pc = "giving_up"
                                      /\ failing(s).id = a /\ failing(s).seen = s
  BY <1>1, <1>2, <1>3, <1>4 DEF HandlerState, Owning
<1>6. /\ runs' = [runs EXCEPT ![a] = Append(@, clock)]
      /\ UNCHANGED <<row, clock, born, minted, delivered, granted, proof, claims>>
      /\ \/ handler' = [handler EXCEPT ![r] = saving]
         \/ \E s \in {h.seen, renewed} : handler' = [handler EXCEPT ![r] = failing(s)]
  BY <1>1, <1>2 DEF Execute, ExecuteThrows, Goto, renewed, signed
<1> HIDE DEF saving, failing
<1>7. CASE handler' = [handler EXCEPT ![r] = saving]
  BY <1>1, <1>2, <1>4, <1>5, <1>6, <1>7, RunStep
<1>8. ASSUME NEW s \in {h.seen, renewed}, handler' = [handler EXCEPT ![r] = failing(s)]
      PROVE  IInv'
  <2>1. PICK g \in HandlerState : g = failing(s)
    BY <1>5
  <2>2. /\ g.pc = "giving_up" /\ g.id = a /\ g.seen.state = "waiting_for_effects"
        /\ g.seen.approvedBy = handler[r].seen.approvedBy
    BY <1>1, <1>3, <1>4, <1>5, <2>1
  <2>3. handler[r].pc = "executing" /\ handler[r].id = a /\ handler' = [handler EXCEPT ![r] = g]
    BY <1>1, <1>2, <1>8, <2>1
  <2> QED
    BY <1>6, <2>2, <2>3, RunStep
<1> QED
  BY <1>6, <1>7, <1>8

\* The owner settles its row.
LEMMA SaveStep ==
  ASSUME IInv, NEW r \in Handler, SaveCompleted(r) \/ SaveFailed(r)
  PROVE  IInv'
<1>1. PICK h \in Owning : h = handler[r] /\ h.pc \in {"saving", "giving_up"}
  BY ByStep DEF SaveCompleted, SaveFailed, IInv, TypeOK, Owner
<1>2. PICK a \in Audit : a = h.id
  BY <1>1 DEF Owning
<1>3. PICK state \in Settled :
        /\ a \in Rows /\ row[a].state = "waiting_for_effects"
        /\ row' = [row EXCEPT ![a] = Saved(h.seen, state)]
        /\ state = "completed" => h.pc = "saving"
        /\ \/ handler' = [handler EXCEPT ![r] = Idle]
           \/ handler' = [handler EXCEPT ![r] = [h EXCEPT !.pc = "giving_up"]]
        /\ UNCHANGED <<clock, born, minted, delivered, granted, proof, claims, runs>>
  BY <1>1, <1>2 DEF SaveCompleted, SaveFailed, Saveable, Stored, Goto, Settled
<1> DEFINE new == Saved(h.seen, state)
           late == [h EXCEPT !.pc = "giving_up"]
<1>4. /\ h.seen \in Row /\ h.seen.state = "waiting_for_effects" /\ Remembered(a, h.seen)
      /\ claims[a] = 1
      /\ h.pc = "saving" => h.seen.result /\ Len(runs[a]) = 1 /\ h.seen.retain = runs[a][1] + Retention
  BY <1>1, <1>2 DEF Owning, IInv, RequestInv, RequestFits, OwnerFits, Owner
<1>5. /\ new \in Row /\ new.state = state /\ new.lease = None /\ new.approvedBy = h.seen.approvedBy
      /\ new.result = h.seen.result /\ new.retain = h.seen.retain
  BY <1>4, Times DEF Saved, Row, State, IInv, TypeOK
<1>6. late \in HandlerState /\ late.pc = "giving_up" /\ late.id = a /\ late.seen = h.seen
  BY <1>1, <1>2 DEF HandlerState, Owning
<1> HIDE DEF new, late
<1>7. PICK g \in {Idle, late} : handler' = [handler EXCEPT ![r] = g]
  BY <1>3 DEF late
<1>8. g \in HandlerState /\ handler'[r] = g /\ (g.pc \in Owner => handler[r].pc \in Owner /\ handler[r].id = g.id)
  BY <1>1, <1>2, <1>6, <1>7, IdleState DEF IInv, TypeOK, Idle, Owner
<1>9. RequestFits(r)'
  <2>1. CASE g = Idle
    BY <1>8, <2>1, IdleFits
  <2>2. CASE g = late
    BY <1>3, <1>4, <1>6, <1>8, <2>2 DEF RequestFits, OwnerFits, Owner, Remembered
  <2> QED
    BY <2>1, <2>2
<1>10. row' = [row EXCEPT ![a] = new] /\ row'[a] = new
  BY <1>3 DEF IInv, TypeOK, new
<1>11. RowFits(a)'
  BY <1>3, <1>4, <1>5, <1>10 DEF IInv, RowInv, RowFits, Remembered, Executing, Settled
<1>12. AuditFits(a)'
  BY <1>3 DEF IInv, AuditInv, AuditFits
<1>13. /\ proof' \in [Audit -> Capability \cup {None}] /\ ProofKept
       /\ minted' \subseteq Capability /\ delivered' \subseteq minted' /\ granted' \subseteq Lease
  BY <1>3 DEF IInv, TypeOK, ProofKept
<1> QED
  BY <1>3, <1>5, <1>7, <1>8, <1>9, <1>10, <1>11, <1>12, <1>13, WriteStep

\* A save that throws leaves the row to the catch.
LEMMA SaveThrowsStep ==
  ASSUME IInv, NEW r \in Handler, SaveThrows(r)
  PROVE  IInv'
<1>1. PICK h \in Owning : h = handler[r]
  BY ByStep DEF SaveThrows, IInv, TypeOK, Owner
<1> DEFINE late == [h EXCEPT !.pc = "giving_up"]
<1>2. late \in HandlerState /\ late.pc = "giving_up" /\ late.id = h.id /\ late.seen = h.seen
  BY <1>1 DEF HandlerState, Owning
<1>3. handler' = [handler EXCEPT ![r] = late] /\ h.pc = "saving"
  BY <1>1 DEF SaveThrows, Goto
<1> HIDE DEF late
<1>4. handler'[r] = late
  BY <1>3 DEF IInv, TypeOK
<1>5. RequestFits(r)
  BY DEF IInv, RequestInv
<1>6. RequestFits(r)'
  BY <1>1, <1>2, <1>3, <1>4, <1>5 DEF SaveThrows, RequestFits, OwnerFits, Owner, Remembered
<1> QED
  BY <1>1, <1>2, <1>3, <1>6, QuietStep DEF SaveThrows, IInv, TypeOK, Owner

-----------------------------------------------------------------------------
(* Every step *)

\* The clock moves.
LEMMA TickStep == ASSUME IInv, Tick PROVE IInv'
<1>1. clock \in Nat /\ clock' \in Time /\ clock' \in Nat /\ clock <= clock'
  BY HostedAssumption DEF IInv, TypeOK, Time, Tick
<1>2. TypeOK'
  BY <1>1 DEF Tick, IInv, TypeOK
<1>3. ASSUME NEW r \in Handler PROVE RequestFits(r)'
  <2>1. RequestFits(r) /\ handler[r] \in HandlerState
    BY DEF IInv, RequestInv, TypeOK
  <2>2. handler[r].pc \in {"inserting", "sweeping", "pruning"} => handler[r].now \in Nat
    BY <2>1, ByStep, HostedAssumption DEF Inserting, Sweeping, Pruning, Time
  <2> QED
    BY <1>1, <2>1, <2>2 DEF Tick, RequestFits, OwnerFits, Remembered
<1>4. RowInv' /\ LeaseInv' /\ AuditInv' /\ OwnerInv'
  BY DEF Tick, IInv, RowInv, LeaseInv, AuditInv, OwnerInv, Rows, RowFits, AuditFits
<1> QED
  BY <1>2, <1>3, <1>4 DEF IInv, RequestInv

\* Nothing happens.
LEMMA StutterStep == ASSUME IInv, UNCHANGED vars PROVE IInv'
<1>1. TypeOK' /\ RowInv' /\ LeaseInv' /\ AuditInv' /\ OwnerInv'
  BY DEF vars, IInv, TypeOK, RowInv, LeaseInv, AuditInv, OwnerInv, Rows, RowFits, AuditFits
<1>2. RequestInv'
  BY DEF vars, IInv, RequestInv, RequestFits, OwnerFits, Remembered
<1> QED
  BY <1>1, <1>2 DEF IInv

\* The tables start empty.
LEMMA Initially == ASSUME Init PROVE IInv
<1>1. TypeOK
  BY IdleState, HostedAssumption DEF Init, TypeOK, Time
<1>2. Rows = {}
  BY DEF Init, Rows
<1>3. RowInv /\ LeaseInv
  BY <1>2 DEF RowInv, LeaseInv
<1>4. AuditInv
  BY DEF Init, AuditInv, AuditFits
<1>5. RequestInv /\ OwnerInv
  BY DEF Init, RequestInv, RequestFits, OwnerInv, Idle, Owner
<1> QED
  BY <1>1, <1>3, <1>4, <1>5 DEF IInv

\* Every statement of every request, and the clock, keep the strengthening.
LEMMA Inductive == ASSUME IInv, [Next]_vars PROVE IInv'
<1>1. CASE Tick
  BY <1>1, TickStep
<1>2. ASSUME NEW r \in Handler, Create(r) PROVE IInv'
  BY <1>2, LookupStep, RotateStep, InsertStep, FailNextStep, InsertThrowsStep, RecoverStep,
     SelectLapsedStep, DeleteOldStep, CleanupThrowsStep DEF Create
<1>3. ASSUME NEW r \in Handler, Approve(r) PROVE IInv'
  BY <1>3, LoadForApprovalStep, ClaimApprovalStep, FailClaimedStep DEF Approve
<1>4. ASSUME NEW r \in Handler, Invoke(r) PROVE IInv'
  BY <1>4, LoadForInvocationStep, ClaimInvocationStep, ExecuteStep, SaveStep, SaveThrowsStep DEF Invoke
<1>5. ASSUME NEW r \in Handler, GiveUp(r) PROVE IInv'
  BY <1>5, IdleStep DEF GiveUp, IInv, TypeOK
<1>6. CASE UNCHANGED vars
  BY <1>6, StutterStep
<1> QED
  BY <1>1, <1>2, <1>3, <1>4, <1>5, <1>6 DEF Next

\* The strengthening holds throughout.
THEOREM Invariant == Spec => []IInv
<1>1. Init => IInv
  BY Initially
<1>2. IInv /\ [Next]_vars => IInv'
  BY Inductive
<1> QED
  BY <1>1, <1>2, PTL DEF Spec

\* Every value that the handlers and the table ever hold is of its type.
THEOREM TypeCorrect == Spec => []TypeOK
<1>1. IInv => TypeOK
  BY DEF IInv
<1> QED
  BY <1>1, Invariant, PTL

\* What a row says of its approval, its lease, its result and its execution was earned.
THEOREM RowsEarned == Spec => []RowsAreEarned
<1>1. ASSUME IInv PROVE RowsAreEarned
  <2>1. \A a \in Rows : /\ row[a].approvedBy = proof[a]
                        /\ row[a].lease # None <=> row[a].state \in Executing
                        /\ row[a].lease # None => row[a].lease \in granted
                        /\ row[a].state = "completed" => row[a].result /\ Len(runs[a]) = 1
    BY <1>1 DEF IInv, RowInv, RowFits
  <2>2. \A a, b \in Rows : row[a].lease # None /\ row[a].lease = row[b].lease => a = b
    BY <1>1 DEF IInv, LeaseInv
  <2>3. \A a \in Audit : Len(runs[a]) <= claims[a]
    BY <1>1 DEF IInv, AuditInv, AuditFits
  <2> QED
    BY <2>1, <2>2, <2>3 DEF RowsAreEarned
<1> QED
  BY <1>1, Invariant, PTL

-----------------------------------------------------------------------------
(* What a step does to the table and to the authority of each audit *)

\* Nothing that the authority of an audit depends on changes.
Still == UNCHANGED <<row, born, proof, claims>>

\* The row of one audit goes from a state of S to one of T.
Moves(a, S, T) ==
  /\ a \in Rows /\ row[a].state \in S
  /\ a \in Rows' /\ row'[a].state \in T
  /\ UNCHANGED born
  /\ \A b \in Audit \ {a} : row'[b] = row[b] /\ proof'[b] = proof[b] /\ claims'[b] = claims[b]

\* Most statements only read, or change what one request remembers.
LEMMA StillSteps ==
  ASSUME NEW r \in Handler,
         \/ \E k \in IdemKey, now \in Time : Lookup(r, k, now)
         \/ InsertThrows(r) \/ Recover(r) \/ SelectLapsed(r) \/ CleanupThrows(r)
         \/ \E a \in Audit, c \in Capability, now \in Time : LoadForApproval(r, a, c, now)
         \/ \E a \in Audit, l \in Lease, now \in Time : LoadForInvocation(r, a, l, now)
         \/ Execute(r) \/ ExecuteThrows(r) \/ SaveThrows(r) \/ GiveUp(r)
  PROVE  Still
  BY DEF Still, Lookup, InsertThrows, Recover, SelectLapsed, CleanupThrows, LoadForApproval,
         LoadForInvocation, Execute, ExecuteThrows, SaveThrows, GiveUp

\* A row is written as it was computed, and is then in the table.
LEMMA Written ==
  ASSUME TypeOK, NEW a \in Audit, NEW s \in Row, row' = [row EXCEPT ![a] = s]
  PROVE  a \in Rows' /\ row'[a] = s /\ \A b \in Audit \ {a} : row'[b] = row[b]
  BY RowAssumption DEF TypeOK, Rows

\* A rotation leaves the audit waiting.
LEMMA RotateMoves ==
  ASSUME IInv, NEW r \in Handler, NEW c \in Capability, Rotate(r, c)
  PROVE  /\ \E a \in Audit : Moves(a, {"awaiting_approval"}, {"awaiting_approval"})
         /\ UNCHANGED <<proof, claims>>
<1>1. PICK h \in Rotating : h = handler[r]
  BY ByStep DEF Rotate, IInv, TypeOK
<1>2. PICK a \in Audit : a = h.id /\ h.seen \in Row /\ h.now \in Time
  BY <1>1 DEF Rotating
<1> DEFINE new == [h.seen EXCEPT !.cap = c, !.updated = h.now]
<1>3. new \in Row /\ new.state = "awaiting_approval"
  BY <1>1, <1>2 DEF Row, Rotate
<1>4. /\ row' = [row EXCEPT ![a] = new] /\ row[a].state = "awaiting_approval" /\ a \in Rows
      /\ UNCHANGED <<born, proof, claims>>
  BY <1>1, <1>2 DEF Rotate, Stored
<1> HIDE DEF new
<1>5. Moves(a, {"awaiting_approval"}, {"awaiting_approval"})
  BY <1>3, <1>4, Written DEF Moves, IInv
<1> QED
  BY <1>4, <1>5

\* A lapsed row is failed.
LEMMA FailMoves ==
  ASSUME IInv, NEW r \in Handler, FailClaimed(r) \/ \E a \in Audit : FailNext(r, a)
  PROVE  /\ Still \/ \E a \in Audit : Moves(a, {"awaiting_approval"} \cup Executing, {"failed"})
         /\ UNCHANGED <<proof, claims>>
<1>1. ASSUME NEW a \in Audit, NEW s \in Row, NEW now \in Time, StillLapsed(a, s, now),
             Stored(a, Failed(s, now)), UNCHANGED <<born, proof, claims>>
      PROVE  Moves(a, {"awaiting_approval"} \cup Executing, {"failed"})
  <2>1. Failed(s, now) \in Row /\ Failed(s, now).state = "failed"
    BY Times DEF Failed, Row, State, Settled
  <2>2. a \in Rows /\ row[a].state \in {"awaiting_approval"} \cup Executing
    BY <1>1 DEF StillLapsed, Lapsed
  <2> QED
    BY <1>1, <2>1, <2>2, Written DEF Moves, Stored, IInv
<1>2. CASE FailClaimed(r)
  <2>1. PICK h \in Approving \cup Invoking : h = handler[r]
    BY <1>2, ByStep DEF FailClaimed, IInv, TypeOK
  <2>2. h.id \in Audit /\ h.seen \in Row /\ h.now \in Time
    BY <2>1 DEF Approving, Invoking
  <2> QED
    BY <1>1, <1>2, <2>1, <2>2 DEF FailClaimed
<1>3. ASSUME NEW a \in Audit, FailNext(r, a)
      PROVE  /\ Still \/ Moves(a, {"awaiting_approval"} \cup Executing, {"failed"})
             /\ UNCHANGED <<proof, claims>>
  <2>1. PICK h \in Pruning : h = handler[r]
    BY <1>3, ByStep DEF FailNext, IInv, TypeOK
  <2>2. PICK x \in h.todo :
          IF StillLapsed(a, x[2], h.now) THEN Stored(a, Failed(x[2], h.now)) ELSE UNCHANGED row
    BY <1>3, <2>1 DEF FailNext
  <2>3. x[2] \in Row /\ h.now \in Time
    BY <2>1 DEF Pruning
  <2>4. UNCHANGED <<born, proof, claims>>
    BY <1>3 DEF FailNext
  <2>5. CASE StillLapsed(a, x[2], h.now)
    BY <1>1, <2>2, <2>3, <2>4, <2>5
  <2>6. CASE ~StillLapsed(a, x[2], h.now)
    BY <2>2, <2>4, <2>6 DEF Still
  <2> QED
    BY <2>4, <2>5, <2>6
<1> QED
  BY <1>2, <1>3

\* An approval is written with the capability that was presented.
LEMMA ApprovalMoves ==
  ASSUME IInv, NEW r \in Handler, NEW l \in Lease, ClaimApproval(r, l)
  PROVE  /\ \E a \in Audit : Moves(a, {"awaiting_approval"}, {"running"})
         /\ UNCHANGED claims
<1>1. PICK h \in Approving : h = handler[r]
  BY ByStep DEF ClaimApproval, IInv, TypeOK
<1>2. PICK a \in Audit : a = h.id /\ h.seen \in Row /\ h.cap \in Capability /\ h.now + LeaseTime \in Until
                         /\ h.now \in Until
  BY <1>1, Times DEF Approving
<1> DEFINE new == [h.seen EXCEPT !.state = "running", !.updated = h.now, !.lease = l,
                                 !.leaseUntil = h.now + LeaseTime, !.approvedBy = h.seen.cap]
<1>3. new \in Row /\ new.state = "running"
  BY <1>1, <1>2 DEF Row, State, Executing, Approving
<1>4. /\ row' = [row EXCEPT ![a] = new] /\ a \in Rows /\ row[a].state = "awaiting_approval"
      /\ proof' = [proof EXCEPT ![a] = h.cap] /\ UNCHANGED <<born, claims>>
  BY <1>1, <1>2 DEF ClaimApproval, Approvable, Stored
<1> HIDE DEF new
<1>5. \A b \in Audit \ {a} : proof'[b] = proof[b]
  BY <1>4 DEF IInv, TypeOK
<1> QED
  BY <1>3, <1>4, <1>5, Written DEF Moves, IInv

\* An invocation is claimed for the first time.
LEMMA InvocationMoves ==
  ASSUME IInv, NEW r \in Handler, ClaimInvocation(r)
  PROVE  /\ UNCHANGED proof
         /\ \E a \in Audit : /\ Moves(a, {"running"}, {"waiting_for_effects"})
                             /\ claims[a] = 0 /\ claims' = [claims EXCEPT ![a] = 1]
<1>1. PICK h \in Invoking : h = handler[r]
  BY ByStep DEF ClaimInvocation, IInv, TypeOK
<1>2. PICK a \in Audit : a = h.id /\ h.seen \in Row /\ h.now \in Until /\ h.now + LeaseTime \in Until
  BY <1>1, Times DEF Invoking
<1> DEFINE new == [h.seen EXCEPT !.state = "waiting_for_effects", !.updated = h.now,
                                 !.leaseUntil = h.now + LeaseTime]
<1>3. new \in Row /\ new.state = "waiting_for_effects"
  BY <1>1, <1>2 DEF Row, State, Executing, Invoking
<1>4. /\ row' = [row EXCEPT ![a] = new] /\ a \in Rows /\ row[a].state = "running"
      /\ claims' = [claims EXCEPT ![a] = @ + 1] /\ UNCHANGED <<born, proof>>
  BY <1>1, <1>2 DEF ClaimInvocation, Claimable, Stored
<1> HIDE DEF new
<1>5. claims[a] = 0
  BY <1>4 DEF IInv, RowInv, RowFits
<1>6. claims' = [claims EXCEPT ![a] = 1] /\ \A b \in Audit \ {a} : claims'[b] = claims[b]
  BY <1>4, <1>5 DEF IInv, TypeOK
<1>7. Moves(a, {"running"}, {"waiting_for_effects"})
  BY <1>3, <1>4, <1>6, Written DEF Moves, IInv
<1> QED
  BY <1>4, <1>5, <1>6, <1>7

\* An execution is settled, as completed or as failed.
LEMMA SaveMoves ==
  ASSUME IInv, NEW r \in Handler, SaveCompleted(r) \/ SaveFailed(r)
  PROVE  /\ \E a \in Audit : Moves(a, {"waiting_for_effects"}, Settled)
         /\ UNCHANGED <<proof, claims>>
<1>1. PICK h \in Owning : h = handler[r]
  BY ByStep DEF SaveCompleted, SaveFailed, IInv, TypeOK, Owner
<1>2. PICK a \in Audit : a = h.id /\ h.seen \in Row
  BY <1>1 DEF Owning
<1>3. PICK state \in Settled :
        /\ a \in Rows /\ row[a].state = "waiting_for_effects"
        /\ row' = [row EXCEPT ![a] = Saved(h.seen, state)]
        /\ UNCHANGED <<born, proof, claims>>
  BY <1>1, <1>2 DEF SaveCompleted, SaveFailed, Saveable, Stored, Settled
<1>4. Saved(h.seen, state) \in Row /\ Saved(h.seen, state).state = state
  BY <1>2, Times DEF Saved, Row, State, IInv, TypeOK
<1>5. Moves(a, {"waiting_for_effects"}, Settled)
  BY <1>3, <1>4, Written DEF Moves, IInv
<1> QED
  BY <1>3, <1>5

\* A new audit waits for its approval.
LEMMA InsertMoves ==
  ASSUME IInv, NEW r \in Handler, NEW a \in Audit, NEW c \in Capability, Insert(r, a, c)
  PROVE  /\ a \notin born /\ a \notin Rows /\ born' = born \cup {a}
         /\ a \in Rows' /\ row'[a].state = "awaiting_approval"
         /\ \A b \in Audit \ {a} : row'[b] = row[b]
         /\ UNCHANGED <<proof, claims>>
<1>1. PICK h \in Inserting : h = handler[r]
  BY ByStep DEF Insert, IInv, TypeOK
<1>2. h.now \in Time /\ h.key \in IdemKey
  BY <1>1 DEF Inserting
<1>3. NewRow(h.key, h.now, c) \in Row /\ NewRow(h.key, h.now, c).state = "awaiting_approval"
  BY <1>2, Times DEF NewRow, Row, State
<1>4. /\ a \notin born /\ born' = born \cup {a} /\ row' = [row EXCEPT ![a] = NewRow(h.key, h.now, c)]
      /\ UNCHANGED <<proof, claims>>
  BY <1>1 DEF Insert, Stored
<1>5. a \notin Rows
  BY <1>4 DEF IInv, RowInv, RowFits
<1> QED
  BY <1>3, <1>4, <1>5, Written DEF IInv

\* The cleanup deletes settled audits whose retention is over.
LEMMA DeleteMoves ==
  ASSUME IInv, NEW r \in Handler, DeleteOld(r)
  PROVE  /\ \A a \in Audit :
              \/ row'[a] = row[a]
              \/ /\ a \in Rows /\ row[a].state \in Settled /\ row'[a] = None
                 /\ row[a].state = "completed" => clock > runs[a][1] + Retention
         /\ UNCHANGED <<born, proof, claims>>
<1>1. handler[r] \in Pruning /\ handler[r].now <= clock
  BY ByStep DEF DeleteOld, IInv, TypeOK, RequestInv, RequestFits
<1>2. handler[r].now \in Nat /\ clock \in Nat /\ Retention \in Nat
  BY <1>1, HostedAssumption DEF Pruning, IInv, TypeOK, Time
<1>3. ASSUME NEW a \in Rows, row[a].state = "completed", row[a].retain < handler[r].now
      PROVE  clock > runs[a][1] + Retention
  <2>1. row[a].retain = runs[a][1] + Retention /\ Len(runs[a]) = 1
    BY <1>3 DEF IInv, RowInv, RowFits
  <2>2. runs[a][1] \in Nat
    <3>1. runs[a] \in Seq(Time) /\ a \in Audit
      BY DEF IInv, TypeOK, Rows
    <3> QED
      BY <2>1, <3>1, HostedAssumption DEF Time
  <2> QED
    BY <1>1, <1>2, <1>3, <2>1, <2>2
<1> QED
  BY <1>3 DEF DeleteOld, Rows

-----------------------------------------------------------------------------
(* Settled audits stay *)

\* What a settled row may become.
Kept(a) == \/ row'[a] = row[a]
           \/ row'[a] = None /\ (row[a].state = "completed" => clock > runs[a][1] + Retention)

\* A step that writes an audit that is not settled leaves the settled ones.
LEMMA MoveKeeps ==
  ASSUME NEW a \in Audit, NEW S, NEW T, Moves(a, S, T), S \cap Settled = {}
  PROVE  \A b \in Rows : row[b].state \in Settled => Kept(b)
  BY DEF Moves, Kept, Rows

\* No late save, cleanup, claim or rotation overwrites a settled audit, and a completed one
\* outlives its execution by the retention period of its evidence (SettledStays).
THEOREM SettledFinal == Spec => SettledStays
<1> DEFINE Goal == \A a \in Rows : row[a].state \in Settled => Kept(a)
<1>1. IInv /\ [Next]_vars => Goal
  <2> SUFFICES ASSUME IInv, [Next]_vars PROVE Goal
    OBVIOUS
  <2>1. Still => Goal
    BY DEF Still, Kept
  <2>2. {"awaiting_approval"} \cap Settled = {} /\ {"running"} \cap Settled = {}
        /\ {"waiting_for_effects"} \cap Settled = {}
        /\ ({"awaiting_approval"} \cup Executing) \cap Settled = {}
    BY DEF Settled, Executing
  <2>3. ASSUME NEW r \in Handler, Create(r) PROVE Goal
    <3>1. ASSUME NEW c \in Capability, Rotate(r, c) PROVE Goal
      BY <2>2, <3>1, RotateMoves, MoveKeeps
    <3>2. ASSUME NEW a \in Audit, NEW c \in Capability, Insert(r, a, c) PROVE Goal
      BY <3>2, InsertMoves DEF Kept, Rows
    <3>3. CASE \E a \in Audit : FailNext(r, a)
      BY <2>1, <2>2, <3>3, FailMoves, MoveKeeps
    <3>4. CASE DeleteOld(r)
      BY <3>4, DeleteMoves DEF Kept, Rows
    <3> QED
      BY <2>1, <2>3, <3>1, <3>2, <3>3, <3>4, StillSteps DEF Create
  <2>4. ASSUME NEW r \in Handler, Approve(r) PROVE Goal
    <3>1. ASSUME NEW l \in Lease, ClaimApproval(r, l) PROVE Goal
      BY <2>2, <3>1, ApprovalMoves, MoveKeeps
    <3>2. CASE FailClaimed(r)
      BY <2>1, <2>2, <3>2, FailMoves, MoveKeeps
    <3> QED
      BY <2>1, <2>4, <3>1, <3>2, StillSteps DEF Approve
  <2>5. ASSUME NEW r \in Handler, Invoke(r) PROVE Goal
    <3>1. CASE ClaimInvocation(r)
      BY <2>2, <3>1, InvocationMoves, MoveKeeps
    <3>2. CASE SaveCompleted(r) \/ SaveFailed(r)
      BY <2>2, <3>2, SaveMoves, MoveKeeps
    <3> QED
      BY <2>1, <2>5, <3>1, <3>2, StillSteps DEF Invoke
  <2>6. ASSUME NEW r \in Handler, GiveUp(r) PROVE Goal
    BY <2>1, <2>6, StillSteps
  <2>7. CASE Tick \/ UNCHANGED vars
    BY <2>1, <2>7 DEF Tick, vars, Still
  <2> QED
    BY <2>3, <2>4, <2>5, <2>6, <2>7 DEF Next
<1>2. Goal => \A a \in Rows : row[a].state \in Settled =>
                \/ row'[a] = row[a]
                \/ row'[a] = None /\ (row[a].state = "completed" => clock > runs[a][1] + Retention)
  BY DEF Kept
<1> HIDE DEF Goal
<1> QED
  BY <1>1, <1>2, Invariant, PTL DEF Spec, SettledStays

-----------------------------------------------------------------------------
(* Each audit is a one-shot authority *)

Mapped == [a \in Audit |-> Phase(a)]

\* The phase of an audit follows from its row.
LEMMA PhaseOf ==
  IInv => \A a \in Audit :
    /\ a \notin born => Phase(a) = "new"
    /\ a \in Rows /\ row[a].state = "awaiting_approval" => Phase(a) = "waiting"
    /\ a \in Rows /\ row[a].state \in Executing => Phase(a) = "authorised"
    /\ a \in Rows /\ row[a].state \in Settled =>
         Phase(a) = IF proof[a] = None THEN "refused" ELSE "closed"
  BY DEF Phase, Executing, Settled, IInv, RowInv, RowFits

\* It stays when nothing of the audit changes.
LEMMA SamePhase ==
  ASSUME NEW a \in Audit, row'[a] = row[a], a \in born' <=> a \in born, proof'[a] = proof[a]
  PROVE  Phase(a)' = Phase(a)
  BY DEF Phase, Rows

\* A step that moves one audit leaves the phases of the others.
LEMMA MovePhase ==
  ASSUME NEW a \in Audit, NEW S, NEW T, Moves(a, S, T)
  PROVE  Mapped' = [Mapped EXCEPT ![a] = Phase(a)']
<1>1. \A b \in Audit \ {a} : Phase(b)' = Phase(b)
  BY SamePhase DEF Moves
<1> QED
  BY <1>1 DEF Mapped

\* Nothing changes for the abstract authority.
LEMMA StillPhase == Still => UNCHANGED Authority!vars
<1> SUFFICES ASSUME Still PROVE UNCHANGED Authority!vars
  OBVIOUS
<1>1. \A a \in Audit : Phase(a)' = Phase(a)
  BY SamePhase DEF Still
<1> QED
  BY <1>1 DEF Still, Authority!vars

\* A rotation changes no phase.
LEMMA RotatePhase ==
  ASSUME IInv, IInv', NEW r \in Handler, NEW c \in Capability, Rotate(r, c)
  PROVE  UNCHANGED Authority!vars
<1>1. PICK a \in Audit : Moves(a, {"awaiting_approval"}, {"awaiting_approval"})
  BY RotateMoves
<1>2. Phase(a) = "waiting" /\ Phase(a)' = "waiting" /\ UNCHANGED claims
  BY <1>1, RotateMoves DEF Moves, Phase, IInv, RowInv, RowFits
<1>3. \A b \in Audit : Phase(b)' = Phase(b)
  BY <1>1, <1>2, SamePhase DEF Moves
<1> QED
  BY <1>2, <1>3 DEF Authority!vars

\* An insertion submits the audit.
LEMMA InsertPhase ==
  ASSUME IInv, IInv', NEW r \in Handler, NEW a \in Audit, NEW c \in Capability, Insert(r, a, c)
  PROVE  Authority!Submit({}, a)
<1>0. /\ a \notin born /\ a \notin Rows /\ a \in born'
      /\ a \in Rows' /\ row'[a].state = "awaiting_approval"
  BY InsertMoves
<1>1. Phase(a) = "new" /\ Phase(a)' = "waiting"
  BY <1>0 DEF Phase, Executing
<1>2. \A b \in Audit \ {a} : Phase(b)' = Phase(b)
  BY InsertMoves, SamePhase
<1>3. Mapped[a] = "new" /\ UNCHANGED claims
  BY <1>1, InsertMoves DEF Mapped
<1>4. Mapped' = [i \in Audit |-> IF i \in {} THEN "refused" ELSE IF i = a THEN "waiting" ELSE Mapped[i]]
  BY <1>1, <1>2 DEF Mapped
<1> QED
  BY <1>3, <1>4 DEF Mapped, Authority!Submit

\* A lapsed audit is refused while it waits, and closed while it executes.
LEMMA FailPhase ==
  ASSUME IInv, IInv', NEW r \in Handler, FailClaimed(r) \/ \E a \in Audit : FailNext(r, a)
  PROVE  Authority!Next \/ UNCHANGED Authority!vars
<1>1. CASE Still
  BY <1>1, StillPhase
<1>2. ASSUME NEW a \in Audit, Moves(a, {"awaiting_approval"} \cup Executing, {"failed"})
      PROVE  Authority!Next
  <2>1. Mapped' = [Mapped EXCEPT ![a] = Phase(a)'] /\ UNCHANGED <<proof, claims>>
    BY <1>2, MovePhase, FailMoves
  <2>2. Phase(a)' = IF proof[a] = None THEN "refused" ELSE "closed"
    BY <1>2, <2>1 DEF Moves, Phase, Executing, IInv, RowInv, RowFits
  <2>3. a \in Rows /\ RowFits(a)
    BY <1>2 DEF Moves, IInv, RowInv
  <2>4. CASE row[a].state = "awaiting_approval"
    <3>1. Phase(a) = "waiting" /\ Phase(a)' = "refused"
      BY <2>2, <2>3, <2>4 DEF Phase, RowFits
    <3>2. Mapped[a] = "waiting"
      BY <3>1 DEF Mapped
    <3>3. Mapped' = [j \in Audit |-> IF j \in {a} THEN "refused" ELSE IF j \in {} THEN "closed" ELSE Mapped[j]]
      BY <2>1, <3>1 DEF Mapped
    <3>4. Authority!Settle({a}, {})
      BY <2>1, <3>2, <3>3 DEF Mapped, Authority!Settle
    <3> QED
      BY <3>4, {a} \in SUBSET Audit, {} \in SUBSET Audit DEF Authority!Next
  <2>5. CASE row[a].state \in Executing
    <3>1. Phase(a) = "authorised" /\ Phase(a)' = "closed"
      BY <2>2, <2>3, <2>5 DEF Phase, RowFits, Executing
    <3>2. Mapped[a] = "authorised"
      BY <3>1 DEF Mapped
    <3>3. Mapped' = [j \in Audit |-> IF j \in {} THEN "refused" ELSE IF j \in {a} THEN "closed" ELSE Mapped[j]]
      BY <2>1, <3>1 DEF Mapped
    <3>4. Authority!Settle({}, {a})
      BY <2>1, <3>2, <3>3 DEF Mapped, Authority!Settle
    <3> QED
      BY <3>4, {a} \in SUBSET Audit, {} \in SUBSET Audit DEF Authority!Next
  <2> QED
    BY <1>2, <2>4, <2>5 DEF Moves
<1> QED
  BY <1>1, <1>2, FailMoves

\* The approval authorises the audit.
LEMMA ApprovalPhase ==
  ASSUME IInv, IInv', NEW r \in Handler, NEW l \in Lease, ClaimApproval(r, l)
  PROVE  \E a \in Audit : Authority!Authorise(a)
<1>1. PICK a \in Audit : Moves(a, {"awaiting_approval"}, {"running"})
  BY ApprovalMoves
<1>2. UNCHANGED claims /\ Mapped' = [Mapped EXCEPT ![a] = Phase(a)']
  BY <1>1, ApprovalMoves, MovePhase
<1>3. Phase(a) = "waiting" /\ Phase(a)' = "authorised"
  BY <1>1 DEF Moves, Phase, Executing, IInv, RowInv, RowFits
<1>4. Mapped[a] = "waiting" /\ Mapped' = [Mapped EXCEPT ![a] = "authorised"]
  BY <1>2, <1>3 DEF Mapped
<1>5. Authority!Authorise(a)
  BY <1>2, <1>4 DEF Mapped, Authority!Authorise
<1> QED
  BY <1>5

\* The claim of the invocation is what the authority is for.
LEMMA InvocationPhase ==
  ASSUME IInv, IInv', NEW r \in Handler, ClaimInvocation(r)
  PROVE  \E a \in Audit : Authority!Perform(a)
<1>1. PICK a \in Audit : /\ Moves(a, {"running"}, {"waiting_for_effects"})
                         /\ claims[a] = 0 /\ claims' = [claims EXCEPT ![a] = 1]
  BY InvocationMoves
<1>2. Phase(a) = "authorised" /\ Phase(a)' = "authorised"
  BY <1>1 DEF Moves, Phase, Executing, IInv, RowInv, RowFits
<1>3. Mapped[a] = "authorised" /\ Mapped' = Mapped
  <2>1. \A b \in Audit : Phase(b)' = Phase(b)
    BY <1>1, <1>2, SamePhase DEF Moves
  <2> QED
    BY <1>2, <2>1 DEF Mapped
<1>4. Authority!Perform(a)
  BY <1>1, <1>3 DEF Mapped, Authority!Perform
<1> QED
  BY <1>4

\* Saving the result, or the failure, closes the authority.
LEMMA SavePhase ==
  ASSUME IInv, IInv', NEW r \in Handler, SaveCompleted(r) \/ SaveFailed(r)
  PROVE  \E a \in Audit : Authority!Settle({}, {a})
<1>1. PICK a \in Audit : Moves(a, {"waiting_for_effects"}, Settled)
  BY SaveMoves
<1>2. UNCHANGED <<proof, claims>> /\ Mapped' = [Mapped EXCEPT ![a] = Phase(a)']
  BY <1>1, SaveMoves, MovePhase
<1>3. Phase(a) = "authorised" /\ Phase(a)' = "closed"
  BY <1>1, <1>2 DEF Moves, Phase, Executing, Settled, IInv, RowInv, RowFits
<1>4. /\ Mapped[a] = "authorised"
      /\ Mapped' = [j \in Audit |-> IF j \in {} THEN "refused" ELSE IF j \in {a} THEN "closed" ELSE Mapped[j]]
  BY <1>2, <1>3 DEF Mapped
<1>5. Authority!Settle({}, {a})
  BY <1>2, <1>4 DEF Mapped, Authority!Settle
<1> QED
  BY <1>5

\* The deletion of a settled audit changes no phase.
LEMMA DeletePhase ==
  ASSUME IInv, NEW r \in Handler, DeleteOld(r)
  PROVE  UNCHANGED Authority!vars
<1>1. ASSUME NEW a \in Audit PROVE Phase(a)' = Phase(a)
  <2>1. CASE row'[a] = row[a]
    BY <2>1, DeleteMoves, SamePhase
  <2>2. CASE a \in Rows /\ row[a].state \in Settled /\ row'[a] = None
    BY <2>2, DeleteMoves DEF Phase, Rows, Settled, Executing
  <2> QED
    BY <2>1, <2>2, DeleteMoves
<1> QED
  BY <1>1, DeleteMoves DEF Authority!vars

\* Every step is a step of the abstract authority, or none.
LEMMA NextAuthority == IInv /\ IInv' /\ [Next]_vars => [Authority!Next]_(Authority!vars)
<1> SUFFICES ASSUME IInv, IInv', [Next]_vars PROVE [Authority!Next]_(Authority!vars)
  OBVIOUS
<1>1. Still => UNCHANGED Authority!vars
  BY StillPhase
<1>2. ASSUME NEW r \in Handler, Create(r) PROVE [Authority!Next]_(Authority!vars)
  <2>1. ASSUME NEW a \in Audit, NEW c \in Capability, Insert(r, a, c) PROVE Authority!Next
    BY <2>1, InsertPhase, {} \in SUBSET Audit DEF Authority!Next
  <2> QED
    BY <1>1, <1>2, <2>1, StillSteps, RotatePhase, FailPhase, DeletePhase DEF Create
<1>3. ASSUME NEW r \in Handler, Approve(r) PROVE [Authority!Next]_(Authority!vars)
  <2>1. ASSUME NEW l \in Lease, ClaimApproval(r, l) PROVE Authority!Next
    BY <2>1, ApprovalPhase DEF Authority!Next
  <2> QED
    BY <1>1, <1>3, <2>1, StillSteps, FailPhase DEF Approve
<1>4. ASSUME NEW r \in Handler, Invoke(r) PROVE [Authority!Next]_(Authority!vars)
  <2>1. CASE ClaimInvocation(r)
    BY <2>1, InvocationPhase DEF Authority!Next
  <2>2. CASE SaveCompleted(r) \/ SaveFailed(r)
    <3>1. PICK a \in Audit : Authority!Settle({}, {a})
      BY <2>2, SavePhase
    <3> QED
      BY <3>1, {a} \in SUBSET Audit, {} \in SUBSET Audit DEF Authority!Next
  <2> QED
    BY <1>1, <1>4, <2>1, <2>2, StillSteps DEF Invoke
<1>5. ASSUME NEW r \in Handler, GiveUp(r) PROVE [Authority!Next]_(Authority!vars)
  BY <1>1, <1>5, StillSteps
<1>6. CASE Tick \/ UNCHANGED vars
  BY <1>1, <1>6 DEF Tick, vars, Still
<1> QED
  BY <1>2, <1>3, <1>4, <1>5, <1>6 DEF Next

\* Whatever requests overlap, retry or die, each audit is submitted once, refused or approved
\* once, and its invocation claimed at most once, while the approval stands (ImplementsOneShot).
THEOREM Refinement == Spec => ImplementsOneShot
<1>1. Init => Authority!Init
  <2> SUFFICES ASSUME Init PROVE Authority!Init
    OBVIOUS
  <2>1. \A a \in Audit : a \notin born /\ a \notin Rows
    BY DEF Init, Rows
  <2>2. \A a \in Audit : Phase(a) = "new"
    BY <2>1 DEF Phase
  <2> QED
    BY <2>2 DEF Init, Authority!Init
<1> QED
  BY Invariant, <1>1, NextAuthority, PTL DEF Spec, ImplementsOneShot, Authority!Spec
=============================================================================
