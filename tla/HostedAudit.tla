----------------------------- MODULE HostedAudit -----------------------------
(***************************************************************************)
(* The hosted audit store: POST /api/audits, /approve and /invoke as       *)
(* concurrent request handlers over one table of audits.                   *)
(*   src/audit-store-core.js           statements and their guards         *)
(*   app/api/audits/post-handler.js    create, or rotate the capability    *)
(*   app/api/audits/approve, invoke    the two claims and the execution    *)
(*                                                                         *)
(* No handler runs in a transaction.  Each reads a row, computes the next  *)
(* one from that snapshot and writes it with a conditional UPDATE, so an   *)
(* action is one database statement, or one stretch of code between two.   *)
(* A handler reads its clock once, before its first statement: its `now'   *)
(* may be older than the moment it writes.                                 *)
(*                                                                         *)
(* Not represented: the limiter (StartLimiter), the session (one session   *)
(* owns every audit here), the review hashes (they never change after the  *)
(* insertion), and replies that change nothing.  The contents of the       *)
(* evidence are a flag: the payload holds a signed result or it does not.  *)
(***************************************************************************)
EXTENDS Naturals, FiniteSets, Sequences

CONSTANTS
  Handler,        \* requests served at the same time
  Audit,          \* audit ids
  IdemKey,        \* idempotency keys (with session and version)
  Capability,     \* approval capabilities, each with its nonce
  Lease,          \* invocation leases
  None,           \* no row, no lease, no capability
  Window,         \* approval window: expires_at - created_at
  LeaseTime,      \* EXECUTION_LEASE_MS
  Retention,      \* HOSTED_AUDIT_RETENTION_MS
  MaxTime,        \* bound on the clock
  MaxDelay        \* bound on the age of a handler's `now' when it first reads

Time == 0 .. MaxTime
Until == 0 .. (MaxTime + Window + LeaseTime + Retention)

ASSUME HostedAssumption ==
  /\ {Window, LeaseTime, Retention, MaxTime, MaxDelay} \subseteq Nat
  /\ Window > 0 /\ LeaseTime > 0
  /\ Retention > Window                     \* validatedRetentionUntil
  /\ None \notin Audit \cup Lease \cup Capability

Executing == {"running", "waiting_for_effects"}
Settled == {"completed", "failed"}
State == {"awaiting_approval"} \cup Executing \cup Settled

Row == [key : IdemKey, state : State, updated : Time, expires : Until, retain : Until,
        lease : Lease \cup {None}, leaseUntil : Until,
        cap : Capability,                     \* payload.privateApproval
        approvedBy : Capability \cup {None},  \* payload.approval.nonceId
        result : BOOLEAN]                     \* payload.result with its attestation

ASSUME RowAssumption == None \notin Row

VARIABLES
  row,            \* [Audit -> Row or None]: the audits table
  handler,        \* [Handler -> what the request is about to do]
  clock,
  born,           \* audits ever inserted
  minted,         \* capabilities ever stored
  delivered,      \* capabilities returned to a client
  granted,        \* leases returned to a client
  proof,          \* [Audit -> the capability whose proof approved it, or None]
  claims,         \* [Audit -> how often its invocation was claimed]
  runs            \* [Audit -> the times at which its execution ended]

vars == <<row, handler, clock, born, minted, delivered, granted, proof, claims, runs>>

Idle == [pc |-> "idle"]

\* What each request remembers between two statements.
Rotating == [pc : {"rotating"}, now : Time, id : Audit, seen : Row]
Inserting == [pc : {"inserting"}, now : Time, key : IdemKey]
Recovering == [pc : {"recovering"}, key : IdemKey]
Sweeping == [pc : {"sweeping"}, now : Time, cap : Capability]
Pruning == [pc : {"pruning"}, now : Time, cap : Capability, todo : SUBSET (Audit \X Row)]
Approving == [pc : {"approving"}, now : Time, id : Audit, seen : Row, cap : Capability]
Invoking == [pc : {"invoking"}, now : Time, id : Audit, seen : Row, lease : Lease]
Owning == [pc : {"executing", "saving", "giving_up"}, id : Audit, seen : Row]

HandlerState == {Idle} \cup Rotating \cup Inserting \cup Recovering \cup Sweeping \cup Pruning
                  \cup Approving \cup Invoking \cup Owning

TypeOK ==
  /\ row \in [Audit -> Row \cup {None}]
  /\ handler \in [Handler -> HandlerState]
  /\ clock \in Time
  /\ born \subseteq Audit
  /\ delivered \subseteq minted /\ minted \subseteq Capability
  /\ granted \subseteq Lease
  /\ proof \in [Audit -> Capability \cup {None}]
  /\ claims \in [Audit -> Nat]
  /\ runs \in [Audit -> Seq(Time)]

Init ==
  /\ row = [a \in Audit |-> None]
  /\ handler = [r \in Handler |-> Idle]
  /\ clock = 0
  /\ born = {} /\ minted = {} /\ delivered = {} /\ granted = {}
  /\ proof = [a \in Audit |-> None]
  /\ claims = [a \in Audit |-> 0]
  /\ runs = [a \in Audit |-> <<>>]

-----------------------------------------------------------------------------
(* The table *)

Rows == {a \in Audit : row[a] # None}
HasKey(k) == {a \in Rows : row[a].key = k}     \* at most one: idempotency_key is unique

NewRow(k, now, c) ==
  [key |-> k, state |-> "awaiting_approval", updated |-> now, expires |-> now + Window,
   retain |-> now + Retention, lease |-> None, leaseUntil |-> 0,
   cap |-> c, approvedBy |-> None, result |-> FALSE]

\* Its time is up: the window if it waits for approval, the lease if it executes.
Lapsed(s, now) == \/ s.state = "awaiting_approval" /\ s.expires <= now
                  \/ s.state \in Executing /\ s.leaseUntil <= now

\* The guard of markFailedIfCurrent: the row is still the one that was read, and
\* still lapsed.
StillLapsed(a, s, now) ==
  /\ a \in Rows
  /\ row[a].state = s.state
  /\ row[a].updated = s.updated
  /\ s.state \in Executing => row[a].lease = s.lease
  /\ Lapsed(row[a], now)

Failed(s, now) == [s EXCEPT !.state = "failed", !.updated = now, !.lease = None, !.leaseUntil = 0]

\* A request that arrived at `now' runs its first statement.
Arrived(now) == now <= clock /\ clock <= now + MaxDelay

Goto(r, h) == handler' = [handler EXCEPT ![r] = h]
Stored(a, s) == row' = [row EXCEPT ![a] = s]

-----------------------------------------------------------------------------
(* POST /api/audits *)

\* loadAuditByIdempotencyKey, after admission.
Lookup(r, k, now) ==
  /\ handler[r] = Idle
  /\ Arrived(now)
  /\ IF HasKey(k) = {}
     THEN Goto(r, [pc |-> "inserting", now |-> now, key |-> k])
     ELSE \E a \in HasKey(k) :
            Goto(r, [pc |-> "rotating", now |-> now, id |-> a, seen |-> row[a]])
  /\ UNCHANGED <<row, clock, born, minted, delivered, granted, proof, claims, runs>>

\* rotateApprovalCapability: a fresh capability replaces the one that was read.
\* It is returned with the rotated record.
Rotate(r, c) ==
  LET h == handler[r] IN
  /\ h.pc = "rotating"
  /\ h.seen.state = "awaiting_approval" /\ h.seen.expires > h.now
  /\ c \notin minted
  /\ h.id \in Rows
  /\ row[h.id].state = "awaiting_approval"
  /\ row[h.id].updated = h.seen.updated
  /\ row[h.id].expires > h.now
  /\ row[h.id].cap = h.seen.cap
  /\ Stored(h.id, [h.seen EXCEPT !.cap = c, !.updated = h.now])
  /\ minted' = minted \cup {c}
  /\ delivered' = delivered \cup {c}
  /\ Goto(r, Idle)
  /\ UNCHANGED <<clock, born, granted, proof, claims, runs>>

\* insertAudit: idempotency_key and id are unique.  The statement may be applied
\* and its reply lost.
Insert(r, a, c) ==
  LET h == handler[r] IN
  /\ h.pc = "inserting"
  /\ a \notin born /\ c \notin minted
  /\ HasKey(h.key) = {}
  /\ Stored(a, NewRow(h.key, h.now, c))
  /\ born' = born \cup {a}
  /\ minted' = minted \cup {c}
  /\ \/ Goto(r, [pc |-> "sweeping", now |-> h.now, cap |-> c])
     \/ Goto(r, [pc |-> "recovering", key |-> h.key])
  /\ UNCHANGED <<clock, delivered, granted, proof, claims, runs>>

\* The insertion threw, because another request inserted first or the database
\* refused it.
InsertThrows(r) ==
  /\ handler[r].pc = "inserting"
  /\ Goto(r, [pc |-> "recovering", key |-> handler[r].key])
  /\ UNCHANGED <<row, clock, born, minted, delivered, granted, proof, claims, runs>>

\* The catch of the insertion: rotate what is there, with a fresh reading of the clock.
Recover(r) ==
  /\ handler[r].pc = "recovering"
  /\ \E a \in HasKey(handler[r].key) :
       Goto(r, [pc |-> "rotating", now |-> clock, id |-> a, seen |-> row[a]])
  /\ UNCHANGED <<row, clock, born, minted, delivered, granted, proof, claims, runs>>

\* pruneExpiredAudits: SELECT the lapsed rows, fail each if it still is, delete old ones.
SelectLapsed(r) ==
  LET h == handler[r] IN
  /\ h.pc = "sweeping"
  /\ Goto(r, [pc |-> "pruning", now |-> h.now, cap |-> h.cap,
              todo |-> {<<a, row[a]>> : a \in {b \in Rows : Lapsed(row[b], h.now)}}])
  /\ UNCHANGED <<row, clock, born, minted, delivered, granted, proof, claims, runs>>

FailNext(r, a) ==
  LET h == handler[r] IN
  /\ h.pc = "pruning"
  /\ \E x \in h.todo :
       /\ x[1] = a
       /\ IF StillLapsed(a, x[2], h.now) THEN Stored(a, Failed(x[2], h.now)) ELSE UNCHANGED row
       /\ Goto(r, [h EXCEPT !.todo = @ \ {x}])
  /\ UNCHANGED <<clock, born, minted, delivered, granted, proof, claims, runs>>

\* The reply is sent after the cleanup, with the capability of the insertion.
DeleteOld(r) ==
  LET h == handler[r] IN
  /\ h.pc = "pruning" /\ h.todo = {}
  /\ row' = [a \in Audit |-> IF a \in Rows /\ row[a].state \in Settled /\ row[a].retain < h.now
                             THEN None ELSE row[a]]
  /\ delivered' = delivered \cup {h.cap}
  /\ Goto(r, Idle)
  /\ UNCHANGED <<clock, born, minted, granted, proof, claims, runs>>

\* Promise.allSettled: a cleanup that fails is only logged.
CleanupThrows(r) ==
  /\ handler[r].pc \in {"sweeping", "pruning"}
  /\ delivered' = delivered \cup {handler[r].cap}
  /\ Goto(r, Idle)
  /\ UNCHANGED <<row, clock, born, minted, granted, proof, claims, runs>>

-----------------------------------------------------------------------------
(* POST /api/audits/approve: claimApproval *)

LoadForApproval(r, a, c, now) ==
  /\ handler[r] = Idle
  /\ Arrived(now)
  /\ c \in delivered
  /\ a \in Rows /\ row[a].state \notin Settled
  /\ Goto(r, [pc |-> "approving", now |-> now, id |-> a, seen |-> row[a], cap |-> c])
  /\ UNCHANGED <<row, clock, born, minted, delivered, granted, proof, claims, runs>>

\* Both claims: a row that has lapsed is failed instead.
FailClaimed(r) ==
  LET h == handler[r] IN
  /\ h.pc \in {"approving", "invoking"}
  /\ Lapsed(h.seen, h.now)
  /\ StillLapsed(h.id, h.seen, h.now)
  /\ Stored(h.id, Failed(h.seen, h.now))
  /\ Goto(r, Idle)
  /\ UNCHANGED <<clock, born, minted, delivered, granted, proof, claims, runs>>

\* Mutant: the capability of the record that was read, not the one presented.
ApprovableByRead(a, s, c, now) ==
  /\ a \in Rows
  /\ row[a].state = "awaiting_approval"
  /\ row[a].expires > now
  /\ row[a].updated = s.updated
  /\ row[a].cap = s.cap
\* Mutant: no state in the WHERE clause.
ApprovableTwice(a, s, c, now) ==
  /\ a \in Rows
  /\ row[a].expires > now
  /\ row[a].updated = s.updated
  /\ row[a].cap = c
  /\ row[a].cap = s.cap
\* The guard of the approving UPDATE: capability and session hash of the proof, and
\* the nonce of the record that was read and is written into the approval.
Approvable(a, s, c, now) ==
  /\ a \in Rows
  /\ row[a].state = "awaiting_approval"
  /\ row[a].expires > now
  /\ row[a].updated = s.updated
  /\ row[a].cap = c
  /\ row[a].cap = s.cap

ClaimApproval(r, l) ==
  LET h == handler[r] IN
  /\ h.pc = "approving"
  /\ h.seen.state = "awaiting_approval" /\ ~Lapsed(h.seen, h.now)
  /\ Approvable(h.id, h.seen, h.cap, h.now)
  /\ l \notin granted
  /\ Stored(h.id, [h.seen EXCEPT !.state = "running", !.updated = h.now, !.lease = l,
                                 !.leaseUntil = h.now + LeaseTime, !.approvedBy = h.seen.cap])
  /\ granted' = granted \cup {l}
  /\ proof' = [proof EXCEPT ![h.id] = h.cap]
  /\ Goto(r, Idle)
  /\ UNCHANGED <<clock, born, minted, delivered, claims, runs>>

-----------------------------------------------------------------------------
(* POST /api/audits/invoke: claimInvocation, completeHostedAudit, saveAudit *)

LoadForInvocation(r, a, l, now) ==
  /\ handler[r] = Idle
  /\ Arrived(now)
  /\ l \in granted
  /\ a \in Rows /\ row[a].state = "running"
  /\ Goto(r, [pc |-> "invoking", now |-> now, id |-> a, seen |-> row[a], lease |-> l])
  /\ UNCHANGED <<row, clock, born, minted, delivered, granted, proof, claims, runs>>

\* The guard of the claiming UPDATE.
Claimable(a, s, l, now) ==
  /\ a \in Rows
  /\ row[a].state = "running"
  /\ row[a].lease = l /\ row[a].leaseUntil > now
  /\ row[a].updated = s.updated

ClaimInvocation(r) ==
  LET h == handler[r]
      next == [h.seen EXCEPT !.state = "waiting_for_effects", !.updated = h.now,
                             !.leaseUntil = h.now + LeaseTime]
  IN
  /\ h.pc = "invoking"
  /\ ~Lapsed(h.seen, h.now) /\ h.seen.lease = h.lease     \* validInvocationClaim
  /\ Claimable(h.id, h.seen, h.lease, h.now)
  /\ Stored(h.id, next)
  /\ claims' = [claims EXCEPT ![h.id] = @ + 1]
  /\ Goto(r, [pc |-> "executing", id |-> h.id, seen |-> next])
  /\ UNCHANGED <<clock, born, minted, delivered, granted, proof, runs>>

\* Mutant: the retention date of the creation stands.
RetainedAsCreated(s) == s
\* completeHostedAudit and signEvidence: the result joins the record, and the
\* evidence commits to a new retention date.
Renewed(s) == [s EXCEPT !.retain = clock + Retention]

Execute(r) ==
  LET h == handler[r] IN
  /\ h.pc = "executing"
  /\ runs' = [runs EXCEPT ![h.id] = Append(@, clock)]
  /\ Goto(r, [h EXCEPT !.pc = "saving", !.seen = [Renewed(h.seen) EXCEPT !.result = TRUE]])
  /\ UNCHANGED <<row, clock, born, minted, delivered, granted, proof, claims>>

\* Either throws: before the new retention date is set, or after it.
ExecuteThrows(r) ==
  LET h == handler[r] IN
  /\ h.pc = "executing"
  /\ runs' = [runs EXCEPT ![h.id] = Append(@, clock)]
  /\ \E s \in {h.seen, Renewed(h.seen)} :
       Goto(r, [h EXCEPT !.pc = "giving_up", !.seen = s])
  /\ UNCHANGED <<row, clock, born, minted, delivered, granted, proof, claims>>

\* The guard of saveAudit.
Saveable(a, s) == a \in Rows /\ row[a].state = "waiting_for_effects" /\ row[a].lease = s.lease

Saved(s, state) == [s EXCEPT !.state = state, !.updated = clock, !.lease = None, !.leaseUntil = 0]

\* The reply of the statement, or the audit's public view after it, may fail yet.
SaveCompleted(r) ==
  LET h == handler[r] IN
  /\ h.pc = "saving"
  /\ Saveable(h.id, h.seen)
  /\ Stored(h.id, Saved(h.seen, "completed"))
  /\ Goto(r, Idle) \/ Goto(r, [h EXCEPT !.pc = "giving_up"])
  /\ UNCHANGED <<clock, born, minted, delivered, granted, proof, claims, runs>>

\* The lease was lost, or the database refused the statement.
SaveThrows(r) ==
  /\ handler[r].pc = "saving"
  /\ Goto(r, [handler[r] EXCEPT !.pc = "giving_up"])
  /\ UNCHANGED <<row, clock, born, minted, delivered, granted, proof, claims, runs>>

\* The catch of the route: save the record as failed, as far as it got.
SaveFailed(r) ==
  LET h == handler[r] IN
  /\ h.pc = "giving_up"
  /\ Saveable(h.id, h.seen)
  /\ Stored(h.id, Saved(h.seen, "failed"))
  /\ Goto(r, Idle)
  /\ UNCHANGED <<clock, born, minted, delivered, granted, proof, claims, runs>>

-----------------------------------------------------------------------------

\* The request ends with nothing more changed: a claim or a rotation whose UPDATE
\* matched no row, a statement that failed, or a worker that died.
GiveUp(r) ==
  /\ handler[r] # Idle
  /\ Goto(r, Idle)
  /\ UNCHANGED <<row, clock, born, minted, delivered, granted, proof, claims, runs>>

Tick ==
  /\ clock < MaxTime
  /\ clock' = clock + 1
  /\ UNCHANGED <<row, handler, born, minted, delivered, granted, proof, claims, runs>>

Create(r) ==
  \/ \E k \in IdemKey, now \in Time : Lookup(r, k, now)
  \/ \E c \in Capability : Rotate(r, c)
  \/ \E a \in Audit, c \in Capability : Insert(r, a, c)
  \/ \E a \in Audit : FailNext(r, a)
  \/ InsertThrows(r) \/ Recover(r) \/ SelectLapsed(r) \/ DeleteOld(r) \/ CleanupThrows(r)

Approve(r) ==
  \/ \E a \in Audit, c \in Capability, now \in Time : LoadForApproval(r, a, c, now)
  \/ \E l \in Lease : ClaimApproval(r, l)
  \/ FailClaimed(r)

Invoke(r) ==
  \/ \E a \in Audit, l \in Lease, now \in Time : LoadForInvocation(r, a, l, now)
  \/ ClaimInvocation(r) \/ Execute(r) \/ ExecuteThrows(r)
  \/ SaveCompleted(r) \/ SaveThrows(r) \/ SaveFailed(r)

Next == Tick \/ \E r \in Handler : Create(r) \/ Approve(r) \/ Invoke(r) \/ GiveUp(r)

Spec == Init /\ [][Next]_vars

-----------------------------------------------------------------------------
(* Properties *)

\* What publicHostedAudit insists on before it shows a stored result: the record is
\* completed (verifyHostedAuditRecord).  The code does not keep it: a save that fails
\* once leaves the signed result in the record that the catch then saves as failed.
StoredResultIsCompleted == \A a \in Rows : row[a].result => row[a].state = "completed"

\* Everything that a row says was earned.  Its approval names the capability that was
\* presented for it, whichever row the approving request had read before.  It holds a
\* granted lease, and nobody else's, exactly while its audit executes, so none is left that
\* nothing can expire.  A completed one has the signed result of its one execution, and
\* none executes twice, however claims, retries and failed saves overlap.
RowsAreEarned ==
  /\ \A a \in Rows :
       /\ row[a].approvedBy = proof[a]
       /\ row[a].lease # None <=> row[a].state \in Executing
       /\ row[a].lease # None => row[a].lease \in granted
       /\ row[a].state = "completed" => row[a].result /\ Len(runs[a]) = 1
       /\ \A b \in Rows : row[a].lease # None /\ row[a].lease = row[b].lease => a = b
  /\ \A a \in Audit : Len(runs[a]) <= claims[a]

\* A settled audit stays as it was published: a late save, a cleanup or a claim working
\* from an older snapshot does not overwrite it.  Only its deletion remains, and the row
\* of a completed one outlives its execution by the whole retention period that its signed
\* evidence states (retentionUntil).
SettledStays ==
  [][\A a \in Rows : row[a].state \in Settled =>
       \/ row'[a] = row[a]
       \/ row'[a] = None /\ (row[a].state = "completed" => clock > runs[a][1] + Retention)]_vars

\* Each audit is a one-shot authority: the invocation is what it authorises.
Phase(a) == CASE a \notin born -> "new"
              [] a \in Rows /\ row[a].state = "awaiting_approval" -> "waiting"
              [] a \in Rows /\ row[a].state \in Executing -> "authorised"
              [] OTHER -> IF proof[a] = None THEN "refused" ELSE "closed"

Authority == INSTANCE OneShot
  WITH Job <- Audit, phase <- [a \in Audit |-> Phase(a)], performed <- claims

\* Every audit is submitted once, refused or approved once, and its invocation is
\* claimed at most once, while the approval stands (the abstract specification).
ImplementsOneShot == Authority!Spec
-----------------------------------------------------------------------------
(* The inductive strengthening of the properties above *)

\* A row of audit a that a request has read: if it was executing, it had been approved
\* as it is now.
Remembered(a, s) ==
  /\ a \in born
  /\ s.state = "awaiting_approval" => s.approvedBy = None /\ s.lease = None
  /\ s.state \in Executing => s.approvedBy = proof[a] /\ proof[a] # None

Owner == {"executing", "saving", "giving_up"}

\* The owner of an execution alone has claimed it, and knows how far it got.
OwnerFits(r) ==
  LET h == handler[r] IN
  /\ h.seen.state = "waiting_for_effects"
  /\ claims[h.id] = 1
  /\ h.pc = "executing" => runs[h.id] = <<>>
  /\ h.pc = "saving" => /\ h.seen.result /\ Len(runs[h.id]) = 1
                        /\ h.seen.retain = runs[h.id][1] + Retention

RequestFits(r) ==
  LET h == handler[r] IN
  /\ h.pc \in {"rotating", "approving", "invoking"} \cup Owner => Remembered(h.id, h.seen)
  /\ h.pc = "pruning" => \A x \in h.todo : Remembered(x[1], x[2])
  /\ h.pc \in {"sweeping", "pruning"} => h.cap \in minted
  /\ h.pc \in {"inserting", "sweeping", "pruning"} => h.now <= clock
  /\ h.pc = "invoking" => h.seen.state = "running"
  /\ h.pc \in Owner => OwnerFits(r)

RowFits(a) ==
  /\ a \in born
  /\ row[a].approvedBy = proof[a]
  /\ row[a].state = "awaiting_approval" => proof[a] = None
  /\ row[a].state \in Executing => proof[a] # None
  /\ row[a].lease # None <=> row[a].state \in Executing
  /\ row[a].lease # None => row[a].lease \in granted
  /\ row[a].state \in {"awaiting_approval", "running"} => claims[a] = 0
  /\ row[a].state = "completed" => /\ row[a].result /\ Len(runs[a]) = 1
                                  /\ row[a].retain = runs[a][1] + Retention

AuditFits(a) ==
  /\ a \notin born => proof[a] = None /\ claims[a] = 0
  /\ claims[a] \in {0, 1}
  /\ Len(runs[a]) <= claims[a]

RowInv == \A a \in Rows : RowFits(a)
LeaseInv == \A a, b \in Rows : row[a].lease # None /\ row[a].lease = row[b].lease => a = b
AuditInv == \A a \in Audit : AuditFits(a)
RequestInv == \A r \in Handler : RequestFits(r)
OwnerInv == \A q, r \in Handler :
  q # r /\ handler[q].pc \in Owner /\ handler[r].pc \in Owner => handler[q].id # handler[r].id

IInv == TypeOK /\ RowInv /\ LeaseInv /\ AuditInv /\ RequestInv /\ OwnerInv
=============================================================================
