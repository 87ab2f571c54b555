----------------------------- MODULE StartLimiter -----------------------------
(***************************************************************************)
(* Admission of hosted audit starts: admitAuditStart of                    *)
(* src/audit-capability.js over consumeAuditStartLimit and                 *)
(* pruneExpiredAuditStartLimits of src/audit-store-core.js, as             *)
(* app/api/audits/post-handler.js calls them.                              *)
(*                                                                         *)
(* A start consumes a bucket of its session, of its network and of         *)
(* everybody, in that order.  Each consumption is an upsert and a separate *)
(* select, all with the time at which the request arrived, so requests     *)
(* interleave with stale clocks and with the pruner.                       *)
(*                                                                         *)
(* Not represented: hashes, and the validation of the arguments.           *)
(***************************************************************************)
EXTENDS Naturals, Sequences, FiniteSets, FiniteSetsExt

CONSTANTS
  Request,        \* requests that may be under way at once
  Session, Network,
  NetworkOf,      \* [Session -> Network]: a client without a cookie is many sessions of one
  Everyone,       \* identity of the global bucket
  Limit,          \* [scope -> starts admitted per window]
  Window,         \* AUDIT_START_WINDOW_MS
  Batch,          \* rows that one clean-up deletes at most
  Patience,       \* bound: how long a request may last
  MaxTime,        \* bound of the clock
  None

\* Scopes, and their order in AUDIT_START_POLICIES.
Scope == {"session", "network", "global"}
Policies == <<"session", "network", "global">>

Row == [count : Nat \ {0}, resetAt : Nat]

ASSUME LimiterAssumption ==
  /\ NetworkOf \in [Session -> Network]
  /\ Limit \in [Scope -> Nat \ {0}]
  /\ Window \in Nat /\ Patience \in Nat /\ MaxTime \in Nat /\ Batch \in Nat \ {0}
  /\ 2 * Patience < Window
  /\ None \notin Row

Identity == [session |-> Session, network |-> Network, global |-> {Everyone}]
Bucket == UNION {{[scope |-> c, of |-> i] : i \in Identity[c]} : c \in Scope}

BucketOf(s, c) ==
  [scope |-> c, of |-> CASE c = "session" -> s
                         [] c = "network" -> NetworkOf[s]
                         [] c = "global" -> Everyone]

VARIABLES
  clock,
  row,            \* [Bucket -> [count, resetAt] or None]: audit_start_limits
  request,        \* [Request -> its place in admitAuditStart and the cleanup]
  spent           \* history: [Bucket -> the starts it counted, each with the row it left]

vars == <<clock, row, request, spent>>

Time == 0 .. MaxTime
\* A start is known by the row that it left in the bucket of its session.
Entry == [session : Session, start : Row, at : Time, row : Row]
Place == {"idle", "consume", "read", "admitted", "denied"}

TypeOK ==
  /\ clock \in Time
  /\ row \in [Bucket -> Row \cup {None}]
  /\ request \in [Request -> [pc : Place, session : Session \cup {None}, now : Time, policy : DOMAIN Policies,
                              allowed : BOOLEAN, at : Time, resetAt : Nat, start : Row \cup {None}]]
  /\ spent \in [Bucket -> SUBSET Entry]

Idle == [pc |-> "idle", session |-> None, now |-> 0, policy |-> 1,
         allowed |-> FALSE, at |-> 0, resetAt |-> 0, start |-> None]

Init ==
  /\ clock = 0
  /\ row = [b \in Bucket |-> None]
  /\ request = [q \in Request |-> Idle]
  /\ spent = [b \in Bucket |-> {}]

-----------------------------------------------------------------------------
(* The statements *)

Rows == {b \in Bucket : row[b] # None}
UnderWay == {q \in Request : request[q].pc \in {"consume", "read", "admitted"}}
Target(q) == BucketOf(request[q].session, Policies[request[q].policy])

\* Mutant: a window never ends.
NeverOver(b, now) == FALSE
Over(b, now) == row[b].resetAt <= now

\* Mutant: the window starts afresh but keeps the boundary it had.
ReopenedInPlace(b, now) == [count |-> 1, resetAt |-> IF b \in Rows THEN row[b].resetAt ELSE now + Window]
Reopened(b, now) == [count |-> 1, resetAt |-> now + Window]

Fresh(b, now) == b \notin Rows \/ Over(b, now)
Roomy(b) == row[b].count < Limit[b.scope]

\* INSERT ... ON CONFLICT DO UPDATE ... WHERE: the row that the upsert leaves.
Upserted(b, now) ==
  IF Fresh(b, now) THEN Reopened(b, now)
  ELSE IF Roomy(b) THEN [row[b] EXCEPT !.count = @ + 1] ELSE row[b]

\* DELETE ... WHERE reset_at <= now ORDER BY reset_at LIMIT: what it may select.
Prunable(now) ==
  LET over == {b \in Rows : Over(b, now)} IN
  {S \in SUBSET over :
     /\ Cardinality(S) = Min({Batch, Cardinality(over)})
     /\ \A b \in S, c \in over \ S : row[b].resetAt <= row[c].resetAt}

Without(S) == [b \in Bucket |-> IF b \in S THEN None ELSE row[b]]

-----------------------------------------------------------------------------
(* A request *)

Become(q, r) == request' = [request EXCEPT ![q] = r]
Leave(q) == Become(q, Idle)

Arrive(q, s) ==
  /\ q \notin UnderWay
  /\ Become(q, [Idle EXCEPT !.pc = "consume", !.session = s, !.now = clock])
  /\ UNCHANGED <<clock, row, spent>>

Consume(q) ==
  LET b == Target(q)
      now == request[q].now
      allowed == Fresh(b, now) \/ Roomy(b)
      start == IF request[q].policy = 1 THEN Upserted(b, now) ELSE request[q].start
      entry == [session |-> request[q].session, start |-> start, at |-> clock, row |-> Upserted(b, now)] IN
  /\ request[q].pc = "consume"
  /\ row' = [row EXCEPT ![b] = Upserted(b, now)]
  /\ spent' = IF allowed THEN [spent EXCEPT ![b] = @ \cup {entry}] ELSE spent
  /\ Become(q, [request[q] EXCEPT !.pc = "read", !.allowed = allowed, !.at = clock,
                                  !.start = IF allowed THEN start ELSE @])
  /\ UNCHANGED clock

\* The select finds the row, and the loop goes on.
ReadBack(q) ==
  LET r == request[q] IN
  /\ r.pc = "read"
  /\ Target(q) \in Rows
  /\ UNCHANGED <<clock, row, spent>>
  /\ IF ~r.allowed
     THEN Become(q, [r EXCEPT !.pc = "denied", !.resetAt = row[Target(q)].resetAt, !.start = None])
     ELSE IF r.policy < Len(Policies)
     THEN Become(q, [r EXCEPT !.pc = "consume", !.policy = @ + 1])
     ELSE Become(q, [Idle EXCEPT !.pc = "admitted", !.session = r.session, !.now = r.now])

\* The row was pruned in between: 503, whatever the request has consumed.
ReadNothing(q) ==
  /\ request[q].pc = "read"
  /\ Target(q) \notin Rows
  /\ Leave(q)
  /\ UNCHANGED <<clock, row, spent>>

\* A statement throws (503), or the worker dies with its request.
StorageThrows(q) ==
  /\ request[q].pc \in {"consume", "read"}
  /\ Leave(q)
  /\ UNCHANGED <<clock, row, spent>>

\* A start that found its audit answers at once.
Answer(q) ==
  /\ request[q].pc = "admitted"
  /\ Leave(q)
  /\ UNCHANGED <<clock, row, spent>>

\* One that inserted an audit prunes first.
Prune(q) ==
  /\ request[q].pc = "admitted"
  /\ \E S \in Prunable(request[q].now) : row' = Without(S)
  /\ Leave(q)
  /\ UNCHANGED <<clock, spent>>

Tick ==
  /\ clock < MaxTime
  /\ \A q \in UnderWay : clock - request[q].now < Patience
  /\ clock' = clock + 1
  /\ UNCHANGED <<row, request, spent>>

-----------------------------------------------------------------------------

Admit(q) == Consume(q) \/ ReadBack(q) \/ ReadNothing(q) \/ StorageThrows(q)

Next ==
  \/ Tick
  \/ \E q \in Request :
       \/ \E s \in Session : Arrive(q, s)
       \/ Admit(q) \/ Answer(q) \/ Prune(q)

Spec == Init /\ [][Next]_vars

-----------------------------------------------------------------------------
(* Properties *)

\* Starts that bucket b counted for the sessions S in the given time before t.
Counted(b, S, t, time) ==
  Cardinality({e \in spent[b] : e.session \in S /\ e.at <= t /\ t < e.at + time})

\* However stale the clocks of concurrent requests are, and whatever the pruner deletes
\* between an upsert and a select, a bucket counts less than two windows' worth of starts in
\* the shortest time a window may last.  A session that floods the service uses up its own
\* limit before it touches the buckets it shares, and a network (a client that drops its
\* cookie) its own before the global one.
Throttled ==
  /\ \A b \in Bucket : Counted(b, Session, clock, Window - Patience) < 2 * Limit[b.scope]
  /\ \A s \in Session, b \in Bucket : Counted(b, {s}, clock, Window - 2 * Patience) < 2 * Limit["session"]
  /\ \A n \in Network :
       Counted([scope |-> "global", of |-> Everyone], {s \in Session : NetworkOf[s] = n},
               clock, Window - 2 * Patience) < 2 * Limit["network"]

\* Nobody is refused while a bucket has room: a refusal means that the bucket counted
\* its limit within the longest time a window may be observed.  The boundary that the
\* reply quotes, which may be that of a later window, lies ahead of the request.
RefusalIsJust ==
  \A q \in Request : request[q].pc = "denied" =>
    /\ Counted(Target(q), Session, request[q].at, Window + Patience) >= Limit[Target(q).scope]
    /\ request[q].resetAt > request[q].now
    /\ request[q].resetAt <= clock + Window
=============================================================================
