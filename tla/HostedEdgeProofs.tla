-------------------------- MODULE HostedEdgeProofs ---------------------------
(***************************************************************************)
(* For any requests, isolates, keys, verifiers and durations, what every   *)
(* hosted request meets before and after its audit: the start limiter, the *)
(* initialisation of the database and the signing keys.  They share no     *)
(* state and are proved one by one.                                        *)
(*                                                                         *)
(* The limiter: a window of a bucket opens only when all before it are     *)
(* over, so that no stretch of a window meets three, and the start that    *)
(* opened the later of two is not counted in it; each start it grants goes *)
(* to a row of its own of each bucket, so that what one bucket bounds, the *)
(* next does.                                                              *)
(*                                                                         *)
(* The database: no statement undoes what another initialisation did, so   *)
(* what an isolate has reached in its own sequence of statements stays     *)
(* true whatever the others execute or fail to.                            *)
(*                                                                         *)
(* The keys: what anybody may sign with, now or once the deployment has    *)
(* reached it, is trusted by every isolate and in every copy that is still *)
(* fresh.  A deployment other than a prepublication or a removal leaves    *)
(* the trusted set as it is; and once every isolate publishes the set of   *)
(* the deployment, a copy fetched after that holds this set, so that       *)
(* waiting for one lifetime leaves no fresh copy without the next key.     *)
(***************************************************************************)
EXTENDS StartLimiter, DatabaseInit, EvidenceKeys, FiniteSetTheorems, TLAPS

-----------------------------------------------------------------------------
(* The start limiter *)

Span(b, t, time) == {e \in spent[b] : e.at <= t /\ t < e.at + time}

\* Of a bucket: each start it counted left a row of its own; a window opens when all before
\* it are over, is full at its limit, and is counted in not long after it is over; the stored
\* row is the last that was left.
WindowsFit(b) ==
  /\ IsFiniteSet(spent[b])
  /\ \A e \in spent[b] :
       /\ e.at <= clock /\ e.row.count <= Limit[b.scope]
       /\ e.row.resetAt <= e.at + Window /\ e.at < e.row.resetAt + Patience + 1
       /\ e.row.count = 1 => e.at + Window <= e.row.resetAt + Patience
       /\ \A i \in 1 .. e.row.count : \E f \in spent[b] : f.row = [count |-> i, resetAt |-> e.row.resetAt]
  /\ \A e, f \in spent[b] :
       /\ e.row = f.row => e = f
       /\ e.row.resetAt < f.row.resetAt => e.row.resetAt <= f.at /\ e.at <= f.at
  /\ row[b] = None => \A e \in spent[b] : e.row.resetAt <= clock
  /\ row[b] # None =>
       /\ \E e \in spent[b] : e.row = row[b]
       /\ \A e \in spent[b] : /\ e.row.resetAt <= row[b].resetAt
                              /\ e.row.resetAt = row[b].resetAt => e.row.count <= row[b].count

\* Start x of session s was counted by its bucket of policy j, not before a time.
Holds(s, x, j, since) ==
  \E f \in spent[BucketOf(s, Policies[j])] : f.session = s /\ f.start = x /\ since <= f.at

\* A start counts once in a bucket, and in those before it not long before.
StartsFit(b) ==
  /\ \A e \in spent[b] :
       /\ b = BucketOf(e.session, b.scope)
       /\ b.scope = "session" => e.start = e.row
       /\ \A i, j \in 1 .. 3 : (b.scope = Policies[i] /\ j <= i) =>
            \E f \in spent[BucketOf(e.session, Policies[j])] :
              f.session = e.session /\ f.start = e.start /\ f.at <= e.at /\ e.at <= f.at + Patience
  /\ \A e, f \in spent[b] : e.session = f.session /\ e.start = f.start => e = f

\* The buckets that have counted the start of request q.
Passed(q) ==
  LET r == request[q] IN
  IF r.pc = "read" /\ r.allowed THEN 1 .. r.policy ELSE 1 .. r.policy - 1

\* The bucket that refused q had counted its limit, all in one window.
Just(q) ==
  LET b == Target(q) IN
  \E g \in spent[b] : \A i \in 1 .. Limit[b.scope] :
    \E e \in spent[b] : /\ e.row = [count |-> i, resetAt |-> g.row.resetAt]
                        /\ e.at <= request[q].at /\ request[q].at < e.at + Window + Patience

RequestFits(q) ==
  LET r == request[q] IN
  /\ r.pc # "idle" => r.session \in Session /\ r.now <= clock
  /\ q \in UnderWay => clock <= r.now + Patience
  /\ r.pc \in {"idle", "admitted", "denied"} => r.start = None
  /\ r.pc \in {"consume", "read"} => (r.start = None <=> Passed(q) = {})
  /\ r.start # None =>
       \A j \in 1 .. 3 : IF j \in Passed(q) THEN Holds(r.session, r.start, j, r.now) ELSE ~Holds(r.session, r.start, j, 0)
  /\ (r.pc = "denied" \/ (r.pc = "read" /\ ~r.allowed)) => Just(q) /\ r.at <= clock
  /\ (r.pc = "read" /\ ~r.allowed) => (row[Target(q)] = None \/ r.now < row[Target(q)].resetAt)
  /\ r.pc = "denied" => r.now < r.resetAt /\ r.resetAt <= clock + Window

StartsDiffer(p, q) ==
  (p # q /\ request[p].start # None /\ request[q].start # None /\ request[p].session = request[q].session)
    => request[p].start # request[q].start

LimiterInv ==
  /\ TypeOK
  /\ \A b \in Bucket : WindowsFit(b) /\ StartsFit(b)
  /\ \A q \in Request : RequestFits(q)
  /\ \A p, q \in Request : StartsDiffer(p, q)

\* The durations and limits are numbers, and three windows do not fit where two were asked for.
LEMMA LimiterBounds ==
  /\ Window \in Nat /\ Patience \in Nat /\ MaxTime \in Nat /\ 2 * Patience < Window
  /\ \A c \in Scope : Limit[c] \in Nat /\ Limit[c] > 0
BY LimiterAssumption

\* The three policies, in their order.
LEMMA ThreePolicies ==
  /\ Len(Policies) = 3 /\ DOMAIN Policies = 1 .. 3
  /\ Policies[1] = "session" /\ Policies[2] = "network" /\ Policies[3] = "global"
  /\ \A j \in 1 .. 3 : Policies[j] \in Scope
  /\ \A i, j \in 1 .. 3 : Policies[i] = Policies[j] => i = j
<1>1. /\ Len(Policies) = 3 /\ DOMAIN Policies = 1 .. 3
      /\ Policies[1] = "session" /\ Policies[2] = "network" /\ Policies[3] = "global"
  BY DEF Policies
<1>2. \A j \in 1 .. 3 : j = 1 \/ j = 2 \/ j = 3
  OBVIOUS
<1> QED
  BY <1>1, <1>2 DEF Scope

\* A session has one bucket of each scope; those of its network and of everybody are what they are
\* for all its sessions.
LEMMA BucketsOf ==
  /\ \A s \in Session, c \in Scope : BucketOf(s, c) \in Bucket /\ BucketOf(s, c).scope = c
  /\ \A b \in Bucket : b.scope \in Scope
  /\ \A s \in Session : /\ BucketOf(s, "network") = [scope |-> "network", of |-> NetworkOf[s]]
                        /\ BucketOf(s, "global") = [scope |-> "global", of |-> Everyone]
<1>1. ASSUME NEW c \in Scope, NEW i \in Identity[c]
      PROVE  [scope |-> c, of |-> i] \in Bucket
  BY DEF Bucket
<1>2. ASSUME NEW s \in Session PROVE /\ BucketOf(s, "session") = [scope |-> "session", of |-> s]
                                     /\ BucketOf(s, "network") = [scope |-> "network", of |-> NetworkOf[s]]
                                     /\ BucketOf(s, "global") = [scope |-> "global", of |-> Everyone]
  BY DEF BucketOf
<1>3. Identity["session"] = Session /\ Identity["network"] = Network /\ Identity["global"] = {Everyone}
  BY DEF Identity
<1>4. ASSUME NEW s \in Session, NEW c \in Scope PROVE BucketOf(s, c) \in Bucket /\ BucketOf(s, c).scope = c
  <2>1. CASE c = "session"
    BY <1>1, <1>2, <1>3, <2>1
  <2>2. CASE c = "network"
    <3>1. NetworkOf[s] \in Network
      BY LimiterAssumption
    <3> QED
      BY <1>1, <1>2, <1>3, <2>2, <3>1
  <2>3. CASE c = "global"
    BY <1>1, <1>2, <1>3, <2>3
  <2> QED
    BY <2>1, <2>2, <2>3 DEF Scope
<1>5. \A b \in Bucket : b.scope \in Scope
  BY DEF Bucket
<1> QED
  BY <1>2, <1>4, <1>5

\* What a bucket counted, field by field.
LEMMA EntryFields ==
  ASSUME TypeOK, NEW b \in Bucket, NEW e \in spent[b]
  PROVE  /\ e.session \in Session /\ e.at \in Nat /\ e.row \in Row /\ e.start \in Row
         /\ e.row.count \in Nat /\ e.row.count > 0 /\ e.row.resetAt \in Nat
<1>1. e \in Entry
  BY DEF TypeOK
<1> QED
  BY <1>1, LimiterBounds DEF Entry, Row, Time

\* No more of a window's starts than its limit.
LEMMA FromWindows ==
  ASSUME TypeOK, NEW b \in Bucket, WindowsFit(b), NEW A, A \subseteq spent[b], NEW v, NEW w,
         \A e \in A : e.row.resetAt \in {v, w},
         v # w => \A e \in A : e.row.resetAt = v => e.row.count # 1
  PROVE  IsFiniteSet(A) /\ Cardinality(A) < 2 * Limit[b.scope]
<1> DEFINE L == Limit[b.scope]
           place(e) == IF e.row.resetAt = w THEN e.row.count ELSE L + e.row.count - 1
           F == [e \in A |-> place(e)]
<1>1. L \in Nat /\ L > 0
  BY LimiterBounds, BucketsOf
<1>2. ASSUME NEW e \in A PROVE e.row \in Row /\ e.row.count \in 1 .. L
  BY <1>1, EntryFields DEF WindowsFit
<1> HIDE DEF L
<1>3. ASSUME NEW e \in A PROVE place(e) \in 1 .. 2 * L - 1
  <2>1. e.row.resetAt = v => v = w \/ e.row.count # 1
    OBVIOUS
  <2> QED
    BY <1>1, <1>2, <2>1
<1>4. ASSUME NEW e \in A, NEW f \in A, place(e) = place(f) PROVE e = f
  <2>1. e.row.resetAt = f.row.resetAt /\ e.row.count = f.row.count
    <3>1. e.row.resetAt = v => v = w \/ e.row.count # 1
      OBVIOUS
    <3>2. f.row.resetAt = v => v = w \/ f.row.count # 1
      OBVIOUS
    <3>3. e.row.resetAt \in {v, w} /\ f.row.resetAt \in {v, w}
      OBVIOUS
    <3> QED
      BY <1>1, <1>2, <1>4, <3>1, <3>2, <3>3
  <2>2. e.row = f.row
    BY <1>2, <2>1 DEF Row
  <2> QED
    BY <2>2 DEF WindowsFit
<1>5. F \in Injection(A, 1 .. 2 * L - 1)
  BY <1>3, <1>4 DEF Injection, IsInjective
<1>6. IsFiniteSet(1 .. 2 * L - 1) /\ Cardinality(1 .. 2 * L - 1) = 2 * L - 1
  <2>1. 1 \in Int /\ 2 * L - 1 \in Int /\ ~(1 > 2 * L - 1) /\ 2 * L - 1 - 1 + 1 = 2 * L - 1
    BY <1>1
  <2> QED
    BY <2>1, FS_Interval
<1>7. IsFiniteSet(A) /\ Cardinality(A) <= Cardinality(1 .. 2 * L - 1)
  BY <1>5, <1>6, FS_Injection
<1>8. Cardinality(A) \in Nat
  BY <1>7, FS_CardinalityType
<1> QED
  BY <1>1, <1>6, <1>7, <1>8 DEF L

\* Three windows are not within the shortest time that one may last.
LEMMA NotThree ==
  ASSUME LimiterInv, NEW b \in Bucket, NEW t \in Nat,
         NEW e \in Span(b, t, Window - Patience), NEW f \in Span(b, t, Window - Patience), NEW g \in Span(b, t, Window - Patience),
         e.row.resetAt < f.row.resetAt, f.row.resetAt < g.row.resetAt
  PROVE  FALSE
<1>1. /\ WindowsFit(b) /\ e \in spent[b] /\ f \in spent[b] /\ g \in spent[b]
      /\ g.at <= t /\ t < e.at + (Window - Patience) /\ TypeOK
  BY DEF LimiterInv, Span
<1>2. f.row.count \in Nat /\ f.row.count > 0 /\ 1 \in 1 .. f.row.count
  BY <1>1, EntryFields
<1>3. PICK h \in spent[b] : h.row = [count |-> 1, resetAt |-> f.row.resetAt]
  BY <1>1, <1>2 DEF WindowsFit
<1>4. e.row.resetAt < h.row.resetAt /\ h.row.resetAt = f.row.resetAt /\ h.row.count = 1
  BY <1>3
<1>5. e.at <= h.at /\ h.at + Window <= f.row.resetAt + Patience /\ f.row.resetAt <= g.at
  BY <1>1, <1>3, <1>4 DEF WindowsFit
<1>6. e.at \in Nat /\ h.at \in Nat /\ g.at \in Nat /\ f.row.resetAt \in Nat
  BY <1>1, <1>3, EntryFields
<1> QED
  BY <1>1, <1>5, <1>6, LimiterBounds

\* In less than a window, a bucket counts less than twice its limit.
LEMMA SpanCounts ==
  ASSUME LimiterInv, NEW b \in Bucket, NEW t \in Nat
  PROVE  /\ IsFiniteSet(Span(b, t, Window - Patience))
         /\ Cardinality(Span(b, t, Window - Patience)) < 2 * Limit[b.scope]
<1> DEFINE A == Span(b, t, Window - Patience)
<1>0. A \subseteq spent[b] /\ WindowsFit(b) /\ TypeOK
  BY DEF Span, LimiterInv
<1>1. \A e \in A : e.row.resetAt \in Nat
  BY <1>0, EntryFields
<1>2. CASE \E e, f \in A : e.row.resetAt < f.row.resetAt
  <2>1. PICK e \in A, f \in A : e.row.resetAt < f.row.resetAt
    BY <1>2
  <2>2. ASSUME NEW g \in A PROVE g.row.resetAt \in {e.row.resetAt, f.row.resetAt}
    <3>1. ~(g.row.resetAt < e.row.resetAt)
      BY <2>1, NotThree
    <3>2. ~(f.row.resetAt < g.row.resetAt)
      BY <2>1, NotThree
    <3>3. ~(e.row.resetAt < g.row.resetAt /\ g.row.resetAt < f.row.resetAt)
      BY <2>1, NotThree
    <3>4. e.row.resetAt \in Nat /\ f.row.resetAt \in Nat /\ g.row.resetAt \in Nat
      BY <1>1
    <3> HIDE DEF A
    <3> QED
      BY <3>1, <3>2, <3>3, <3>4
  <2>3. ASSUME NEW g \in A, g.row.resetAt = e.row.resetAt PROVE g.row.count # 1
    <3>1. e.row.resetAt <= f.at /\ f.at <= t /\ t < g.at + (Window - Patience)
      BY <1>0, <2>1, <2>3 DEF WindowsFit, Span
    <3>2. g.row.count = 1 => g.at + Window <= g.row.resetAt + Patience
      BY <1>0 DEF WindowsFit
    <3>3. g.at \in Nat /\ f.at \in Nat /\ e.row.resetAt \in Nat
      BY <1>0, EntryFields
    <3> QED
      BY <2>3, <3>1, <3>2, <3>3, LimiterBounds
  <2> HIDE DEF A
  <2>4. IsFiniteSet(A) /\ Cardinality(A) < 2 * Limit[b.scope]
    BY <1>0, <2>2, <2>3, FromWindows
  <2> QED
    BY <2>4 DEF A
<1>3. CASE ~\E e, f \in A : e.row.resetAt < f.row.resetAt
  <2>1. ASSUME NEW e \in A PROVE \A g \in A : g.row.resetAt \in {e.row.resetAt, e.row.resetAt}
    BY <1>1, <1>3
  <2>2. CASE \E e \in A : TRUE
    <3>1. PICK e \in A : TRUE
      BY <2>2
    <3>2. \A g \in A : g.row.resetAt \in {e.row.resetAt, e.row.resetAt}
      BY <2>1
    <3> HIDE DEF A
    <3>3. IsFiniteSet(A) /\ Cardinality(A) < 2 * Limit[b.scope]
      BY <1>0, <3>2, FromWindows
    <3> QED
      BY <3>3 DEF A
  <2>3. CASE A = {}
    <3>1. Limit[b.scope] \in Nat /\ Limit[b.scope] > 0
      BY LimiterBounds, BucketsOf
    <3>2. IsFiniteSet(A) /\ Cardinality(A) = 0
      BY <2>3, FS_EmptySet
    <3> QED
      BY <3>1, <3>2
  <2> QED
    BY <2>2, <2>3
<1> QED
  BY <1>2, <1>3

\* What sessions count in a bucket, they counted before in one of an earlier policy.
LEMMA CountedBefore ==
  ASSUME LimiterInv, NEW b \in Bucket, NEW c \in Bucket, NEW S, S \subseteq Session, NEW t \in Nat,
         NEW i \in 1 .. 3, NEW j \in 1 .. 3, j <= i, b.scope = Policies[i],
         \A s \in S : BucketOf(s, Policies[j]) = c
  PROVE  Counted(b, S, t, Window - 2 * Patience) < 2 * Limit[c.scope]
<1> DEFINE A == {e \in spent[b] : e.session \in S /\ e.at <= t /\ t < e.at + (Window - 2 * Patience)}
           T == Span(c, t, Window - Patience)
           before(e, f) == /\ f \in spent[c] /\ f.session = e.session /\ f.start = e.start
                           /\ f.at <= e.at /\ e.at <= f.at + Patience
           F == [e \in A |-> CHOOSE f \in T : before(e, f)]
<1>0. TypeOK /\ StartsFit(b)
  BY DEF LimiterInv
<1>1. ASSUME NEW e \in A PROVE F[e] \in T /\ before(e, F[e])
  <2>1. PICK f \in spent[c] : before(e, f)
    BY <1>0 DEF StartsFit
  <2>2. e.at \in Nat /\ f.at \in Nat
    BY <1>0, EntryFields
  <2>3. e.at <= t /\ t < e.at + (Window - 2 * Patience) /\ f.at <= e.at /\ e.at <= f.at + Patience
    BY <2>1
  <2>4. f.at <= t /\ t < f.at + (Window - Patience)
    BY <2>2, <2>3, LimiterBounds
  <2>5. f \in T /\ before(e, f)
    <3>1. f \in T
      BY <2>4 DEF Span
    <3> QED
      BY <2>1, <3>1
  <2> HIDE DEF A, T, before
  <2>6. F[e] = CHOOSE g \in T : before(e, g)
    OBVIOUS
  <2> HIDE DEF F
  <2> QED
    BY <2>5, <2>6
<1>2. ASSUME NEW e \in A, NEW g \in A, F[e] = F[g] PROVE e = g
  <2>1. before(e, F[e]) /\ before(g, F[e])
    BY <1>1, <1>2
  <2>2. e.session = g.session /\ e.start = g.start /\ e \in spent[b] /\ g \in spent[b]
    BY <2>1
  <2> QED
    BY <1>0, <2>2 DEF StartsFit
<1>3. F \in Injection(A, T)
  <2>1. F \in [A -> T]
    BY <1>1
  <2> HIDE DEF F
  <2> QED
    BY <1>2, <2>1 DEF Injection, IsInjective
<1>4. IsFiniteSet(T)
  BY SpanCounts
<1>5. Cardinality(T) < 2 * Limit[c.scope] /\ Limit[c.scope] \in Nat
  BY SpanCounts, LimiterBounds, BucketsOf
<1> HIDE DEF A, F, T
<1>6. Cardinality(A) <= Cardinality(T) /\ IsFiniteSet(A)
  BY <1>3, <1>4, FS_Injection
<1>7. Cardinality(A) \in Nat /\ Cardinality(T) \in Nat
  BY <1>4, <1>6, FS_CardinalityType
<1>8. Cardinality(A) < 2 * Limit[c.scope]
  BY <1>5, <1>6, <1>7
<1> QED
  BY <1>8 DEF Counted, A

\* The invariant implies that starts are throttled: less than twice a limit in any stretch of
\* a window.
LEMMA LimiterThrottles == LimiterInv => Throttled
<1> SUFFICES ASSUME LimiterInv PROVE Throttled
  OBVIOUS
<1>0. TypeOK /\ clock \in Nat
  BY LimiterBounds DEF LimiterInv, TypeOK, Time
<1>1. ASSUME NEW b \in Bucket PROVE Counted(b, Session, clock, Window - Patience) < 2 * Limit[b.scope]
  <2>1. {e \in spent[b] : e.session \in Session /\ e.at <= clock /\ clock < e.at + (Window - Patience)}
          = Span(b, clock, Window - Patience)
    BY <1>0, EntryFields DEF Span
  <2> QED
    BY <1>0, <2>1, SpanCounts DEF Counted
<1>2. ASSUME NEW s \in Session, NEW b \in Bucket
      PROVE  Counted(b, {s}, clock, Window - 2 * Patience) < 2 * Limit["session"]
  <2> DEFINE c == BucketOf(s, Policies[1])
  <2>1. c \in Bucket /\ c.scope = "session"
    BY ThreePolicies, BucketsOf DEF Scope
  <2>2. PICK i \in 1 .. 3 : b.scope = Policies[i]
    BY ThreePolicies, BucketsOf DEF Scope
  <2>3. {s} \subseteq Session /\ 1 <= i /\ 1 \in 1 .. 3 /\ \A x \in {s} : BucketOf(x, Policies[1]) = c
    OBVIOUS
  <2> HIDE DEF c
  <2> QED
    BY <1>0, <2>1, <2>2, <2>3, CountedBefore
<1>3. ASSUME NEW n \in Network
      PROVE  Counted([scope |-> "global", of |-> Everyone], {s \in Session : NetworkOf[s] = n},
                     clock, Window - 2 * Patience) < 2 * Limit["network"]
  <2> DEFINE b == [scope |-> "global", of |-> Everyone]
             c == [scope |-> "network", of |-> n]
             S == {s \in Session : NetworkOf[s] = n}
  <2>1. b \in Bucket /\ c \in Bucket
    <3>1. Identity["network"] = Network /\ Identity["global"] = {Everyone}
      BY DEF Identity
    <3> QED
      BY <3>1 DEF Bucket, Scope
  <2>2. b.scope = Policies[3] /\ c.scope = "network" /\ 2 \in 1 .. 3 /\ 3 \in 1 .. 3 /\ 2 <= 3 /\ S \subseteq Session
    BY ThreePolicies
  <2>3. \A s \in S : BucketOf(s, Policies[2]) = c
    BY ThreePolicies, BucketsOf
  <2> HIDE DEF b, c, S
  <2>4. Counted(b, S, clock, Window - 2 * Patience) < 2 * Limit["network"]
    BY <1>0, <2>1, <2>2, <2>3, CountedBefore
  <2> QED
    BY <2>4 DEF b, S
<1> QED
  BY <1>1, <1>2, <1>3 DEF Throttled

\* A bucket that refused had counted its limit of starts shortly before.
LEMMA RefusalCounted ==
  ASSUME LimiterInv, NEW q \in Request, Just(q), Target(q) \in Bucket
  PROVE  Counted(Target(q), Session, request[q].at, Window + Patience) >= Limit[Target(q).scope]
<1> DEFINE b == Target(q)
           t == request[q].at
           L == Limit[b.scope]
           A == {e \in spent[b] : e.session \in Session /\ e.at <= t /\ t < e.at + (Window + Patience)}
<1>0. TypeOK /\ b \in Bucket /\ IsFiniteSet(spent[b]) /\ L \in Nat /\ L > 0 /\ t \in Nat
  BY LimiterBounds, BucketsOf DEF LimiterInv, WindowsFit, TypeOK, Time
<1>1. PICK g \in spent[b] : \A i \in 1 .. L :
        \E e \in spent[b] : /\ e.row = [count |-> i, resetAt |-> g.row.resetAt]
                            /\ e.at <= t /\ t < e.at + Window + Patience
  BY DEF Just
<1> HIDE DEF b, t, L
<1> DEFINE F == [i \in 1 .. L |-> CHOOSE e \in A : e.row = [count |-> i, resetAt |-> g.row.resetAt]]
<1>2. ASSUME NEW i \in 1 .. L PROVE F[i] \in A /\ F[i].row = [count |-> i, resetAt |-> g.row.resetAt]
  <2>1. PICK e \in spent[b] : /\ e.row = [count |-> i, resetAt |-> g.row.resetAt]
                              /\ e.at <= t /\ t < e.at + Window + Patience
    BY <1>1
  <2>2. e.session \in Session /\ e.at \in Nat
    BY <1>0, EntryFields
  <2>3. e \in A
    BY <1>0, <2>1, <2>2, LimiterBounds
  <2> HIDE DEF A
  <2> QED
    BY <2>1, <2>3
<1>3. ASSUME NEW i \in 1 .. L, NEW j \in 1 .. L, F[i] = F[j] PROVE i = j
  <2>1. F[i].row.count = i /\ F[j].row.count = j
    BY <1>2
  <2> QED
    BY <1>3, <2>1
<1>4. F \in Injection(1 .. L, A)
  <2>1. F \in [1 .. L -> A]
    BY <1>2
  <2> HIDE DEF F
  <2> QED
    BY <1>3, <2>1 DEF Injection, IsInjective
<1>5. IsFiniteSet(A) /\ Cardinality(A) \in Nat
  <2>1. A \in SUBSET spent[b]
    OBVIOUS
  <2> HIDE DEF A
  <2> QED
    BY <1>0, <2>1, FS_Subset, FS_CardinalityType
<1> HIDE DEF F
<1>6. Cardinality(1 .. L) <= Cardinality(A)
  <2> HIDE DEF A
  <2> QED
    BY <1>4, <1>5, FS_Injection
<1>7. Cardinality(1 .. L) = L
  <2>1. 1 \in Int /\ L \in Int /\ ~(1 > L) /\ L - 1 + 1 = L
    BY <1>0
  <2> QED
    BY <2>1, FS_Interval
<1>8. Cardinality(A) >= L
  <2> HIDE DEF A
  <2> QED
    BY <1>0, <1>5, <1>6, <1>7
<1> QED
  BY <1>8 DEF Counted, b, t, L

\* The invariant implies that a refusal is just.
LEMMA LimiterRefuses == LimiterInv => RefusalIsJust
<1> SUFFICES ASSUME LimiterInv, NEW q \in Request, request[q].pc = "denied"
             PROVE  /\ Counted(Target(q), Session, request[q].at, Window + Patience) >= Limit[Target(q).scope]
                    /\ request[q].resetAt > request[q].now
                    /\ request[q].resetAt <= clock + Window
  BY DEF RefusalIsJust
<1>1. RequestFits(q) /\ TypeOK
  BY DEF LimiterInv
<1>2. Just(q) /\ request[q].now < request[q].resetAt /\ request[q].resetAt <= clock + Window /\ request[q].session \in Session
  BY <1>1 DEF RequestFits
<1>3. request[q].policy \in 1 .. 3 /\ request[q].now \in Nat /\ request[q].resetAt \in Nat
  BY <1>1, ThreePolicies DEF TypeOK, Time
<1>4. Target(q) \in Bucket
  BY <1>2, <1>3, ThreePolicies, BucketsOf DEF Target
<1> QED
  BY <1>2, <1>3, <1>4, RefusalCounted

\* A step of one request that leaves the rows alone.
LEMMA OneRequest ==
  ASSUME LimiterInv, NEW q \in Request, NEW r, request' = [request EXCEPT ![q] = r],
         UNCHANGED <<clock, spent, row>>,
         r \in [pc : Place, session : Session \cup {None}, now : Time, policy : DOMAIN Policies,
                allowed : BOOLEAN, at : Time, resetAt : Nat, start : Row \cup {None}],
         r.start # None => r.start = request[q].start /\ r.session = request[q].session,
         RequestFits(q)'
  PROVE  LimiterInv'
<1>1. TypeOK /\ TypeOK'
  BY DEF LimiterInv, TypeOK
<1>2. request'[q] = r /\ \A p \in Request \ {q} : request'[p] = request[p]
  BY <1>1 DEF TypeOK
<1>3. \A b \in Bucket : WindowsFit(b)' /\ StartsFit(b)'
  BY DEF LimiterInv, WindowsFit, StartsFit
<1>4. ASSUME NEW p \in Request \ {q} PROVE RequestFits(p)'
  <2>1. RequestFits(p) /\ request'[p] = request[p]
    BY <1>2 DEF LimiterInv
  <2>2. /\ Passed(p)' = Passed(p) /\ Target(p)' = Target(p) /\ (p \in UnderWay' <=> p \in UnderWay)
        /\ Just(p)' <=> Just(p)
    BY <2>1 DEF Passed, Target, UnderWay, Just
  <2> QED
    BY <2>1, <2>2 DEF RequestFits, Holds
<1>5. \A p, s \in Request : StartsDiffer(p, s)'
  BY <1>2 DEF LimiterInv, StartsDiffer
<1> QED
  BY <1>1, <1>2, <1>3, <1>4, <1>5 DEF LimiterInv

\* A request that is not under way remembers nothing.
LEMMA IdleFits ==
  /\ Idle \in [pc : Place, session : Session \cup {None}, now : Time, policy : DOMAIN Policies,
               allowed : BOOLEAN, at : Time, resetAt : Nat, start : Row \cup {None}]
  /\ Idle.pc = "idle" /\ Idle.start = None
<1>1. 0 \in Time /\ 1 \in DOMAIN Policies
  BY LimiterBounds, ThreePolicies DEF Time
<1> QED
  BY <1>1 DEF Idle, Place

\* A request is over.
LEMMA LeaveKeeps ==
  ASSUME LimiterInv, NEW q \in Request, ReadNothing(q) \/ StorageThrows(q) \/ Answer(q) PROVE LimiterInv'
<1>1. request' = [request EXCEPT ![q] = Idle] /\ UNCHANGED <<clock, spent, row>>
  BY DEF ReadNothing, StorageThrows, Answer, Leave, Become
<1>2. request'[q] = Idle
  BY <1>1 DEF LimiterInv, TypeOK
<1>3. RequestFits(q)'
  BY <1>2, IdleFits DEF RequestFits, UnderWay
<1> QED
  BY <1>1, <1>3, IdleFits, OneRequest

\* A request arrives with the time that it keeps to the end.
LEMMA ArriveKeeps == ASSUME LimiterInv, NEW q \in Request, NEW s \in Session, Arrive(q, s) PROVE LimiterInv'
<1> DEFINE r == [Idle EXCEPT !.pc = "consume", !.session = s, !.now = clock]
<1>1. request' = [request EXCEPT ![q] = r] /\ UNCHANGED <<clock, spent, row>> /\ TypeOK /\ clock \in Nat
  BY LimiterBounds DEF Arrive, Become, LimiterInv, TypeOK, Time
<1>2. request'[q] = r
  BY <1>1 DEF TypeOK
<1>3. /\ r \in [pc : Place, session : Session \cup {None}, now : Time, policy : DOMAIN Policies,
                allowed : BOOLEAN, at : Time, resetAt : Nat, start : Row \cup {None}]
      /\ r.pc = "consume" /\ r.session = s /\ r.now = clock /\ r.start = None /\ r.policy = 1
  <2>1. Idle.policy = 1 /\ clock \in Time
    BY <1>1 DEF Idle, TypeOK
  <2> QED
    BY <2>1, IdleFits DEF Place
<1> HIDE DEF r
<1>4. RequestFits(q)'
  <2>1. Passed(q)' = {}
    BY <1>2, <1>3 DEF Passed
  <2> QED
    BY <1>1, <1>2, <1>3, <2>1, LimiterBounds DEF RequestFits, UnderWay
<1> QED
  BY <1>1, <1>3, <1>4, OneRequest

\* Time passes, not beyond the patience of a request that is under way.
LEMMA TickKeepsLimiter == ASSUME LimiterInv, Tick PROVE LimiterInv'
<1>1. /\ clock' = clock + 1 /\ UNCHANGED <<row, request, spent>> /\ clock \in Nat /\ clock' \in Time /\ TypeOK
      /\ \A q \in UnderWay : clock - request[q].now < Patience
  BY LimiterBounds DEF Tick, LimiterInv, TypeOK, Time
<1>2. TypeOK'
  BY <1>1 DEF TypeOK
<1>3. ASSUME NEW b \in Bucket PROVE WindowsFit(b)' /\ StartsFit(b)'
  <2>1. WindowsFit(b) /\ StartsFit(b) /\ \A e \in spent[b] : e.at \in Nat /\ e.row.resetAt \in Nat
    BY <1>1, EntryFields DEF LimiterInv
  <2>2. \A e \in spent[b] : (e.at <= clock => e.at <= clock') /\ (e.row.resetAt <= clock => e.row.resetAt <= clock')
    BY <1>1, <2>1
  <2> QED
    BY <1>1, <2>1, <2>2 DEF WindowsFit, StartsFit
<1>4. ASSUME NEW q \in Request PROVE RequestFits(q)'
  <2>1. /\ RequestFits(q) /\ request[q].now \in Nat /\ request[q].at \in Nat /\ request[q].resetAt \in Nat
        /\ request[q].session \in Session \cup {None}
    BY <1>1, LimiterBounds DEF LimiterInv, TypeOK, Time
  <2>2. /\ Passed(q)' = Passed(q) /\ Target(q)' = Target(q) /\ (q \in UnderWay' <=> q \in UnderWay)
        /\ Just(q)' <=> Just(q)
        /\ \A s, x, j, t : Holds(s, x, j, t)' <=> Holds(s, x, j, t)
    BY <1>1 DEF Passed, Target, UnderWay, Just, Holds
  <2>3. /\ request[q].now <= clock => request[q].now <= clock'
        /\ request[q].at <= clock => request[q].at <= clock'
        /\ request[q].resetAt <= clock + Window => request[q].resetAt <= clock' + Window
        /\ q \in UnderWay => clock' <= request[q].now + Patience
    BY <1>1, <2>1, LimiterBounds
  <2> QED
    BY <1>1, <2>1, <2>2, <2>3 DEF RequestFits
<1>5. \A p, q \in Request : StartsDiffer(p, q)'
  BY <1>1 DEF LimiterInv, StartsDiffer
<1> QED
  BY <1>1, <1>2, <1>3, <1>4, <1>5 DEF LimiterInv

\* What a request remembers, and the bucket that it is at.
LEMMA RequestTyped ==
  ASSUME TypeOK, NEW q \in Request
  PROVE  /\ request[q].policy \in 1 .. 3 /\ request[q].now \in Nat /\ request[q].at \in Nat /\ request[q].resetAt \in Nat
         /\ request[q].session \in Session =>
              /\ Target(q) \in Bucket /\ Target(q).scope = Policies[request[q].policy]
              /\ Target(q) = BucketOf(request[q].session, Policies[request[q].policy])
<1>1. /\ request[q].policy \in 1 .. 3 /\ request[q].now \in Nat /\ request[q].at \in Nat /\ request[q].resetAt \in Nat
  BY ThreePolicies, LimiterBounds DEF TypeOK, Time
<1> QED
  BY <1>1, ThreePolicies, BucketsOf DEF Target

\* The select after the upsert: an answer for this bucket, then the next bucket or the end.
LEMMA ReadBackKeeps == ASSUME LimiterInv, NEW q \in Request, ReadBack(q) PROVE LimiterInv'
<1> DEFINE r == request[q]
           T == [pc : Place, session : Session \cup {None}, now : Time, policy : DOMAIN Policies,
                 allowed : BOOLEAN, at : Time, resetAt : Nat, start : Row \cup {None}]
           Now(x) == request' = [request EXCEPT ![q] = x]
<1>1. /\ r.pc = "read" /\ row[Target(q)] # None /\ UNCHANGED <<clock, row, spent>>
      /\ IF ~r.allowed THEN Now([r EXCEPT !.pc = "denied", !.resetAt = row[Target(q)].resetAt, !.start = None])
         ELSE IF r.policy < Len(Policies) THEN Now([r EXCEPT !.pc = "consume", !.policy = @ + 1])
         ELSE Now([Idle EXCEPT !.pc = "admitted", !.session = r.session, !.now = r.now])
  BY DEF ReadBack, Become, Rows
<1>2. /\ r \in T /\ RequestFits(q) /\ TypeOK /\ r.policy \in 1 .. 3 /\ r.now \in Nat /\ clock \in Nat
      /\ r.session \in Session /\ q \in UnderWay
  BY <1>1, RequestTyped, LimiterBounds DEF LimiterInv, TypeOK, RequestFits, UnderWay, Time
<1>3. /\ Target(q) \in Bucket /\ row[Target(q)] \in Row /\ row[Target(q)].resetAt \in Nat
      /\ row[Target(q)].resetAt <= clock + Window
  <2>1. Target(q) \in Bucket
    BY <1>2, RequestTyped
  <2>2. PICK e \in spent[Target(q)] : e.row = row[Target(q)]
    BY <1>1, <2>1 DEF LimiterInv, WindowsFit
  <2>3. e.row.resetAt <= e.at + Window /\ e.at <= clock /\ e.at \in Nat /\ e.row \in Row /\ e.row.resetAt \in Nat
    BY <1>2, <2>1, <2>2, EntryFields DEF LimiterInv, WindowsFit
  <2> QED
    BY <1>2, <2>1, <2>2, <2>3, LimiterBounds
<1>4. ASSUME NEW x \in T, Now(x) PROVE request'[q] = x
  BY <1>2, <1>4 DEF TypeOK
<1>5. CASE ~r.allowed
  <2> DEFINE x == [r EXCEPT !.pc = "denied", !.resetAt = row[Target(q)].resetAt, !.start = None]
  <2>1. /\ x \in T /\ x.pc = "denied" /\ x.start = None /\ x.resetAt = row[Target(q)].resetAt
        /\ x.session = r.session /\ x.now = r.now /\ x.policy = r.policy /\ x.at = r.at
    BY <1>2, <1>3 DEF Place
  <2>2. Now(x)
    BY <1>1, <1>5
  <2> HIDE DEF x
  <2>3. request'[q] = x
    BY <1>4, <2>1, <2>2
  <2>4. Target(q)' = Target(q) /\ Just(q)'
    <3>1. Target(q)' = Target(q)
      BY <2>1, <2>3 DEF Target
    <3>2. Just(q)
      BY <1>1, <1>2, <1>5 DEF RequestFits
    <3> QED
      BY <1>1, <2>1, <2>3, <3>1, <3>2 DEF Just
  <2>5. RequestFits(q)'
    BY <1>1, <1>2, <1>3, <1>5, <2>1, <2>3, <2>4 DEF RequestFits, UnderWay
  <2> HIDE DEF T
  <2> QED
    BY <1>1, <2>1, <2>2, <2>5, OneRequest DEF T
<1>6. CASE r.allowed /\ r.policy < Len(Policies)
  <2> DEFINE x == [r EXCEPT !.pc = "consume", !.policy = r.policy + 1]
  <2>0. r.policy + 1 \in DOMAIN Policies
    BY <1>2, <1>6, ThreePolicies
  <2>1. /\ x \in T /\ x.pc = "consume" /\ x.start = r.start /\ x.session = r.session /\ x.now = r.now
        /\ x.policy = r.policy + 1
    BY <1>2, <2>0 DEF Place
  <2>2. Now(x)
    BY <1>1, <1>6
  <2> HIDE DEF x
  <2>3. request'[q] = x
    BY <1>4, <2>1, <2>2
  <2>4. Passed(q)' = Passed(q)
    <3>1. x.policy - 1 = r.policy
      BY <1>2, <2>1
    <3> QED
      BY <1>1, <1>6, <2>1, <2>3, <3>1 DEF Passed
  <2>5. RequestFits(q)'
    BY <1>1, <1>2, <1>6, <2>1, <2>3, <2>4, SMTT(30) DEF RequestFits, UnderWay, Holds
  <2> HIDE DEF T
  <2> QED
    BY <1>1, <2>1, <2>2, <2>5, OneRequest DEF T
<1>7. CASE r.allowed /\ ~(r.policy < Len(Policies))
  <2> DEFINE x == [Idle EXCEPT !.pc = "admitted", !.session = r.session, !.now = r.now]
  <2>1. /\ x \in T /\ x.pc = "admitted" /\ x.start = None /\ x.session = r.session /\ x.now = r.now
    BY <1>2, IdleFits DEF Place
  <2>2. Now(x)
    BY <1>1, <1>7
  <2> HIDE DEF x
  <2>3. request'[q] = x
    BY <1>4, <2>1, <2>2
  <2>4. RequestFits(q)'
    BY <1>1, <1>2, <2>1, <2>3 DEF RequestFits, UnderWay
  <2> HIDE DEF T
  <2> QED
    BY <1>1, <2>1, <2>2, <2>4, OneRequest DEF T
<1> QED
  BY <1>5, <1>6, <1>7

\* The clean-up deletes rows whose window is over.
LEMMA PruneKeeps == ASSUME LimiterInv, NEW q \in Request, Prune(q) PROVE LimiterInv'
<1>1. PICK S \in Prunable(request[q].now) : row' = Without(S)
  BY DEF Prune
<1>2. request[q].pc = "admitted" /\ request' = [request EXCEPT ![q] = Idle] /\ UNCHANGED <<clock, spent>>
  BY DEF Prune, Leave, Become
<1>3. /\ TypeOK /\ request[q].now \in Nat /\ request[q].now <= clock /\ clock \in Nat
      /\ request'[q] = Idle /\ \A p \in Request \ {q} : request'[p] = request[p]
  BY <1>2, RequestTyped, LimiterBounds DEF LimiterInv, TypeOK, RequestFits, Time
<1>4. \A b \in S : b \in Bucket /\ row[b] # None /\ row[b].resetAt <= request[q].now
  BY DEF Prunable, Rows, Over
<1>5. /\ \A b \in Bucket : row'[b] = None \/ row'[b] = row[b]
      /\ \A b \in Bucket \ S : row'[b] = row[b]
      /\ row' \in [Bucket -> Row \cup {None}]
  BY <1>1, <1>3 DEF Without, TypeOK
<1>6. TypeOK'
  BY <1>2, <1>3, <1>5, IdleFits DEF TypeOK
<1>7. ASSUME NEW b \in Bucket PROVE WindowsFit(b)' /\ StartsFit(b)'
  <2>1. WindowsFit(b) /\ StartsFit(b)
    BY DEF LimiterInv
  <2>2. StartsFit(b)'
    BY <1>2, <2>1 DEF StartsFit
  <2>3. CASE b \in S
    <3>1. \A e \in spent[b] : e.row.resetAt <= clock
      <4>1. row[b].resetAt \in Nat /\ row[b].resetAt <= clock
        BY <1>3, <1>4, <2>3 DEF TypeOK, Row
      <4>2. \A e \in spent[b] : e.row.resetAt \in Nat /\ e.row.resetAt <= row[b].resetAt
        BY <1>3, <1>4, <2>1, <2>3, EntryFields DEF WindowsFit
      <4> QED
        BY <1>3, <4>1, <4>2
    <3>2. row'[b] = None
      BY <1>1, <2>3 DEF Without
    <3> QED
      BY <1>2, <2>1, <2>2, <3>1, <3>2 DEF WindowsFit
  <2>4. CASE b \notin S
    BY <1>2, <1>5, <2>1, <2>2, <2>4 DEF WindowsFit
  <2> QED
    BY <2>3, <2>4
<1>8. ASSUME NEW p \in Request PROVE RequestFits(p)'
  <2>1. CASE p = q
    BY <1>3, <2>1, IdleFits DEF RequestFits, UnderWay
  <2>2. CASE p # q
    <3>1. RequestFits(p) /\ request'[p] = request[p]
      BY <1>3, <2>2 DEF LimiterInv
    <3>2. /\ Passed(p)' = Passed(p) /\ Target(p)' = Target(p) /\ (p \in UnderWay' <=> p \in UnderWay)
          /\ Just(p)' <=> Just(p)
          /\ \A s, x, j, t : Holds(s, x, j, t)' <=> Holds(s, x, j, t)
      BY <1>2, <3>1 DEF Passed, Target, UnderWay, Just, Holds
    <3>3. request[p].pc = "read" => row'[Target(p)] \in {None, row[Target(p)]}
      BY <1>3, <1>5, <3>1, RequestTyped DEF RequestFits
    <3> QED
      BY <1>2, <3>1, <3>2, <3>3 DEF RequestFits
  <2> QED
    BY <2>1, <2>2
<1>9. \A p, s \in Request : StartsDiffer(p, s)'
  BY <1>3, IdleFits DEF LimiterInv, StartsDiffer
<1> QED
  BY <1>6, <1>7, <1>8, <1>9 DEF LimiterInv

\* A bucket counts a start: it opens a window, or adds to the open one.
Counts(b, e, now) ==
  /\ spent'[b] = spent[b] \cup {e} /\ row'[b] = e.row /\ e.at = clock /\ clock' = clock
  /\ \/ Fresh(b, now) /\ e.row = [count |-> 1, resetAt |-> now + Window]
     \/ ~Fresh(b, now) /\ Roomy(b) /\ e.row = [count |-> row[b].count + 1, resetAt |-> row[b].resetAt]

\* A row that is absent or over starts a window anew: nothing counted before reaches into it.
LEMMA WindowOpens ==
  ASSUME LimiterInv, NEW b \in Bucket, NEW e0, NEW now \in Nat, now <= clock, clock <= now + Patience, clock \in Nat,
         Counts(b, e0, now), Fresh(b, now)
  PROVE  WindowsFit(b)' /\ \A e \in spent[b] : e.row # e0.row
<1>0. WindowsFit(b) /\ TypeOK
  BY DEF LimiterInv
<1>1. /\ spent'[b] = spent[b] \cup {e0} /\ row'[b] = e0.row /\ e0.at = clock /\ clock' = clock
      /\ e0.row = [count |-> 1, resetAt |-> now + Window]
      /\ e0.row.count = 1 /\ e0.row.resetAt = now + Window /\ e0.row \in Row /\ e0.row # None
  BY LimiterAssumption, LimiterBounds DEF Counts, Row
<1>2. ASSUME NEW e \in spent[b]
      PROVE  e.row.resetAt \in Nat /\ e.row.resetAt <= clock /\ e.row.resetAt < e0.row.resetAt /\ e.at <= clock
  <2>1. e.row.resetAt \in Nat /\ e.at \in Nat
    BY <1>0, EntryFields
  <2>2. e.row.resetAt <= clock
    <3>1. CASE row[b] = None
      BY <1>0, <3>1 DEF WindowsFit
    <3>2. CASE row[b] # None
      <4>1. row[b].resetAt <= now /\ row[b].resetAt \in Nat /\ e.row.resetAt <= row[b].resetAt
        BY <1>0, <3>2 DEF Fresh, Rows, Over, WindowsFit, TypeOK, Row
      <4> QED
        BY <2>1, <4>1
    <3> QED
      BY <3>1, <3>2
  <2> QED
    BY <1>0, <1>1, <2>1, <2>2, LimiterBounds DEF WindowsFit
<1>3. Limit[b.scope] \in Nat /\ Limit[b.scope] > 0
  BY LimiterBounds, BucketsOf
<1>4. IsFiniteSet(spent'[b])
  BY <1>0, <1>1, FS_AddElement DEF WindowsFit
<1>5. ASSUME NEW e \in spent'[b]
      PROVE  /\ e.at <= clock' /\ e.row.count <= Limit[b.scope]
             /\ e.row.resetAt <= e.at + Window /\ e.at < e.row.resetAt + Patience + 1
             /\ e.row.count = 1 => e.at + Window <= e.row.resetAt + Patience
             /\ \A i \in 1 .. e.row.count : \E f \in spent'[b] : f.row = [count |-> i, resetAt |-> e.row.resetAt]
  <2>1. CASE e \in spent[b]
    BY <1>0, <1>1, <2>1 DEF WindowsFit
  <2>2. CASE e = e0
    <3>1. \A i \in 1 .. e0.row.count : e0.row = [count |-> i, resetAt |-> e0.row.resetAt]
      BY <1>1
    <3>2. clock <= clock /\ 1 <= Limit[b.scope] /\ now + Window <= clock + Window /\ clock < now + Window + Patience + 1
          /\ clock + Window <= now + Window + Patience
      BY <1>3, LimiterBounds
    <3> QED
      BY <1>1, <2>2, <3>1, <3>2
  <2> QED
    BY <1>1, <2>1, <2>2
<1>6. ASSUME NEW e \in spent'[b], NEW f \in spent'[b]
      PROVE  /\ e.row = f.row => e = f
             /\ e.row.resetAt < f.row.resetAt => e.row.resetAt <= f.at /\ e.at <= f.at
  <2>1. CASE e \in spent[b] /\ f \in spent[b]
    BY <1>0, <2>1 DEF WindowsFit
  <2>2. CASE e \in spent[b] /\ f = e0
    BY <1>1, <1>2, <2>2
  <2>3. CASE e = e0 /\ f \in spent[b]
    <3>1. f.row.resetAt \in Nat /\ f.row.resetAt < e0.row.resetAt /\ e0.row.resetAt \in Nat
      BY <1>1, <1>2, <2>3, LimiterBounds
    <3> QED
      BY <2>3, <3>1
  <2>4. CASE e = e0 /\ f = e0
    <3>1. e0.row.resetAt \in Nat
      BY <1>1, LimiterBounds
    <3> QED
      BY <2>4, <3>1
  <2> QED
    BY <1>1, <2>1, <2>2, <2>3, <2>4
<1>7. /\ \E e \in spent'[b] : e.row = row'[b]
      /\ \A e \in spent'[b] : /\ e.row.resetAt <= row'[b].resetAt
                              /\ e.row.resetAt = row'[b].resetAt => e.row.count <= row'[b].count
  <2>1. e0.row.resetAt \in Nat
    BY <1>1, LimiterBounds
  <2>2. \A e \in spent[b] : e.row.resetAt <= e0.row.resetAt /\ e.row.resetAt # e0.row.resetAt
    BY <1>2, <2>1
  <2> QED
    BY <1>1, <2>1, <2>2
<1>8. \A e \in spent[b] : e.row # e0.row
  BY <1>1, <1>2, LimiterBounds
<1> QED
  BY <1>1, <1>4, <1>5, <1>6, <1>7, <1>8 DEF WindowsFit

\* A row with room is counted up: the window takes one start more.
LEMMA WindowFills ==
  ASSUME LimiterInv, NEW b \in Bucket, NEW e0, NEW now \in Nat, now <= clock, clock <= now + Patience, clock \in Nat,
         Counts(b, e0, now), ~Fresh(b, now)
  PROVE  WindowsFit(b)' /\ \A e \in spent[b] : e.row # e0.row
<1> DEFINE w == row[b].resetAt
           n == row[b].count
<1>0. WindowsFit(b) /\ TypeOK /\ row[b] # None /\ row[b] \in Row /\ w \in Nat /\ n \in Nat /\ n > 0 /\ now < w
  <2>1. TypeOK /\ row[b] # None /\ row[b] \in Row
    BY DEF LimiterInv, TypeOK, Fresh, Rows
  <2>2. w \in Nat /\ n \in Nat /\ n > 0
    BY <2>1 DEF Row
  <2> QED
    BY <2>1, <2>2 DEF LimiterInv, Fresh, Over
<1>1. /\ spent'[b] = spent[b] \cup {e0} /\ row'[b] = e0.row /\ e0.at = clock /\ clock' = clock
      /\ e0.row = [count |-> n + 1, resetAt |-> w] /\ n < Limit[b.scope]
      /\ e0.row.count = n + 1 /\ e0.row.resetAt = w /\ e0.row \in Row /\ e0.row # None
  BY <1>0, LimiterAssumption DEF Counts, Row, Roomy
<1>2. PICK g \in spent[b] : g.row = row[b]
  BY <1>0 DEF WindowsFit
<1> DEFINE L == Limit[b.scope]
<1>3. /\ L \in Nat /\ g.at \in Nat /\ g.at <= clock /\ w <= g.at + Window
      /\ \A i \in 1 .. n : \E f \in spent[b] : f.row = [count |-> i, resetAt |-> w]
  BY <1>0, <1>2, EntryFields, LimiterBounds, BucketsOf DEF WindowsFit
<1>4. ASSUME NEW e \in spent[b]
      PROVE  /\ e.row.resetAt \in Nat /\ e.row.resetAt <= w /\ e.row.count \in Nat /\ e.at \in Nat /\ e.at <= clock
             /\ e.row.resetAt = w => e.row.count <= n
             /\ e.row.resetAt < w => e.row.resetAt <= clock
  <2>1. e.row.resetAt \in Nat /\ e.row.count \in Nat /\ e.at \in Nat
    BY <1>0, EntryFields
  <2>2. e.row.resetAt < w => e.row.resetAt <= g.at
    BY <1>0, <1>2 DEF WindowsFit
  <2> QED
    BY <1>0, <1>3, <2>1, <2>2 DEF WindowsFit
<1> HIDE DEF w, n, L
<1>5. IsFiniteSet(spent'[b])
  BY <1>0, <1>1, FS_AddElement, SMTT(30) DEF WindowsFit
<1>6. ASSUME NEW e \in spent'[b]
      PROVE  /\ e.at <= clock' /\ e.row.count <= L
             /\ e.row.resetAt <= e.at + Window /\ e.at < e.row.resetAt + Patience + 1
             /\ e.row.count = 1 => e.at + Window <= e.row.resetAt + Patience
             /\ \A i \in 1 .. e.row.count : \E f \in spent'[b] : f.row = [count |-> i, resetAt |-> e.row.resetAt]
  <2>1. CASE e \in spent[b]
    BY <1>0, <1>1, <2>1 DEF WindowsFit, L
  <2>2. CASE e = e0
    <3>1. ASSUME NEW i \in 1 .. n + 1 PROVE \E f \in spent'[b] : f.row = [count |-> i, resetAt |-> w]
      <4>1. i \in 1 .. n \/ i = n + 1
        BY <1>0
      <4> QED
        BY <1>1, <1>3, <4>1
    <3>2. clock <= clock /\ n + 1 <= L /\ w <= clock + Window /\ clock < w + Patience + 1 /\ n + 1 # 1
      BY <1>0, <1>1, <1>3, LimiterBounds DEF L
    <3> QED
      BY <1>1, <2>2, <3>1, <3>2
  <2> QED
    BY <1>1, <2>1, <2>2
<1>7. ASSUME NEW e \in spent[b] PROVE e.row # e0.row
  <2>1. e.row.resetAt = w => e.row.count # n + 1
    BY <1>0, <1>4
  <2> QED
    BY <1>1, <2>1
<1>8. ASSUME NEW e \in spent'[b], NEW f \in spent'[b]
      PROVE  /\ e.row = f.row => e = f
             /\ e.row.resetAt < f.row.resetAt => e.row.resetAt <= f.at /\ e.at <= f.at
  <2>1. CASE e \in spent[b] /\ f \in spent[b]
    BY <1>0, <2>1 DEF WindowsFit
  <2>2. CASE e \in spent[b] /\ f = e0
    BY <1>1, <1>4, <1>7, <2>2
  <2>3. CASE e = e0 /\ f \in spent[b]
    <3>1. ~(w < f.row.resetAt)
      BY <1>0, <1>4, <2>3
    <3> QED
      BY <1>1, <1>7, <2>3, <3>1
  <2>4. CASE e = e0 /\ f = e0
    BY <1>0, <1>1, <2>4
  <2> QED
    BY <1>1, <2>1, <2>2, <2>3, <2>4
<1>9. /\ \E e \in spent'[b] : e.row = row'[b]
      /\ \A e \in spent'[b] : /\ e.row.resetAt <= row'[b].resetAt
                              /\ e.row.resetAt = row'[b].resetAt => e.row.count <= row'[b].count
  <2>1. \A e \in spent[b] : e.row.resetAt = w => e.row.count <= n + 1
    BY <1>0, <1>4
  <2> QED
    BY <1>0, <1>1, <1>4, <2>1
<1> QED
  BY <1>1, <1>5, <1>6, <1>7, <1>8, <1>9 DEF WindowsFit, L

\* What a request that consumes has in hand.
LEMMA Consuming ==
  ASSUME LimiterInv, NEW q \in Request, request[q].pc = "consume"
  PROVE  /\ TypeOK /\ request[q].policy \in 1 .. 3 /\ request[q].session \in Session
         /\ request[q].now \in Nat /\ request[q].now <= clock /\ clock <= request[q].now + Patience /\ clock \in Nat
         /\ Target(q) \in Bucket /\ Target(q).scope = Policies[request[q].policy]
         /\ Target(q) = BucketOf(request[q].session, Policies[request[q].policy])
         /\ Passed(q) = 1 .. request[q].policy - 1
         /\ request[q].start = None <=> request[q].policy = 1
<1>1. RequestFits(q) /\ TypeOK /\ q \in UnderWay /\ clock \in Nat
  BY LimiterBounds DEF LimiterInv, UnderWay, TypeOK, Time
<1>2. request[q].session \in Session /\ request[q].now <= clock /\ clock <= request[q].now + Patience
  BY <1>1 DEF RequestFits
<1>3. Passed(q) = 1 .. request[q].policy - 1
  BY DEF Passed
<1>4. request[q].start = None <=> request[q].policy = 1
  <2>1. Passed(q) = {} <=> request[q].policy = 1
    BY <1>1, <1>3, RequestTyped
  <2> QED
    BY <1>1, <2>1 DEF RequestFits
<1> QED
  BY <1>1, <1>2, <1>3, <1>4, RequestTyped

\* A row that is full leaves everything as it is, and the refusal is just from then on.
LEMMA RefusedKeeps ==
  ASSUME LimiterInv, NEW q \in Request, Consume(q), ~Fresh(Target(q), request[q].now), ~Roomy(Target(q)) PROVE LimiterInv'
<1> DEFINE b == Target(q)
           r == request[q]
           x == [r EXCEPT !.pc = "read", !.allowed = FALSE, !.at = clock]
           L == Limit[b.scope]
<1>1. /\ r.pc = "consume" /\ UNCHANGED <<clock, spent>>
      /\ row' = [row EXCEPT ![b] = row[b]] /\ request' = [request EXCEPT ![q] = x]
  BY DEF Consume, Upserted, Become
<1>2. TypeOK /\ b \in Bucket /\ WindowsFit(b) /\ RequestFits(q) /\ row' = row
  BY <1>1, Consuming DEF LimiterInv, TypeOK
<1>3. /\ x.pc = "read" /\ x.allowed = FALSE /\ x.at = clock /\ x.start = r.start /\ x.session = r.session
      /\ x.now = r.now /\ x.policy = r.policy
      /\ x \in [pc : Place, session : Session \cup {None}, now : Time, policy : DOMAIN Policies,
                allowed : BOOLEAN, at : Time, resetAt : Nat, start : Row \cup {None}]
  BY <1>2 DEF TypeOK, Place
<1> HIDE DEF x
<1>4. request'[q] = x
  BY <1>1, <1>2 DEF TypeOK
<1>5. Target(q)' = b /\ Passed(q)' = Passed(q)
  BY <1>1, <1>3, <1>4 DEF Target, Passed
<1>6. /\ row[b] # None /\ row[b] \in Row /\ ~(row[b].resetAt <= r.now) /\ ~(row[b].count < L)
  BY <1>2 DEF Fresh, Rows, Over, Roomy, TypeOK
<1>7. row[b].resetAt \in Nat /\ row[b].count \in Nat /\ L \in Nat
  BY <1>2, <1>6, LimiterBounds, BucketsOf DEF Row
<1>8. PICK g \in spent[b] : g.row = row[b]
  BY <1>2, <1>6 DEF WindowsFit
<1>9. g.row.count = L
  <2>1. g.row.count <= L
    BY <1>2, <1>8 DEF WindowsFit
  <2> QED
    BY <1>6, <1>7, <1>8, <2>1
<1>10. ASSUME NEW i \in 1 .. L
       PROVE  \E e \in spent[b] : /\ e.row = [count |-> i, resetAt |-> g.row.resetAt]
                                  /\ e.at <= clock /\ clock < e.at + Window + Patience
  <2>1. PICK e \in spent[b] : e.row = [count |-> i, resetAt |-> g.row.resetAt]
    BY <1>2, <1>8, <1>9 DEF WindowsFit
  <2>2. e.at <= clock /\ e.row.resetAt <= e.at + Window /\ e.at \in Nat /\ e.row.resetAt = row[b].resetAt
    BY <1>2, <1>8, <2>1, EntryFields DEF WindowsFit
  <2>3. clock < e.at + Window + Patience
    BY <1>1, <1>6, <1>7, <2>2, Consuming, LimiterBounds, SMTT(30)
  <2> QED
    BY <2>1, <2>2, <2>3
<1>11. Just(q)'
  <2>1. spent' = spent
    BY <1>1
  <2> QED
    BY <1>3, <1>4, <1>5, <1>8, <1>10, <2>1 DEF Just
<1>12. /\ r.now < row[b].resetAt /\ clock <= clock /\ r.session \in Session /\ r.now <= clock
       /\ clock <= r.now + Patience /\ Passed(q) = 1 .. r.policy - 1
  BY <1>1, <1>6, <1>7, Consuming
<1>13. r.start = None <=> Passed(q) = {}
  BY <1>1, <1>2 DEF RequestFits
<1>14. r.start # None =>
         \A j \in 1 .. 3 : IF j \in Passed(q) THEN Holds(r.session, r.start, j, r.now) ELSE ~Holds(r.session, r.start, j, 0)
  BY <1>2 DEF RequestFits
<1>15. \A s, y, j, t : Holds(s, y, j, t)' <=> Holds(s, y, j, t)
  BY <1>1 DEF Holds
<1> HIDE DEF b, L, r
<1>16. RequestFits(q)'
  BY <1>1, <1>2, <1>3, <1>4, <1>5, <1>11, <1>12, <1>13, <1>14, <1>15 DEF RequestFits, UnderWay
<1> QED
  BY <1>1, <1>2, <1>3, <1>16, OneRequest DEF r

\* Start x of session s is not known to any bucket or request.
New(s, x) ==
  /\ \A b \in Bucket : \A e \in spent[b] : ~(e.session = s /\ e.start = x)
  /\ \A p \in Request : ~(request[p].start = x /\ request[p].session = s)

\* What the first bucket has not seen, nobody has.
LEMMA FirstIsNew ==
  ASSUME LimiterInv, NEW s \in Session, NEW x \in Row, \A e \in spent[BucketOf(s, "session")] : e.row # x
  PROVE  New(s, x)
<1> DEFINE c == BucketOf(s, Policies[1])
<1>1. c = BucketOf(s, "session") /\ c \in Bucket /\ c.scope = "session" /\ 1 \in 1 .. 3
  BY ThreePolicies, BucketsOf DEF Scope
<1>2. \A f \in spent[c] : f.start = f.row
  BY <1>1 DEF LimiterInv, StartsFit
<1>3. ASSUME NEW b \in Bucket, NEW e \in spent[b], e.session = s, e.start = x PROVE FALSE
  <2>1. PICK i \in 1 .. 3 : b.scope = Policies[i]
    BY ThreePolicies, BucketsOf DEF Scope
  <2>2. 1 <= i
    OBVIOUS
  <2>3. \E f \in spent[c] : f.session = e.session /\ f.start = e.start
    BY <1>1, <1>3, <2>1, <2>2 DEF LimiterInv, StartsFit
  <2> QED
    BY <1>1, <1>2, <1>3, <2>3
<1>4. ASSUME NEW p \in Request, request[p].start = x, request[p].session = s PROVE FALSE
  <2>1. RequestFits(p) /\ request[p].start # None /\ request[p].policy \in 1 .. 3
    BY <1>4, LimiterAssumption, RequestTyped DEF LimiterInv
  <2>2. request[p].pc \in {"consume", "read"}
    <3>1. request[p].pc \in Place
      BY DEF LimiterInv, TypeOK
    <3> QED
      BY <2>1, <3>1 DEF RequestFits, Place
  <2>3. Passed(p) # {}
    BY <2>1, <2>2 DEF RequestFits
  <2>4. 1 \in Passed(p)
    BY <2>1, <2>3 DEF Passed
  <2>5. Holds(s, x, 1, request[p].now)
    BY <1>1, <1>4, <2>1, <2>4 DEF RequestFits
  <2>6. PICK f \in spent[c] : f.start = x
    BY <2>5 DEF Holds
  <2> QED
    BY <1>1, <1>2, <2>6
<1> QED
  BY <1>3, <1>4 DEF New

\* A start that is counted: in a row of its own, in the buckets before it, in none after it.
LEMMA CountedKeeps ==
  ASSUME LimiterInv, NEW q \in Request, Consume(q), Fresh(Target(q), request[q].now) \/ Roomy(Target(q)) PROVE LimiterInv'
<1> DEFINE b == Target(q)
           r == request[q]
           up == Upserted(b, r.now)
           start == IF r.policy = 1 THEN up ELSE r.start
           e0 == [session |-> r.session, start |-> start, at |-> clock, row |-> up]
           x == [r EXCEPT !.pc = "read", !.allowed = TRUE, !.at = clock, !.start = start]
<1>1. /\ r.pc = "consume" /\ clock' = clock /\ row' = [row EXCEPT ![b] = up]
      /\ spent' = [spent EXCEPT ![b] = spent[b] \cup {e0}] /\ request' = [request EXCEPT ![q] = x]
  BY DEF Consume, Become
<1>2. /\ TypeOK /\ r.policy \in 1 .. 3 /\ r.session \in Session
      /\ r.now \in Nat /\ r.now <= clock /\ clock <= r.now + Patience /\ clock \in Nat
      /\ b \in Bucket /\ b.scope = Policies[r.policy] /\ b = BucketOf(r.session, Policies[r.policy])
      /\ Passed(q) = 1 .. r.policy - 1 /\ (r.start = None <=> r.policy = 1) /\ RequestFits(q)
  BY <1>1, Consuming DEF LimiterInv
<1>3. up \in Row
  <2>1. Fresh(b, r.now) => up = [count |-> 1, resetAt |-> r.now + Window]
    BY DEF Upserted, Reopened
  <2>2. CASE Fresh(b, r.now)
    BY <1>2, <2>1, <2>2, LimiterBounds DEF Row
  <2>3. CASE ~Fresh(b, r.now)
    <3>1. row[b] \in Row /\ up = [row[b] EXCEPT !.count = row[b].count + 1]
      BY <1>2, <2>3 DEF Upserted, TypeOK, Fresh, Rows
    <3> QED
      BY <3>1 DEF Row
  <2> QED
    BY <2>2, <2>3
<1>4. start \in Row /\ start # None
  <2>1. r.start \in Row \cup {None}
    BY <1>2 DEF TypeOK
  <2> QED
    BY <1>2, <1>3, <2>1, LimiterAssumption
<1>5. /\ spent'[b] = spent[b] \cup {e0} /\ row'[b] = up
      /\ \A c \in Bucket \ {b} : spent'[c] = spent[c] /\ row'[c] = row[c]
      /\ \A c \in Bucket : spent[c] \subseteq spent'[c]
      /\ request'[q] = x /\ \A p \in Request \ {q} : request'[p] = request[p]
  BY <1>1, <1>2 DEF TypeOK
<1>6. Counts(b, e0, r.now)
  <2>1. CASE Fresh(b, r.now)
    BY <1>1, <1>5, <2>1 DEF Counts, Upserted, Reopened
  <2>2. CASE ~Fresh(b, r.now)
    <3>1. row[b] \in Row /\ Roomy(b)
      BY <1>2, <2>2 DEF TypeOK, Fresh, Rows
    <3>2. up = [count |-> row[b].count + 1, resetAt |-> row[b].resetAt]
      BY <2>2, <3>1 DEF Upserted, Row
    <3> QED
      BY <1>1, <1>5, <2>2, <3>1, <3>2 DEF Counts
  <2> QED
    BY <2>1, <2>2
<1>7. e0 \in Entry /\ e0.session = r.session /\ e0.start = start /\ e0.at = clock /\ e0.row = up
  BY <1>2, <1>3, <1>4 DEF Entry, TypeOK
<1>8. /\ x \in [pc : Place, session : Session \cup {None}, now : Time, policy : DOMAIN Policies,
                allowed : BOOLEAN, at : Time, resetAt : Nat, start : Row \cup {None}]
      /\ x.pc = "read" /\ x.allowed = TRUE /\ x.at = clock /\ x.start = start /\ x.session = r.session
      /\ x.now = r.now /\ x.policy = r.policy
  BY <1>2, <1>4, ZenonT(40) DEF TypeOK, Place
<1> HIDE DEF x, up
<1>21. PICK c \in Bucket : c = b
  BY <1>2
<1>9. PICK e, s : c = b /\ e = e0 /\ s = start
  BY <1>21
<1>10. /\ e \in Entry /\ e.session = r.session /\ e.start = s /\ e.at = clock /\ e.row \in Row /\ s \in Row /\ s # None
       /\ r.policy = 1 => s = e.row
       /\ r.policy # 1 => s = r.start
       /\ x.start = s
  BY <1>3, <1>4, <1>7, <1>8, <1>9
<1>11. /\ spent'[c] = spent[c] \cup {e} /\ row'[c] = e.row /\ Counts(c, e, r.now)
       /\ spent' = [spent EXCEPT ![c] = spent[c] \cup {e}] /\ row' = [row EXCEPT ![c] = e.row]
       /\ c.scope = Policies[r.policy] /\ c = BucketOf(r.session, Policies[r.policy])
       /\ \A d \in Bucket \ {c} : spent'[d] = spent[d] /\ row'[d] = row[d]
       /\ \A d \in Bucket : spent[d] \subseteq spent'[d]
  BY <1>1, <1>2, <1>5, <1>6, <1>7, <1>9
<1> HIDE DEF e0, start, b, r
<1>12. WindowsFit(c)' /\ \A f \in spent[c] : f.row # e.row
  BY <1>2, <1>11, WindowOpens, WindowFills
<1>13. TypeOK'
  <2>1. spent' \in [Bucket -> SUBSET Entry]
    BY <1>2, <1>10, <1>11 DEF TypeOK
  <2>2. row' \in [Bucket -> Row \cup {None}]
    BY <1>2, <1>10, <1>11 DEF TypeOK
  <2>3. request' \in [Request -> [pc : Place, session : Session \cup {None}, now : Time, policy : DOMAIN Policies,
                                  allowed : BOOLEAN, at : Time, resetAt : Nat, start : Row \cup {None}]]
    BY <1>1, <1>2, <1>8 DEF TypeOK
  <2> QED
    BY <1>1, <1>2, <2>1, <2>2, <2>3 DEF TypeOK
\* Nobody else has this start.
<1>14. /\ r.policy = 1 => New(r.session, s)
       /\ \A f \in spent[c] : ~(f.session = r.session /\ f.start = s)
       /\ \A j \in 1 .. 3 : r.policy < j => ~Holds(r.session, s, j, 0)
       /\ \A p \in Request \ {q} : ~(request[p].start = s /\ request[p].session = r.session)
  <2>1. CASE r.policy = 1
    <3>1. New(r.session, s)
      <4>1. c = BucketOf(r.session, "session")
        BY <1>11, <2>1, ThreePolicies
      <4> QED
        BY <1>2, <1>10, <1>12, <2>1, <4>1, FirstIsNew
    <3>2. ASSUME NEW j \in 1 .. 3 PROVE ~Holds(r.session, s, j, 0)
      <4>1. BucketOf(r.session, Policies[j]) \in Bucket
        BY <1>2, ThreePolicies, BucketsOf
      <4> QED
        BY <3>1, <4>1 DEF New, Holds
    <3> QED
      BY <3>1, <3>2 DEF New
  <2>2. CASE r.policy # 1
    <3>1. s = r.start /\ r.start # None
      BY <1>2, <1>10, <2>2
    <3>2. ASSUME NEW j \in 1 .. 3, r.policy <= j PROVE ~Holds(r.session, s, j, 0)
      <4>1. j \notin Passed(q)
        BY <1>2, <3>2
      <4> QED
        BY <1>2, <3>1, <4>1 DEF RequestFits, r
    <3>3. \A f \in spent[c] : ~(f.session = r.session /\ f.start = s)
      <4>1. ~Holds(r.session, s, r.policy, 0)
        BY <1>2, <3>2
      <4>2. \A f \in spent[c] : f.at \in Nat /\ 0 <= f.at
        BY <1>2, EntryFields
      <4> QED
        BY <1>11, <4>1, <4>2 DEF Holds
    <3>4. \A p \in Request \ {q} : ~(request[p].start = s /\ request[p].session = r.session)
      BY <3>1 DEF LimiterInv, StartsDiffer, r
    <3>5. \A j \in 1 .. 3 : r.policy < j => r.policy <= j
      BY <1>2
    <3> QED
      BY <2>2, <3>2, <3>3, <3>4, <3>5
  <2> QED
    BY <2>1, <2>2
<1>15. /\ \A d \in Bucket : \A f \in spent'[d] : f \in spent[d] \/ (d = c /\ f = e)
       /\ \A y \in Session, j \in 1 .. 3 : BucketOf(y, Policies[j]) \in Bucket /\ BucketOf(y, Policies[j]).scope = Policies[j]
  BY <1>11, ThreePolicies, BucketsOf
<1>16. ASSUME NEW d \in Bucket PROVE WindowsFit(d)'
  <2>1. CASE d = c
    BY <1>12, <2>1
  <2>2. CASE d # c
    <3>1. WindowsFit(d) /\ clock' = clock /\ spent'[d] = spent[d] /\ row'[d] = row[d]
      BY <1>1, <1>11, <2>2 DEF LimiterInv
    <3> QED
      BY <3>1 DEF WindowsFit
  <2> QED
    BY <2>1, <2>2
<1>17. ASSUME NEW d \in Bucket PROVE StartsFit(d)'
  <2>0. StartsFit(d)
    BY DEF LimiterInv
  <2>1. ASSUME NEW f \in spent'[d]
        PROVE  d = BucketOf(f.session, d.scope) /\ (d.scope = "session" => f.start = f.row)
    <3>1. CASE f \in spent[d]
      BY <2>0, <3>1 DEF StartsFit
    <3>2. CASE d = c /\ f = e
      <4>1. d.scope = "session" => r.policy = 1
        BY <1>2, <1>11, <3>2, ThreePolicies
      <4> QED
        BY <1>10, <1>11, <3>2, <4>1
    <3> QED
      BY <1>15, <3>1, <3>2
  <2>2. ASSUME NEW f \in spent'[d], NEW i \in 1 .. 3, NEW j \in 1 .. 3, d.scope = Policies[i], j <= i
        PROVE  \E g \in spent'[BucketOf(f.session, Policies[j])] :
                 g.session = f.session /\ g.start = f.start /\ g.at <= f.at /\ f.at <= g.at + Patience
    <3>1. CASE f \in spent[d]
      <4>1. PICK g \in spent[BucketOf(f.session, Policies[j])] :
               g.session = f.session /\ g.start = f.start /\ g.at <= f.at /\ f.at <= g.at + Patience
        BY <2>0, <2>2, <3>1 DEF StartsFit
      <4>2. f.session \in Session
        BY <1>2, <3>1, EntryFields
      <4> QED
        BY <1>11, <1>15, <4>1, <4>2
    <3>2. CASE d = c /\ f = e
      <4>1. i = r.policy
        BY <1>2, <1>11, <2>2, <3>2, ThreePolicies
      <4>2. CASE j = i
        <5>1. e \in spent'[BucketOf(e.session, Policies[j])] /\ e.at <= e.at /\ e.at <= e.at + Patience
          BY <1>2, <1>10, <1>11, <4>1, <4>2, LimiterBounds
        <5> QED
          BY <3>2, <5>1
      <4>3. CASE j # i
        <5>1. j \in Passed(q) /\ r.policy # 1 /\ r.start # None /\ s = r.start
          BY <1>2, <1>10, <2>2, <4>1, <4>3
        <5>2. Holds(r.session, s, j, r.now)
          BY <1>2, <5>1 DEF RequestFits, r
        <5>3. PICK g \in spent[BucketOf(r.session, Policies[j])] : g.session = r.session /\ g.start = s /\ r.now <= g.at
          BY <5>2 DEF Holds
        <5>4. BucketOf(r.session, Policies[j]) \in Bucket
          BY <1>2, <1>15
        <5>5. g.at \in Nat /\ g.at <= clock
          BY <1>2, <5>3, <5>4, EntryFields DEF LimiterInv, WindowsFit
        <5>6. clock <= g.at + Patience
          BY <1>2, <5>3, <5>5, LimiterBounds
        <5> QED
          BY <1>10, <1>11, <3>2, <5>3, <5>4, <5>5, <5>6
      <4> QED
        BY <4>2, <4>3
    <3> QED
      BY <1>15, <3>1, <3>2
  <2>3. ASSUME NEW f \in spent'[d], NEW g \in spent'[d], f.session = g.session, f.start = g.start PROVE f = g
    <3>1. CASE f \in spent[d] /\ g \in spent[d]
      BY <2>0, <2>3, <3>1 DEF StartsFit
    <3>2. CASE d = c /\ f = e /\ g \in spent[c]
      BY <1>10, <1>14, <2>3, <3>2
    <3>3. CASE d = c /\ g = e /\ f \in spent[c]
      BY <1>10, <1>14, <2>3, <3>3
    <3> QED
      BY <1>15, <3>1, <3>2, <3>3
  <2> QED
    BY <2>1, <2>2, <2>3 DEF StartsFit
<1>18. ASSUME NEW p \in Request \ {q} PROVE RequestFits(p)'
  <2>1. RequestFits(p) /\ request'[p] = request[p] /\ request[p].now \in Nat /\ request[p].policy \in 1 .. 3
    BY <1>2, <1>5, RequestTyped DEF LimiterInv
  <2>2. Passed(p)' = Passed(p) /\ Target(p)' = Target(p) /\ (p \in UnderWay' <=> p \in UnderWay)
    BY <2>1 DEF Passed, Target, UnderWay
  <2>3. request[p].pc # "idle" => request[p].session \in Session /\ request[p].now <= clock /\ Target(p) \in Bucket
    BY <1>2, <2>1, RequestTyped DEF RequestFits
  <2>4. ASSUME request[p].start # None, NEW j \in 1 .. 3
        PROVE  IF j \in Passed(p) THEN Holds(request[p].session, request[p].start, j, request[p].now)'
               ELSE ~Holds(request[p].session, request[p].start, j, 0)'
    <3>1. request[p].session \in Session /\ BucketOf(request[p].session, Policies[j]) \in Bucket
      <4>1. request[p].pc # "idle"
        BY <2>1, <2>4 DEF RequestFits
      <4> QED
        BY <1>15, <2>3, <4>1
    <3>2. CASE j \in Passed(p)
      BY <1>11, <2>1, <2>4, <3>1, <3>2 DEF RequestFits, Holds
    <3>3. CASE j \notin Passed(p)
      <4>1. ~Holds(request[p].session, request[p].start, j, 0)
        BY <2>1, <2>4, <3>3 DEF RequestFits
      <4>2. ~(e.session = request[p].session /\ e.start = request[p].start)
        BY <1>10, <1>14
      <4> QED
        BY <1>15, <2>1, <3>1, <3>3, <4>1, <4>2 DEF Holds
    <3> QED
      BY <3>2, <3>3
  <2>5. (request[p].pc = "denied" \/ (request[p].pc = "read" /\ ~request[p].allowed)) => Just(p)' /\ request[p].at <= clock
    <3> SUFFICES ASSUME request[p].pc = "denied" \/ (request[p].pc = "read" /\ ~request[p].allowed)
                 PROVE  Just(p)' /\ request[p].at <= clock
      OBVIOUS
    <3>1. Just(p) /\ request[p].at <= clock /\ Target(p) \in Bucket
      BY <2>1, <2>3 DEF RequestFits
    <3>2. spent[Target(p)] \subseteq spent'[Target(p)]
      BY <1>11, <3>1
    <3> QED
      BY <2>1, <2>2, <3>1, <3>2 DEF Just
  <2>6. (request[p].pc = "read" /\ ~request[p].allowed)
           => (row'[Target(p)] = None \/ request[p].now < row'[Target(p)].resetAt)
    <3> SUFFICES ASSUME request[p].pc = "read" /\ ~request[p].allowed, Target(p) = c
                 PROVE  request[p].now < row'[c].resetAt
      BY <1>11, <2>1, <2>3 DEF RequestFits
    <3>1. CASE Fresh(c, r.now)
      <4>1. row'[c].resetAt = r.now + Window /\ request[p].now <= clock
        BY <1>11, <2>3, <3>1 DEF Counts
      <4> QED
        BY <1>2, <2>1, <4>1, LimiterBounds
    <3>2. CASE ~Fresh(c, r.now)
      <4>1. row'[c].resetAt = row[c].resetAt /\ row[c] # None
        BY <1>11, <3>2 DEF Counts, Fresh, Rows
      <4> QED
        BY <2>1, <4>1 DEF RequestFits
    <3> QED
      BY <3>1, <3>2
  <2>7. \A y, z, j, t : Holds(y, z, j, t)' <=>
          \E f \in spent'[BucketOf(y, Policies[j])] : f.session = y /\ f.start = z /\ t <= f.at
    BY DEF Holds
  <2> QED
    BY <1>1, <2>1, <2>2, <2>4, <2>5, <2>6, <2>7 DEF RequestFits
<1>19. RequestFits(q)'
  <2>1. /\ request'[q] = x /\ Passed(q)' = 1 .. r.policy /\ r.policy \in Passed(q)' /\ x.start = s /\ s # None
        /\ x.session = r.session /\ x.now = r.now /\ x.pc = "read" /\ x.allowed = TRUE
    BY <1>2, <1>5, <1>8, <1>10 DEF Passed, r
  <2>2. ASSUME NEW j \in 1 .. 3, j \in 1 .. r.policy
        PROVE  \E f \in spent'[BucketOf(r.session, Policies[j])] : f.session = r.session /\ f.start = s /\ r.now <= f.at
    <3>1. CASE j = r.policy
      BY <1>2, <1>10, <1>11, <3>1
    <3>2. CASE j # r.policy
      <4>1. j \in Passed(q) /\ r.policy # 1 /\ r.start # None /\ s = r.start
        BY <1>2, <1>10, <2>2, <3>2
      <4>2. Holds(r.session, s, j, r.now)
        BY <1>2, <4>1 DEF RequestFits, r
      <4> QED
        BY <1>2, <1>11, <1>15, <4>2 DEF Holds
    <3> QED
      BY <3>1, <3>2
  <2>3. ASSUME NEW j \in 1 .. 3, j \notin 1 .. r.policy, NEW f \in spent'[BucketOf(r.session, Policies[j])]
        PROVE  ~(f.session = r.session /\ f.start = s)
    <3>1. BucketOf(r.session, Policies[j]) \in Bucket \ {c}
      <4>1. Policies[j] # Policies[r.policy]
        BY <1>2, <2>3, ThreePolicies
      <4> QED
        BY <1>2, <1>11, <1>15, <4>1
    <3>2. f \in spent[BucketOf(r.session, Policies[j])] /\ r.policy < j
      BY <1>2, <1>11, <2>3, <3>1
    <3>3. f.at \in Nat /\ 0 <= f.at
      BY <1>2, <3>1, <3>2, EntryFields
    <3> QED
      BY <1>14, <3>2, <3>3 DEF Holds
  <2>4. /\ q \in UnderWay' /\ Passed(q)' # {} /\ request'[q].start # None
        /\ clock' = clock /\ r.session \in Session /\ r.now <= clock /\ clock <= r.now + Patience
    BY <1>1, <1>2, <2>1 DEF UnderWay
  <2>5. \A j \in 1 .. 3 : IF j \in Passed(q)' THEN Holds(request[q].session, request[q].start, j, request[q].now)'
                          ELSE ~Holds(request[q].session, request[q].start, j, 0)'
    BY <2>1, <2>2, <2>3 DEF Holds
  <2> QED
    BY <2>1, <2>4, <2>5 DEF RequestFits
<1>20. ASSUME NEW p \in Request, NEW t \in Request PROVE StartsDiffer(p, t)'
  <2>1. request'[q].start = s /\ request'[q].session = r.session
    BY <1>5, <1>8, <1>10
  <2>2. CASE p = q /\ t # q
    BY <1>5, <1>14, <2>1, <2>2 DEF StartsDiffer
  <2>3. CASE p # q /\ t = q
    BY <1>5, <1>14, <2>1, <2>3 DEF StartsDiffer
  <2>4. CASE p # q /\ t # q
    BY <1>5, <2>4 DEF LimiterInv, StartsDiffer
  <2> QED
    BY <2>2, <2>3, <2>4 DEF StartsDiffer
<1> QED
  BY <1>13, <1>16, <1>17, <1>18, <1>19, <1>20 DEF LimiterInv

\* Nothing has been counted at first.
LEMMA LimiterStarts == Init => LimiterInv
<1> SUFFICES ASSUME Init PROVE LimiterInv
  OBVIOUS
<1>1. /\ clock = 0 /\ spent = [b \in Bucket |-> {}] /\ row = [b \in Bucket |-> None]
      /\ request = [q \in Request |-> Idle]
  BY DEF Init
<1>2. TypeOK
  BY <1>1, IdleFits, LimiterBounds DEF TypeOK, Time
<1>3. \A b \in Bucket : WindowsFit(b) /\ StartsFit(b)
  BY <1>1, FS_EmptySet DEF WindowsFit, StartsFit
<1>4. \A q \in Request : RequestFits(q)
  BY <1>1, IdleFits DEF RequestFits, UnderWay
<1>5. \A p, q \in Request : StartsDiffer(p, q)
  BY <1>1, IdleFits DEF StartsDiffer
<1> QED
  BY <1>2, <1>3, <1>4, <1>5 DEF LimiterInv

\* The invariant of the limiter holds in every behaviour.
LEMMA LimiterStays == Spec => []LimiterInv
<1>1. LimiterInv /\ [Next]_vars => LimiterInv'
  <2> SUFFICES ASSUME LimiterInv, [Next]_vars PROVE LimiterInv'
    OBVIOUS
  <2>1. CASE UNCHANGED vars
    <3>1. clock' = clock /\ spent' = spent /\ row' = row /\ request' = request
      BY <2>1 DEF vars
    <3>2. TypeOK'
      BY <3>1 DEF LimiterInv, TypeOK
    <3>3. \A b \in Bucket : WindowsFit(b)' /\ StartsFit(b)'
      BY <3>1 DEF LimiterInv, WindowsFit, StartsFit
    <3>4. ASSUME NEW q \in Request PROVE RequestFits(q)'
      <4>1. RequestFits(q)
        BY DEF LimiterInv
      <4>2. Passed(q)' = Passed(q) /\ UnderWay' = UnderWay
        BY <3>1 DEF Passed, UnderWay
      <4> QED
        BY <3>1, <4>1, <4>2 DEF RequestFits, Target, Just, Holds
    <3>5. \A p, q \in Request : StartsDiffer(p, q)'
      BY <3>1 DEF LimiterInv, StartsDiffer
    <3> QED
      BY <3>2, <3>3, <3>4, <3>5 DEF LimiterInv
  <2>2. ASSUME NEW q \in Request, Consume(q) PROVE LimiterInv'
    BY <2>2, RefusedKeeps, CountedKeeps
  <2>3. ASSUME NEW q \in Request, Admit(q) PROVE LimiterInv'
    BY <2>2, <2>3, ReadBackKeeps, LeaveKeeps DEF Admit
  <2> QED
    BY <2>1, <2>3, TickKeepsLimiter, ArriveKeeps, LeaveKeeps, PruneKeeps DEF Next
<1> QED
  BY <1>1, LimiterStarts, PTL DEF Spec

\* However stale the clocks of concurrent requests are and whatever the pruner deletes, a
\* bucket counts less than two windows' worth of starts in the shortest time a window may
\* last, and a session or a network that floods is held by its own bucket first.
THEOREM StartsAreThrottled == Spec => []Throttled
BY LimiterStays, LimiterThrottles, PTL

\* Nobody is refused while a bucket has room: a bucket that refuses counted its limit not
\* long ago, and the boundary that the reply quotes lies ahead of the request.
THEOREM RefusalsAreJust == Spec => []RefusalIsJust
BY LimiterStays, LimiterRefuses, PTL

-----------------------------------------------------------------------------
(* The initialisation of the database *)

USE DatabaseAssumption

Migrated == schema = "current" /\ limits /\ audits \subseteq Visitor

\* What the statements that isolate i has executed have achieved.
Reached(i) ==
  /\ promise[i] = "pending" <=> statement[i] # "none"
  /\ statement[i] \notin {"none", "create"} => schema # "absent"
  /\ statement[i] \in {"purgeJson", "purgeOld", "index"} => schema = "current"
  /\ statement[i] \in {"purgeOld", "index"} => "corrupt" \notin audits
  /\ statement[i] = "index" => "legacy" \notin audits
  /\ promise[i] = "resolved" => Migrated

\* A request depends on the promise that it awaits or was given.
Justified(v) ==
  /\ visit[v].state = "waiting" => promise[ServedBy[v]] = "pending"
  /\ visit[v].state = "serving" => promise[ServedBy[v]] = "resolved"
  /\ visit[v].state = "rejected" => failures > visit[v].seen
  /\ visit[v].seen <= failures

DatabaseInv ==
  /\ DatabaseTypeOK
  /\ \A i \in DbIsolate : Reached(i)
  /\ \A v \in Visitor : Justified(v)
  /\ inserted \subseteq audits

-----------------------------------------------------------------------------
(* Statements *)

\* No statement undoes anything.
Progress ==
  /\ schema' \in {"absent", "old", "current"} /\ limits' \in BOOLEAN
  /\ schema # "absent" => schema' # "absent"
  /\ schema = "current" => schema' = "current"
  /\ limits => limits'
  /\ audits' \subseteq audits
  /\ inserted' = inserted /\ inserted \subseteq audits'

\* Neither does one that has no effect.
LEMMA NoneProgresses ==
  ASSUME DatabaseInv, UNCHANGED <<schema, limits, audits, inserted>>
  PROVE  Progress
  BY DEF Progress, DatabaseInv, DatabaseTypeOK

\* The purges spare what requests inserted.
LEMMA StatementProgresses ==
  ASSUME DatabaseInv, NEW s \in Statement, Executed(s), UNCHANGED inserted
  PROVE  Progress
<1>1. audits' \subseteq audits /\ audits \ OldRow \subseteq audits'
  BY DEF Executed, Outdated, OldRow
<1>2. inserted \subseteq audits'
  BY <1>1 DEF DatabaseInv, DatabaseTypeOK, OldRow
<1>3. schema' \in {"absent", "old", "current"} /\ (schema # "absent" => schema' # "absent")
      /\ (schema = "current" => schema' = "current")
  BY DEF Executed, DatabaseInv, DatabaseTypeOK
<1>4. limits' \in BOOLEAN /\ (limits => limits')
  BY DEF Executed, DatabaseInv, DatabaseTypeOK
<1> QED
  BY <1>1, <1>2, <1>3, <1>4 DEF Progress

\* What an isolate has reached is not undone.
LEMMA ReachedStays ==
  ASSUME DatabaseInv, Progress, NEW i \in DbIsolate,
         promise'[i] = promise[i], statement'[i] = statement[i]
  PROVE  Reached(i)'
  BY DEF DatabaseInv, Progress, Reached, Migrated

\* An initialisation goes on to statement s.
LEMMA GoesTo ==
  ASSUME DatabaseInv, Progress, faults' \in 0 .. MaxFaults,
         NEW i \in DbIsolate, NEW s \in Statement \ {"none"}, GoTo(i, s), statement[i] # "none",
         s \notin {"none", "create"} => schema' # "absent",
         s \in {"purgeJson", "purgeOld", "index"} => schema' = "current",
         s \in {"purgeOld", "index"} => "corrupt" \notin audits',
         s = "index" => "legacy" \notin audits'
  PROVE  DatabaseInv'
<1>1. /\ statement' \in [DbIsolate -> Statement] /\ statement'[i] = s
      /\ \A j \in DbIsolate \ {i} : statement'[j] = statement[j]
      /\ UNCHANGED <<promise, visit, failures>>
  BY DEF GoTo, DatabaseInv, DatabaseTypeOK
<1>2. DatabaseTypeOK'
  BY <1>1 DEF DatabaseInv, DatabaseTypeOK, Progress
<1>3. \A j \in DbIsolate \ {i} : Reached(j)'
  BY <1>1, ReachedStays
<1>4. promise[i] = "pending"
  BY DEF DatabaseInv, Reached
<1>5. Reached(i)'
  BY <1>1, <1>4 DEF Reached
<1>6. \A v \in Visitor : Justified(v)'
  BY <1>1 DEF DatabaseInv, Justified
<1>7. inserted' \subseteq audits'
  BY DEF Progress
<1> QED
  BY <1>2, <1>3, <1>5, <1>6, <1>7 DEF DatabaseInv

\* The initialisation of an isolate throws: its requests are refused, for this failure.
LEMMA Rejects ==
  ASSUME DatabaseInv, Progress, faults' \in 0 .. MaxFaults,
         NEW i \in DbIsolate, Reject(i), statement[i] # "none"
  PROVE  DatabaseInv'
<1>1. /\ statement' = [statement EXCEPT ![i] = "none"] /\ promise' = [promise EXCEPT ![i] = "null"]
      /\ failures' = failures + 1
      /\ visit' = [v \in Visitor |-> IF ServedBy[v] = i /\ visit[v].state = "waiting"
                                     THEN [visit[v] EXCEPT !.state = "rejected"] ELSE visit[v]]
  BY DEF Reject, AfterFailure, Continue
<1>2. statement' \in [DbIsolate -> Statement] /\ promise' \in [DbIsolate -> {"null", "pending", "resolved"}]
  BY <1>1 DEF DatabaseInv, DatabaseTypeOK, Statement
<1>3. visit' \in [Visitor -> [state : {"idle", "waiting", "serving", "rejected"}, seen : Nat]]
  BY <1>1 DEF DatabaseInv, DatabaseTypeOK
<1>4. DatabaseTypeOK'
  BY <1>1, <1>2, <1>3 DEF DatabaseInv, DatabaseTypeOK, Progress
<1>5. \A j \in DbIsolate \ {i} : /\ statement'[j] = statement[j] /\ promise'[j] = promise[j]
                                 /\ Reached(j)'
  BY <1>1, ReachedStays DEF DatabaseInv, DatabaseTypeOK
<1>6. Reached(i)'
  BY <1>1 DEF Reached, DatabaseInv, DatabaseTypeOK
<1>7. ASSUME NEW v \in Visitor PROVE Justified(v)'
  <2>1. /\ visit[v] \in [state : {"idle", "waiting", "serving", "rejected"}, seen : Nat]
        /\ failures \in Nat /\ ServedBy[v] \in DbIsolate
    BY DEF DatabaseInv, DatabaseTypeOK
  <2>2. promise[i] = "pending" /\ Justified(v)
    BY DEF DatabaseInv, Reached
  <2>3. CASE ServedBy[v] = i /\ visit[v].state = "waiting"
    <3>1. visit'[v].state = "rejected" /\ visit'[v].seen = visit[v].seen
      BY <1>1, <2>1, <2>3
    <3> QED
      BY <1>1, <2>1, <2>2, <3>1 DEF Justified
  <2>4. CASE ~(ServedBy[v] = i /\ visit[v].state = "waiting")
    <3>1. visit'[v] = visit[v]
      BY <1>1, <2>4
    <3>2. visit[v].state \in {"waiting", "serving"} => ServedBy[v] # i
      BY <2>2, <2>4 DEF Justified
    <3> QED
      BY <1>1, <1>5, <2>1, <2>2, <3>1, <3>2 DEF Justified
  <2> QED
    BY <2>3, <2>4
<1>8. inserted' \subseteq audits'
  BY DEF Progress
<1> QED
  BY <1>4, <1>5, <1>6, <1>7, <1>8 DEF DatabaseInv

\* An error is looked into, if it is that of the ALTER, or ends the initialisation.
LEMMA ErrorStep ==
  ASSUME DatabaseInv, Progress, faults' \in 0 .. MaxFaults,
         NEW i \in DbIsolate, OnError(i), statement[i] # "none"
  PROVE  DatabaseInv'
<1>1. CASE statement[i] = "alter"
  <2>1. schema' # "absent"
    BY <1>1 DEF DatabaseInv, Reached, Progress
  <2>2. "recheck" \in Statement \ {"none"} /\ GoTo(i, "recheck")
    BY <1>1 DEF OnError, Statement
  <2> QED
    BY <2>1, <2>2, GoesTo
<1>2. CASE statement[i] # "alter"
  BY <1>2, Rejects DEF OnError
<1> QED
  BY <1>1, <1>2

-----------------------------------------------------------------------------
(* Every step *)

\* A statement that succeeds makes the next one's precondition true.
LEMMA ExecuteStep == ASSUME DatabaseInv, NEW i \in DbIsolate, Execute(i) PROVE DatabaseInv'
<1> DEFINE s == statement[i]
<1>1. s \in Statement /\ s \notin {"none", "index"} /\ ~Refused(s) /\ (s = "recheck" => schema = "current")
      /\ Executed(s) /\ GoTo(i, After(s)) /\ UNCHANGED <<faults, inserted>> /\ Reached(i)
  BY DEF Execute, DatabaseInv, DatabaseTypeOK
<1>2. Progress
  BY <1>1, StatementProgresses
<1>3. schema \in {"absent", "old", "current"} /\ faults' \in 0 .. MaxFaults
  BY <1>1 DEF DatabaseInv, DatabaseTypeOK
<1> HIDE DEF s
<1>4. s \in {"create", "columns", "recheck", "alter", "purgeJson", "purgeOld"}
  BY <1>1 DEF Statement
<1>5. /\ s = "create" => After(s) = "columns" /\ schema' # "absent"
      /\ s \in {"columns", "recheck"} => IF schema = "current" THEN After(s) = "purgeJson" ELSE After(s) = "alter"
      /\ s = "alter" => After(s) = "purgeJson" /\ schema' = "current"
      /\ s = "purgeJson" => After(s) = "purgeOld" /\ "corrupt" \notin audits'
      /\ s = "purgeOld" => After(s) = "index" /\ audits' = audits \ {"legacy"}
  BY <1>1, <1>3 DEF After, Executed, Outdated
<1>6. statement[i] # "none" /\ Reached(i) /\ s = statement[i]
  BY <1>1 DEF s
<1>7. After(s) \in Statement \ {"none"}
  BY <1>4, <1>5 DEF Statement
<1>8. /\ After(s) \notin {"none", "create"} => schema' # "absent"
      /\ After(s) \in {"purgeJson", "purgeOld", "index"} => schema' = "current"
      /\ After(s) \in {"purgeOld", "index"} => "corrupt" \notin audits'
      /\ After(s) = "index" => "legacy" \notin audits'
  BY <1>2, <1>4, <1>5, <1>6 DEF Reached, Progress
<1> QED
  BY <1>1, <1>2, <1>3, <1>6, <1>7, <1>8, GoesTo

\* The last statement finds the database migrated.
LEMMA CompleteStep == ASSUME DatabaseInv, NEW i \in DbIsolate, Complete(i) PROVE DatabaseInv'
<1>1. /\ statement' = [statement EXCEPT ![i] = "none"] /\ promise' = [promise EXCEPT ![i] = "resolved"]
      /\ visit' = [v \in Visitor |-> IF ServedBy[v] = i /\ visit[v].state = "waiting"
                                     THEN [visit[v] EXCEPT !.state = "serving"] ELSE visit[v]]
      /\ UNCHANGED <<faults, failures, inserted>> /\ statement[i] = "index" /\ Executed("index")
  BY DEF Complete, Continue
<1>2. Progress /\ limits' /\ audits' = audits
  BY <1>1, StatementProgresses DEF Executed, Statement
<1>3. statement' \in [DbIsolate -> Statement] /\ promise' \in [DbIsolate -> {"null", "pending", "resolved"}]
  BY <1>1 DEF DatabaseInv, DatabaseTypeOK, Statement
<1>4. visit' \in [Visitor -> [state : {"idle", "waiting", "serving", "rejected"}, seen : Nat]]
  BY <1>1 DEF DatabaseInv, DatabaseTypeOK
<1>5. DatabaseTypeOK'
  BY <1>1, <1>2, <1>3, <1>4 DEF DatabaseInv, DatabaseTypeOK, Progress
<1>6. \A j \in DbIsolate \ {i} : /\ statement'[j] = statement[j] /\ promise'[j] = promise[j]
                                 /\ Reached(j)'
  BY <1>1, <1>2, ReachedStays DEF DatabaseInv, DatabaseTypeOK
<1>7. Reached(i)'
  <2>1. schema = "current" /\ "corrupt" \notin audits /\ "legacy" \notin audits /\ audits \subseteq OldRow \cup Visitor
    BY <1>1 DEF DatabaseInv, DatabaseTypeOK, Reached
  <2>2. Migrated'
    BY <1>2, <2>1 DEF Migrated, Progress, OldRow
  <2>3. statement'[i] = "none" /\ promise'[i] = "resolved"
    BY <1>1 DEF DatabaseInv, DatabaseTypeOK
  <2> QED
    BY <2>2, <2>3 DEF Reached
<1>8. ASSUME NEW v \in Visitor PROVE Justified(v)'
  <2>1. visit[v] \in [state : {"idle", "waiting", "serving", "rejected"}, seen : Nat] /\ ServedBy[v] \in DbIsolate
    BY DEF DatabaseInv, DatabaseTypeOK
  <2>2. promise[i] = "pending" /\ Justified(v) /\ promise'[i] = "resolved"
    BY <1>1 DEF DatabaseInv, DatabaseTypeOK, Reached
  <2>3. CASE ServedBy[v] = i /\ visit[v].state = "waiting"
    <3>1. visit'[v].state = "serving" /\ visit'[v].seen = visit[v].seen
      BY <1>1, <2>1, <2>3
    <3> QED
      BY <1>1, <2>2, <2>3, <3>1 DEF Justified
  <2>4. CASE ~(ServedBy[v] = i /\ visit[v].state = "waiting")
    <3>1. visit'[v] = visit[v]
      BY <1>1, <2>4
    <3>2. visit[v].state \in {"waiting", "serving"} => ServedBy[v] # i
      BY <2>2, <2>4 DEF Justified
    <3> QED
      BY <1>1, <1>6, <2>1, <2>2, <3>1, <3>2 DEF Justified
  <2> QED
    BY <2>3, <2>4
<1>9. inserted' \subseteq audits'
  BY <1>2 DEF Progress
<1> QED
  BY <1>5, <1>6, <1>7, <1>8, <1>9 DEF DatabaseInv

\* Statements that are refused, that fail, or whose check fails.
LEMMA FailureStep ==
  ASSUME DatabaseInv, NEW i \in DbIsolate, Refuse(i) \/ Rethrow(i) \/ Fault(i)
  PROVE  DatabaseInv'
<1>1. CASE Refuse(i)
  <2>1. statement[i] # "none" /\ faults' \in 0 .. MaxFaults
    BY <1>1 DEF Refuse, Refused, DatabaseInv, DatabaseTypeOK
  <2> QED
    BY <1>1, <2>1, NoneProgresses, ErrorStep DEF Refuse
<1>2. CASE Rethrow(i)
  <2>1. statement[i] # "none" /\ faults' \in 0 .. MaxFaults
    BY <1>2 DEF Rethrow, DatabaseInv, DatabaseTypeOK
  <2> QED
    BY <1>2, <2>1, NoneProgresses, Rejects DEF Rethrow
<1>3. CASE Fault(i)
  <2>1. statement[i] # "none" /\ faults' \in 0 .. MaxFaults /\ OnError(i)
    BY <1>3 DEF Fault, DatabaseInv, DatabaseTypeOK
  <2>2. statement[i] \in Statement
    BY DEF DatabaseInv, DatabaseTypeOK
  <2>3. Progress
    BY <1>3, <2>2, NoneProgresses, StatementProgresses DEF Fault
  <2> QED
    BY <2>1, <2>3, ErrorStep
<1> QED
  BY <1>1, <1>2, <1>3

\* A request joins the initialisation of its isolate, or starts it.
LEMMA GetDbStep == ASSUME DatabaseInv, NEW v \in Visitor, GetDb(v) PROVE DatabaseInv'
<1>1. PICK i \in DbIsolate : i = ServedBy[v]
  OBVIOUS
<1>2. PICK p \in {"pending", "resolved"} : p = IF promise[i] = "null" THEN "pending" ELSE promise[i]
  BY DEF DatabaseInv, DatabaseTypeOK
<1>3. /\ promise' = [promise EXCEPT ![i] = p]
      /\ statement' = IF promise[i] = "null" THEN [statement EXCEPT ![i] = "create"] ELSE statement
      /\ visit' = [visit EXCEPT ![v] = [state |-> Awaiting(p), seen |-> failures]]
      /\ UNCHANGED <<schema, limits, audits, faults, failures, inserted>>
  BY <1>1, <1>2 DEF GetDb
<1>4. /\ Awaiting(p) = IF p = "pending" THEN "waiting" ELSE "serving"
  BY DEF Awaiting
<1>5. DatabaseTypeOK'
  BY <1>3, <1>4 DEF DatabaseInv, DatabaseTypeOK, Statement
<1>6. \A j \in DbIsolate \ {i} : Reached(j)'
  BY <1>3, NoneProgresses, ReachedStays DEF DatabaseInv, DatabaseTypeOK
<1>7. promise'[i] = p /\ Reached(i)'
  <2>1. promise'[i] = p /\ statement'[i] = IF promise[i] = "null" THEN "create" ELSE statement[i]
    BY <1>3 DEF DatabaseInv, DatabaseTypeOK
  <2>2. Reached(i)
    BY DEF DatabaseInv
  <2> QED
    BY <1>2, <1>3, <2>1, <2>2 DEF Reached, Migrated
<1>8. \A j \in DbIsolate : promise[j] # "null" => promise'[j] = promise[j]
  BY <1>2, <1>3 DEF DatabaseInv, DatabaseTypeOK
<1>9. ASSUME NEW u \in Visitor PROVE Justified(u)'
  <2>1. CASE u = v
    <3>1. visit'[v] = [state |-> Awaiting(p), seen |-> failures] /\ failures \in Nat
      BY <1>3 DEF DatabaseInv, DatabaseTypeOK
    <3> QED
      BY <1>1, <1>3, <1>4, <1>7, <2>1, <3>1 DEF Justified
  <2>2. CASE u # v
    BY <1>3, <1>8, <2>2 DEF DatabaseInv, DatabaseTypeOK, Justified
  <2> QED
    BY <2>1, <2>2
<1> QED
  BY <1>3, <1>5, <1>6, <1>7, <1>9 DEF DatabaseInv

\* A request inserts its row, or leaves without.
LEMMA LeaveStep ==
  ASSUME DatabaseInv, NEW v \in Visitor, InsertRow(v) \/ AnswerUnavailable(v)
  PROVE  DatabaseInv'
<1>1. /\ visit' = [visit EXCEPT ![v] = Away]
      /\ UNCHANGED <<schema, limits, promise, statement, faults, failures>>
      /\ audits \subseteq audits' /\ audits' \subseteq audits \cup {v}
      /\ inserted' \subseteq audits' /\ inserted' \subseteq Visitor
  BY DEF InsertRow, AnswerUnavailable, DatabaseInv, DatabaseTypeOK
<1>2. DatabaseTypeOK'
  BY <1>1 DEF Away, DatabaseInv, DatabaseTypeOK
<1>3. v \notin OldRow
  BY DEF OldRow
<1>4. \A i \in DbIsolate : Reached(i)'
  BY <1>1, <1>3 DEF DatabaseInv, Reached, Migrated, OldRow
<1>5. \A u \in Visitor : Justified(u)'
  BY <1>1 DEF Away, DatabaseInv, DatabaseTypeOK, Justified
<1> QED
  BY <1>1, <1>2, <1>4, <1>5 DEF DatabaseInv

\* An isolate that ends takes its requests with it.
LEMMA EvictStep == ASSUME DatabaseInv, NEW i \in DbIsolate, Evict(i) PROVE DatabaseInv'
<1>1. /\ promise' = [promise EXCEPT ![i] = "null"] /\ statement' = [statement EXCEPT ![i] = "none"]
      /\ visit' = [v \in Visitor |-> IF ServedBy[v] = i THEN Away ELSE visit[v]]
      /\ UNCHANGED <<schema, limits, audits, faults, failures, inserted>>
  BY DEF Evict
<1>2. DatabaseTypeOK'
  BY <1>1 DEF Away, DatabaseInv, DatabaseTypeOK, Statement
<1>3. \A j \in DbIsolate \ {i} : Reached(j)'
  BY <1>1, NoneProgresses, ReachedStays DEF DatabaseInv, DatabaseTypeOK
<1>4. Reached(i)'
  BY <1>1 DEF Reached, DatabaseInv, DatabaseTypeOK
<1>5. ASSUME NEW v \in Visitor PROVE Justified(v)'
  <2>1. CASE ServedBy[v] = i
    BY <1>1, <2>1 DEF Away, DatabaseInv, DatabaseTypeOK, Justified
  <2>2. CASE ServedBy[v] # i
    BY <1>1, <2>2 DEF DatabaseInv, DatabaseTypeOK, Justified
  <2> QED
    BY <2>1, <2>2
<1> QED
  BY <1>1, <1>2, <1>3, <1>4, <1>5 DEF DatabaseInv

\* Both kinds of databases satisfy the invariant.
LEMMA DatabaseInitially == DatabaseInit => DatabaseInv
<1> SUFFICES ASSUME DatabaseInit PROVE DatabaseInv
  OBVIOUS
<1>1. DatabaseTypeOK
  <2>1. schema \in {"absent", "old", "current"} /\ audits \subseteq OldRow \cup Visitor /\ limits \in BOOLEAN
    BY DEF DatabaseInit
  <2>2. faults \in 0 .. MaxFaults /\ failures \in Nat /\ inserted \subseteq Visitor
    BY DEF DatabaseInit
  <2>3. /\ promise \in [DbIsolate -> {"null", "pending", "resolved"}] /\ statement \in [DbIsolate -> Statement]
        /\ visit \in [Visitor -> [state : {"idle", "waiting", "serving", "rejected"}, seen : Nat]]
    BY DEF DatabaseInit, Statement, Away
  <2> QED
    BY <2>1, <2>2, <2>3 DEF DatabaseTypeOK
<1>2. (\A i \in DbIsolate : Reached(i)) /\ (\A v \in Visitor : Justified(v)) /\ inserted \subseteq audits
  BY DEF DatabaseInit, Reached, Justified, Away
<1> QED
  BY <1>1, <1>2 DEF DatabaseInv

\* So does whatever any step makes of them.
LEMMA DatabaseSteps == DatabaseInv /\ [DatabaseNext]_dbVars => DatabaseInv'
<1> SUFFICES ASSUME DatabaseInv, [DatabaseNext]_dbVars PROVE DatabaseInv'
  OBVIOUS
<1>1. CASE UNCHANGED dbVars
  BY <1>1 DEF dbVars, DatabaseInv, DatabaseTypeOK, Reached, Justified, Migrated
<1> QED
  BY <1>1, ExecuteStep, CompleteStep, FailureStep, GetDbStep, LeaveStep, EvictStep DEF DatabaseNext

\* Throughout.
LEMMA DatabaseInvariant == DatabaseInit /\ [][DatabaseNext]_dbVars => []DatabaseInv
  BY DatabaseInitially, DatabaseSteps, PTL

\* Everything the provider, the requests and the tables hold is of its type.
THEOREM DatabaseTypeCorrect == DatabaseInit /\ [][DatabaseNext]_dbVars => []DatabaseTypeOK
<1>1. DatabaseInv => DatabaseTypeOK
  BY DEF DatabaseInv
<1> QED
  BY <1>1, DatabaseInvariant, PTL

\* However isolates race, fail and end: a request is served by a migrated database only, no
\* initialisation deletes what was inserted, and a refusal is for a failure that the request
\* waited for (ServesMigrated).
THEOREM ServedMigrated == DatabaseInit /\ [][DatabaseNext]_dbVars => []ServesMigrated
<1>1. DatabaseInv => ServesMigrated
  BY DEF DatabaseInv, ServesMigrated, Justified, Reached, Migrated
<1> QED
  BY <1>1, DatabaseInvariant, PTL

HIDE DatabaseAssumption

-----------------------------------------------------------------------------
(* The signing keys *)

USE KeysAssumption

\* Key k is trusted by the deployment, by every isolate and in every fresh copy.
TrustedEverywhere(k) ==
  /\ k \in Trusted(config)
  /\ \A i \in Isolate : k \in Trusted(runs[i])
  /\ \A v \in Verifier : FreshCopy(v) => k \in cached[v].keys

SignersTrusted ==
  /\ TrustedEverywhere(config.public)
  /\ \A i \in Isolate : TrustedEverywhere(runs[i].public)

ProofsTrusted == \A p \in proof : p.signer = p.keyId /\ TrustedEverywhere(p.keyId)

\* Every isolate publishes the set of the deployment.
Settled == \A i \in Isolate : Trusted(runs[i]) = Trusted(config)

LateCopiesComplete ==
  Settled => \A v \in Verifier : cached[v].at > rolledAt => cached[v].keys = Trusted(config)

TimesPast == rolledAt <= keyClock /\ \A v \in Verifier : cached[v].at <= keyClock

KeysInv == KeysTypeOK /\ TimesPast /\ SignersTrusted /\ ProofsTrusted /\ LateCopiesComplete

-----------------------------------------------------------------------------

\* The invariant contains the property.
LEMMA InvariantSuffices == KeysInv => RetainedProofsVerify
  BY DEF KeysInv, ProofsTrusted, TrustedEverywhere, RetainedProofsVerify, Verifies

\* The first deployment satisfies it.
LEMMA InvariantInitially == KeysInit => KeysInv
<1> SUFFICES ASSUME KeysInit PROVE KeysInv
  OBVIOUS
<1>1. KeysTypeOK
  BY DEF KeysInit, KeysTypeOK, KeyTime, FirstEnvironment, Environment, Proof
<1>2. TimesPast
  BY DEF KeysInit, TimesPast
<1>3. TrustedEverywhere(FirstKey)
  BY DEF KeysInit, TrustedEverywhere, Trusted, FirstEnvironment
<1>4. SignersTrusted /\ ProofsTrusted
  BY <1>3 DEF KeysInit, SignersTrusted, ProofsTrusted, FirstEnvironment
<1>5. LateCopiesComplete
  BY DEF KeysInit, LateCopiesComplete, Trusted, FirstEnvironment
<1> QED
  BY <1>1, <1>2, <1>4, <1>5 DEF KeysInv

-----------------------------------------------------------------------------
(* Steps of the isolates, the verifiers and the clock *)

\* A copy that is fresh after a step that fetched nothing was fresh before it.
LEMMA FreshBefore ==
  ASSUME KeysInv, NEW v \in Verifier, cached' = cached, keyClock' \in KeyTime, keyClock' >= keyClock, FreshCopy(v)'
  PROVE  FreshCopy(v)
<1>1. cached[v].at \in Nat /\ keyClock \in Nat /\ keyClock' \in Nat
  BY DEF KeysInv, KeysTypeOK, KeyTime
<1> QED
  BY <1>1 DEF FreshCopy

\* If nothing but the clock and the proofs move, what was trusted everywhere still is.
LEMMA TrustStays ==
  ASSUME KeysInv, NEW k, TrustedEverywhere(k),
         UNCHANGED <<config, runs, rolledAt, cached>>, keyClock' \in KeyTime, keyClock' >= keyClock
  PROVE  TrustedEverywhere(k)'
<1>1. \A v \in Verifier : FreshCopy(v)' => k \in cached'[v].keys
  BY FreshBefore DEF TrustedEverywhere
<1> QED
  BY <1>1 DEF TrustedEverywhere, Trusted

\* An isolate signs with a key that every fresh copy trusts.
LEMMA SignStep ==
  ASSUME KeysInv, NEW i \in Isolate, Sign(i)
  PROVE  KeysInv'
<1> DEFINE p == [signer |-> runs[i].private, keyId |-> runs[i].public, retentionUntil |-> keyClock + ProofRetention]
<1> USE DEF KeysInv
<1>1. p \in Proof /\ p.signer = p.keyId /\ p.keyId = runs[i].public
  BY DEF Sign, PairMatches, KeysTypeOK, Environment, Proof, KeyTime
<1>2. KeysTypeOK' /\ TimesPast'
  BY <1>1 DEF Sign, KeysTypeOK, TimesPast
<1>3. keyClock' \in KeyTime /\ keyClock' >= keyClock
  BY DEF Sign, KeysTypeOK, KeyTime
<1>4. \A k : TrustedEverywhere(k) => TrustedEverywhere(k)'
  BY <1>3, TrustStays DEF Sign
<1>5. SignersTrusted'
  BY <1>4 DEF SignersTrusted, Sign
<1>6. TrustedEverywhere(p.keyId)
  BY <1>1 DEF SignersTrusted
<1>7. ProofsTrusted'
  BY <1>1, <1>4, <1>6 DEF ProofsTrusted, Sign
<1>8. LateCopiesComplete'
  BY DEF LateCopiesComplete, Settled, Trusted, Sign
<1> QED
  BY <1>2, <1>5, <1>7, <1>8

\* Copies grow old; proofs that are no longer retained need no key.
LEMMA TickStep ==
  ASSUME KeysInv, KeyTick
  PROVE  KeysInv'
<1> USE DEF KeysInv
<1>1. keyClock' \in KeyTime /\ keyClock' >= keyClock
  BY DEF KeyTick, KeysTypeOK, KeyTime
<1>2. KeysTypeOK' /\ TimesPast'
  BY <1>1 DEF KeyTick, KeysTypeOK, TimesPast, KeyTime
<1>3. \A k : TrustedEverywhere(k) => TrustedEverywhere(k)'
  BY <1>1, TrustStays DEF KeyTick
<1>4. SignersTrusted' /\ ProofsTrusted'
  BY <1>3 DEF SignersTrusted, ProofsTrusted, KeyTick
<1>5. LateCopiesComplete'
  BY DEF LateCopiesComplete, Settled, Trusted, KeyTick
<1> QED
  BY <1>2, <1>4, <1>5

\* A verifier's new copy is the set that one isolate publishes.
LEMMA FetchStep ==
  ASSUME KeysInv, NEW v \in Verifier, NEW i \in Isolate, FetchKeys(v, i)
  PROVE  KeysInv'
<1> USE DEF KeysInv
<1>1. cached'[v] = [keys |-> Trusted(runs[i]), at |-> keyClock]
  BY DEF FetchKeys, KeysTypeOK
<1>2. \A w \in Verifier : w # v => cached'[w] = cached[w]
  BY DEF FetchKeys, KeysTypeOK
<1>3. Trusted(runs[i]) \subseteq Key
  BY DEF Trusted, KeysTypeOK, Environment
<1>4. KeysTypeOK'
  BY <1>3 DEF FetchKeys, KeysTypeOK
<1>5. TimesPast'
  BY <1>1, <1>2 DEF TimesPast, FetchKeys, KeysTypeOK, KeyTime
<1>6. ASSUME NEW k, TrustedEverywhere(k) PROVE TrustedEverywhere(k)'
  <2>1. \A w \in Verifier : FreshCopy(w)' => k \in cached'[w].keys
    BY <1>1, <1>2, <1>6 DEF TrustedEverywhere, FreshCopy, FetchKeys
  <2> QED
    BY <1>6, <2>1 DEF TrustedEverywhere, Trusted, FetchKeys
<1>7. SignersTrusted' /\ ProofsTrusted'
  BY <1>6 DEF SignersTrusted, ProofsTrusted, FetchKeys
<1>8. LateCopiesComplete'
  BY <1>1, <1>2 DEF LateCopiesComplete, Settled, Trusted, FetchKeys
<1> QED
  BY <1>4, <1>5, <1>7, <1>8

\* An isolate takes over the deployment's keys.
LEMMA RollStep ==
  ASSUME KeysInv, NEW i \in Isolate, Roll(i)
  PROVE  KeysInv'
<1> USE DEF KeysInv
<1>1. runs' \in [Isolate -> Environment] /\ \A j \in Isolate : runs'[j] = config \/ runs'[j] = runs[j]
  BY DEF Roll, KeysTypeOK
<1>2. KeysTypeOK' /\ TimesPast'
  BY <1>1 DEF Roll, KeysTypeOK, TimesPast, KeyTime
<1>3. ASSUME NEW k, TrustedEverywhere(k) PROVE TrustedEverywhere(k)'
  BY <1>1, <1>3 DEF TrustedEverywhere, Trusted, FreshCopy, Roll
<1>4. SignersTrusted' /\ ProofsTrusted'
  BY <1>1, <1>3 DEF SignersTrusted, ProofsTrusted, Roll
<1>5. \A v \in Verifier : ~(cached'[v].at > rolledAt')
  BY DEF Roll, TimesPast, KeysTypeOK, KeyTime
<1>6. LateCopiesComplete'
  BY <1>5 DEF LateCopiesComplete
<1> QED
  BY <1>2, <1>4, <1>6

-----------------------------------------------------------------------------
(* Steps of the operator *)

\* A deployment keeps the invariant if the key that it makes active and the keys of the
\* signers and of the proofs are trusted everywhere once it is made, and if it either
\* leaves the trusted set as it is or differs from what the isolates publish.
LEMMA DeployStep ==
  ASSUME KeysInv, NEW env \in Environment, Deploy(env),
         TrustedEverywhere(env.public),
         env.public \in Trusted(env),
         \A i \in Isolate : runs[i].public \in Trusted(env),
         \A p \in proof : p.keyId \in Trusted(env),
         Trusted(env) = Trusted(config) \/ \E i \in Isolate : Trusted(runs[i]) # Trusted(env)
  PROVE  KeysInv'
<1> USE DEF KeysInv
<1>1. KeysTypeOK' /\ TimesPast'
  BY DEF Deploy, KeysTypeOK, TimesPast
<1>2. ASSUME NEW k, TrustedEverywhere(k), k \in Trusted(env) PROVE TrustedEverywhere(k)'
  BY <1>2 DEF TrustedEverywhere, Trusted, FreshCopy, Deploy
<1>3. SignersTrusted'
  BY <1>2 DEF SignersTrusted, Deploy
<1>4. ProofsTrusted'
  BY <1>2 DEF ProofsTrusted, Deploy
<1>5. LateCopiesComplete'
  BY DEF LateCopiesComplete, Settled, Trusted, Deploy
<1> QED
  BY <1>1, <1>3, <1>4, <1>5

\* The next key joins the trusted set.
LEMMA PrepublishStep ==
  ASSUME KeysInv, NEW k \in Key, Prepublish(k)
  PROVE  KeysInv'
<1> DEFINE env == [config EXCEPT !.archived = @ \cup {k}]
<1>1. env \in Environment /\ env.public = config.public /\ Trusted(env) = Trusted(config) \cup {k}
  BY DEF KeysInv, KeysTypeOK, Environment, Trusted
<1>2. \E i \in Isolate : Trusted(runs[i]) # Trusted(env)
  BY <1>1 DEF Prepublish, Rolled
<1>3. TrustedEverywhere(config.public)
      /\ (\A i \in Isolate : runs[i].public \in Trusted(config))
      /\ (\A p \in proof : p.keyId \in Trusted(config))
  BY DEF KeysInv, SignersTrusted, ProofsTrusted, TrustedEverywhere
<1>4. Deploy(env)
  BY DEF Prepublish
<1>5. env.public \in Trusted(env)
  BY DEF Trusted
<1> QED
  BY <1>1, <1>2, <1>3, <1>4, <1>5, DeployStep

\* A key leaves the trusted set when no proof of it is retained.
LEMMA RetireStep ==
  ASSUME KeysInv, NEW k \in Key, Retire(k)
  PROVE  KeysInv'
<1> DEFINE env == [config EXCEPT !.archived = @ \ {k}]
<1>1. env \in Environment /\ env.public = config.public /\ env.archived = config.archived \ {k}
  BY DEF KeysInv, KeysTypeOK, Environment
<1>2. Trusted(env) = Trusted(config) \/ \E i \in Isolate : Trusted(runs[i]) # Trusted(env)
  BY DEF Retire, Removable, Rolled
<1>3. TrustedEverywhere(config.public)
      /\ \A p \in proof : p.keyId \in Trusted(config) /\ p.keyId # k
  BY DEF KeysInv, SignersTrusted, ProofsTrusted, TrustedEverywhere, Retire, Removable, InUse
<1>4. \A i \in Isolate : runs[i].public = config.public
  BY DEF Retire, Removable, Rolled
<1>5. Deploy(env)
  BY DEF Retire
<1>6. env.public \in Trusted(env) /\ \A p \in proof : p.keyId \in Trusted(env)
  BY <1>1, <1>3 DEF Trusted
<1> QED
  BY <1>1, <1>2, <1>3, <1>4, <1>5, <1>6, DeployStep

\* The next key signs once every fresh copy has it.
LEMMA ActivateStep ==
  ASSUME KeysInv, NEW k \in Key, NEW private \in Key, Activate(k, private)
  PROVE  KeysInv'
<1> DEFINE env == [private |-> private, public |-> k,
                   archived |-> (config.archived \ {k}) \cup {config.public}]
<1>1. env \in Environment /\ env.public = k
  BY DEF KeysInv, KeysTypeOK, Environment
<1>2. Trusted(env) = Trusted(config)
  BY DEF Activate, Trusted
<1>3. Settled /\ k \in Trusted(config)
  BY DEF Activate, Settled, Rolled, Trusted
<1>4. ASSUME NEW v \in Verifier, FreshCopy(v) PROVE k \in cached[v].keys
  <2>1. cached[v].at \in Nat /\ keyClock \in Nat /\ rolledAt \in Nat
    BY DEF KeysInv, KeysTypeOK, KeyTime
  <2>2. cached[v].at > rolledAt
    BY <1>4, <2>1 DEF FreshCopy, Activate, Waited
  <2> QED
    BY <1>3, <2>2 DEF KeysInv, LateCopiesComplete
<1>5. TrustedEverywhere(k)
  BY <1>3, <1>4 DEF TrustedEverywhere, Settled
<1>6. (\A i \in Isolate : runs[i].public \in Trusted(config))
      /\ (\A p \in proof : p.keyId \in Trusted(config))
  BY DEF KeysInv, SignersTrusted, ProofsTrusted, TrustedEverywhere
<1>7. Deploy(env)
  BY DEF Activate
<1> QED
  BY <1>1, <1>2, <1>3, <1>5, <1>6, <1>7, DeployStep

\* A configuration that the code rejects is corrected.
LEMMA CorrectStep ==
  ASSUME KeysInv, CorrectPair
  PROVE  KeysInv'
<1> DEFINE env == [config EXCEPT !.private = config.public]
<1>1. env \in Environment /\ env.public = config.public /\ Trusted(env) = Trusted(config)
  BY DEF KeysInv, KeysTypeOK, Environment, Trusted
<1>2. TrustedEverywhere(config.public)
      /\ (\A i \in Isolate : runs[i].public \in Trusted(config))
      /\ (\A p \in proof : p.keyId \in Trusted(config))
  BY DEF KeysInv, SignersTrusted, ProofsTrusted, TrustedEverywhere
<1>3. Deploy(env)
  BY DEF CorrectPair
<1>4. env.public \in Trusted(env)
  BY DEF Trusted
<1> QED
  BY <1>1, <1>2, <1>3, <1>4, DeployStep

-----------------------------------------------------------------------------

\* Every step of the rotation preserves the invariant.
LEMMA InvariantPreserved == KeysInv /\ [KeysNext]_keysVars => KeysInv'
<1> SUFFICES ASSUME KeysInv, [KeysNext]_keysVars PROVE KeysInv'
  OBVIOUS
<1>1. CASE KeyTick
  BY <1>1, TickStep
<1>2. CASE CorrectPair
  BY <1>2, CorrectStep
<1>3. ASSUME NEW i \in Isolate, Sign(i) \/ Roll(i) \/ \E v \in Verifier : FetchKeys(v, i) PROVE KeysInv'
  BY <1>3, SignStep, RollStep, FetchStep
<1>4. ASSUME NEW k \in Key, Prepublish(k) \/ Retire(k) PROVE KeysInv'
  BY <1>4, PrepublishStep, RetireStep
<1>5. ASSUME NEW k \in Key, NEW private \in {k, config.private}, Activate(k, private) PROVE KeysInv'
  <2>1. private \in Key
    BY DEF KeysInv, KeysTypeOK, Environment
  <2> QED
    BY <1>5, <2>1, ActivateStep
<1>6. CASE UNCHANGED keysVars
  BY <1>6 DEF keysVars, KeysInv, KeysTypeOK, TimesPast, SignersTrusted, ProofsTrusted,
     TrustedEverywhere, Trusted, FreshCopy, LateCopiesComplete, Settled
<1> QED
  BY <1>1, <1>2, <1>3, <1>4, <1>5, <1>6 DEF KeysNext

\* Every proof that is still retained verifies against every fresh copy of the trusted
\* set and at every isolate that publishes one, for any number of keys, isolates and
\* verifiers, any cache lifetime and any retention (lib/evidence-signing.ts under the
\* rotation of README.md:191).
THEOREM RotationIsSafe == KeysSpec => []RetainedProofsVerify
<1>1. KeysInit => KeysInv
  BY InvariantInitially
<1>2. KeysInv /\ [KeysNext]_keysVars => KeysInv'
  BY InvariantPreserved
<1>3. KeysInv => RetainedProofsVerify
  BY InvariantSuffices
<1> QED
  BY <1>1, <1>2, <1>3, PTL DEF KeysSpec

HIDE KeysAssumption
=============================================================================
