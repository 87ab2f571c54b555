------------------------ MODULE EvidenceSourcesProofs ------------------------
(***************************************************************************)
(* For any runs, trials, pages, tools, requests, durations and expected    *)
(* trajectories, that evidence is what happened: the gym adapter, the      *)
(* checkout page, the browser runner and the import of an eval report.     *)
(* They share no state and are proved one by one.                          *)
(*                                                                         *)
(* The gym: a trial numbers its events, so a stream of consecutive numbers *)
(* that begins with one is whole, and all of it the run's own explains the *)
(* reservations.                                                           *)
(*                                                                         *)
(* The page: what it registers, shows and publishes belongs to the mode it *)
(* was opened in, and to the call that is current.                         *)
(*                                                                         *)
(* The runner: what its page does and the browser reports goes through one *)
(* wire, in order.  A wait that was quiet has heard of every request,      *)
(* because each is on the wire, in flight or soon acted on; and a replaced *)
(* tool has been told after the call and before the end.                   *)
(*                                                                         *)
(* The import: what matching computes, position by position and mask by    *)
(* mask, are the ends of paths through the nodes, and a path is a cut of   *)
(* the calls into what the nodes describe; the rows of a run can be sorted *)
(* in one way only.                                                        *)
(***************************************************************************)
EXTENDS GymAudit, CheckoutPage, BrowserRecorder, EvalBridge,
        FiniteSetTheorems, SequenceTheorems, TLAPS

-----------------------------------------------------------------------------
(* The gym adapter *)

GymEvent == [run : GymLease \cup {OtherRun}, sequence : Nat, kind : {"authorization", "mutation"},
             route : Route, member : Member, decision : {"allow", "deny"}]
Version == {"vulnerable", "fixed"}
Booking == {"none", "active", "booked_early"}
GymTrial == [version : Version, events : Seq(GymEvent), reservations : [Member -> Booking]]
GymEvidence == [events : SUBSET GymEvent, stream : Seq(GymEvent), version : Version, reservations : [Member -> Booking]]
GymRecord == [step : {"none", "asked", "live", "unknown", "refused", "ran", "failed", "observed", "over"},
              route : Route, member : Member, evidence : GymEvidence, booked : Nat]

GymTypes ==
  /\ gym \in [GymLease -> GymRecord]
  /\ DOMAIN trials \subseteq GymLease /\ trials = [l \in DOMAIN trials |-> trials[l]]
  /\ \A l \in DOMAIN trials : trials[l] \in GymTrial

\* The reservations after the route of lease l was served on a trial, by itself.
Outcome(l, version) ==
  LET first == FreshTrial(version).reservations IN
  IF version = "vulnerable" /\ gym[l].route = "agent" /\ gym[l].booked > 0
  THEN [first EXCEPT ![gym[l].member] = "booked_early"] ELSE first

\* Where the first n events of a stream authorize a booking of a run.
Authorizations(stream, n, run) == {i \in 1 .. n : stream[i].run = run /\ stream[i].kind = "authorization"}

\* A trial numbers its events; those of the lease's own run are what its route does, one
\* authorization for each booking.  Without others they explain the reservations.
TrialFits(l) ==
  LET trial == trials[l] IN
  /\ \A i \in 1 .. Len(trial.events) :
       /\ trial.events[i].sequence = i
       /\ trial.events[i].run = l => trial.events[i].route = gym[l].route /\ trial.events[i].member = gym[l].member
  /\ Cardinality(Authorizations(trial.events, Len(trial.events), l)) = gym[l].booked
  /\ (\A i \in 1 .. Len(trial.events) : trial.events[i].run = l) => trial.reservations = Outcome(l, trial.version)

GymInv ==
  /\ GymTypes
  /\ \A l \in GymLease : gym[l].route = "human" => gym[l].member = Principal
  /\ \A l \in GymLease : gym[l].step = "none" => gym[l].booked = 0
  /\ \A l \in DOMAIN trials : TrialFits(l)
  /\ EvidenceIsOwn

\* A booking has turned one trial into another: it added an event or two, all its own, and
\* changed the reservation of a member only if that is allowed.
BookingOf(trial, booked, run, route, member) ==
  /\ booked \in GymTrial /\ booked.version = trial.version
  /\ Len(booked.events) \in Nat /\ Len(trial.events) \in Nat /\ Len(booked.events) > Len(trial.events)
  /\ \A i \in 1 .. Len(booked.events) : booked.events[i].sequence = i
  /\ \A i \in 1 .. Len(trial.events) : booked.events[i] = trial.events[i]
  /\ \A i \in 1 .. Len(booked.events) : i > Len(trial.events) =>
       booked.events[i].run = run /\ booked.events[i].route = route /\ booked.events[i].member = member
  /\ \A i \in 1 .. Len(booked.events) : i > Len(trial.events) =>
       (booked.events[i].kind = "authorization" <=> i = Len(trial.events) + 1)
  /\ booked.reservations = IF trial.version = "vulnerable" /\ route = "agent"
                           THEN [trial.reservations EXCEPT ![member] = "booked_early"] ELSE trial.reservations

\* What a booking does to a trial.
LEMMA BookedIs ==
  ASSUME NEW trial \in GymTrial, NEW run \in GymLease \cup {OtherRun}, NEW route \in Route, NEW member \in Member,
         \A i \in 1 .. Len(trial.events) : trial.events[i].sequence = i,
         NEW booked, booked = Booked(trial, run, route, member)
  PROVE  BookingOf(trial, booked, run, route, member)
<1> DEFINE decision == Decision(trial, route)
           one == Recorded(trial, run, "authorization", route, member, decision)
           two == Recorded(one, run, "mutation", route, member, "allow")
<1>1. decision \in {"allow", "deny"} /\ (decision = "deny" <=> ~(trial.version = "vulnerable" /\ route = "agent"))
  BY DEF Decision, GymTrial, Version
<1>2. ASSUME NEW t \in GymTrial, NEW kind \in {"authorization", "mutation"}, NEW d \in {"allow", "deny"},
             \A i \in 1 .. Len(t.events) : t.events[i].sequence = i
      PROVE  LET r == Recorded(t, run, kind, route, member, d) IN
             /\ r \in GymTrial /\ r.version = t.version /\ r.reservations = t.reservations
             /\ Len(r.events) = Len(t.events) + 1 /\ Len(t.events) \in Nat
             /\ \A i \in 1 .. Len(t.events) : r.events[i] = t.events[i]
             /\ LET e == r.events[Len(r.events)] IN
                e.sequence = Len(r.events) /\ e.run = run /\ e.route = route /\ e.member = member /\ e.kind = kind
  <2> DEFINE e == Event(t, run, kind, route, member, d)
  <2>1. e \in GymEvent /\ e.sequence = Len(t.events) + 1 /\ e.run = run /\ e.route = route /\ e.member = member
        /\ e.kind = kind
    BY DEF Event, GymEvent, GymTrial
  <2> HIDE DEF e
  <2>2. t.events \in Seq(GymEvent) /\ Append(t.events, e) \in Seq(GymEvent) /\ Len(t.events) \in Nat
    BY <2>1 DEF GymTrial
  <2>3. [t EXCEPT !.events = Append(t.events, e)] \in GymTrial
    BY <2>2 DEF GymTrial
  <2>4. Recorded(t, run, kind, route, member, d) = [t EXCEPT !.events = Append(t.events, e)]
    BY DEF Recorded, e
  <2>5. \A i \in 1 .. Len(t.events) : Append(t.events, e)[i] = t.events[i]
    BY <2>2
  <2>6. Len(Append(t.events, e)) = Len(t.events) + 1 /\ Append(t.events, e)[Len(t.events) + 1] = e
    BY <2>2
  <2>7. t = [version |-> t.version, events |-> t.events, reservations |-> t.reservations]
    BY DEF GymTrial
  <2> QED
    BY <2>1, <2>2, <2>3, <2>4, <2>5, <2>6, <2>7
<1>3. /\ one \in GymTrial /\ one.version = trial.version /\ one.reservations = trial.reservations
      /\ Len(one.events) = Len(trial.events) + 1 /\ Len(trial.events) \in Nat
      /\ \A i \in 1 .. Len(trial.events) : one.events[i] = trial.events[i]
      /\ LET e == one.events[Len(one.events)] IN
         e.sequence = Len(one.events) /\ e.run = run /\ e.route = route /\ e.member = member /\ e.kind = "authorization"
  BY <1>1, <1>2
<1> HIDE DEF one
<1>4. \A i \in 1 .. Len(one.events) : one.events[i].sequence = i
  BY <1>3
<1>5. /\ two \in GymTrial /\ two.version = one.version /\ two.reservations = one.reservations
      /\ Len(two.events) = Len(one.events) + 1 /\ Len(one.events) \in Nat
      /\ \A i \in 1 .. Len(one.events) : two.events[i] = one.events[i]
      /\ LET e == two.events[Len(two.events)] IN
         e.sequence = Len(two.events) /\ e.run = run /\ e.route = route /\ e.member = member /\ e.kind = "mutation"
  BY <1>2, <1>3, <1>4
<1> HIDE DEF two
<1>6. CASE decision = "deny"
  <2>1. booked = one
    BY <1>6 DEF Booked, one
  <2> QED
    BY <1>1, <1>3, <1>4, <1>6, <2>1 DEF BookingOf
<1>7. CASE decision = "allow"
  <2> DEFINE done == [two EXCEPT !.reservations = [two.reservations EXCEPT ![member] = "booked_early"]]
  <2>1. booked = done
    BY <1>7 DEF Booked, one, two
  <2>2. /\ booked \in GymTrial /\ booked.version = two.version /\ booked.events = two.events
        /\ booked.reservations = [two.reservations EXCEPT ![member] = "booked_early"]
    BY <1>5, <2>1, SMTT(30) DEF GymTrial, Booking
  <2> HIDE DEF done
  <2>3. Len(booked.events) = Len(trial.events) + 2 /\ Len(trial.events) \in Nat
    BY <1>3, <1>5, <2>2
  <2>4. \A i \in 1 .. Len(trial.events) : booked.events[i] = trial.events[i]
    BY <1>3, <1>5, <2>2
  <2>5. \A i \in 1 .. Len(booked.events) : i > Len(trial.events) =>
          booked.events[i].sequence = i /\ booked.events[i].run = run /\ booked.events[i].route = route /\ booked.events[i].member = member
    <3> SUFFICES ASSUME NEW i \in 1 .. Len(booked.events), i > Len(trial.events)
                 PROVE  booked.events[i].sequence = i /\ booked.events[i].run = run /\ booked.events[i].route = route
                        /\ booked.events[i].member = member
      OBVIOUS
    <3>1. i = Len(one.events) \/ i = Len(two.events)
      BY <1>3, <1>5, <2>3
    <3> QED
      BY <1>3, <1>5, <2>2, <3>1, SMTT(30)
  <2>6. \A i \in 1 .. Len(booked.events) : booked.events[i].sequence = i
    BY <2>3, <2>4, <2>5
  <2>7. trial.version = "vulnerable" /\ route = "agent" /\ Len(booked.events) \in Nat /\ Len(booked.events) > Len(trial.events)
    BY <1>1, <1>7, <2>3
  <2>8. booked.version = trial.version /\ booked.reservations = [trial.reservations EXCEPT ![member] = "booked_early"]
    BY <1>3, <1>5, <2>2
  <2>9. \A i \in 1 .. Len(booked.events) : i > Len(trial.events) =>
          (booked.events[i].kind = "authorization" <=> i = Len(trial.events) + 1)
    <3> SUFFICES ASSUME NEW i \in 1 .. Len(booked.events), i > Len(trial.events)
                 PROVE  booked.events[i].kind = "authorization" <=> i = Len(trial.events) + 1
      OBVIOUS
    <3>1. i = Len(one.events) \/ i = Len(two.events)
      BY <1>3, <1>5, <2>3
    <3> QED
      BY <1>3, <1>5, <2>2, <3>1, SMTT(30)
  <2> QED
    BY <2>1, <2>2, <2>3, <2>4, <2>5, <2>6, <2>7, <2>8, <2>9 DEF BookingOf
<1> QED
  BY <1>1, <1>6, <1>7

\* The initial evidence, and that of a trial.
LEMMA UnreadTyped == Unread \in GymEvidence
<1>1. <<>> \in Seq(GymEvent)
  OBVIOUS
<1> QED
  BY <1>1 DEF Unread, GymEvidence, Version, Booking

\* A new trial.
LEMMA FreshTyped ==
  ASSUME NEW version \in Version
  PROVE  /\ FreshTrial(version) \in GymTrial /\ FreshTrial(version).events = <<>> /\ FreshTrial(version).version = version
         /\ FreshTrial(version).reservations \in [Member -> Booking]
<1>1. <<>> \in Seq(GymEvent)
  OBVIOUS
<1> QED
  BY <1>1 DEF FreshTrial, GymTrial, Booking, Version

\* Evidence that is the route of a lease, which booked some number of times.
Explained(seen, route, member, booked) ==
  LET first == FreshTrial(seen.version).reservations IN
  /\ seen.events = {seen.stream[i] : i \in 1 .. Cardinality(seen.events)}
  /\ \A e \in seen.events : e.route = route /\ e.member = member
  /\ Cardinality({i \in 1 .. Cardinality(seen.events) : seen.stream[i].kind = "authorization"}) = booked
  /\ Len(seen.stream) = Cardinality(seen.events) =>
       seen.reservations = IF seen.version = "vulnerable" /\ route = "agent" /\ booked > 0
                           THEN [first EXCEPT ![member] = "booked_early"] ELSE first

Promised(l) ==
  gym[l].step = "observed" => Explained(gym[l].evidence, gym[l].route, gym[l].member, gym[l].booked)

\* A step on one lease and its trial keeps the invariant if that lease still fits.
LEMMA OneLease ==
  ASSUME GymInv, NEW l \in GymLease, NEW g \in GymRecord, gym' = [gym EXCEPT ![l] = g],
         g.route = "human" => g.member = Principal, g.step = "none" => g.booked = 0,
         DOMAIN trials' \subseteq GymLease, DOMAIN trials' \ {l} \subseteq DOMAIN trials,
         trials' = [k \in DOMAIN trials' |-> trials'[k]],
         \A k \in DOMAIN trials' \ {l} : trials'[k] = trials[k],
         l \in DOMAIN trials' => trials'[l] \in GymTrial /\ TrialFits(l)',
         Promised(l)'
  PROVE  GymInv'
<1>1. gym' \in [GymLease -> GymRecord] /\ gym'[l] = g /\ \A k \in GymLease \ {l} : gym'[k] = gym[k]
  BY DEF GymInv, GymTypes
<1>2. GymTypes'
  BY <1>1 DEF GymInv, GymTypes
<1>3. \A k \in GymLease : /\ gym'[k].route = "human" => gym'[k].member = Principal
                          /\ gym'[k].step = "none" => gym'[k].booked = 0
  BY <1>1 DEF GymInv
<1>4. ASSUME NEW k \in DOMAIN trials' PROVE TrialFits(k)'
  <2>1. CASE k # l
    <3>1. k \in DOMAIN trials /\ trials'[k] = trials[k] /\ gym'[k] = gym[k] /\ TrialFits(k)
      BY <1>1, <2>1 DEF GymInv
    <3> QED
      BY <3>1 DEF TrialFits, Outcome
  <2> QED
    BY <2>1
<1>5. ASSUME NEW k \in GymLease PROVE Promised(k)'
  <2>1. CASE k # l
    <3>1. gym'[k] = gym[k]
      BY <1>1, <2>1
    <3>2. Promised(k)
      BY DEF GymInv, EvidenceIsOwn, Promised, Explained
    <3> QED
      BY <3>1, <3>2 DEF Promised
  <2> QED
    BY <2>1
<1> QED
  BY <1>2, <1>3, <1>4, <1>5 DEF GymInv, EvidenceIsOwn, Promised, Explained

\* The adapter goes on, and the fixture does not.
LEMMA GymStepKeeps ==
  ASSUME GymInv, NEW l \in GymLease,
         NEW step \in {"live", "unknown", "refused", "ran", "failed", "over"}, GymStep(l, step), UNCHANGED trials
  PROVE  GymInv'
<1> DEFINE g == [gym[l] EXCEPT !.step = step]
<1>1. /\ g \in GymRecord /\ g.route = gym[l].route /\ g.member = gym[l].member /\ g.booked = gym[l].booked
      /\ g.step = step
  BY DEF GymInv, GymTypes, GymRecord
<1>2. gym' = [gym EXCEPT ![l] = g] /\ gym'[l] = g
  BY DEF GymStep, GymInv, GymTypes
<1> HIDE DEF g
<1>3. l \in DOMAIN trials' => trials'[l] \in GymTrial /\ TrialFits(l)'
  <2> SUFFICES ASSUME l \in DOMAIN trials PROVE trials[l] \in GymTrial /\ TrialFits(l)'
    OBVIOUS
  <2>1. TrialFits(l) /\ trials[l] \in GymTrial
    BY DEF GymInv, GymTypes
  <2> QED
    BY <1>1, <1>2, <2>1 DEF TrialFits, Outcome
<1>4. Promised(l)'
  BY <1>1, <1>2 DEF Promised
<1>5. (g.route = "human" => g.member = Principal) /\ (g.step = "none" => g.booked = 0)
  BY <1>1 DEF GymInv
<1> QED
  BY <1>1, <1>2, <1>3, <1>4, <1>5, OneLease DEF GymInv, GymTypes

\* A trial is made.
LEMMA GymProvisionKeeps ==
  ASSUME GymInv, NEW l \in GymLease, NEW version \in Version, NEW route \in Route, NEW member \in Member,
         ProvisionTrial(l, version, route, member)
  PROVE  GymInv'
<1> DEFINE g == [gym[l] EXCEPT !.step = "asked", !.route = route, !.member = member]
<1>1. /\ g \in GymRecord /\ g.route = route /\ g.member = member /\ g.step = "asked" /\ g.booked = 0
      /\ route = "human" => member = Principal
  BY DEF GymInv, GymTypes, GymRecord, ProvisionTrial
<1>2. gym' = [gym EXCEPT ![l] = g] /\ gym'[l] = g
  BY DEF ProvisionTrial, GymInv, GymTypes
<1> HIDE DEF g
<1>3. /\ DOMAIN trials' = DOMAIN trials \cup {l} /\ trials' = [k \in DOMAIN trials' |-> trials'[k]]
      /\ trials'[l] = FreshTrial(version) /\ \A k \in DOMAIN trials \ {l} : trials'[k] = trials[k]
      /\ DOMAIN trials \subseteq GymLease
  BY DEF ProvisionTrial, GymInv, GymTypes
<1>4. trials'[l] \in GymTrial /\ TrialFits(l)'
  <2>1. Len(trials'[l].events) = 0 /\ trials'[l].version = version /\ trials'[l] \in GymTrial
    BY <1>3, FreshTyped
  <2>2. Authorizations(trials'[l].events, Len(trials'[l].events), l) = {}
    BY <2>1 DEF Authorizations
  <2>3. Cardinality(Authorizations(trials'[l].events, Len(trials'[l].events), l)) = 0
    BY <2>2, FS_EmptySet
  <2>4. trials'[l].reservations = Outcome(l, version)'
    BY <1>1, <1>2, <1>3 DEF Outcome
  <2> QED
    BY <1>1, <1>2, <2>1, <2>3, <2>4 DEF TrialFits
<1>5. Promised(l)'
  BY <1>1, <1>2 DEF Promised
<1> QED
  BY <1>1, <1>2, <1>3, <1>4, <1>5, OneLease

\* The places of authorizations are a finite set.
LEMMA AuthorizationsFinite ==
  ASSUME NEW stream, NEW n \in Nat, NEW run PROVE IsFiniteSet(Authorizations(stream, n, run))
<1>1. IsFiniteSet(1 .. n)
  BY FS_Interval
<1>2. Authorizations(stream, n, run) \subseteq 1 .. n
  BY DEF Authorizations
<1> QED
  BY <1>1, <1>2, FS_Subset

\* Another page books on the trial.
LEMMA StrayKeeps ==
  ASSUME GymInv, NEW l \in GymLease, NEW route \in Route, NEW member \in Member, StrayBooking(l, route, member)
  PROVE  GymInv'
<1> DEFINE old == trials[l]
           new == Booked(old, OtherRun, route, member)
<1>1. /\ l \in DOMAIN trials /\ trials' = [trials EXCEPT ![l] = new] /\ gym' = gym
      /\ old \in GymTrial /\ TrialFits(l) /\ gym[l] \in GymRecord
      /\ gym' = [gym EXCEPT ![l] = gym[l]] /\ DOMAIN trials \subseteq GymLease
  BY DEF StrayBooking, Exists, GymInv, GymTypes
<1>2. /\ DOMAIN trials' = DOMAIN trials /\ trials'[l] = new /\ trials' = [k \in DOMAIN trials' |-> trials'[k]]
      /\ \A k \in DOMAIN trials' \ {l} : trials'[k] = trials[k]
  BY <1>1 DEF GymInv, GymTypes
<1>3. \A i \in 1 .. Len(old.events) : old.events[i].sequence = i
  BY <1>1 DEF TrialFits
<1>4. /\ new \in GymTrial /\ new.version = old.version
      /\ Len(new.events) \in Nat /\ Len(old.events) \in Nat /\ Len(new.events) > Len(old.events)
      /\ \A i \in 1 .. Len(new.events) : new.events[i].sequence = i
      /\ \A i \in 1 .. Len(old.events) : new.events[i] = old.events[i]
      /\ \A i \in 1 .. Len(new.events) : i > Len(old.events) => new.events[i].run = OtherRun
  <2>1. OtherRun \in GymLease \cup {OtherRun} /\ new = Booked(old, OtherRun, route, member)
    OBVIOUS
  <2> HIDE DEF old, new
  <2>2. BookingOf(old, new, OtherRun, route, member)
    BY <1>1, <1>3, <2>1, BookedIs
  <2> QED
    BY <2>2 DEF BookingOf
<1> HIDE DEF old, new
<1>5. OtherRun # l
  BY GymAssumption
<1>6. new.events # <<>> /\ Len(new.events) \in 1 .. Len(new.events) /\ new.events[Len(new.events)].run # l
  BY <1>4, <1>5
<1>7. TrialFits(l)'
  <2>1. \A i \in 1 .. Len(new.events) : new.events[i].run = l => i \in 1 .. Len(old.events) /\ new.events[i] = old.events[i]
    BY <1>4, <1>5
  <2>2. \A i \in 1 .. Len(old.events) : i \in 1 .. Len(new.events)
    BY <1>4
  <2>3. Authorizations(new.events, Len(new.events), l) = Authorizations(old.events, Len(old.events), l)
    BY <1>4, <2>1, <2>2 DEF Authorizations
  <2>4. Cardinality(Authorizations(new.events, Len(new.events), l)) = gym[l].booked
    BY <1>1, <2>3 DEF TrialFits, old
  <2>5. \A i \in 1 .. Len(new.events) :
          /\ new.events[i].sequence = i
          /\ new.events[i].run = l => new.events[i].route = gym[l].route /\ new.events[i].member = gym[l].member
    BY <1>1, <1>4, <2>1 DEF TrialFits, old
  <2> QED
    BY <1>1, <1>2, <1>6, <2>4, <2>5, SMTT(30) DEF TrialFits
<1>8. Promised(l)'
  <2>1. Promised(l)
    BY DEF Promised, Explained, GymInv, EvidenceIsOwn
  <2> QED
    BY <1>1, <2>1 DEF Promised
<1>9. (gym[l].route = "human" => gym[l].member = Principal) /\ (gym[l].step = "none" => gym[l].booked = 0)
  BY DEF GymInv
<1> QED
  BY <1>1, <1>2, <1>4, <1>7, <1>8, <1>9, OneLease

\* The page of the lease books.
LEMMA RouteBooksKeeps == ASSUME GymInv, NEW l \in GymLease, RouteBooks(l) PROVE GymInv'
<1> DEFINE old == trials[l]
           new == Booked(old, l, gym[l].route, gym[l].member)
           g == [gym[l] EXCEPT !.booked = @ + 1]
<1>1. /\ l \in DOMAIN trials /\ trials' = [trials EXCEPT ![l] = new] /\ gym[l].step \in {"live", "failed"}
      /\ old \in GymTrial /\ TrialFits(l) /\ gym[l] \in GymRecord /\ DOMAIN trials \subseteq GymLease
      /\ gym[l].route = "human" => gym[l].member = Principal
  BY DEF RouteBooks, Exists, GymInv, GymTypes
<1>2. /\ DOMAIN trials' = DOMAIN trials /\ trials'[l] = new /\ trials' = [k \in DOMAIN trials' |-> trials'[k]]
      /\ \A k \in DOMAIN trials' \ {l} : trials'[k] = trials[k]
  BY <1>1 DEF GymInv, GymTypes
<1>3. /\ g \in GymRecord /\ g.route = gym[l].route /\ g.member = gym[l].member /\ g.step = gym[l].step
      /\ g.booked = gym[l].booked + 1 /\ gym[l].booked \in Nat
      /\ gym' = [gym EXCEPT ![l] = g] /\ gym'[l] = g
  <2>1. gym' = [gym EXCEPT ![l] = [gym[l] EXCEPT !.booked = gym[l].booked + 1]]
    BY DEF RouteBooks
  <2>2. gym[l].booked \in Nat /\ gym \in [GymLease -> GymRecord]
    BY <1>1 DEF GymRecord, GymInv, GymTypes
  <2>3. /\ g \in GymRecord /\ g.route = gym[l].route /\ g.member = gym[l].member /\ g.step = gym[l].step
        /\ g.booked = gym[l].booked + 1
    BY <1>1, <2>2 DEF GymRecord
  <2>4. gym' = [gym EXCEPT ![l] = g]
    BY <2>1
  <2> HIDE DEF g
  <2>5. gym'[l] = g
    BY <2>2, <2>3, <2>4
  <2> QED
    BY <2>2, <2>3, <2>4, <2>5
<1>4. \A i \in 1 .. Len(old.events) :
        /\ old.events[i].sequence = i
        /\ old.events[i].run = l => old.events[i].route = gym[l].route /\ old.events[i].member = gym[l].member
  BY <1>1 DEF TrialFits
<1>5. BookingOf(old, new, l, gym[l].route, gym[l].member)
  <2>1. /\ l \in GymLease \cup {OtherRun} /\ gym[l].route \in Route /\ gym[l].member \in Member
        /\ new = Booked(old, l, gym[l].route, gym[l].member)
    BY <1>1 DEF GymRecord
  <2> HIDE DEF old, new
  <2> QED
    BY <1>1, <1>4, <2>1, BookedIs
<1>6. /\ Cardinality(Authorizations(old.events, Len(old.events), l)) = gym[l].booked
      /\ (\A i \in 1 .. Len(old.events) : old.events[i].run = l) => old.reservations = Outcome(l, old.version)
  BY <1>1 DEF TrialFits
<1> HIDE DEF new, g, old
<1>7. \A i \in 1 .. Len(new.events) :
        /\ new.events[i].sequence = i
        /\ new.events[i].run = l => new.events[i].route = gym[l].route /\ new.events[i].member = gym[l].member
  <2>1. \A i \in 1 .. Len(new.events) : i \in 1 .. Len(old.events) \/ i > Len(old.events)
    BY <1>5 DEF BookingOf
  <2> QED
    BY <1>4, <1>5, <2>1 DEF BookingOf
<1>8. Cardinality(Authorizations(new.events, Len(new.events), l)) = gym[l].booked + 1
  <2> DEFINE n == Len(old.events)
             A == Authorizations(old.events, n, l)
             B == Authorizations(new.events, Len(new.events), l)
  <2>1. n \in Nat /\ n + 1 \in 1 .. Len(new.events) /\ 1 .. n \subseteq 1 .. Len(new.events)
    BY <1>5 DEF BookingOf
  <2>2. ASSUME NEW i \in 1 .. Len(new.events) PROVE i \in B <=> i \in A \cup {n + 1}
    <3>1. CASE i <= n
      BY <1>5, <2>1, <3>1 DEF BookingOf, Authorizations
    <3>2. CASE i > n
      BY <1>5, <2>1, <3>2 DEF BookingOf, Authorizations
    <3> QED
      BY <2>1, <3>1, <3>2
  <2>3. B = A \cup {n + 1} /\ n + 1 \notin A
    BY <2>1, <2>2 DEF Authorizations
  <2>4. IsFiniteSet(A)
    BY <2>1, AuthorizationsFinite
  <2> HIDE DEF A, B
  <2>5. Cardinality(A \cup {n + 1}) = Cardinality(A) + 1
    BY <2>3, <2>4, FS_AddElement
  <2> QED
    BY <1>6, <2>3, <2>5 DEF A, B
<1>9. ASSUME \A i \in 1 .. Len(new.events) : new.events[i].run = l 
      PROVE  new.reservations =
               IF new.version = "vulnerable" /\ gym'[l].route = "agent" /\ gym'[l].booked > 0
               THEN [FreshTrial(new.version).reservations EXCEPT ![gym'[l].member] = "booked_early"]
               ELSE FreshTrial(new.version).reservations
  <2>1. \A i \in 1 .. Len(old.events) : old.events[i].run = l
    BY <1>5, <1>9 DEF BookingOf
  <2>2. old.reservations = Outcome(l, old.version)
    BY <1>6, <2>1
  <2>3. /\ new.version = old.version
        /\ new.reservations = IF old.version = "vulnerable" /\ gym[l].route = "agent"
                              THEN [old.reservations EXCEPT ![gym[l].member] = "booked_early"] ELSE old.reservations
    BY <1>5 DEF BookingOf
  <2>4. gym'[l].booked > 0 /\ gym'[l].route = gym[l].route /\ gym'[l].member = gym[l].member
    BY <1>3
  <2>5. CASE old.version = "vulnerable" /\ gym[l].route = "agent"
    <3> DEFINE first == FreshTrial(old.version).reservations
    <3>1. first \in [Member -> Booking] /\ gym[l].member \in Member
      BY <1>1, FreshTyped DEF GymTrial, GymRecord
    <3> HIDE DEF first
    <3>2. [[first EXCEPT ![gym[l].member] = "booked_early"] EXCEPT ![gym[l].member] = "booked_early"]
             = [first EXCEPT ![gym[l].member] = "booked_early"]
      BY <3>1
    <3>3. old.reservations \in {first, [first EXCEPT ![gym[l].member] = "booked_early"]}
      BY <2>2 DEF Outcome, first
    <3>4. new.reservations = [first EXCEPT ![gym[l].member] = "booked_early"]
      BY <2>3, <2>5, <3>2, <3>3
    <3> QED
      BY <2>3, <2>4, <2>5, <3>4 DEF first
  <2>6. CASE ~(old.version = "vulnerable" /\ gym[l].route = "agent")
    BY <2>2, <2>3, <2>4, <2>6 DEF Outcome
  <2> QED
    BY <2>5, <2>6
<1>10. TrialFits(l)'
  <2>1. trials'[l] = new /\ gym'[l].booked = gym[l].booked + 1 /\ gym'[l].route = gym[l].route /\ gym'[l].member = gym[l].member
    BY <1>2, <1>3
  <2> QED
    BY <1>7, <1>8, <1>9, <2>1 DEF TrialFits, Outcome
<1>11. Promised(l)'
  BY <1>1, <1>3 DEF Promised
<1>12. (g.route = "human" => g.member = Principal) /\ (g.step = "none" => g.booked = 0)
  BY <1>1, <1>3
<1>13. new \in GymTrial
  BY <1>5 DEF BookingOf
<1> QED
  BY <1>1, <1>2, <1>3, <1>10, <1>11, <1>12, <1>13, OneLease

\* E is what a stream of numbered events has at the places I.
Chosen(stream, I, E) ==
  /\ Len(stream) \in Nat /\ \A i \in 1 .. Len(stream) : stream[i].sequence = i
  /\ I \in SUBSET (1 .. Len(stream)) /\ E = {stream[i] : i \in I}

\* A filtered stream without gaps is its beginning.
LEMMA FilteredStream ==
  ASSUME NEW stream, NEW I, NEW E, Chosen(stream, I, E), Consecutive(E)
  PROVE  I = 1 .. Cardinality(E)
<1>0. /\ Len(stream) \in Nat /\ \A i \in 1 .. Len(stream) : stream[i].sequence = i
      /\ I \in SUBSET (1 .. Len(stream)) /\ E = {stream[i] : i \in I}
  BY DEF Chosen
<1>1. {e.sequence : e \in E} = I
  <2> DEFINE T == {e.sequence : e \in E}
  <2>1. ASSUME NEW x \in T PROVE x \in I
    <3>1. PICK e \in E : x = e.sequence
      OBVIOUS
    <3>2. PICK i \in I : e = stream[i]
      BY <1>0
    <3> QED
      BY <1>0, <3>1, <3>2
  <2>2. ASSUME NEW i \in I PROVE i \in T
    <3>1. stream[i] \in E /\ stream[i].sequence = i
      BY <1>0
    <3> QED
      BY <3>1
  <2> HIDE DEF T
  <2>3. T = I
    BY <2>1, <2>2
  <2> QED
    BY <2>3 DEF T
<1> QED
  BY <1>1 DEF Consecutive

\* The evidence is read, and accepted or refused.
LEMMA ReadEvidenceKeeps == ASSUME GymInv, NEW l \in GymLease, ReadEvidence(l) PROVE GymInv'
<1>0. gym[l].step = "ran" /\ UNCHANGED trials
  BY DEF ReadEvidence
<1>2. Exists(l) /\ Consecutive(EvidenceOf(l)) /\ BoundToCall(l, EvidenceOf(l))
  BY DEF ReadEvidence
<1>3. GymInv'
  <2> DEFINE trial == trials[l]
             I == {j \in 1 .. Len(trial.events) : trial.events[j].run = l}
             E == {trial.events[i] : i \in I}
             n == Cardinality(E)
             seen == [events |-> E, stream |-> trial.events, version |-> trial.version, reservations |-> trial.reservations]
             g == [gym[l] EXCEPT !.step = "observed", !.evidence = seen]
  <2>1. /\ l \in DOMAIN trials /\ trial \in GymTrial /\ TrialFits(l) /\ gym[l] \in GymRecord /\ DOMAIN trials \subseteq GymLease
        /\ gym[l].route = "human" => gym[l].member = Principal
        /\ trials = [k \in DOMAIN trials |-> trials[k]]
    BY <1>2 DEF Exists, GymInv, GymTypes
  <2>2. EvidenceOf(l) = E
    BY DEF EvidenceOf
  <2>3. gym' = [gym EXCEPT ![l] = g]
    BY <1>2, <2>2 DEF ReadEvidence
  <2>4. Len(trial.events) \in Nat /\ trial.events \in Seq(GymEvent)
    BY <2>1 DEF GymTrial
  <2>5. \A e \in E : e \in GymEvent
    BY <2>4
  <2>6. seen \in GymEvidence
    BY <2>1, <2>5 DEF GymEvidence, GymTrial
  <2>7. /\ g \in GymRecord /\ g.route = gym[l].route /\ g.member = gym[l].member /\ g.step = "observed"
        /\ g.evidence = seen
    BY <2>1, <2>6 DEF GymRecord
  <2>8. gym'[l] = g
    BY <2>3 DEF GymInv, GymTypes
  <2>9. /\ g.booked = gym[l].booked /\ Cardinality(Authorizations(trial.events, Len(trial.events), l)) = gym[l].booked
        /\ \A i \in 1 .. Len(trial.events) : trial.events[i].sequence = i
        /\ \A i \in I : trial.events[i].route = gym[l].route /\ trial.events[i].member = gym[l].member
        /\ (\A i \in 1 .. Len(trial.events) : trial.events[i].run = l) => trial.reservations = Outcome(l, trial.version)
    BY <2>1 DEF TrialFits, GymRecord
  <2>10. I = 1 .. n
    <3>1. Chosen(trial.events, I, E)
      BY <2>4, <2>9 DEF Chosen
    <3>2. Consecutive(E)
      BY <1>2, <2>2
    <3> HIDE DEF I, E, trial, seen, g
    <3>3. I = 1 .. Cardinality(E)
      BY <3>1, <3>2, FilteredStream
    <3> QED
      BY <3>3
  <2>11. Len(trial.events) = n => trial.reservations = Outcome(l, trial.version)
    <3> SUFFICES ASSUME Len(trial.events) = n PROVE \A i \in 1 .. Len(trial.events) : trial.events[i].run = l
      BY <2>9
    <3>1. \A i \in 1 .. n : i \in I
      BY <2>10
    <3> QED
      BY <3>1
  <2>12. /\ seen.events = E /\ seen.stream = trial.events /\ seen.version = trial.version
         /\ seen.reservations = trial.reservations
    OBVIOUS
  <2>13. E = {trial.events[i] : i \in 1 .. n} /\ \A e \in E : e.route = gym[l].route /\ e.member = gym[l].member
    <3> HIDE DEF I, n
    <3> QED
      BY <2>9, <2>10
  <2>16. {i \in 1 .. n : trial.events[i].kind = "authorization"} = Authorizations(trial.events, Len(trial.events), l)
    <3>1. ASSUME NEW i PROVE i \in 1 .. n <=> i \in 1 .. Len(trial.events) /\ trial.events[i].run = l
      <4>1. i \in 1 .. n <=> i \in I
        BY <2>10
      <4> QED
        BY <4>1
    <3> HIDE DEF n, trial
    <3> QED
      BY <3>1 DEF Authorizations
  <2>14. Promised(l)'
    <3>1. /\ gym'[l].evidence = seen /\ gym'[l].route = gym[l].route /\ gym'[l].member = gym[l].member
          /\ gym'[l].booked = gym[l].booked
      <4> HIDE DEF g, seen
      <4> QED
        BY <2>7, <2>8, <2>9
    <3> DEFINE stream == trial.events
    <3>2. stream = seen.stream /\ E = seen.events /\ n = Cardinality(E)
      BY <2>12
    <3>3. E = {stream[i] : i \in 1 .. n} /\ \A e \in E : e.route = gym[l].route /\ e.member = gym[l].member
      BY <2>13
    <3>4. Len(stream) = n => seen.reservations = Outcome(l, seen.version)
      BY <2>11, <2>12
    <3>7. Cardinality({i \in 1 .. n : stream[i].kind = "authorization"}) = gym[l].booked
      <4> HIDE DEF n
      <4> QED
        BY <2>9, <2>16
    <3> HIDE DEF g, seen, E, I, n, stream
    <3>5. seen.events = {seen.stream[i] : i \in 1 .. Cardinality(seen.events)}
      BY <3>2, <3>3
    <3>6. Explained(seen, gym[l].route, gym[l].member, gym[l].booked)
      BY <3>2, <3>3, <3>4, <3>5, <3>7 DEF Explained, Outcome
    <3> QED
      BY <3>1, <3>6 DEF Promised
  <2> HIDE DEF g, seen, E, I, n
  <2>15. TrialFits(l)'
    <3>1. trials'[l] = trials[l] /\ gym'[l].route = gym[l].route /\ gym'[l].member = gym[l].member /\ gym'[l].booked = gym[l].booked
      BY <1>0, <2>7, <2>8, <2>9
    <3> HIDE DEF trial
    <3> QED
      BY <2>1, <3>1 DEF TrialFits, Outcome
  <2> QED
    BY <1>0, <2>1, <2>3, <2>7, <2>14, <2>15, OneLease
<1> QED
  BY <1>3

\* The fixture deletes a trial or forgets them all, or only deletions go on.
LEMMA GymDeletionKeeps ==
  ASSUME GymInv, UNCHANGED gym,
         trials' = trials \/ trials' = <<>> \/ \E l \in GymLease : Deleted(l)
  PROVE  GymInv'
<1>1. DOMAIN trials' \subseteq DOMAIN trials /\ trials' = [k \in DOMAIN trials' |-> trials'[k]] /\ \A k \in DOMAIN trials' : trials'[k] = trials[k]
  <2>1. CASE trials' = trials
    BY <2>1 DEF GymInv, GymTypes
  <2>2. CASE trials' = <<>>
    BY <2>2
  <2>3. CASE \E l \in GymLease : Deleted(l)
    BY <2>3 DEF Deleted
  <2> QED
    BY <2>1, <2>2, <2>3
<1>2. GymTypes'
  BY <1>1 DEF GymInv, GymTypes
<1>3. ASSUME NEW k \in DOMAIN trials' PROVE TrialFits(k)'
  <2>1. TrialFits(k) /\ trials'[k] = trials[k]
    BY <1>1 DEF GymInv
  <2> QED
    BY <2>1 DEF TrialFits, Outcome
<1>4. EvidenceIsOwn'
  BY DEF GymInv, EvidenceIsOwn
<1> QED
  BY <1>2, <1>3, <1>4 DEF GymInv

\* Every step keeps the invariant of the gym.
LEMMA GymSteps == ASSUME GymInv, [GymNext]_gymVars PROVE GymInv'
<1>1. CASE FixtureRestarts \/ UNCHANGED gymVars
  BY <1>1, GymDeletionKeeps DEF FixtureRestarts, gymVars
<1>2. ASSUME NEW l \in GymLease, \E version \in {"vulnerable", "fixed"}, route \in Route, member \in Member :
               ProvisionTrial(l, version, route, member)
      PROVE  GymInv'
  BY <1>2, GymProvisionKeeps DEF Version
<1>3. ASSUME NEW l \in GymLease, \E route \in Route, member \in Member : StrayBooking(l, route, member) PROVE GymInv'
  BY <1>3, StrayKeeps
<1>4. ASSUME NEW l \in GymLease,
             \/ Provisioned(l) \/ AnswerLost(l) \/ RouteEnds(l) \/ EvidenceFails(l) \/ DescriptorRefused(l) \/ ReleaseCalled(l)
      PROVE  GymInv'
  <2>1. PICK step \in {"live", "unknown", "refused", "ran", "failed", "over"} : GymStep(l, step) /\ UNCHANGED trials
    BY <1>4 DEF Provisioned, AnswerLost, RouteEnds, EvidenceFails, DescriptorRefused, ReleaseCalled
  <2> QED
    BY <2>1, GymStepKeeps
<1>5. ASSUME NEW l \in GymLease, RouteBooks(l) PROVE GymInv'
  BY <1>5, RouteBooksKeeps
<1>6. ASSUME NEW l \in GymLease, ReadEvidence(l) PROVE GymInv'
  BY <1>6, ReadEvidenceKeeps
<1>7. ASSUME NEW l \in GymLease, FixtureDeletes(l) \/ DeletionAnswered(l) \/ DeletionLost(l) PROVE GymInv'
  BY <1>7, GymDeletionKeeps DEF FixtureDeletes, DeletionAnswered, DeletionLost
<1> QED
  BY <1>1, <1>2, <1>3, <1>4, <1>5, <1>6, <1>7 DEF GymNext

\* There are no trials and no leases at first.
LEMMA GymStarts == GymInit => GymInv
<1> SUFFICES ASSUME GymInit PROVE GymInv
  OBVIOUS
<1>1. /\ trials = <<>> /\ DOMAIN trials = {} /\ trials = [l \in DOMAIN trials |-> trials[l]]
      /\ gym = [l \in GymLease |-> [step |-> "none", route |-> "human", member |-> Principal, evidence |-> Unread,
                                    booked |-> 0]]
  BY DEF GymInit
<1>2. GymTypes
  BY <1>1, UnreadTyped DEF GymTypes, GymRecord, Route, Member
<1>3. \A l \in GymLease : gym[l].step = "none" /\ gym[l].member = Principal /\ gym[l].booked = 0
  BY <1>1
<1> QED
  BY <1>1, <1>2, <1>3 DEF GymInv, EvidenceIsOwn

\* Whatever is lost or restarts, whoever else books on a trial and however often the route
\* books: evidence that the adapter accepts is all of the lease's own route, from the
\* beginning of the stream and without a gap.
THEOREM GymEvidenceIsOwn == GymSpec => []EvidenceIsOwn
<1>1. GymInv /\ [GymNext]_gymVars => GymInv'
  BY GymSteps
<1>2. GymInv => EvidenceIsOwn
  BY DEF GymInv
<1> QED
  BY <1>1, <1>2, GymStarts, PTL DEF GymSpec

Deletion == [sent : Nat, answered : Nat, released : BOOLEAN, lost : BOOLEAN]

\* An answer to a deletion, on its way or received, is about a trial that is gone: it was
\* made once, and before anything was asked of it.
ReleaseFits(l) ==
  /\ gym[l].step = "none" => ~Exists(l) /\ ~deletion[l].released /\ deletion[l].sent = 0 /\ deletion[l].answered = 0
  /\ deletion[l].released \/ deletion[l].answered > 0 => ~Exists(l)
  /\ Exists(l) => \/ gym[l].step \in {"asked", "live", "ran", "failed", "observed"}
                  \/ deletion[l].sent > 0
                  \/ deletion[l].lost

ReleaseInv ==
  /\ deletion \in [GymLease -> Deletion]
  /\ \A l \in GymLease : ReleaseFits(l)

\* A step on one lease keeps the invariant if that lease still fits.
LEMMA OneDeletion ==
  ASSUME ReleaseInv, NEW l \in GymLease, \A k \in GymLease \ {l} : gym'[k] = gym[k],
         NEW d \in Deletion, deletion' = [deletion EXCEPT ![l] = d],
         \A k \in GymLease \ {l} : Exists(k)' <=> Exists(k),
         ReleaseFits(l)'
  PROVE  ReleaseInv'
<1>1. deletion' \in [GymLease -> Deletion] /\ \A k \in GymLease \ {l} : deletion'[k] = deletion[k]
  BY DEF ReleaseInv
<1>2. ASSUME NEW k \in GymLease PROVE ReleaseFits(k)'
  <2>1. CASE k # l
    BY <1>1, <2>1 DEF ReleaseInv, ReleaseFits
  <2> QED
    BY <2>1
<1> QED
  BY <1>1, <1>2 DEF ReleaseInv

\* Steps of the adapter and the fixture that have nothing to do with deletion.
LEMMA RouteReleaseKeeps ==
  ASSUME GymInv, ReleaseInv, NEW l \in GymLease,
         \/ Provisioned(l) \/ RouteBooks(l) \/ RouteEnds(l) \/ ReadEvidence(l) \/ EvidenceFails(l)
         \/ \E version \in {"vulnerable", "fixed"}, route \in Route, member \in Member : ProvisionTrial(l, version, route, member)
         \/ \E route \in Route, member \in Member : StrayBooking(l, route, member)
  PROVE  ReleaseInv'
<1>0. gym \in [GymLease -> GymRecord] /\ gym[l] \in GymRecord
  BY DEF GymInv, GymTypes
<1>1. (\A k \in GymLease \ {l} : gym'[k] = gym[k]) /\ UNCHANGED deletion
  BY <1>0 DEF GymStep, Provisioned, RouteBooks, RouteEnds, ReadEvidence, EvidenceFails, ProvisionTrial, StrayBooking
<1>3. deletion[l] \in Deletion /\ deletion' = [deletion EXCEPT ![l] = deletion[l]] /\ ReleaseFits(l)
  BY <1>1 DEF ReleaseInv
<1>4. CASE \E version \in {"vulnerable", "fixed"}, route \in Route, member \in Member : ProvisionTrial(l, version, route, member)
  <2>1. PICK version \in {"vulnerable", "fixed"}, route \in Route, member \in Member : ProvisionTrial(l, version, route, member)
    BY <1>4
  <2>2. gym[l].step = "none" /\ gym' = [gym EXCEPT ![l] = [gym[l] EXCEPT !.step = "asked", !.route = route, !.member = member]]
    BY <2>1 DEF ProvisionTrial
  <2>3. gym'[l].step = "asked" /\ \A k \in GymLease \ {l} : Exists(k)' <=> Exists(k)
    BY <1>0, <2>1, <2>2 DEF ProvisionTrial, Exists, GymRecord
  <2>4. ReleaseFits(l)'
    BY <1>1, <1>3, <2>2, <2>3 DEF ReleaseFits, Deletion
  <2> QED
    BY <1>1, <1>3, <2>3, <2>4, OneDeletion
<1>5. CASE \E route \in Route, member \in Member : StrayBooking(l, route, member)
  <2>1. gym' = gym /\ \A k \in GymLease : Exists(k)' <=> Exists(k)
    BY <1>5 DEF StrayBooking, Exists
  <2>2. ReleaseFits(l)'
    BY <1>1, <1>3, <2>1 DEF ReleaseFits
  <2> QED
    BY <1>1, <1>3, <2>1, <2>2, OneDeletion
<1>6. CASE RouteBooks(l)
  <2>1. gym'[l].step = gym[l].step /\ \A k \in GymLease : Exists(k)' <=> Exists(k)
    BY <1>0, <1>6 DEF RouteBooks, Exists, GymRecord
  <2>2. ReleaseFits(l)'
    BY <1>1, <1>3, <2>1 DEF ReleaseFits
  <2> QED
    BY <1>1, <1>3, <2>1, <2>2, OneDeletion
<1>7. CASE Provisioned(l) \/ RouteEnds(l) \/ ReadEvidence(l) \/ EvidenceFails(l)
  <2>1. \A k \in GymLease : Exists(k)' <=> Exists(k)
    BY <1>7 DEF Provisioned, RouteEnds, ReadEvidence, EvidenceFails, Exists
  <2>2. gym[l].step # "none" /\ gym'[l].step \in {"live", "ran", "failed", "observed"}
    <3>1. CASE Provisioned(l) \/ RouteEnds(l) \/ EvidenceFails(l)
      BY <1>0, <3>1 DEF Provisioned, RouteEnds, EvidenceFails, GymStep, GymRecord
    <3>2. CASE ReadEvidence(l)
      <4> DEFINE seen == [events |-> EvidenceOf(l), stream |-> trials[l].events,
                          version |-> trials[l].version, reservations |-> trials[l].reservations]
      <4>1. gym' = [gym EXCEPT ![l] = [gym[l] EXCEPT !.step = "observed", !.evidence = seen]] /\ gym[l].step = "ran"
        BY <3>2 DEF ReadEvidence
      <4> HIDE DEF seen
      <4> QED
        BY <1>0, <4>1 DEF GymRecord
    <3> QED
      BY <1>7, <3>1, <3>2
  <2>3. ReleaseFits(l)'
    BY <1>1, <1>3, <2>1, <2>2 DEF ReleaseFits
  <2> QED
    BY <1>1, <1>3, <2>1, <2>3, OneDeletion
<1> QED
  BY <1>4, <1>5, <1>6, <1>7

\* A trial has no answer that names it, or is to be deleted.
LEMMA AskToDeleteKeeps ==
  ASSUME GymInv, ReleaseInv, NEW l \in GymLease, AnswerLost(l) \/ DescriptorRefused(l) \/ ReleaseCalled(l)
  PROVE  ReleaseInv'
<1> DEFINE d == [deletion[l] EXCEPT !.lost = deletion'[l].lost, !.sent = deletion'[l].sent]
<1>1. deletion[l] \in Deletion /\ ReleaseFits(l) /\ gym \in [GymLease -> GymRecord] /\ gym[l] \in GymRecord
      /\ deletion \in [GymLease -> Deletion]
  BY DEF ReleaseInv, GymInv, GymTypes
<1>2. /\ \A k \in GymLease \ {l} : gym'[k] = gym[k]
      /\ gym'[l].step \in {"unknown", "refused", "over"} /\ gym[l].step # "none" /\ UNCHANGED trials
  BY <1>1 DEF AnswerLost, DescriptorRefused, ReleaseCalled, GymStep, GymRecord
<1>3. /\ deletion' = [deletion EXCEPT ![l] = d] /\ d \in Deletion /\ deletion'[l] = d
      /\ d.released = deletion[l].released /\ d.answered = deletion[l].answered /\ (d.lost \/ d.sent > 0)
  <2>1. CASE AnswerLost(l)
    BY <1>1, <2>1 DEF AnswerLost, Lost, Deletion
  <2>2. CASE DescriptorRefused(l) \/ ReleaseCalled(l)
    <3> DEFINE e == [deletion[l] EXCEPT !.sent = deletion[l].sent + 1]
    <3>1. deletion' = [deletion EXCEPT ![l] = e]
      BY <2>2 DEF DescriptorRefused, ReleaseCalled, DeletionSent, AfterRefusal
    <3>2. /\ e \in Deletion /\ e.sent = deletion[l].sent + 1 /\ e.released = deletion[l].released
          /\ e.answered = deletion[l].answered /\ e.lost = deletion[l].lost
      BY <1>1 DEF Deletion
    <3>3. e = [deletion[l] EXCEPT !.lost = e.lost, !.sent = e.sent]
      BY <1>1, <3>2 DEF Deletion
    <3>4. deletion'[l] = e /\ deletion[l].sent \in Nat
      BY <1>1, <3>1 DEF Deletion
    <3> HIDE DEF e
    <3>5. d = [deletion[l] EXCEPT !.lost = e.lost, !.sent = e.sent]
      BY <3>4
    <3>6. d = e
      BY <3>3, <3>5
    <3> HIDE DEF d
    <3> QED
      BY <3>1, <3>2, <3>4, <3>6
  <2> QED
    BY <2>1, <2>2
<1> HIDE DEF d
<1>4. \A k \in GymLease : Exists(k)' <=> Exists(k)
  BY <1>2 DEF Exists
<1>5. ReleaseFits(l)'
  BY <1>1, <1>2, <1>3, <1>4 DEF ReleaseFits
<1> QED
  BY <1>2, <1>3, <1>4, <1>5, OneDeletion

\* Two fields of one lease's deletion change together.
LEMMA TwoFields ==
  ASSUME deletion \in [GymLease -> Deletion], NEW l \in GymLease
  PROVE  /\ [deletion EXCEPT ![l].answered = @ - 1, ![l].released = TRUE]
              = [deletion EXCEPT ![l] = [deletion[l] EXCEPT !.answered = @ - 1, !.released = TRUE]]
         /\ [deletion EXCEPT ![l].answered = @ - 1, ![l].lost = TRUE]
              = [deletion EXCEPT ![l] = [deletion[l] EXCEPT !.answered = @ - 1, !.lost = TRUE]]
         /\ [deletion EXCEPT ![l].sent = @ - 1, ![l].lost = TRUE]
              = [deletion EXCEPT ![l] = [deletion[l] EXCEPT !.sent = @ - 1, !.lost = TRUE]]
<1> DEFINE one(d) == [deletion EXCEPT ![l] = d]
<1>1. ASSUME NEW d, NEW e PROVE [one(d) EXCEPT ![l] = e] = one(e) /\ one(d)[l] = d
  OBVIOUS
<1> DEFINE a == [deletion[l] EXCEPT !.answered = deletion[l].answered - 1]
           s == [deletion[l] EXCEPT !.sent = deletion[l].sent - 1]
<1>2. [one(a) EXCEPT ![l] = [one(a)[l] EXCEPT !.released = TRUE]] = one([a EXCEPT !.released = TRUE])
  BY <1>1
<1>3. [one(a) EXCEPT ![l] = [one(a)[l] EXCEPT !.lost = TRUE]] = one([a EXCEPT !.lost = TRUE])
  BY <1>1
<1>4. [one(s) EXCEPT ![l] = [one(s)[l] EXCEPT !.lost = TRUE]] = one([s EXCEPT !.lost = TRUE])
  BY <1>1
<1> QED
  BY <1>2, <1>3, <1>4

\* What such a change leaves as it was.
LEMMA FieldsOf ==
  ASSUME NEW e \in Deletion
  PROVE  /\ e.answered > 0 => LET d == [e EXCEPT !.answered = @ - 1, !.released = TRUE] IN
                             d \in Deletion /\ d.sent = e.sent /\ d.lost = e.lost
         /\ e.answered > 0 => LET d == [e EXCEPT !.answered = @ - 1, !.lost = TRUE] IN
                             d \in Deletion /\ d.sent = e.sent /\ d.lost /\ d.released = e.released /\ d.answered <= e.answered
         /\ e.sent > 0 => LET d == [e EXCEPT !.sent = @ - 1, !.lost = TRUE] IN
                          d \in Deletion /\ d.answered = e.answered /\ d.lost /\ d.released = e.released /\ d.sent <= e.sent
<1>1. \A n \in Nat : /\ [e EXCEPT !.answered = n, !.released = TRUE] \in Deletion
                     /\ [e EXCEPT !.answered = n, !.lost = TRUE] \in Deletion
                     /\ [e EXCEPT !.sent = n, !.lost = TRUE] \in Deletion
  BY DEF Deletion
<1>2. (e.answered > 0 => e.answered - 1 \in Nat /\ e.answered - 1 <= e.answered) /\ (e.sent > 0 => e.sent - 1 \in Nat /\ e.sent - 1 <= e.sent)
  BY DEF Deletion
<1>3. \A n \in Nat : [e EXCEPT !.answered = n, !.released = TRUE].sent = e.sent
                     /\ [e EXCEPT !.answered = n, !.released = TRUE].lost = e.lost
  BY Zenon DEF Deletion
<1>4. \A n \in Nat : LET d == [e EXCEPT !.answered = n, !.lost = TRUE] IN
        d.sent = e.sent /\ d.lost /\ d.released = e.released /\ d.answered = n
  BY Zenon DEF Deletion
<1>5. \A n \in Nat : LET d == [e EXCEPT !.sent = n, !.lost = TRUE] IN
        d.answered = e.answered /\ d.lost /\ d.released = e.released /\ d.sent = n
  BY Zenon DEF Deletion
<1> QED
  BY <1>1, <1>2, <1>3, <1>4, <1>5

\* A deletion is served, answered or lost.
LEMMA DeletionGoesOn ==
  ASSUME GymInv, ReleaseInv, NEW l \in GymLease, FixtureDeletes(l) \/ DeletionAnswered(l) \/ DeletionLost(l)
  PROVE  ReleaseInv'
<1>1. deletion[l] \in Deletion /\ ReleaseFits(l) /\ UNCHANGED gym /\ deletion \in [GymLease -> Deletion]
      /\ trials = [k \in DOMAIN trials |-> trials[k]]
  BY DEF GymInv, GymTypes, ReleaseInv, FixtureDeletes, DeletionAnswered, DeletionLost
<1>2. CASE FixtureDeletes(l)
  <2> DEFINE d == [deletion[l] EXCEPT !.sent = @ - 1, !.answered = @ + 1]
  <2>1. /\ deletion' = [deletion EXCEPT ![l] = d] /\ d \in Deletion /\ deletion[l].sent > 0
        /\ DOMAIN trials' = DOMAIN trials \ {l}
    BY <1>1, <1>2 DEF FixtureDeletes, Deleted, Deletion
  <2> HIDE DEF d
  <2>3. ReleaseFits(l)'
    <3>1. ~Exists(l)' /\ gym[l].step \notin {"none"}
      BY <1>1, <2>1 DEF Exists, ReleaseFits
    <3> QED
      BY <1>1, <3>1 DEF ReleaseFits
  <2>2. ~Exists(l)' /\ (\A k \in GymLease \ {l} : Exists(k)' <=> Exists(k)) /\ gym[l].step # "none"
        /\ (gym[l].step = "asked" => ~Exists(l)')
    BY <1>1, <2>1 DEF Exists, ReleaseFits
  <2> QED
    BY <1>1, <2>1, <2>2, <2>3, OneDeletion
<1>3. CASE DeletionAnswered(l)
  <2> DEFINE d == [deletion[l] EXCEPT !.answered = @ - 1, !.released = TRUE]
  <2>1. /\ deletion' = [deletion EXCEPT ![l] = d] /\ d \in Deletion /\ deletion[l].answered > 0 /\ deletion'[l] = d
        /\ d.sent = deletion[l].sent /\ d.lost = deletion[l].lost
    <3>1. deletion' = [deletion EXCEPT ![l].answered = @ - 1, ![l].released = TRUE] /\ deletion[l].answered > 0
      BY <1>3 DEF DeletionAnswered
    <3>2. d \in Deletion /\ d.sent = deletion[l].sent /\ d.lost = deletion[l].lost
      BY <1>1, <3>1, FieldsOf
    <3>3. deletion' = [deletion EXCEPT ![l] = d]
      BY <1>1, <3>1, TwoFields
    <3> HIDE DEF d
    <3> QED
      BY <1>1, <3>1, <3>2, <3>3
  <2>2. ~Exists(l) /\ gym[l].step # "none" /\ \A k \in GymLease : Exists(k)' <=> Exists(k)
    BY <1>1, <1>3, <2>1 DEF DeletionAnswered, Exists, ReleaseFits, Deletion
  <2>3. ReleaseFits(l)'
    BY <1>1, <2>1, <2>2 DEF ReleaseFits
  <2> QED
    BY <1>1, <2>1, <2>2, <2>3, OneDeletion
<1>4. CASE DeletionLost(l)
  <2>1. PICK d \in Deletion :
          /\ deletion' = [deletion EXCEPT ![l] = d] /\ d.lost /\ d.released = deletion[l].released
          /\ d.sent <= deletion[l].sent /\ d.answered <= deletion[l].answered
    <3>1. CASE deletion[l].sent > 0 /\ deletion' = [deletion EXCEPT ![l].sent = @ - 1, ![l].lost = TRUE]
      <4> DEFINE d == [deletion[l] EXCEPT !.sent = @ - 1, !.lost = TRUE]
      <4>1. /\ d \in Deletion /\ d.lost /\ d.released = deletion[l].released
            /\ d.sent <= deletion[l].sent /\ d.answered <= deletion[l].answered
        <5>1. deletion[l].sent \in Nat /\ deletion[l].answered \in Nat
          BY <1>1 DEF Deletion
        <5>2. deletion[l] \in Deletion /\ deletion[l].sent > 0
          BY <1>1, <3>1
        <5>3. LET e == [deletion[l] EXCEPT !.sent = deletion[l].sent - 1, !.lost = TRUE] IN
              /\ e \in Deletion /\ e.lost /\ e.released = deletion[l].released
              /\ e.answered = deletion[l].answered /\ e.sent <= deletion[l].sent
          BY <5>2, FieldsOf
        <5> HIDE DEF d
        <5> QED
          BY <5>1, <5>3 DEF d
      <4>2. deletion' = [deletion EXCEPT ![l] = d]
        BY <1>1, <3>1, TwoFields
      <4> HIDE DEF d
      <4> QED
        BY <4>1, <4>2
    <3>2. CASE deletion[l].answered > 0 /\ deletion' = [deletion EXCEPT ![l].answered = @ - 1, ![l].lost = TRUE]
      <4> DEFINE d == [deletion[l] EXCEPT !.answered = @ - 1, !.lost = TRUE]
      <4>1. /\ d \in Deletion /\ d.lost /\ d.released = deletion[l].released
            /\ d.sent <= deletion[l].sent /\ d.answered <= deletion[l].answered
        <5>1. deletion[l].sent \in Nat /\ deletion[l].answered \in Nat
          BY <1>1 DEF Deletion
        <5>2. deletion[l] \in Deletion /\ deletion[l].answered > 0
          BY <1>1, <3>2
        <5>3. LET e == [deletion[l] EXCEPT !.answered = deletion[l].answered - 1, !.lost = TRUE] IN
              /\ e \in Deletion /\ e.lost /\ e.released = deletion[l].released
              /\ e.sent = deletion[l].sent /\ e.answered <= deletion[l].answered
          BY <5>2, FieldsOf
        <5> HIDE DEF d
        <5> QED
          BY <5>1, <5>3 DEF d
      <4>2. deletion' = [deletion EXCEPT ![l] = d]
        BY <1>1, <3>2, TwoFields
      <4> HIDE DEF d
      <4> QED
        BY <4>1, <4>2
    <3> QED
      BY <1>4, <3>1, <3>2 DEF DeletionLost
  <2>2. deletion'[l] = d /\ \A k \in GymLease : Exists(k)' <=> Exists(k)
    BY <1>4, <2>1 DEF DeletionLost, Exists, ReleaseInv
  <2>3. ReleaseFits(l)'
    BY <1>1, <2>1, <2>2 DEF ReleaseFits, Deletion
  <2> QED
    BY <1>1, <2>1, <2>2, <2>3, OneDeletion
<1> QED
  BY <1>2, <1>3, <1>4

\* Every step keeps what is said of deletions.
LEMMA ReleaseSteps == ASSUME GymInv, ReleaseInv, [GymNext]_gymVars PROVE ReleaseInv'
<1>1. CASE FixtureRestarts
  <2>1. UNCHANGED <<gym, deletion>> /\ \A l \in GymLease : ~Exists(l)'
    BY <1>1 DEF FixtureRestarts, Exists
  <2> QED
    BY <2>1 DEF ReleaseInv, ReleaseFits
<1>2. CASE UNCHANGED gymVars
  BY <1>2 DEF gymVars, ReleaseInv, ReleaseFits, Exists
<1> QED
  BY <1>1, <1>2, RouteReleaseKeeps, AskToDeleteKeeps, DeletionGoesOn DEF GymNext

\* A released lease has left no trial, and a trial that is neither held nor about to be
\* deleted had an exchange with the fixture fail.
THEOREM NoTrialIsLeft == GymSpec => []TrialsAreReleased
<1>1. GymInit => ReleaseInv
  BY DEF GymInit, ReleaseInv, ReleaseFits, Exists, Deletion
<1>2. GymInv /\ ReleaseInv /\ [GymNext]_gymVars => GymInv' /\ ReleaseInv'
  BY GymSteps, ReleaseSteps
<1>3. ReleaseInv => TrialsAreReleased
  BY DEF ReleaseInv, ReleaseFits, TrialsAreReleased
<1> QED
  BY <1>1, <1>2, <1>3, GymStarts, PTL DEF GymSpec

-----------------------------------------------------------------------------
(* The checkout page *)

RunRecord == [kind : {"idle", "running", "complete"}, play : Nat, mode : Mode \cup {Unresolved}, events : Nat]
Registration == [mode : Mode, state : {"pending", "registered", "failed"}, aborted : BOOLEAN]
UiRecord ==
  [context : BOOLEAN, resolution : Mode \cup {Unresolved}, epoch : Nat, effects : Nat,
   webMcp : {"checking", "registering", "registered", "failed", "unavailable"},
   active : Nat, next : Mode \cup {Unresolved}, run : [Panel -> RunRecord], plays : Nat, mounted : BOOLEAN,
   latest : [Panel -> Nat]]

PageTypes ==
  /\ ui \in UiRecord
  /\ registrations \in Seq(Registration)
  /\ timers \subseteq [panel : Panel, play : Nat, mode : Mode, event : Nat]
  /\ url \in Mode

\* The mode is resolved and its effects have run.
InMode == ui.resolution # Unresolved /\ ui.effects = ui.epoch

\* What the page resolves is what its URL asks for, and it is locked until the effects have run.
ModesFit ==
  /\ ui.resolution # Unresolved => ui.resolution = url
  /\ ui.next # Unresolved => ui.next = url /\ ui.resolution = Unresolved
  /\ ui.epoch = 0 => ui.resolution = Unresolved /\ ui.next = Unresolved
  /\ ui.effects <= ui.epoch
  /\ ui.resolution = Unresolved => ui.effects = ui.epoch
  /\ ui.resolution = Unresolved \/ ui.effects # ui.epoch => ui.webMcp = "checking"
  /\ ui.webMcp = "checking" => ui.active = 0
  /\ ~ui.mounted => ui.next = Unresolved /\ ui.active = 0 /\ timers = {} /\ published = NoEvidence

\* Only the active registration is not aborted, and it is of the mode that the URL asks for.
RegistrationsFit ==
  /\ ui.active \in 0 .. Len(registrations)
  /\ \A id \in 1 .. Len(registrations) : ~registrations[id].aborted => id = ui.active /\ registrations[id].mode = url
  /\ ~ui.context => registrations = <<>>

\* What is shown of a route, and what is still to come, is of its latest timeline; once the
\* effects of a mode have run, also of that mode.
TimelinesFit ==
  /\ \A t \in timers : t.play = ui.latest[t.panel] /\ (InMode => t.mode = url)
  /\ \A p \in Panel : ui.run[p] = IdleRun \/ (ui.run[p].play = ui.latest[p] /\ (InMode => ui.run[p].mode = url))

PublishedFits ==
  published # NoEvidence =>
    /\ InMode /\ published.mode = url
    /\ published.human = IdleRun \/ published.human.mode = url
    /\ published.agent = IdleRun \/ published.agent.mode = url

PageInv == PageTypes /\ ModesFit /\ RegistrationsFit /\ TimelinesFit /\ PublishedFits

\* What is idle, and what the page's own record holds.
LEMMA UiFields ==
  ASSUME PageTypes
  PROVE  /\ ui.context \in BOOLEAN /\ ui.resolution \in Mode \cup {Unresolved} /\ ui.next \in Mode \cup {Unresolved}
         /\ ui.epoch \in Nat /\ ui.effects \in Nat /\ ui.active \in Nat /\ ui.plays \in Nat /\ ui.mounted \in BOOLEAN
         /\ ui.run \in [Panel -> RunRecord] /\ ui.latest \in [Panel -> Nat]
         /\ ui.webMcp \in {"checking", "registering", "registered", "failed", "unavailable"}
         /\ Len(registrations) \in Nat /\ Unresolved \notin Mode
BY DEF PageTypes, UiRecord, Unresolved, Mode

\* A route that was never played.
LEMMA IdleTyped == IdleRun \in RunRecord
BY DEF IdleRun, RunRecord

\* An aborted registration stays where it was; without the active one none is left.
LEMMA Aborted ==
  ASSUME PageTypes, RegistrationsFit, NEW r, r = Abort(ui.active)
  PROVE  /\ r \in Seq(Registration) /\ Len(r) = Len(registrations)
         /\ \A id \in 1 .. Len(r) : r[id] \in Registration /\ r[id].aborted
         /\ ~ui.context => r = <<>>
<1>1. registrations \in Seq(Registration) /\ Len(registrations) \in Nat /\ ui.active \in 0 .. Len(registrations)
  BY DEF PageTypes, RegistrationsFit
<1>0. \A id \in 1 .. Len(registrations) : registrations[id] \in Registration
  BY <1>1
<1>2. CASE ui.active = 0
  <2>1. r = registrations
    BY <1>2 DEF Abort
  <2>2. \A id \in 1 .. Len(r) : r[id] \in Registration /\ r[id].aborted
    BY <1>0, <1>1, <1>2, <2>1 DEF RegistrationsFit
  <2> QED
    BY <1>1, <2>1, <2>2 DEF RegistrationsFit
<1>3. CASE ui.active # 0
  <2> DEFINE a == ui.active
             new == [registrations[a] EXCEPT !.aborted = TRUE]
  <2>1. a \in 1 .. Len(registrations) /\ registrations[a] \in Registration
    BY <1>1, <1>3
  <2>2. new \in Registration /\ new.aborted
    BY <2>1 DEF Registration
  <2>3. r = [registrations EXCEPT ![a] = new]
    BY <1>3 DEF Abort
  <2> HIDE DEF new
  <2>4. r \in Seq(Registration) /\ Len(r) = Len(registrations)
    BY <1>1, <2>1, <2>2, <2>3
  <2>5. \A id \in 1 .. Len(r) : r[id] = IF id = a THEN new ELSE registrations[id]
    BY <1>1, <2>3, <2>4
  <2>6. \A id \in 1 .. Len(r) : r[id] \in Registration /\ r[id].aborted
    BY <1>0, <1>1, <2>1, <2>2, <2>4, <2>5 DEF RegistrationsFit
  <2>7. ui.context
    BY <1>1, <2>1 DEF RegistrationsFit, PageTypes, UiRecord
  <2> QED
    BY <2>4, <2>6, <2>7
<1> QED
  BY <1>2, <1>3

\* A timeline of the page's mode begins, in place of an earlier one of its route.
LEMMA PlayKeeps ==
  ASSUME PageInv, ui.mounted, NEW panel \in Panel, Play(panel, url), UNCHANGED <<registrations, url, published>>
  PROVE  PageInv'
<1> DEFINE n == ui.plays + 1
           new == {[panel |-> panel, play |-> n, mode |-> url, event |-> i] : i \in 1 .. Len(Timeline(panel, url))}
           run == [kind |-> "running", play |-> n, mode |-> url, events |-> 0]
           u == [ui EXCEPT !.plays = n, !.latest = [ui.latest EXCEPT ![panel] = n], !.run = [ui.run EXCEPT ![panel] = run]]
<1>1. timers' = {t \in timers : t.panel # panel} \cup new /\ ui' = u /\ url \in Mode /\ n \in Nat
  <2>1. n \in Nat
    BY UiFields DEF PageInv
  <2>2. timers' = ClearTimers(timers, {panel}) \cup new
    BY DEF Play
  <2>3. ui' = u
    BY DEF Play
  <2> QED
    BY <2>1, <2>2, <2>3 DEF ClearTimers, PageInv, PageTypes
<1>2. run \in RunRecord /\ run.play = n /\ run.mode = url
  BY <1>1 DEF RunRecord
<1>3. \A t \in new : /\ t \in [panel : Panel, play : Nat, mode : Mode, event : Nat]
                     /\ t.panel = panel /\ t.play = n /\ t.mode = url
  BY <1>1
<1> HIDE DEF new, run
<1>4. /\ ui' \in UiRecord
      /\ ui'.context = ui.context /\ ui'.resolution = ui.resolution /\ ui'.epoch = ui.epoch /\ ui'.effects = ui.effects
      /\ ui'.webMcp = ui.webMcp /\ ui'.active = ui.active /\ ui'.next = ui.next /\ ui'.mounted = ui.mounted
      /\ ui'.latest = [ui.latest EXCEPT ![panel] = n] /\ ui'.run = [ui.run EXCEPT ![panel] = run]
  BY <1>1, <1>2, UiFields DEF PageInv, PageTypes, UiRecord
<1>5. PageTypes'
  BY <1>1, <1>3, <1>4 DEF PageInv, PageTypes
<1>6. ModesFit' /\ RegistrationsFit' /\ InMode' = InMode
  BY <1>4 DEF PageInv, ModesFit, RegistrationsFit, InMode
<1>7. TimelinesFit'
  <2>1. /\ ui'.latest[panel] = n /\ ui'.run[panel] = run
        /\ \A p \in Panel \ {panel} : ui'.latest[p] = ui.latest[p] /\ ui'.run[p] = ui.run[p]
    BY <1>4, UiFields DEF PageInv
  <2>2. ASSUME NEW t \in timers' PROVE t.play = ui'.latest[t.panel] /\ (InMode => t.mode = url)
    <3>1. CASE t \in new
      BY <1>3, <2>1, <3>1
    <3>2. CASE t \in timers /\ t.panel # panel
      <4>1. t.panel \in Panel \ {panel}
        BY <3>2 DEF PageInv, PageTypes
      <4> QED
        BY <2>1, <3>2, <4>1 DEF PageInv, TimelinesFit
    <3> QED
      BY <1>1, <3>1, <3>2
  <2>3. ASSUME NEW p \in Panel PROVE ui'.run[p] = IdleRun \/ (ui'.run[p].play = ui'.latest[p] /\ (InMode => ui'.run[p].mode = url))
    <3>1. CASE p = panel
      BY <1>2, <2>1, <3>1
    <3>2. CASE p # panel
      BY <2>1, <3>2 DEF PageInv, TimelinesFit
    <3> QED
      BY <3>1, <3>2
  <2> QED
    BY <1>6, <2>2, <2>3 DEF TimelinesFit
<1>8. PublishedFits'
  BY <1>6 DEF PageInv, PublishedFits
<1> QED
  BY <1>5, <1>6, <1>7, <1>8 DEF PageInv

\* An event of a timeline is shown.
LEMMA TimerKeeps == ASSUME PageInv, NEW t \in timers, TimerFires(t) PROVE PageInv'
<1> DEFINE last == Len(Timeline(t.panel, t.mode))
           run == [kind |-> IF t.event = last THEN "complete" ELSE "running", play |-> t.play, mode |-> t.mode, events |-> t.event]
           u == [ui EXCEPT !.run = [ui.run EXCEPT ![t.panel] = run]]
<1>1. /\ timers' = timers \ {t} /\ ui' = u /\ UNCHANGED <<registrations, calls, url, published>>
      /\ t.panel \in Panel /\ t.play \in Nat /\ t.mode \in Mode /\ t.event \in Nat
  BY DEF TimerFires, PageInv, PageTypes
<1>2. run \in RunRecord /\ run.play = t.play /\ run.mode = t.mode
  BY <1>1 DEF RunRecord
<1> HIDE DEF run
<1>3. /\ ui' \in UiRecord
      /\ ui'.context = ui.context /\ ui'.resolution = ui.resolution /\ ui'.epoch = ui.epoch /\ ui'.effects = ui.effects
      /\ ui'.webMcp = ui.webMcp /\ ui'.active = ui.active /\ ui'.next = ui.next /\ ui'.mounted = ui.mounted
      /\ ui'.latest = ui.latest /\ ui'.run = [ui.run EXCEPT ![t.panel] = run]
  BY <1>1, <1>2, UiFields DEF PageInv, PageTypes, UiRecord
<1>4. PageTypes'
  BY <1>1, <1>3 DEF PageInv, PageTypes
<1>5. ModesFit' /\ RegistrationsFit' /\ InMode' = InMode
  BY <1>1, <1>3 DEF PageInv, ModesFit, RegistrationsFit, InMode
<1>6. TimelinesFit'
  <2>1. \A p \in Panel : ui'.run[p] = IF p = t.panel THEN run ELSE ui.run[p]
    BY <1>3, UiFields DEF PageInv
  <2>2. run.play = ui.latest[t.panel] /\ (InMode => run.mode = url)
    BY <1>2 DEF PageInv, TimelinesFit
  <2> QED
    BY <1>1, <1>3, <1>5, <2>1, <2>2 DEF PageInv, TimelinesFit
<1>7. PublishedFits'
  BY <1>1, <1>5 DEF PageInv, PublishedFits
<1> QED
  BY <1>4, <1>5, <1>6, <1>7 DEF PageInv

\* A button is pressed, and its route plays in the page's mode.
LEMMA PressKeeps == ASSUME PageInv, NEW panel \in Panel, PressRun(panel) PROVE PageInv'
<1>1. ui.mounted /\ ui.resolution # Unresolved /\ Play(panel, ui.resolution) /\ UNCHANGED <<registrations, calls, url, published>>
  BY DEF PressRun, Locked
<1>2. ui.resolution = url
  BY <1>1 DEF PageInv, ModesFit
<1> QED
  BY <1>1, <1>2, PlayKeeps

\* A tool call arrives: played if its registration is the active one, refused otherwise.
LEMMA CallKeeps ==
  ASSUME PageInv, NEW id \in 1 .. Len(registrations), CallArrives(id) PROVE PageInv'
<1>1. CASE StillActive(id) /\ Play("agent", registrations[id].mode)
  <2>1. id = ui.active /\ registrations[id].mode = url
    BY <1>1 DEF StillActive, PageInv, RegistrationsFit
  <2>2. ui.mounted
    BY <2>1, UiFields DEF PageInv, ModesFit
  <2> QED
    BY <1>1, <2>1, <2>2, PlayKeeps DEF CallArrives, Panel
<1>2. CASE UNCHANGED <<ui, timers>>
  BY <1>2 DEF CallArrives, PageInv, PageTypes, ModesFit, RegistrationsFit, TimelinesFit, PublishedFits, InMode
<1> QED
  BY <1>1, <1>2 DEF CallArrives

\* The browser answers a registration.
LEMMA SettleKeeps ==
  ASSUME PageInv, NEW id \in 1 .. Len(registrations), NEW outcome \in {"registered", "failed"},
         RegistrationSettles(id, outcome)
  PROVE  PageInv'
<1> DEFINE old == registrations[id]
           new == IF old.aborted THEN [old EXCEPT !.state = outcome]
                  ELSE [old EXCEPT !.state = outcome, !.aborted = (outcome = "failed")]
           u == [ui EXCEPT !.webMcp = outcome, !.active = IF outcome = "failed" THEN 0 ELSE ui.active]
<1>1. /\ old \in Registration /\ registrations \in Seq(Registration) /\ Len(registrations) \in Nat
      /\ ~old.aborted => id = ui.active
  BY DEF PageInv, PageTypes, RegistrationsFit
<1>2. /\ new \in Registration /\ new.mode = old.mode
      /\ new.aborted = IF old.aborted THEN TRUE ELSE outcome = "failed"
  BY <1>1 DEF Registration
<1>3. /\ registrations' = [registrations EXCEPT ![id] = new] /\ ui' = IF old.aborted THEN ui ELSE u
      /\ UNCHANGED <<timers, calls, url, published>>
  BY DEF RegistrationSettles
<1> HIDE DEF new
<1>4. /\ registrations' \in Seq(Registration) /\ Len(registrations') = Len(registrations)
      /\ \A k \in 1 .. Len(registrations') : registrations'[k] = IF k = id THEN new ELSE registrations[k]
  BY <1>1, <1>2, <1>3
<1>5. /\ ui' \in UiRecord
      /\ ui'.context = ui.context /\ ui'.resolution = ui.resolution /\ ui'.epoch = ui.epoch /\ ui'.effects = ui.effects
      /\ ui'.next = ui.next /\ ui'.mounted = ui.mounted /\ ui'.latest = ui.latest /\ ui'.run = ui.run
      /\ ui'.webMcp = IF old.aborted THEN ui.webMcp ELSE outcome
      /\ ui'.active = IF ~old.aborted /\ outcome = "failed" THEN 0 ELSE ui.active
  BY <1>3, UiFields DEF PageInv, PageTypes, UiRecord
<1> HIDE DEF old
<1>6. PageTypes'
  BY <1>3, <1>4, <1>5 DEF PageInv, PageTypes
<1>7. InMode' = InMode
  BY <1>5 DEF InMode
<1>8. ModesFit'
  <2>1. ~old.aborted => ui.active # 0 /\ ui.webMcp # "checking"
    BY <1>1 DEF PageInv, ModesFit
  <2> QED
    BY <1>3, <1>5, <2>1 DEF PageInv, ModesFit
<1>9. RegistrationsFit'
  <2>1. ui'.active \in 0 .. Len(registrations')
    BY <1>4, <1>5 DEF PageInv, RegistrationsFit
  <2>2. ASSUME NEW k \in 1 .. Len(registrations'), ~registrations'[k].aborted
        PROVE  k = ui'.active /\ registrations'[k].mode = url'
    <3>1. registrations[k].mode = registrations'[k].mode /\ ~registrations[k].aborted
      BY <1>2, <1>4, <2>2 DEF old
    <3>2. k = ui.active /\ registrations[k].mode = url
      BY <1>4, <3>1 DEF PageInv, RegistrationsFit
    <3>3. ~(~old.aborted /\ outcome = "failed")
      BY <1>1, <1>2, <1>4, <2>2, <3>2
    <3> QED
      BY <1>3, <1>5, <3>1, <3>2, <3>3
  <2>3. ui'.context
    BY <1>1, <1>5, UiFields DEF PageInv, RegistrationsFit
  <2> QED
    BY <2>1, <2>2, <2>3 DEF RegistrationsFit
<1>10. TimelinesFit' /\ PublishedFits'
  BY <1>3, <1>5, <1>7 DEF PageInv, TimelinesFit, PublishedFits
<1> QED
  BY <1>6, <1>8, <1>9, <1>10 DEF PageInv

\* A mode is resolved: from the URL, or by the timer of a switch.
LEMMA ResolveKeeps == ASSUME PageInv, ResolveFromUrl \/ ResolveNext PROVE PageInv'
<1>1. /\ UNCHANGED <<registrations, timers, calls, url, published>>
      /\ ui.resolution = Unresolved /\ url \in Mode /\ ui.mounted
      /\ ui' \in {[ui EXCEPT !.resolution = url, !.epoch = ui.epoch + 1],
                  [ui EXCEPT !.resolution = url, !.epoch = ui.epoch + 1, !.next = Unresolved]}
      /\ ui' = [ui EXCEPT !.resolution = url, !.epoch = ui.epoch + 1] => ui.next = Unresolved
  <2>1. CASE ResolveFromUrl
    BY <2>1 DEF ResolveFromUrl, PageInv, ModesFit, PageTypes
  <2>2. CASE ResolveNext
    <3>1. ui.next # Unresolved /\ ui.next = url /\ ui' = [ui EXCEPT !.resolution = ui.next, !.epoch = ui.epoch + 1, !.next = Unresolved]
      BY <2>2 DEF ResolveNext, PageInv, ModesFit
    <3>2. ui'.next = Unresolved /\ ui.mounted
      BY <3>1 DEF PageInv, PageTypes, UiRecord, ModesFit
    <3>3. ui' = [ui EXCEPT !.resolution = url, !.epoch = ui.epoch + 1] => ui'.next = ui.next
      BY DEF PageInv, PageTypes, UiRecord
    <3> QED
      BY <2>2, <3>1, <3>2, <3>3 DEF ResolveNext, PageInv, ModesFit, PageTypes
  <2> QED
    BY <2>1, <2>2
<1>2. /\ ui' \in UiRecord
      /\ ui'.context = ui.context /\ ui'.resolution = url /\ ui'.epoch = ui.epoch + 1 /\ ui'.effects = ui.effects
      /\ ui'.next = Unresolved /\ ui'.mounted = ui.mounted /\ ui'.latest = ui.latest /\ ui'.run = ui.run
      /\ ui'.webMcp = ui.webMcp /\ ui'.active = ui.active
  <2>0. url \in Mode \cup {Unresolved} /\ ui.epoch + 1 \in Nat /\ Unresolved \in Mode \cup {Unresolved} /\ ui \in UiRecord
    BY <1>1, UiFields DEF PageInv, PageTypes
  <2>1. CASE ui' = [ui EXCEPT !.resolution = url, !.epoch = ui.epoch + 1]
    <3>1. ui.next = Unresolved
      BY <1>1, <2>1
    <3> QED
      BY <2>0, <2>1, <3>1 DEF UiRecord
  <2>2. CASE ui' = [ui EXCEPT !.resolution = url, !.epoch = ui.epoch + 1, !.next = Unresolved]
    BY <2>0, <2>2 DEF UiRecord
  <2> QED
    BY <1>1, <2>1, <2>2
<1>3. ui.webMcp = "checking" /\ ui.effects < ui'.epoch /\ ui'.epoch # 0
  BY <1>1, <1>2, UiFields DEF PageInv, ModesFit
<1>4. PageTypes'
  BY <1>1, <1>2 DEF PageInv, PageTypes
<1>5. ~InMode /\ ~InMode'
  BY <1>1, <1>2, <1>3, UiFields DEF InMode, PageInv
<1>6. ModesFit'
  BY <1>1, <1>2, <1>3, UiFields DEF PageInv, ModesFit
<1>7. RegistrationsFit' /\ TimelinesFit' /\ PublishedFits'
  BY <1>1, <1>2, <1>5 DEF PageInv, RegistrationsFit, TimelinesFit, PublishedFits
<1> QED
  BY <1>4, <1>6, <1>7 DEF PageInv

\* React commits a new mode: everything of the one before is cleaned up, and the tool is
\* registered anew.
LEMMA EffectsKeep == ASSUME PageInv, RunEffects, ui.epoch # ui.effects PROVE PageInv'
<1> DEFINE r == Abort(ui.active)
           tool == [mode |-> ui.resolution, state |-> "pending", aborted |-> FALSE]
           idle == [p \in Panel |-> IdleRun]
           status == IF ui.context THEN "registering" ELSE "unavailable"
           active == IF ui.context THEN Len(registrations) + 1 ELSE 0
           u == [ui EXCEPT !.effects = ui.epoch, !.run = idle, !.webMcp = status, !.active = active]
<1>1. /\ ui.mounted /\ ui.epoch > 0 /\ timers' = {} /\ ui' = u /\ published' = NoEvidence /\ url' = url
      /\ registrations' = IF ui.context THEN Append(r, tool) ELSE registrations
  <2>1. \A t \in timers : t.panel \in Panel
    BY DEF PageInv, PageTypes
  <2>2. ClearTimers(timers, Panel) = {}
    BY <2>1 DEF ClearTimers
  <2> QED
    BY <2>2 DEF RunEffects
<1>2. /\ r \in Seq(Registration) /\ Len(r) = Len(registrations) /\ Len(r) \in Nat
      /\ \A id \in 1 .. Len(r) : r[id] \in Registration /\ r[id].aborted
  BY Aborted, UiFields DEF PageInv
<1> HIDE DEF r
<1>3. ui.epoch # 0 /\ (ui.resolution # Unresolved => ui.resolution = url) /\ url \in Mode
  BY <1>1, UiFields DEF PageInv, ModesFit, PageTypes
<1>4. /\ ui' \in UiRecord
      /\ ui'.context = ui.context /\ ui'.resolution = ui.resolution /\ ui'.epoch = ui.epoch /\ ui'.effects = ui.epoch
      /\ ui'.next = ui.next /\ ui'.mounted = ui.mounted /\ ui'.latest = ui.latest /\ ui'.run = idle
      /\ ui'.webMcp = status /\ ui'.active = active
  <2>1. idle \in [Panel -> RunRecord] /\ status \in {"registering", "unavailable"} /\ active \in Nat
    BY UiFields, IdleTyped DEF PageInv
  <2> HIDE DEF idle, status, active
  <2> QED
    BY <1>1, <2>1, UiFields DEF PageInv, PageTypes, UiRecord
<1>5. CASE ui.resolution # Unresolved
  <2>1. tool \in Registration /\ tool.mode = url /\ ~tool.aborted
    BY <1>3, <1>5 DEF Registration
  <2> HIDE DEF tool
  <2>2. ui.context => /\ registrations' \in Seq(Registration) /\ Len(registrations') = Len(registrations) + 1
                      /\ \A id \in 1 .. Len(registrations') :
                           registrations'[id] = IF id = Len(registrations) + 1 THEN tool ELSE r[id]
    BY <1>1, <1>2, <2>1
  <2>3. ~ui.context => registrations = <<>> /\ registrations' = <<>>
    BY <1>1 DEF PageInv, RegistrationsFit
  <2>4. PageTypes'
    BY <1>1, <1>4, <2>2, <2>3 DEF PageInv, PageTypes
  <2>5. ModesFit'
    BY <1>1, <1>3, <1>4, <1>5, UiFields DEF PageInv, ModesFit
  <2>6. RegistrationsFit'
    <3>1. CASE ui.context
      <4>1. ui'.active = Len(registrations') /\ Len(registrations') \in Nat
        BY <1>2, <1>4, <2>2, <3>1
      <4>2. \A id \in 1 .. Len(registrations') : ~registrations'[id].aborted => id = Len(registrations) + 1
        BY <1>2, <2>2, <3>1
      <4> QED
        BY <1>1, <1>4, <2>1, <2>2, <3>1, <4>1, <4>2 DEF RegistrationsFit
    <3>2. CASE ~ui.context
      <4>1. registrations' = <<>> /\ Len(registrations') = 0 /\ ui'.active = 0
        BY <1>4, <2>3, <3>2
      <4> QED
        BY <4>1 DEF RegistrationsFit
    <3> QED
      BY <3>1, <3>2
  <2>7. TimelinesFit' /\ PublishedFits'
    BY <1>1, <1>4 DEF TimelinesFit, PublishedFits
  <2> QED
    BY <2>4, <2>5, <2>6, <2>7 DEF PageInv
<1>6. CASE ui.resolution = Unresolved
  BY <1>6 DEF PageInv, ModesFit
<1> QED
  BY <1>5, <1>6

\* React commits in the same mode: what is shown is published.
LEMMA PublishKeeps == ASSUME PageInv, RunEffects, ui.epoch = ui.effects PROVE PageInv'
<1>1. /\ ~Locked /\ published' = Evidence(ui) /\ ui.mounted /\ UNCHANGED <<ui, registrations, timers, calls, url>>
  BY DEF RunEffects
<1>2. InMode /\ ui.resolution = url
  BY <1>1 DEF Locked, InMode, PageInv, ModesFit
<1>3. \A p \in Panel : ui.run[p] = IdleRun \/ ui.run[p].mode = url
  BY <1>2 DEF PageInv, TimelinesFit
<1>4. published'.mode = url /\ published'.human = ui.run["human"] /\ published'.agent = ui.run["agent"]
  BY <1>1, <1>2 DEF Evidence
<1>5. PublishedFits'
  BY <1>1, <1>2, <1>3, <1>4 DEF PublishedFits, InMode, Panel
<1> QED
  BY <1>1, <1>5 DEF PageInv, PageTypes, ModesFit, RegistrationsFit, TimelinesFit, InMode

\* A switch of the mode, or the end of the page: the registration is aborted.
LEMMA SwitchKeeps == ASSUME PageInv, Unmount \/ \E mode \in Mode : ChooseMode(mode) PROVE PageInv'
<1> DEFINE r == Abort(ui.active)
<1>1. /\ r \in Seq(Registration) /\ Len(r) = Len(registrations)
      /\ \A id \in 1 .. Len(r) : r[id] \in Registration /\ r[id].aborted
      /\ ~ui.context => r = <<>>
  BY Aborted DEF PageInv
<1> HIDE DEF r
<1>2. CASE Unmount
  <2>1. \A t \in timers : t.panel \in Panel
    BY DEF PageInv, PageTypes
  <2>2. /\ ui.mounted /\ timers' = {} /\ registrations' = r /\ published' = NoEvidence /\ url' = url
        /\ ui' = [ui EXCEPT !.mounted = FALSE, !.active = 0, !.next = Unresolved]
    BY <1>2, <2>1 DEF Unmount, ClearTimers, r
  <2>3. /\ ui' \in UiRecord
        /\ ui'.context = ui.context /\ ui'.resolution = ui.resolution /\ ui'.epoch = ui.epoch /\ ui'.effects = ui.effects
        /\ ui'.next = Unresolved /\ ui'.mounted = FALSE /\ ui'.latest = ui.latest /\ ui'.run = ui.run
        /\ ui'.webMcp = ui.webMcp /\ ui'.active = 0
    BY <2>2, UiFields DEF PageInv, PageTypes, UiRecord
  <2>4. PageTypes'
    BY <1>1, <2>2, <2>3 DEF PageInv, PageTypes
  <2>5. ModesFit'
    BY <2>2, <2>3 DEF PageInv, ModesFit
  <2>6. RegistrationsFit'
    BY <1>1, <2>2, <2>3, UiFields DEF PageInv, RegistrationsFit
  <2>7. TimelinesFit' /\ PublishedFits'
    BY <2>2, <2>3 DEF PageInv, TimelinesFit, PublishedFits, InMode
  <2> QED
    BY <2>4, <2>5, <2>6, <2>7 DEF PageInv
<1>3. ASSUME NEW mode \in Mode, ChooseMode(mode) PROVE PageInv'
  <2>1. /\ ui.mounted /\ ~Locked /\ ui.effects = ui.epoch
        /\ timers' = timers /\ registrations' = r /\ published' = NoEvidence /\ url' = mode
        /\ ui' = [ui EXCEPT !.resolution = Unresolved, !.webMcp = "checking", !.active = 0, !.next = mode]
    BY <1>3 DEF ChooseMode, r
  <2>2. /\ ui' \in UiRecord
        /\ ui'.context = ui.context /\ ui'.resolution = Unresolved /\ ui'.epoch = ui.epoch /\ ui'.effects = ui.effects
        /\ ui'.next = mode /\ ui'.mounted = ui.mounted /\ ui'.latest = ui.latest /\ ui'.run = ui.run
        /\ ui'.webMcp = "checking" /\ ui'.active = 0
    BY <2>1, UiFields DEF PageInv, PageTypes, UiRecord
  <2>3. PageTypes'
    BY <1>1, <2>1, <2>2 DEF PageInv, PageTypes
  <2>4. ui.epoch # 0
    BY <2>1 DEF Locked, PageInv, ModesFit
  <2>5. ModesFit'
    BY <2>1, <2>2, <2>4 DEF PageInv, ModesFit
  <2>6. RegistrationsFit'
    BY <1>1, <2>1, <2>2, UiFields DEF PageInv, RegistrationsFit
  <2>7. TimelinesFit' /\ PublishedFits'
    BY <2>1, <2>2 DEF PageInv, TimelinesFit, PublishedFits, InMode
  <2> QED
    BY <2>3, <2>5, <2>6, <2>7 DEF PageInv
<1> QED
  BY <1>2, <1>3

\* Every step keeps the invariant of the page.
LEMMA PageSteps == ASSUME PageInv, [PageNext]_pageVars PROVE PageInv'
<1>1. CASE UNCHANGED pageVars \/ \E id \in 1 .. Len(registrations) : CallTool(id)
  BY <1>1 DEF pageVars, CallTool, PageInv, PageTypes, ModesFit, RegistrationsFit, TimelinesFit, PublishedFits, InMode
<1>2. CASE ResolveFromUrl \/ ResolveNext
  BY <1>2, ResolveKeeps
<1>3. CASE RunEffects
  BY <1>3, EffectsKeep, PublishKeeps
<1>4. CASE Unmount \/ \E mode \in Mode : ChooseMode(mode)
  BY <1>4, SwitchKeeps
<1>5. CASE \E panel \in Panel : PressRun(panel)
  BY <1>5, PressKeeps
<1>6. CASE \E t \in timers : TimerFires(t)
  BY <1>6, TimerKeeps
<1>7. CASE \E id \in 1 .. Len(registrations) : CallArrives(id)
  BY <1>7, CallKeeps
<1>8. CASE \E id \in 1 .. Len(registrations), outcome \in {"registered", "failed"} : RegistrationSettles(id, outcome)
  BY <1>8, SettleKeeps
<1> QED
  BY <1>1, <1>2, <1>3, <1>4, <1>5, <1>6, <1>7, <1>8 DEF PageNext

\* The page as it is mounted.
LEMMA PageStarts == PageInit => PageInv
<1> SUFFICES ASSUME PageInit PROVE PageInv
  OBVIOUS
<1>1. PICK context \in BOOLEAN :
        ui = [context |-> context, resolution |-> Unresolved, epoch |-> 0, effects |-> 0, webMcp |-> "checking",
              active |-> 0, next |-> Unresolved, run |-> [p \in Panel |-> IdleRun], plays |-> 0, mounted |-> TRUE,
              latest |-> [p \in Panel |-> 0]]
  BY DEF PageInit
<1>2. registrations = <<>> /\ timers = {} /\ url \in Mode /\ published = NoEvidence /\ registrations \in Seq(Registration) /\ Len(registrations) = 0
  BY DEF PageInit
<1>3. PageTypes
  <2>1. [p \in Panel |-> IdleRun] \in [Panel -> RunRecord] /\ [p \in Panel |-> 0] \in [Panel -> Nat]
    BY IdleTyped
  <2> QED
    BY <1>1, <1>2, <2>1 DEF PageTypes, UiRecord
<1>4. ModesFit /\ RegistrationsFit /\ TimelinesFit /\ PublishedFits
  BY <1>1, <1>2 DEF ModesFit, RegistrationsFit, TimelinesFit, PublishedFits
<1> QED
  BY <1>3, <1>4 DEF PageInv

\* There is at most the one active tool.
LEMMA OneLive == PageInv => Live \subseteq {ui.active} /\ (ui.active = 0 => Live = {}) /\ \A id \in Live : registrations[id].mode = url
<1> SUFFICES ASSUME PageInv, NEW id \in Live
             PROVE  id = ui.active /\ ui.active # 0 /\ registrations[id].mode = url
  OBVIOUS
<1>1. id \in 1 .. Len(registrations) /\ ~registrations[id].aborted
  BY DEF Live
<1> QED
  BY <1>1 DEF PageInv, RegistrationsFit

\* However switches of the mode, renders, timers, tool calls and answers of the browser fall:
\* the page publishes only what was played in the mode that its URL advertises, registers one
\* tool at most, and leaves nothing behind.
THEOREM PageEvidenceIsOfItsMode == PageSpec => []EvidenceIsOfItsMode
<1>1. PageInv /\ [PageNext]_pageVars => PageInv'
  BY PageSteps
<1>2. ASSUME PageInv PROVE EvidenceIsOfItsMode
  <2>1. Cardinality(Live) <= 1
    <3>1. CASE Live = {}
      BY <3>1, FS_EmptySet
    <3>2. CASE Live # {}
      <4>1. Live = {ui.active}
        BY <1>2, <3>2, OneLive
      <4> QED
        BY <4>1, FS_Singleton
    <3> QED
      BY <3>1, <3>2
  <2>2. ASSUME published # NoEvidence
        PROVE  /\ published.mode = url
               /\ \A run \in {published.human, published.agent} : run = IdleRun \/ run.mode = url
               /\ \A p \in Panel : ui.run[p] = IdleRun \/ (ui.run[p].play = ui.latest[p] /\ ui.run[p].mode = url)
               /\ \A id \in Live : registrations[id].mode = url
               /\ \A t \in timers : t.mode = url
    BY <1>2, <2>2, OneLive DEF PageInv, PublishedFits, TimelinesFit
  <2>3. ~ui.mounted => Live = {} /\ timers = {} /\ published = NoEvidence
    BY <1>2, OneLive DEF PageInv, ModesFit
  <2> QED
    BY <2>1, <2>2, <2>3 DEF EvidenceIsOfItsMode
<1> QED
  BY <1>1, <1>2, PageStarts, PTL DEF PageSpec

-----------------------------------------------------------------------------
(* The browser runner *)

Working == {"operating", "invoking", "awaiting", "quiescing", "capturing"}
RecorderPhase == {"loading", "settling", "provenance", "ready", "before", "closed"} \cup Working
Tool == Definition \cup {NoTool}
Pending == {"call"} \cup Request
AnyRequest == Request \cup {EarlyRequest}

Message ==
  [kind : {"tool"}, frame : Frame, definition : Tool]
    \cup [kind : {"request"}, request : Request] \cup [kind : {"settled"}, request : AnyRequest]
    \cup [kind : {"invoked", "refused"}] \cup [kind : {"responded"}, status : {"Completed", "Failed"}]

VisitRecord ==
  [mode : {"native", "compatibility"}, kind : {"agent", "human"}, phase : RecorderPhase, known : [Frame -> Tool],
   surface : BOOLEAN, hash : Tool, before : Tool, after : Tool, answer : {"none", "Completed", "Failed", "timeout"},
   recording : BOOLEAN, inFlight : SUBSET AnyRequest, network : SUBSET AnyRequest,
   capture : {"none", "complete", "timeout"}, handled : SUBSET Pending]

\* Delays of some of what the page may act on.
DueTimes == UNION {[D -> Nat] : D \in SUBSET Pending}
PageRecord ==
  [live : [Frame -> Tool], forged : BOOLEAN, open : SUBSET AnyRequest, due : DueTimes, started : SUBSET Request,
   handled : SUBSET Pending, invoked : Tool, call : {"none", "sent", "refused", "executing", "responded"},
   changes : Nat, changedBack : BOOLEAN]

RecorderTypes ==
  /\ visit \in VisitRecord /\ page \in PageRecord
  /\ wire \in Seq(Message)
  /\ elapsed \in Nat /\ quietFor \in Nat

\* Messages on the wire: the reply to the call, and what is about a request.
Reply(i) == wire[i].kind \in {"invoked", "refused"}
Announced(r) == \E i \in 1 .. Len(wire) : wire[i].kind = "request" /\ wire[i].request = r
Answered(r) == \E i \in 1 .. Len(wire) : wire[i].kind = "settled" /\ wire[i].request = r

\* The phases: what has happened when the visit is at one.
PhaseFits ==
  /\ visit.recording <=> visit.phase \in Working
  /\ visit.phase \notin Working \cup {"closed"} => page.due = [t \in {} |-> 0] /\ page.started = {}
  /\ visit.capture # "none" => visit.phase \in {"capturing", "closed"}
  /\ \A i, k \in 1 .. Len(wire) : Reply(i) /\ Reply(k) => i = k
  /\ visit.phase # "closed" =>
       \A i \in 1 .. Len(wire) : Reply(i) => visit.phase = "invoking" /\ page.call # "sent"
  /\ page.call = "sent" /\ visit.phase # "closed" => visit.phase = "invoking"

\* The wait has not been quiet for long enough.
NotYetQuiet == elapsed < EffectObservation \/ quietFor < EffectQuietWindow \/ visit.inFlight # {}

\* What the runner has not heard of, or waits for.
RequestsFit ==
  /\ page.started \subseteq {r \in Request : r \in visit.network \/ Announced(r)}
  /\ visit.network \subseteq page.started
  /\ \A r \in Request : Announced(r) \/ Answered(r) \/ r \in page.open => r \in page.started
  /\ \A r \in Request : Answered(r) => r \notin page.open
  /\ \A r \in Request : r \in page.open => r \in visit.inFlight \/ Announced(r)
  /\ \A r \in Request : Announced(r) /\ visit.phase = "quiescing" => NotYetQuiet

DelaysFit ==
  /\ \A t \in DOMAIN page.due : page.due[t] <= IF t = "call" THEN FirstDelay ELSE PageDelay
  /\ "call" \in DOMAIN page.due /\ visit.phase = "quiescing" => elapsed + page.due["call"] <= FirstDelay
  /\ \A r \in DOMAIN page.due \cap Request :
       \/ Answered(r) /\ (r \in visit.inFlight \/ Announced(r))
       \/ quietFor + page.due[r] <= PageDelay

\* A capture that is complete has everything.
CaptureFits ==
  visit.phase = "capturing" /\ visit.capture = "complete" =>
    page.open \subseteq {EarlyRequest} /\ page.due = [t \in {} |-> 0] /\ visit.network = page.started

EffectsFit ==
  /\ visit.phase # "closed" => RequestsFit /\ DelaysFit /\ CaptureFits
  /\ WholeEffect

EffectInv == RecorderTypes /\ PhaseFits /\ EffectsFit

-----------------------------------------------------------------------------
(* Delays and the wire *)

\* Delays are natural numbers, of some of what the page may act on.
LEMMA DueTimesIs ==
  \A d : d \in DueTimes <=>
           /\ DOMAIN d \subseteq Pending /\ d = [t \in DOMAIN d |-> d[t]]
           /\ \A t \in DOMAIN d : d[t] \in Nat
PROOF
<1> TAKE d
<1>1. ASSUME d \in DueTimes PROVE DOMAIN d \subseteq Pending /\ d = [t \in DOMAIN d |-> d[t]] /\ \A t \in DOMAIN d : d[t] \in Nat
  <2>1. PICK D \in SUBSET Pending : d \in [D -> Nat]
    BY <1>1 DEF DueTimes
  <2> QED BY <2>1
<1>2. ASSUME DOMAIN d \subseteq Pending, d = [t \in DOMAIN d |-> d[t]], \A t \in DOMAIN d : d[t] \in Nat
      PROVE  d \in DueTimes
  <2>1. d \in [DOMAIN d -> Nat]
    BY <1>2
  <2> QED BY <2>1, <1>2 DEF DueTimes
<1> QED BY <1>1, <1>2

\* A delay is added or replaced, ...
LEMMA WithIs ==
  ASSUME NEW d \in DueTimes, NEW x \in Pending, NEW n \in Nat
  PROVE  /\ With(d, x, n) \in DueTimes
         /\ DOMAIN With(d, x, n) = DOMAIN d \cup {x}
         /\ \A t \in DOMAIN d \cup {x} : With(d, x, n)[t] = IF t = x THEN n ELSE d[t]
PROOF
<1>1. /\ DOMAIN d \subseteq Pending
      /\ \A t \in DOMAIN d : d[t] \in Nat
  BY DueTimesIs
<1>2. DOMAIN With(d, x, n) = DOMAIN d \cup {x}
  BY DEF With
<1>3. \A t \in DOMAIN d \cup {x} : With(d, x, n)[t] = IF t = x THEN n ELSE d[t]
  BY DEF With
<1>4. With(d, x, n) = [t \in DOMAIN With(d, x, n) |-> With(d, x, n)[t]]
  BY DEF With
<1>5. With(d, x, n) \in DueTimes
  BY <1>1, <1>2, <1>3, <1>4, DueTimesIs
<1> QED BY <1>2, <1>3, <1>5

\* ... and one is taken away.
LEMMA WithoutIs ==
  ASSUME NEW d \in DueTimes, NEW x
  PROVE  /\ Without(d, x) \in DueTimes
         /\ DOMAIN Without(d, x) = DOMAIN d \ {x}
         /\ \A t \in DOMAIN d \ {x} : Without(d, x)[t] = d[t]
PROOF
<1>1. /\ DOMAIN d \subseteq Pending
      /\ \A t \in DOMAIN d : d[t] \in Nat
  BY DueTimesIs
<1>2. DOMAIN Without(d, x) = DOMAIN d \ {x}
  BY DEF Without
<1>3. \A t \in DOMAIN d \ {x} : Without(d, x)[t] = d[t]
  BY DEF Without
<1>4. Without(d, x) = [t \in DOMAIN Without(d, x) |-> Without(d, x)[t]]
  BY DEF Without
<1>5. Without(d, x) \in DueTimes
  BY <1>1, <1>2, <1>3, <1>4, DueTimesIs
<1> QED BY <1>2, <1>3, <1>5

\* What is sent comes after what is on the wire.
LEMMA SentIs ==
  ASSUME wire \in Seq(Message), NEW ms \in Seq(Message), Send(ms)
  PROVE  /\ wire' \in Seq(Message) /\ Len(wire') = Len(wire) + Len(ms)
         /\ \A i \in 1 .. Len(wire) : wire'[i] = wire[i]
         /\ \A i \in 1 .. Len(ms) : wire'[Len(wire) + i] = ms[i]
BY DEF Send

\* What a step adds to the wire is about no request and no reply.
Aside(m) == m.kind \notin {"request", "settled", "invoked", "refused"}

\* Messages about no request and no reply leave those on the wire as they are.
LEMMA SentAside ==
  ASSUME wire \in Seq(Message), NEW ms \in Seq(Message), Send(ms), \A i \in 1 .. Len(ms) : Aside(ms[i])
  PROVE  /\ \A r : (Announced(r)' <=> Announced(r)) /\ (Answered(r)' <=> Answered(r))
         /\ \A i \in 1 .. Len(wire') : Reply(i)' => i \in 1 .. Len(wire) /\ Reply(i)
PROOF
<1>1. /\ Len(wire') = Len(wire) + Len(ms) /\ Len(wire) \in Nat /\ Len(ms) \in Nat
      /\ \A i \in 1 .. Len(wire) : wire'[i] = wire[i]
      /\ \A i \in 1 .. Len(ms) : wire'[Len(wire) + i] = ms[i]
  BY SentIs
<1>2. ASSUME NEW i \in 1 .. Len(wire'), ~Aside(wire'[i])
      PROVE  i \in 1 .. Len(wire) /\ wire'[i] = wire[i]
  <2>1. CASE i \in 1 .. Len(wire)
    BY <1>1, <2>1
  <2>2. CASE i \notin 1 .. Len(wire)
    <3>1. i - Len(wire) \in 1 .. Len(ms) /\ Len(wire) + (i - Len(wire)) = i
      BY <1>1, <2>2
    <3>2. wire'[i] = ms[i - Len(wire)]
      BY <1>1, <3>1
    <3> QED BY <3>1, <3>2, <1>2
  <2> QED BY <2>1, <2>2
<1>3. 1 .. Len(wire) \subseteq 1 .. Len(wire')
  BY <1>1
<1>4. ASSUME NEW r PROVE (Announced(r)' <=> Announced(r)) /\ (Answered(r)' <=> Answered(r))
  BY <1>1, <1>2, <1>3 DEF Announced, Answered, Aside
<1>5. ASSUME NEW i \in 1 .. Len(wire'), Reply(i)' PROVE i \in 1 .. Len(wire) /\ Reply(i)
  <2>1. ~Aside(wire'[i])
    BY <1>5 DEF Reply, Aside
  <2> QED BY <1>2, <1>5, <2>1 DEF Reply
<1> QED BY <1>4, <1>5

\* One message is sent: what it announces, answers or replies.
LEMMA SentOne ==
  ASSUME wire \in Seq(Message), NEW m \in Message, Send(<<m>>)
  PROVE  /\ wire' \in Seq(Message)
         /\ \A r : Announced(r)' <=> Announced(r) \/ (m.kind = "request" /\ m.request = r)
         /\ \A r : Answered(r)' <=> Answered(r) \/ (m.kind = "settled" /\ m.request = r)
         /\ \A i \in 1 .. Len(wire') : Reply(i)' => IF i \in 1 .. Len(wire) THEN Reply(i)
                                                    ELSE i = Len(wire) + 1 /\ m.kind \in {"invoked", "refused"}
PROOF
<1>1. <<m>> \in Seq(Message) /\ Len(<<m>>) = 1 /\ <<m>>[1] = m
  OBVIOUS
<1>2. wire' = Append(wire, m)
  BY DEF Send
<1>0. /\ wire' \in Seq(Message) /\ Len(wire') = Len(wire) + 1 /\ Len(wire) \in Nat
      /\ \A i \in 1 .. Len(wire) : wire'[i] = wire[i]
  BY <1>2
<1>3. wire'[Len(wire) + 1] = m
  BY <1>2
<1>4. \A i : i \in 1 .. Len(wire') <=> i \in 1 .. Len(wire) \/ i = Len(wire) + 1
  BY <1>0
<1>5. ASSUME NEW r PROVE Announced(r)' <=> Announced(r) \/ (m.kind = "request" /\ m.request = r)
  BY <1>0, <1>3, <1>4 DEF Announced
<1>6. ASSUME NEW r PROVE Answered(r)' <=> Answered(r) \/ (m.kind = "settled" /\ m.request = r)
  BY <1>0, <1>3, <1>4 DEF Answered
<1>7. ASSUME NEW i \in 1 .. Len(wire'), Reply(i)'
      PROVE  IF i \in 1 .. Len(wire) THEN Reply(i) ELSE i = Len(wire) + 1 /\ m.kind \in {"invoked", "refused"}
  <2>1. CASE i \in 1 .. Len(wire)
    BY <1>0, <1>7, <2>1 DEF Reply
  <2>2. CASE i \notin 1 .. Len(wire)
    BY <1>3, <1>4, <1>7, <2>2 DEF Reply
  <2> QED BY <2>1, <2>2
<1> QED BY <1>0, <1>5, <1>6, <1>7

\* One message is heard: what it announced, answered or replied has left the wire.
LEMMA HeardOne ==
  ASSUME wire \in Seq(Message), wire # <<>>, wire' = Tail(wire)
  PROVE  /\ wire' \in Seq(Message) /\ Head(wire) \in Message
         /\ \A r : Announced(r) <=> Announced(r)' \/ (Head(wire).kind = "request" /\ Head(wire).request = r)
         /\ \A r : Answered(r) <=> Answered(r)' \/ (Head(wire).kind = "settled" /\ Head(wire).request = r)
         /\ \A i \in 1 .. Len(wire') : i + 1 \in 1 .. Len(wire) /\ (Reply(i)' <=> Reply(i + 1))
         /\ Head(wire).kind \in {"invoked", "refused"} => Reply(1) /\ 1 \in 1 .. Len(wire)
PROOF
<1>1. /\ wire' \in Seq(Message) /\ Len(wire') = Len(wire) - 1 /\ Len(wire) \in Nat /\ Len(wire) > 0
      /\ \A i \in 1 .. Len(wire') : wire'[i] = wire[i + 1]
      /\ Head(wire) = wire[1] /\ wire[1] \in Message
  OBVIOUS
<1>2. \A i : i \in 1 .. Len(wire) => i = 1 \/ (i - 1 \in 1 .. Len(wire') /\ (i - 1) + 1 = i)
  BY <1>1
<1>3. \A i \in 1 .. Len(wire') : i + 1 \in 1 .. Len(wire)
  BY <1>1
<1>4. 1 \in 1 .. Len(wire)
  BY <1>1
<1>5. ASSUME NEW r
      PROVE  Announced(r) <=> Announced(r)' \/ (Head(wire).kind = "request" /\ Head(wire).request = r)
  <2>1. ASSUME Announced(r) PROVE Announced(r)' \/ (Head(wire).kind = "request" /\ Head(wire).request = r)
    <3>1. PICK i \in 1 .. Len(wire) : wire[i].kind = "request" /\ wire[i].request = r
      BY <2>1 DEF Announced
    <3>2. CASE i = 1
      BY <1>1, <3>1, <3>2
    <3>3. CASE i # 1
      BY <1>1, <1>2, <3>1, <3>3 DEF Announced
    <3> QED BY <3>2, <3>3
  <2>2. ASSUME Announced(r)' \/ (Head(wire).kind = "request" /\ Head(wire).request = r) PROVE Announced(r)
    BY <1>1, <1>3, <1>4, <2>2 DEF Announced
  <2> QED BY <2>1, <2>2
<1>6. ASSUME NEW r
      PROVE  Answered(r) <=> Answered(r)' \/ (Head(wire).kind = "settled" /\ Head(wire).request = r)
  <2>1. ASSUME Answered(r) PROVE Answered(r)' \/ (Head(wire).kind = "settled" /\ Head(wire).request = r)
    <3>1. PICK i \in 1 .. Len(wire) : wire[i].kind = "settled" /\ wire[i].request = r
      BY <2>1 DEF Answered
    <3>2. CASE i = 1
      BY <1>1, <3>1, <3>2
    <3>3. CASE i # 1
      BY <1>1, <1>2, <3>1, <3>3 DEF Answered
    <3> QED BY <3>2, <3>3
  <2>2. ASSUME Answered(r)' \/ (Head(wire).kind = "settled" /\ Head(wire).request = r) PROVE Answered(r)
    BY <1>1, <1>3, <1>4, <2>2 DEF Answered
  <2> QED BY <2>1, <2>2
<1>7. \A i \in 1 .. Len(wire') : i + 1 \in 1 .. Len(wire) /\ (Reply(i)' <=> Reply(i + 1))
  BY <1>1, <1>3 DEF Reply
<1>8. Head(wire).kind \in {"invoked", "refused"} => Reply(1) /\ 1 \in 1 .. Len(wire)
  BY <1>1, <1>4 DEF Reply
<1> QED BY <1>1, <1>5, <1>6, <1>7, <1>8

\* The answer overtakes the reply to the call.
Overtaken(answer) ==
  /\ wire # <<>> /\ wire[Len(wire)].kind = "invoked"
  /\ wire' = SubSeq(wire, 1, Len(wire) - 1) \o <<answer, [kind |-> "invoked"]>>

\* The answer takes the place of the reply, which comes after it.
LEMMA OvertakenIs ==
  ASSUME wire \in Seq(Message), NEW m \in Message, m.kind = "responded", Overtaken(m)
  PROVE  /\ wire' \in Seq(Message)
         /\ \A r : (Announced(r)' <=> Announced(r)) /\ (Answered(r)' <=> Answered(r))
         /\ \A i \in 1 .. Len(wire') : Reply(i)' => \/ i \in 1 .. Len(wire) /\ i # Len(wire) /\ Reply(i)
                                                    \/ i = Len(wire) + 1
         /\ Len(wire) \in 1 .. Len(wire) /\ Reply(Len(wire))
         /\ Len(wire') = Len(wire) + 1 /\ wire'[Len(wire)] = m /\ wire[Len(wire)].kind = "invoked"
         /\ \A i \in 1 .. Len(wire) : i # Len(wire) => wire'[i] = wire[i]
         /\ wire'[Len(wire) + 1] = [kind |-> "invoked"]
PROOF
<1> DEFINE n == Len(wire)
<1>1. n \in Nat /\ n > 0 /\ wire[n].kind = "invoked"
  BY DEF Overtaken
<1>2. [kind |-> "invoked"] \in Message
  BY DEF Message
<1> DEFINE start == SubSeq(wire, 1, n - 1)
           end == <<m, [kind |-> "invoked"]>>
<1>3. start \in Seq(Message) /\ Len(start) = n - 1 /\ \A i \in 1 .. n - 1 : start[i] = wire[i]
  <2>1. 1 \in Int /\ n - 1 \in Int /\ \A i \in 1 .. n - 1 : wire[i] \in Message
    BY <1>1
  <2>2. /\ start \in Seq(Message)
        /\ Len(start) = IF 1 <= n - 1 THEN n - 1 - 1 + 1 ELSE 0
        /\ \A i \in 1 .. n - 1 - 1 + 1 : start[i] = wire[1 + i - 1]
    BY <2>1, SubSeqProperties
  <2>3. Len(start) = n - 1
    <3> HIDE DEF start, n
    <3>1. CASE 1 <= n - 1
      BY <1>1, <2>2, <3>1
    <3>2. CASE ~(1 <= n - 1)
      <4>1. n = 1
        BY <1>1, <3>2
      <4> QED BY <2>2, <4>1
    <3> QED BY <3>1, <3>2
  <2>4. ASSUME NEW i \in 1 .. n - 1 PROVE start[i] = wire[i]
    <3>1. i \in 1 .. n - 1 - 1 + 1 /\ 1 + i - 1 = i
      BY <1>1
    <3> QED BY <2>2, <3>1
  <2> QED BY <2>2, <2>3, <2>4
<1>4. end \in Seq(Message) /\ Len(end) = 2 /\ end[1] = m /\ end[2] = [kind |-> "invoked"]
  BY <1>2
<1>5. wire' = start \o end
  BY DEF Overtaken
<1> HIDE DEF start, end
<1>6. /\ wire' \in Seq(Message) /\ Len(wire') = n + 1
      /\ \A i \in 1 .. n + 1 : wire'[i] = IF i <= n - 1 THEN wire[i] ELSE end[i - (n - 1)]
  <2>1. /\ start \o end \in Seq(Message)
        /\ Len(start \o end) = Len(start) + Len(end)
        /\ \A i \in 1 .. Len(start) + Len(end) : (start \o end)[i] = IF i <= Len(start) THEN start[i] ELSE end[i - Len(start)]
    BY <1>3, <1>4, ConcatProperties
  <2>2. Len(start) + Len(end) = n + 1 /\ Len(start) = n - 1
    BY <1>1, <1>3, <1>4
  <2>3. ASSUME NEW i \in 1 .. n + 1 PROVE wire'[i] = IF i <= n - 1 THEN wire[i] ELSE end[i - (n - 1)]
    <3>1. CASE i <= n - 1
      <4>1. i \in 1 .. n - 1
        BY <1>1, <3>1
      <4> QED BY <1>3, <1>5, <2>1, <2>2, <3>1, <4>1
    <3>2. CASE ~(i <= n - 1)
      BY <1>5, <2>1, <2>2, <3>2
    <3> QED BY <3>1, <3>2
  <2> QED BY <1>5, <2>1, <2>2, <2>3
<1>7. wire'[n] = m
  <2>1. n \in 1 .. n + 1 /\ ~(n <= n - 1) /\ n - (n - 1) = 1
    BY <1>1
  <2> QED BY <2>1, <1>4, <1>6
<1>8. wire'[n + 1] = [kind |-> "invoked"]
  <2>1. n + 1 \in 1 .. n + 1 /\ ~(n + 1 <= n - 1) /\ (n + 1) - (n - 1) = 2
    BY <1>1
  <2> QED BY <2>1, <1>4, <1>6
<1>9. /\ \A i : i \in 1 .. Len(wire') <=> i \in 1 .. n - 1 \/ i = n \/ i = n + 1
      /\ \A i : i \in 1 .. Len(wire) <=> i \in 1 .. n - 1 \/ i = n
  BY <1>1, <1>6
<1>10. wire'[n + 1].kind = "invoked"
  BY <1>8
<1>11. ASSUME NEW r PROVE Announced(r)' <=> Announced(r)
  <2>1. \A i \in 1 .. n - 1 : wire'[i] = wire[i]
    BY <1>1, <1>6
  <2> QED BY <1>1, <1>7, <1>9, <1>10, <2>1 DEF Announced
<1>12. ASSUME NEW r PROVE Answered(r)' <=> Answered(r)
  <2>1. \A i \in 1 .. n - 1 : wire'[i] = wire[i]
    BY <1>1, <1>6
  <2> QED BY <1>1, <1>7, <1>9, <1>10, <2>1 DEF Answered
<1>13. ASSUME NEW i \in 1 .. Len(wire'), Reply(i)'
       PROVE  \/ i \in 1 .. Len(wire) /\ i # Len(wire) /\ Reply(i)
              \/ i = Len(wire) + 1
  <2>1. i # n
    BY <1>7, <1>13 DEF Reply
  <2>2. CASE i \in 1 .. n - 1
    BY <1>1, <1>6, <1>9, <1>13, <2>2 DEF Reply
  <2> QED BY <1>9, <2>1, <2>2
<1>14. Len(wire) \in 1 .. Len(wire) /\ Reply(Len(wire))
  BY <1>1 DEF Reply
<1>15. \A i \in 1 .. Len(wire) : i # Len(wire) => wire'[i] = wire[i]
  <2>1. ASSUME NEW i \in 1 .. n, i # n PROVE wire'[i] = wire[i]
    <3>1. i \in 1 .. n + 1 /\ i <= n - 1
      BY <1>1, <2>1
    <3> QED BY <1>6, <3>1
  <2> QED BY <2>1
<1> QED BY <1>1, <1>6, <1>7, <1>8, <1>11, <1>12, <1>13, <1>14, <1>15

-----------------------------------------------------------------------------
(* Types *)

\* What the page, its server and the browser send are messages.
LEMMA MessagesOf ==
  /\ \A f \in Frame, d \in Tool : ToolEvent(f, d) \in Message /\ Aside(ToolEvent(f, d))
  /\ \A r \in Request : [kind |-> "request", request |-> r] \in Message
  /\ \A r \in AnyRequest : [kind |-> "settled", request |-> r] \in Message
  /\ [kind |-> "invoked"] \in Message /\ [kind |-> "refused"] \in Message
  /\ \A status \in {"Completed", "Failed"} : LET m == [kind |-> "responded", status |-> status] IN m \in Message /\ Aside(m)
BY DEF Message, Aside, ToolEvent

\* What a frame may register is a definition.
LEMMA DefinitionsAre == \A f \in Frame : DefinitionsOf(f) \subseteq Definition /\ SomeDefinition \in Definition
BY RecorderAssumption DEF DefinitionsOf, SomeDefinition

\* Everything that the page tells of its tools, as messages.
LEMMA ChangeToolSends ==
  ASSUME RecorderTypes, NEW f \in Frame, NEW d \in Tool, ChangeTool(f, d)
  PROVE  \E ms \in Seq(Message) : Send(ms) /\ \A i \in 1 .. Len(ms) : Aside(ms[i])
PROOF
<1>1. /\ ToolEvent(f, d) \in Message /\ Aside(ToolEvent(f, d))
      /\ ToolEvent(f, NoTool) \in Message /\ Aside(ToolEvent(f, NoTool))
  BY MessagesOf DEF Tool
<1>2. \/ Send(<<>>) \/ Send(<<ToolEvent(f, d)>>) \/ Send(<<ToolEvent(f, NoTool), ToolEvent(f, d)>>)
  BY DEF ChangeTool
<1>3. CASE Send(<<>>)
  <2>1. <<>> \in Seq(Message) /\ \A i \in 1 .. Len(<<>>) : Aside(<<>>[i])
    OBVIOUS
  <2> QED BY <1>3, <2>1
<1>4. CASE Send(<<ToolEvent(f, d)>>)
  <2> DEFINE ms == <<ToolEvent(f, d)>>
  <2>1. ms \in Seq(Message) /\ Len(ms) = 1 /\ ms[1] = ToolEvent(f, d)
    BY <1>1
  <2>2. \A i \in 1 .. Len(ms) : Aside(ms[i])
    BY <1>1, <2>1
  <2> QED BY <1>4, <2>1, <2>2
<1>5. CASE Send(<<ToolEvent(f, NoTool), ToolEvent(f, d)>>)
  <2> DEFINE ms == <<ToolEvent(f, NoTool), ToolEvent(f, d)>>
  <2>1. ms \in Seq(Message) /\ Len(ms) = 2 /\ ms[1] = ToolEvent(f, NoTool) /\ ms[2] = ToolEvent(f, d)
    BY <1>1
  <2>2. \A i \in 1 .. Len(ms) : Aside(ms[i])
    BY <1>1, <2>1
  <2> QED BY <1>5, <2>1, <2>2
<1> QED BY <1>2, <1>3, <1>4, <1>5

\* What the browser reports when the tools are watched, as messages.
LEMMA LoadSends ==
  ASSUME RecorderTypes, Load
  PROVE  \E ms \in Seq(Message) : Send(ms) /\ \A i \in 1 .. Len(ms) : Aside(ms[i])
PROOF
<1>1. \A f \in Frame : ToolEvent(f, page.live[f]) \in Message /\ Aside(ToolEvent(f, page.live[f]))
  BY MessagesOf DEF RecorderTypes, PageRecord
<1> DEFINE there == {f \in Frame : page.live[f] # NoTool}
<1>2. \/ Send(<<>>) \/ Send(<<ToolEvent("top", page.live["top"]), ToolEvent("child", page.live["child"])>>)
      \/ \E f \in Frame : Send(<<ToolEvent(f, page.live[f])>>)
  <2>1. CASE ~Native \/ there = {}
    BY <2>1 DEF Load
  <2>2. CASE Native /\ there # {} /\ there = Frame
    BY <2>2 DEF Load
  <2>3. CASE Native /\ there # {} /\ there # Frame
    <3> DEFINE g == CHOOSE x \in there : TRUE
    <3>1. g \in there
      BY <2>3
    <3>2. Send(<<ToolEvent(g, page.live[g])>>)
      BY <2>3 DEF Load
    <3> QED BY <3>1, <3>2
  <2> QED BY <2>1, <2>2, <2>3
<1>3. CASE Send(<<>>)
  <2>1. <<>> \in Seq(Message) /\ \A i \in 1 .. Len(<<>>) : Aside(<<>>[i])
    OBVIOUS
  <2> QED BY <1>3, <2>1
<1>4. CASE \E f \in Frame : Send(<<ToolEvent(f, page.live[f])>>)
  <2> PICK f \in Frame : Send(<<ToolEvent(f, page.live[f])>>)
    BY <1>4
  <2> DEFINE ms == <<ToolEvent(f, page.live[f])>>
  <2>1. ms \in Seq(Message) /\ Len(ms) = 1 /\ ms[1] = ToolEvent(f, page.live[f])
    BY <1>1
  <2>2. \A i \in 1 .. Len(ms) : Aside(ms[i])
    BY <1>1, <2>1
  <2> QED BY <1>4, <2>1, <2>2
<1>5. CASE Send(<<ToolEvent("top", page.live["top"]), ToolEvent("child", page.live["child"])>>)
  <2> DEFINE ms == <<ToolEvent("top", page.live["top"]), ToolEvent("child", page.live["child"])>>
  <2>0. "top" \in Frame /\ "child" \in Frame
    BY DEF Frame
  <2>1. ms \in Seq(Message) /\ Len(ms) = 2 /\ ms[1] = ToolEvent("top", page.live["top"]) /\ ms[2] = ToolEvent("child", page.live["child"])
    BY <1>1, <2>0
  <2>2. \A i \in 1 .. Len(ms) : Aside(ms[i])
    BY <1>1, <2>0, <2>1
  <2> QED BY <1>5, <2>1, <2>2
<1> QED BY <1>2, <1>3, <1>4, <1>5

\* Parts of the page and of the runner, from their types.
LEMMA FieldsAre ==
  ASSUME RecorderTypes
  PROVE  /\ page.due \in DueTimes /\ page.live \in [Frame -> Tool] /\ Tools \in Tool
         /\ page.started \subseteq Request /\ page.open \subseteq AnyRequest
         /\ "top" \in Frame /\ "child" \in Frame
BY DEF RecorderTypes, VisitRecord, PageRecord, Tools, Frame

\* A closed visit is one.
LEMMA CloseIs == ASSUME RecorderTypes PROVE Close \in VisitRecord
BY DEF RecorderTypes, VisitRecord, Close, RecorderPhase

\* What the page sends when it acts: a request or nothing.
LEMMA PageActsIs ==
  ASSUME RecorderTypes, NEW t \in Pending, PageActs(t)
  PROVE  \E more \in SUBSET Request :
           /\ more \cap page.started = {}
           /\ page' = [page EXCEPT !.due = Without(@, t), !.handled = @ \cup {t},
                                   !.started = @ \cup more, !.open = @ \cup more]
           /\ \/ more = {} /\ wire' = wire
              \/ \E r \in Request : more = {r} /\ Send(<<[kind |-> "request", request |-> r]>>)
PROOF
<1>1. PICK more \in {{}} \cup {{r} : r \in Request \ page.started} :
        /\ page' = [page EXCEPT !.due = Without(@, t), !.handled = @ \cup {t},
                                !.started = @ \cup more, !.open = @ \cup more]
        /\ Send(IF more = {} THEN <<>> ELSE <<[kind |-> "request", request |-> CHOOSE r \in more : TRUE]>>)
  BY DEF PageActs
<1>2. CASE more = {}
  <2>1. wire' = wire \o <<>>
    BY <1>1, <1>2 DEF Send
  <2>2. wire' = wire
    BY <2>1 DEF RecorderTypes
  <2> QED BY <1>1, <1>2, <2>2
<1>3. CASE more # {}
  <2>1. PICK r \in Request \ page.started : more = {r}
    BY <1>3
  <2>2. (CHOOSE x \in more : TRUE) = r
    BY <2>1
  <2>3. Send(<<[kind |-> "request", request |-> r]>>)
    BY <1>1, <1>3, <2>2
  <2> QED BY <1>1, <2>1, <2>3
<1> QED BY <1>2, <1>3

\* Every step keeps the types.
LEMMA TypesKept ==
  ASSUME RecorderTypes, RecorderNext
  PROVE  RecorderTypes'
PROOF
<1> USE FieldsAre, CloseIs
<1>1. ASSUME Load PROVE RecorderTypes'
  <2>1. visit' \in VisitRecord
    BY <1>1 DEF Load, RecorderTypes, VisitRecord, RecorderPhase, Native
  <2>2. wire' \in Seq(Message)
    BY <1>1, LoadSends, SentIs DEF RecorderTypes
  <2>3. page' \in PageRecord /\ elapsed' \in Nat /\ quietFor' \in Nat
    BY <1>1, RecorderAssumption DEF Load, NewWait, RecorderTypes, Forever
  <2> QED BY <2>1, <2>2, <2>3 DEF RecorderTypes
<1>2. ASSUME SurfaceSettles PROVE RecorderTypes'
  BY <1>2 DEF SurfaceSettles, Enter, RecorderTypes, VisitRecord, RecorderPhase
<1>3. ASSUME Provenance PROVE RecorderTypes'
  <2>1. visit' \in VisitRecord
    BY <1>3 DEF Provenance, RecorderTypes, VisitRecord, RecorderPhase
  <2> QED BY <1>3, <2>1 DEF Provenance, RecorderTypes, Now
<1>4. ASSUME FindTool PROVE RecorderTypes'
  <2>1. visit' \in VisitRecord
    BY <1>4, ZenonT(40) DEF FindTool, Enter, RecorderTypes, VisitRecord, RecorderPhase, Working
  <2> QED BY <1>4, <2>1 DEF FindTool, RecorderTypes, Now
<1>5. ASSUME CaptureBefore PROVE RecorderTypes'
  <2>1. visit' \in VisitRecord
    BY <1>5 DEF CaptureBefore, RecorderTypes, VisitRecord, RecorderPhase, Working
  <2> QED BY <1>5, <2>1 DEF CaptureBefore, RecorderTypes
<1>6. ASSUME SendCall PROVE RecorderTypes'
  <2>1. visit' \in VisitRecord
    BY <1>6 DEF SendCall, Enter, RecorderTypes, VisitRecord, RecorderPhase, Working
  <2>2. page' \in PageRecord
    BY <1>6 DEF SendCall, RecorderTypes, PageRecord
  <2> QED BY <1>6, <2>1, <2>2 DEF SendCall, RecorderTypes, Now
<1>7. ASSUME ActAsHuman PROVE RecorderTypes'
  <2>1. visit' \in VisitRecord
    BY <1>7 DEF ActAsHuman, Enter, RecorderTypes, VisitRecord, RecorderPhase, Working
  <2>2. With(page.due, "call", FirstDelay) \in DueTimes
    BY WithIs, RecorderAssumption DEF Pending
  <2>3. page' \in PageRecord
    BY <1>7, <2>2 DEF ActAsHuman, RecorderTypes, PageRecord
  <2> QED BY <1>7, <2>1, <2>3 DEF ActAsHuman, RecorderTypes, NewWait
<1>8. ASSUME Invoke PROVE RecorderTypes'
  <2>1. With(page.due, "call", FirstDelay) \in DueTimes
    BY WithIs, RecorderAssumption DEF Pending
  <2>2. page.live["top"] \in Tool
    OBVIOUS
  <2>3. page' \in PageRecord
    BY <1>8, <2>1, <2>2 DEF Invoke, RecorderTypes, PageRecord
  <2>4. Send(<<[kind |-> "refused"]>>) \/ Send(<<[kind |-> "invoked"]>>)
    BY <1>8 DEF Invoke
  <2>5. wire' \in Seq(Message)
    BY <2>4, SentOne, MessagesOf DEF RecorderTypes
  <2> QED BY <1>8, <2>3, <2>5 DEF Invoke, RecorderTypes, Now
<1>9. ASSUME Hear PROVE RecorderTypes'
  <2>1. wire' \in Seq(Message) /\ Head(wire) \in Message
    BY <1>9, HeardOne DEF Hear, RecorderTypes
  <2> DEFINE m == Head(wire)
  <2>2. m \in Message
    BY <2>1
  <2> HIDE DEF m
  <2>3. Heard(m) \in VisitRecord
    <3>1. CASE m.kind = "tool"
      <4>1. m.frame \in Frame /\ m.definition \in Tool
        BY <2>2, <3>1 DEF Message
      <4>2. Heard(m) = [visit EXCEPT !.known[m.frame] = m.definition]
        BY <3>1 DEF Heard
      <4> DEFINE known == [visit.known EXCEPT ![m.frame] = m.definition]
      <4>3. known \in [Frame -> Tool]
        BY <4>1 DEF RecorderTypes, VisitRecord
      <4>4. Heard(m) = [visit EXCEPT !.known = known]
        BY <4>2
      <4> HIDE DEF known
      <4> QED BY <4>3, <4>4 DEF RecorderTypes, VisitRecord
    <3>2. CASE m.kind = "request" /\ visit.recording
      <4>1. m.request \in AnyRequest
        BY <2>2, <3>2 DEF Message, AnyRequest
      <4>2. Heard(m) = [visit EXCEPT !.network = @ \cup {m.request}, !.inFlight = @ \cup {m.request}]
        BY <3>2 DEF Heard
      <4> DEFINE network == visit.network \cup {m.request}
                 inFlight == visit.inFlight \cup {m.request}
      <4>3. network \in SUBSET AnyRequest /\ inFlight \in SUBSET AnyRequest
        BY <4>1 DEF RecorderTypes, VisitRecord
      <4>4. Heard(m) = [visit EXCEPT !.network = network, !.inFlight = inFlight]
        BY <4>2
      <4> HIDE DEF network, inFlight
      <4> QED BY <4>3, <4>4 DEF RecorderTypes, VisitRecord
    <3>3. CASE m.kind = "settled" /\ visit.recording
      <4>1. Heard(m) = [visit EXCEPT !.inFlight = @ \ {m.request}]
        BY <3>3 DEF Heard
      <4> QED BY <4>1 DEF RecorderTypes, VisitRecord
    <3>4. CASE m.kind = "invoked"
      <4>1. Heard(m) = [visit EXCEPT !.phase = "awaiting"]
        BY <3>4 DEF Heard
      <4> QED BY <4>1 DEF RecorderTypes, VisitRecord, RecorderPhase, Working
    <3>5. CASE m.kind = "responded"
      <4>1. m.status \in {"Completed", "Failed"}
        BY <2>2, <3>5 DEF Message
      <4>2. Heard(m) = [visit EXCEPT !.answer = m.status]
        BY <3>5 DEF Heard, Buffered
      <4> QED BY <4>1, <4>2 DEF RecorderTypes, VisitRecord
    <3>6. CASE m.kind = "refused"
      BY <3>6 DEF Heard
    <3>7. CASE m.kind \in {"request", "settled"} /\ ~visit.recording
      <4>1. Heard(m) = visit
        BY <3>7 DEF Heard
      <4> QED BY <4>1 DEF RecorderTypes
    <3>8. m.kind \in {"tool", "request", "settled", "invoked", "responded", "refused"}
      BY <2>2 DEF Message
    <3> QED BY <3>1, <3>2, <3>3, <3>4, <3>5, <3>6, <3>7, <3>8
  <2>4. visit' = Heard(m) /\ page' = page /\ elapsed' \in Nat /\ quietFor' \in Nat
    BY <1>9 DEF Hear, RecorderTypes, m
  <2> QED BY <2>1, <2>3, <2>4 DEF RecorderTypes
<1>10. ASSUME TakeAnswer PROVE RecorderTypes'
  <2>1. visit' \in VisitRecord
    BY <1>10 DEF TakeAnswer, Enter, RecorderTypes, VisitRecord, RecorderPhase, Working
  <2> QED BY <1>10, <2>1 DEF TakeAnswer, RecorderTypes, NewWait
<1>11. ASSUME AnswerTimesOut PROVE RecorderTypes'
  <2>1. visit' \in VisitRecord
    BY <1>11 DEF AnswerTimesOut, VisitRecord
  <2> QED BY <1>11, <2>1 DEF AnswerTimesOut, RecorderTypes, Now
<1>12. ASSUME EndWait PROVE RecorderTypes'
  <2>1. visit' \in VisitRecord
    BY <1>12, ZenonT(40) DEF EndWait, RecorderTypes, VisitRecord, RecorderPhase, Working, ToolsAfter
  <2> QED BY <1>12, <2>1 DEF EndWait, RecorderTypes
<1>13. ASSUME CaptureAfter PROVE RecorderTypes'
  <2>1. visit' \in VisitRecord
    BY <1>13 DEF CaptureAfter, RecorderTypes, VisitRecord, PageRecord
  <2> QED BY <1>13, <2>1 DEF CaptureAfter, RecorderTypes, Now
<1>14. ASSUME RecorderTick PROVE RecorderTypes'
  <2>1. DOMAIN page.due \subseteq Pending /\ (\A t \in DOMAIN page.due : page.due[t] \in Nat /\ page.due[t] > 0)
    BY <1>14, DueTimesIs DEF RecorderTick
  <2> DEFINE d == [t \in DOMAIN page.due |-> page.due[t] - 1]
  <2>2. DOMAIN d = DOMAIN page.due /\ d = [t \in DOMAIN d |-> d[t]] /\ \A t \in DOMAIN d : d[t] \in Nat
    BY <2>1
  <2> HIDE DEF d
  <2>3. d \in DueTimes
    BY <2>1, <2>2, DueTimesIs
  <2>4. page' = [page EXCEPT !.due = d]
    BY <1>14 DEF RecorderTick, d
  <2>5. page' \in PageRecord
    BY <2>3, <2>4 DEF RecorderTypes, PageRecord
  <2>6. elapsed' \in Nat /\ quietFor' \in Nat
    BY <1>14 DEF RecorderTick, RecorderTypes, Now
  <2> QED BY <1>14, <2>5, <2>6 DEF RecorderTick, RecorderTypes
<1>15. ASSUME NEW t \in Pending, PageActs(t) PROVE RecorderTypes'
  <2>1. PICK more \in SUBSET Request :
           /\ page' = [page EXCEPT !.due = Without(@, t), !.handled = @ \cup {t},
                                   !.started = @ \cup more, !.open = @ \cup more]
           /\ \/ more = {} /\ wire' = wire
              \/ \E r \in Request : more = {r} /\ Send(<<[kind |-> "request", request |-> r]>>)
    BY <1>15, PageActsIs
  <2>2. Without(page.due, t) \in DueTimes
    BY WithoutIs
  <2>3. page' \in PageRecord
    BY <2>1, <2>2 DEF RecorderTypes, PageRecord, AnyRequest
  <2>4. wire' \in Seq(Message)
    BY <2>1, SentOne, MessagesOf DEF RecorderTypes
  <2>5. UNCHANGED <<visit, elapsed, quietFor>>
    BY <1>15 DEF PageActs, Now
  <2> QED BY <2>3, <2>4, <2>5 DEF RecorderTypes
<1>16. ASSUME VisitFails PROVE RecorderTypes'
  <2>1. visit' \in VisitRecord
    BY <1>16 DEF VisitFails, VisitRecord
  <2> QED BY <1>16, <2>1 DEF VisitFails, RecorderTypes, Now
<1>17. ASSUME NEW f \in Frame, NEW d \in Tool, ChangeTool(f, d) PROVE RecorderTypes'
  <2>1. wire' \in Seq(Message)
    BY <1>17, ChangeToolSends, SentIs DEF RecorderTypes
  <2> DEFINE live == [page.live EXCEPT ![f] = d]
             back == page.changedBack \/ (f = "top" /\ page.invoked # NoTool /\ d = visit.hash)
             count == page.changes + 1
  <2>4. live \in [Frame -> Tool] /\ back \in BOOLEAN /\ count \in Nat
    BY DEF RecorderTypes, PageRecord
  <2>5. page' = [page EXCEPT !.live = live, !.changes = count, !.changedBack = back]
    BY <1>17 DEF ChangeTool
  <2> HIDE DEF live, back, count
  <2>2. page' \in PageRecord
    BY <2>4, <2>5 DEF RecorderTypes, PageRecord
  <2>3. UNCHANGED <<visit, elapsed, quietFor>>
    BY <1>17 DEF ChangeTool, Now
  <2> QED BY <2>1, <2>2, <2>3 DEF RecorderTypes
<1>18. ASSUME NEW r \in AnyRequest, RequestSettles(r) PROVE RecorderTypes'
  <2>1. wire' \in Seq(Message)
    BY <1>18, SentOne, MessagesOf DEF RequestSettles, RecorderTypes
  <2> DEFINE d == IF r = EarlyRequest THEN page.due ELSE With(page.due, r, PageDelay)
  <2>2. d \in DueTimes
    BY WithIs, RecorderAssumption DEF Pending, AnyRequest
  <2>3. page' = [page EXCEPT !.open = @ \ {r}, !.due = d]
    BY <1>18 DEF RequestSettles
  <2> HIDE DEF d
  <2>4. page' \in PageRecord
    BY <2>2, <2>3 DEF RecorderTypes, PageRecord
  <2>5. UNCHANGED <<visit, elapsed, quietFor>>
    BY <1>18 DEF RequestSettles, Now
  <2> QED BY <2>1, <2>4, <2>5 DEF RecorderTypes
<1>19. ASSUME NEW status \in {"Completed", "Failed"}, ToolResponds(status) PROVE RecorderTypes'
  <2> DEFINE m == [kind |-> "responded", status |-> status]
  <2>1. m \in Message /\ m.kind = "responded"
    BY MessagesOf
  <2>2. Send(<<m>>) \/ Overtaken(m)
    BY <1>19 DEF ToolResponds, Overtaken
  <2> HIDE DEF m
  <2>3. wire' \in Seq(Message)
    BY <2>1, <2>2, SentOne, OvertakenIs DEF RecorderTypes
  <2>4. page' \in PageRecord
    BY <1>19 DEF ToolResponds, RecorderTypes, PageRecord
  <2>5. UNCHANGED <<visit, elapsed, quietFor>>
    BY <1>19 DEF ToolResponds, Now
  <2> QED BY <2>3, <2>4, <2>5 DEF RecorderTypes
<1> QED
  BY <1>1, <1>2, <1>3, <1>4, <1>5, <1>6, <1>7, <1>8, <1>9, <1>10, <1>11, <1>12, <1>13, <1>14, <1>15, <1>16, <1>17,
     <1>18, <1>19 DEF RecorderNext, RunnerStep, Pending, Tool, AnyRequest

-----------------------------------------------------------------------------
(* The phases *)

\* Nothing happens after a visit is closed.
LEMMA NotClosed == ASSUME RecorderTypes, RecorderNext PROVE visit.phase # "closed"
BY DEF RecorderNext, RunnerStep, Load, SurfaceSettles, Provenance, FindTool, CaptureBefore, SendCall, ActAsHuman, Invoke, Hear,
       TakeAnswer, AnswerTimesOut, EndWait, CaptureAfter, RecorderTick, PageActs, VisitFails, ChangeTool, RequestSettles,
       ToolResponds, Closed, Phase

\* Steps of the runner that hear nothing.
LEMMA PhaseSteps ==
  ASSUME RecorderTypes, PhaseFits,
         \/ SurfaceSettles \/ Provenance \/ FindTool \/ CaptureBefore \/ TakeAnswer \/ AnswerTimesOut
         \/ EndWait \/ CaptureAfter \/ VisitFails
  PROVE  PhaseFits'
PROOF
<1>1. page' = page /\ wire' = wire
  BY DEF SurfaceSettles, Provenance, FindTool, CaptureBefore, TakeAnswer, AnswerTimesOut, EndWait, CaptureAfter, VisitFails
<1>2. visit.phase # "closed"
  BY DEF SurfaceSettles, Provenance, FindTool, CaptureBefore, TakeAnswer, AnswerTimesOut, EndWait, CaptureAfter, VisitFails,
         Phase, Closed
<1>3. visit \in VisitRecord
  BY DEF RecorderTypes
<1>4. visit'.phase \in {"closed", "quiescing", "capturing"} \/ (visit.phase # "invoking" /\ visit'.phase # "invoking")
  BY <1>3 DEF SurfaceSettles, Provenance, FindTool, CaptureBefore, TakeAnswer, AnswerTimesOut, EndWait, CaptureAfter, VisitFails,
         Phase, Enter, Close, VisitRecord
<1>5. visit'.phase # "closed" => visit.phase # "invoking" /\ visit'.phase # "invoking"
  BY <1>3 DEF SurfaceSettles, Provenance, FindTool, CaptureBefore, TakeAnswer, AnswerTimesOut, EndWait, CaptureAfter, VisitFails,
         Phase, Enter, Close, VisitRecord
<1>6. visit'.phase \notin Working \cup {"closed"} => visit.phase \notin Working \cup {"closed"}
  BY <1>3 DEF SurfaceSettles, Provenance, FindTool, CaptureBefore, TakeAnswer, AnswerTimesOut, EndWait, CaptureAfter, VisitFails,
         Phase, Enter, Close, VisitRecord, Working
<1>7. visit'.recording <=> visit'.phase \in Working
  <2>1. visit.recording <=> visit.phase \in Working
    BY DEF PhaseFits
  <2> QED BY <1>3, <2>1, ZenonT(40) DEF SurfaceSettles, Provenance, FindTool, CaptureBefore, TakeAnswer, AnswerTimesOut, EndWait, CaptureAfter,
         VisitFails, Phase, Enter, Close, VisitRecord, Working
<1>8. visit'.capture # "none" => visit'.phase \in {"capturing", "closed"}
  <2>1. visit.capture # "none" => visit.phase \in {"capturing", "closed"}
    BY DEF PhaseFits
  <2> QED BY <1>3, <2>1 DEF SurfaceSettles, Provenance, FindTool, CaptureBefore, TakeAnswer, AnswerTimesOut, EndWait, CaptureAfter,
         VisitFails, Phase, Enter, Close, VisitRecord
<1> QED BY <1>1, <1>2, <1>5, <1>6, <1>7, <1>8 DEF PhaseFits, Reply

\* Steps that leave the runner alone.
LEMMA PhaseAside ==
  ASSUME RecorderTypes, PhaseFits, visit' = visit, visit.phase # "closed",
         page'.call = "sent" => page.call = "sent",
         visit.phase \notin Working => page'.due = page.due /\ page'.started = page.started,
         \A i, k \in 1 .. Len(wire') : Reply(i)' /\ Reply(k)' => i = k,
         \A i \in 1 .. Len(wire') : Reply(i)' => \E k \in 1 .. Len(wire) : Reply(k)
  PROVE  PhaseFits'
PROOF
<1>1. \A i \in 1 .. Len(wire') : Reply(i)' => visit.phase = "invoking" /\ page.call # "sent"
  BY DEF PhaseFits
<1> QED BY <1>1 DEF PhaseFits

\* Every step keeps what the phases mean.
LEMMA PhaseKept ==
  ASSUME RecorderTypes, PhaseFits, RequestsFit, RecorderNext
  PROVE  PhaseFits'
PROOF
<1>0. visit.phase # "closed" /\ visit \in VisitRecord /\ wire \in Seq(Message)
  BY NotClosed DEF RecorderTypes
<1>1. ASSUME Load PROVE PhaseFits'
  <2>1. visit.phase = "loading" /\ page' = page
    BY <1>1 DEF Load, Phase
  <2>2. /\ visit'.phase \in {"settling", "ready"} /\ visit'.recording = visit.recording
        /\ visit'.capture = visit.capture
    BY <1>0, <1>1 DEF Load, VisitRecord
  <2>3. \A i \in 1 .. Len(wire') : ~Reply(i)'
    BY <1>0, <1>1, <2>1, LoadSends, SentAside DEF PhaseFits
  <2> QED BY <1>0, <2>1, <2>2, <2>3 DEF PhaseFits, Working
<1>6. ASSUME SendCall PROVE PhaseFits'
  <2>1. visit.phase = "operating" /\ wire' = wire
    BY <1>6 DEF SendCall, Phase
  <2>2. /\ page'.due = page.due /\ page'.started = page.started
        /\ \/ /\ visit'.phase = "invoking" /\ page'.call = "sent"
              /\ visit'.recording = visit.recording /\ visit'.capture = visit.capture
           \/ page' = page /\ visit' = Close
    BY <1>0, <1>6 DEF SendCall, Enter, VisitRecord, RecorderTypes, PageRecord
  <2>3. \A i \in 1 .. Len(wire) : ~Reply(i)
    BY <2>1 DEF PhaseFits
  <2>4. visit.capture = "none" /\ visit.recording
    BY <2>1 DEF PhaseFits, Working
  <2>5. CASE visit' = Close
    <3>1. visit'.phase = "closed" /\ ~visit'.recording
      BY <1>0, <2>5 DEF Close, VisitRecord
    <3> QED BY <2>1, <2>3, <3>1 DEF PhaseFits, Working, Reply
  <2>6. CASE visit'.phase = "invoking" /\ page'.call = "sent" /\ visit'.recording = visit.recording /\ visit'.capture = visit.capture
    BY <2>1, <2>2, <2>3, <2>4, <2>6 DEF PhaseFits, Working, Reply
  <2> QED BY <2>2, <2>5, <2>6
<1>7. ASSUME ActAsHuman PROVE PhaseFits'
  <2>1. visit.phase = "operating" /\ wire' = wire
    BY <1>7 DEF ActAsHuman, Phase
  <2>2. page'.call = page.call /\ visit'.phase = "quiescing" /\ visit'.recording = visit.recording /\ visit'.capture = visit.capture
    BY <1>0, <1>7 DEF ActAsHuman, Enter, VisitRecord, RecorderTypes, PageRecord
  <2>3. \A i \in 1 .. Len(wire) : ~Reply(i)
    BY <2>1 DEF PhaseFits
  <2> QED BY <2>1, <2>2, <2>3 DEF PhaseFits, Working, Reply
<1>8. ASSUME Invoke PROVE PhaseFits'
  <2>1. visit.phase = "invoking" /\ page.call = "sent" /\ visit' = visit
    BY <1>8 DEF Invoke, Phase
  <2>2. page'.call \in {"refused", "executing"}
    BY <1>8 DEF Invoke, RecorderTypes, PageRecord
  <2>3. \A i \in 1 .. Len(wire) : ~Reply(i)
    BY <2>1 DEF PhaseFits
  <2>4. Send(<<[kind |-> "refused"]>>) \/ Send(<<[kind |-> "invoked"]>>)
    BY <1>8 DEF Invoke
  <2>5. \A i \in 1 .. Len(wire') : Reply(i)' => i = Len(wire) + 1
    BY <1>0, <2>3, <2>4, SentOne, MessagesOf
  <2> QED BY <2>1, <2>2, <2>5 DEF PhaseFits, Working
<1>9. ASSUME Hear PROVE PhaseFits'
  <2>1. /\ wire' = Tail(wire) /\ wire # <<>> /\ page' = page
        /\ visit' = Heard(Head(wire))
    BY <1>9 DEF Hear
  <2> DEFINE m == Head(wire)
  <2>2. /\ m \in Message
        /\ \A i \in 1 .. Len(wire') : i + 1 \in 1 .. Len(wire) /\ (Reply(i)' <=> Reply(i + 1)) /\ i \in Nat
        /\ m.kind \in {"invoked", "refused"} => Reply(1) /\ 1 \in 1 .. Len(wire)
    BY <1>0, <2>1, HeardOne
  <2>3. visit' = Heard(m)
    BY <2>1
  <2> HIDE DEF m
  <2>4. CASE m.kind \in {"invoked", "refused"}
    <3>1. visit.phase = "invoking" /\ page.call # "sent"
      BY <1>0, <2>2, <2>4 DEF PhaseFits
    <3>2. \A i \in 1 .. Len(wire') : ~Reply(i)'
      <4>1. \A i \in 1 .. Len(wire') : i + 1 # 1
        BY <2>2
      <4> QED BY <2>2, <2>4, <4>1 DEF PhaseFits
    <3>3. visit.capture = "none" /\ visit.recording
      BY <3>1 DEF PhaseFits, Working
    <3>4. CASE m.kind = "invoked"
      <4>1. visit' = [visit EXCEPT !.phase = "awaiting"]
        BY <2>3, <3>4 DEF Heard
      <4>2. visit'.phase = "awaiting" /\ visit'.recording = visit.recording /\ visit'.capture = visit.capture
        BY <1>0, <4>1 DEF VisitRecord
      <4> QED BY <2>1, <3>1, <3>2, <3>3, <4>2 DEF PhaseFits, Working
    <3>5. CASE m.kind = "refused"
      <4>1. visit' = Close
        BY <2>3, <3>5 DEF Heard
      <4>2. visit'.phase = "closed" /\ ~visit'.recording
        BY <1>0, <4>1 DEF VisitRecord, Close
      <4> QED BY <2>1, <3>1, <3>2, <4>2 DEF PhaseFits, Working
    <3> QED BY <2>4, <3>4, <3>5
  <2>5. CASE m.kind \notin {"invoked", "refused"}
    <3>1. visit'.phase = visit.phase /\ visit'.recording = visit.recording /\ visit'.capture = visit.capture
      <4>1. \/ Heard(m) = visit
            \/ Heard(m) = [visit EXCEPT !.known[m.frame] = m.definition]
            \/ Heard(m) = [visit EXCEPT !.network = @ \cup {m.request}, !.inFlight = @ \cup {m.request}]
            \/ Heard(m) = [visit EXCEPT !.inFlight = @ \ {m.request}]
            \/ Heard(m) = [visit EXCEPT !.answer = m.status]
        BY <2>5 DEF Heard, Buffered
      <4> QED BY <1>0, <2>3, <4>1 DEF VisitRecord
    <3>2. \A i \in 1 .. Len(wire') : Reply(i)' => visit.phase = "invoking" /\ page.call # "sent"
      BY <1>0, <2>2 DEF PhaseFits
    <3>3. \A i, k \in 1 .. Len(wire') : Reply(i)' /\ Reply(k)' => i = k
      <4>1. SUFFICES ASSUME NEW i \in 1 .. Len(wire'), NEW k \in 1 .. Len(wire'), Reply(i)', Reply(k)' PROVE i = k
        OBVIOUS
      <4>2. i + 1 = k + 1
        BY <2>2, <4>1 DEF PhaseFits
      <4> QED BY <2>2, <4>2
    <3> QED BY <2>1, <3>1, <3>2, <3>3 DEF PhaseFits
  <2> QED BY <2>4, <2>5
<1>14. ASSUME RecorderTick PROVE PhaseFits'
  <2>1. /\ page'.call = page.call /\ page'.started = page.started /\ wire' = wire /\ visit' = visit
        /\ page.due = [t \in {} |-> 0] => page'.due = [t \in {} |-> 0]
    <3>1. page.due = [t \in {} |-> 0] => [t \in DOMAIN page.due |-> page.due[t] - 1] = [t \in {} |-> 0]
      OBVIOUS
    <3> QED BY <1>14, <3>1 DEF RecorderTick, RecorderTypes, PageRecord
  <2> QED BY <2>1 DEF PhaseFits, Reply
<1>15. ASSUME NEW t \in Pending, PageActs(t) PROVE PhaseFits'
  <2>1. PICK more \in SUBSET Request :
           /\ page' = [page EXCEPT !.due = Without(@, t), !.handled = @ \cup {t},
                                   !.started = @ \cup more, !.open = @ \cup more]
           /\ \/ more = {} /\ wire' = wire
              \/ \E r \in Request : more = {r} /\ Send(<<[kind |-> "request", request |-> r]>>)
    BY <1>15, PageActsIs
  <2>2. visit' = visit /\ page'.call = page.call /\ t \in DOMAIN page.due
    BY <1>15, <2>1 DEF PageActs, Due, RecorderTypes, PageRecord
  <2>3. visit.phase \in Working
    BY <1>0, <2>2 DEF PhaseFits
  <2>4. \A i \in 1 .. Len(wire') : Reply(i)' => i \in 1 .. Len(wire) /\ Reply(i)
    <3>1. CASE wire' = wire
      BY <3>1 DEF Reply
    <3>2. CASE \E r \in Request : Send(<<[kind |-> "request", request |-> r]>>)
      <4> PICK r \in Request : Send(<<[kind |-> "request", request |-> r]>>)
        BY <3>2
      <4>1. \A i \in 1 .. Len(wire') : Reply(i)' => IF i \in 1 .. Len(wire) THEN Reply(i)
                  ELSE i = Len(wire) + 1 /\ [kind |-> "request", request |-> r].kind \in {"invoked", "refused"}
        BY <1>0, SentOne, MessagesOf
      <4> QED BY <4>1
    <3> QED BY <2>1, <3>1, <3>2
  <2>5. \A i, k \in 1 .. Len(wire') : Reply(i)' /\ Reply(k)' => i = k
    BY <2>4 DEF PhaseFits
  <2> QED BY <1>0, <2>2, <2>3, <2>4, <2>5, PhaseAside
<1>17. ASSUME NEW f \in Frame, NEW d \in Tool, ChangeTool(f, d) PROVE PhaseFits'
  <2>1. visit' = visit /\ page'.call = page.call /\ page'.due = page.due /\ page'.started = page.started
    BY <1>17 DEF ChangeTool, RecorderTypes, PageRecord
  <2>2. \A i \in 1 .. Len(wire') : Reply(i)' => i \in 1 .. Len(wire) /\ Reply(i)
    BY <1>0, <1>17, ChangeToolSends, SentAside
  <2>3. \A i, k \in 1 .. Len(wire') : Reply(i)' /\ Reply(k)' => i = k
    BY <2>2 DEF PhaseFits
  <2> QED BY <1>0, <2>1, <2>2, <2>3, PhaseAside
<1>18. ASSUME NEW r \in AnyRequest, RequestSettles(r) PROVE PhaseFits'
  <2>1. visit' = visit /\ page'.call = page.call /\ page'.started = page.started /\ r \in page.open
    BY <1>18 DEF RequestSettles, RecorderTypes, PageRecord
  <2>2. Send(<<[kind |-> "settled", request |-> r]>>)
    BY <1>18 DEF RequestSettles
  <2>3. \A i \in 1 .. Len(wire') : Reply(i)' => IF i \in 1 .. Len(wire) THEN Reply(i)
                  ELSE i = Len(wire) + 1 /\ [kind |-> "settled", request |-> r].kind \in {"invoked", "refused"}
    BY <1>0, <2>2, SentOne, MessagesOf
  <2>4. \A i, k \in 1 .. Len(wire') : Reply(i)' /\ Reply(k)' => i = k
    BY <2>3 DEF PhaseFits
  <2>5. visit.phase \notin Working => page'.due = page.due
    <3>1. r \in Request => r \in page.started
      BY <2>1 DEF RequestsFit
    <3>2. visit.phase \notin Working => r = EarlyRequest
      BY <1>0, <3>1 DEF PhaseFits, AnyRequest
    <3> QED BY <1>18, <3>2 DEF RequestSettles, RecorderTypes, PageRecord
  <2> QED BY <1>0, <2>1, <2>3, <2>4, <2>5, PhaseAside
<1>19. ASSUME NEW status \in {"Completed", "Failed"}, ToolResponds(status) PROVE PhaseFits'
  <2> DEFINE m == [kind |-> "responded", status |-> status]
  <2>1. m \in Message /\ m.kind = "responded" /\ Aside(m)
    BY MessagesOf
  <2>2. Send(<<m>>) \/ Overtaken(m)
    BY <1>19 DEF ToolResponds, Overtaken
  <2> HIDE DEF m
  <2>3. /\ visit' = visit /\ page'.call = "responded"
        /\ page'.due = page.due /\ page'.started = page.started
    BY <1>19 DEF ToolResponds, RecorderTypes, PageRecord
  <2>4. /\ \A i, k \in 1 .. Len(wire') : Reply(i)' /\ Reply(k)' => i = k
        /\ \A i \in 1 .. Len(wire') : Reply(i)' => \E k \in 1 .. Len(wire) : Reply(k)
    <3>1. CASE Send(<<m>>)
      <4>1. \A i \in 1 .. Len(wire') : Reply(i)' => i \in 1 .. Len(wire) /\ Reply(i)
        BY <1>0, <2>1, <3>1, SentOne
      <4> QED BY <4>1 DEF PhaseFits
    <3>2. CASE Overtaken(m)
      <4>1. /\ \A i \in 1 .. Len(wire') : Reply(i)' => \/ i \in 1 .. Len(wire) /\ i # Len(wire) /\ Reply(i)
                                                       \/ i = Len(wire) + 1
            /\ Len(wire) \in 1 .. Len(wire) /\ Reply(Len(wire))
        BY <1>0, <2>1, <3>2, OvertakenIs
      <4>2. \A i \in 1 .. Len(wire') : Reply(i)' => i = Len(wire) + 1
        BY <4>1 DEF PhaseFits
      <4> QED BY <4>1, <4>2
    <3> QED BY <2>2, <3>1, <3>2
  <2> QED BY <1>0, <2>3, <2>4, PhaseAside
<1> QED
  BY <1>1, <1>6, <1>7, <1>8, <1>9, <1>14, <1>15, <1>17, <1>18, <1>19, PhaseSteps
  DEF RecorderNext, RunnerStep, Pending, Tool, AnyRequest

-----------------------------------------------------------------------------
(* The effects *)

\* What is assumed of durations and requests.
LEMMA DurationsAre ==
  /\ EffectObservation \in Nat /\ EffectQuietWindow \in Nat /\ FirstDelay \in Nat /\ PageDelay \in Nat
  /\ FirstDelay < EffectObservation /\ PageDelay < EffectQuietWindow
  /\ "call" \notin Request /\ EarlyRequest \notin Request
BY RecorderAssumption

\* A visit that closes without a capture claims nothing.
LEMMA ClosedFits ==
  ASSUME visit'.phase = "closed", visit'.capture = "none" PROVE EffectsFit'
BY DEF EffectsFit, WholeEffect

\* While the visit is open there is no trace yet.
LEMMA OpenFits ==
  ASSUME visit'.phase # "closed", RequestsFit', DelaysFit', CaptureFits' PROVE EffectsFit'
BY DEF EffectsFit, WholeEffect, Closed, Phase

\* What is known of requests and delays stays, when only a wait begins or the runner moves on.
LEMMA KeepsRequests ==
  ASSUME RecorderTypes, RecorderTypes', RequestsFit, DelaysFit,
         page'.open = page.open, page'.due = page.due, page'.started = page.started,
         visit'.network = visit.network, visit'.inFlight = visit.inFlight,
         \A r : (Announced(r)' <=> Announced(r)) /\ (Answered(r)' <=> Answered(r)),
         page.due = [t \in {} |-> 0] \/ quietFor' = quietFor \/ quietFor' = 0,
         visit'.phase = "quiescing" =>
           elapsed' = 0 \/ (visit.phase = "quiescing" /\ elapsed' = elapsed /\ quietFor' = quietFor)
  PROVE  RequestsFit' /\ DelaysFit'
PROOF
<1> USE DurationsAre
<1>0. elapsed \in Nat /\ elapsed' \in Nat /\ quietFor \in Nat /\ quietFor' \in Nat
      /\ \A t \in DOMAIN page.due : page.due[t] \in Nat
  BY FieldsAre, DueTimesIs DEF RecorderTypes
<1>1. RequestsFit'
  <2>1. ASSUME NEW r \in Request, Announced(r)', visit'.phase = "quiescing" PROVE NotYetQuiet'
    <3>1. CASE elapsed' = 0
      BY <3>1 DEF NotYetQuiet
    <3>2. CASE visit.phase = "quiescing" /\ elapsed' = elapsed /\ quietFor' = quietFor
      BY <2>1, <3>2 DEF NotYetQuiet, RequestsFit
    <3> QED BY <2>1, <3>1, <3>2
  <2> QED BY <2>1 DEF RequestsFit
<1>2. DelaysFit'
  <2>1. \A t \in DOMAIN page.due : page.due[t] <= IF t = "call" THEN FirstDelay ELSE PageDelay
    BY DEF DelaysFit
  <2>2. ASSUME "call" \in DOMAIN page.due, visit'.phase = "quiescing" PROVE elapsed' + page.due["call"] <= FirstDelay
    BY <1>0, <2>1, <2>2 DEF DelaysFit
  <2>3. ASSUME NEW r \in DOMAIN page.due \cap Request
        PROVE  \/ Answered(r)' /\ (r \in visit'.inFlight \/ Announced(r)')
               \/ quietFor' + page'.due[r] <= PageDelay
    <3>1. \/ Answered(r) /\ (r \in visit.inFlight \/ Announced(r))
          \/ quietFor + page.due[r] <= PageDelay
      BY DEF DelaysFit
    <3>2. page.due[r] <= PageDelay
      BY <2>1
    <3>3. quietFor' = quietFor \/ quietFor' = 0
      OBVIOUS
    <3> QED BY <1>0, <3>1, <3>2, <3>3
  <2> QED BY <2>1, <2>2, <2>3 DEF DelaysFit
<1> QED BY <1>1, <1>2

\* Steps of the runner before it records, and its wait for the answer.
LEMMA RunnerKeeps ==
  ASSUME EffectInv, RecorderTypes',
         \/ SurfaceSettles \/ Provenance \/ FindTool \/ CaptureBefore \/ SendCall \/ TakeAnswer \/ AnswerTimesOut \/ VisitFails
  PROVE  EffectsFit'
PROOF
<1> USE DEF EffectInv
<1>0. visit \in VisitRecord /\ page \in PageRecord
  BY DEF RecorderTypes
<1>1. visit.phase # "closed"
  BY DEF SurfaceSettles, Provenance, FindTool, CaptureBefore, SendCall, TakeAnswer, AnswerTimesOut, VisitFails, Phase, Closed
<1>2. wire' = wire /\ page'.open = page.open /\ page'.due = page.due /\ page'.started = page.started
  BY <1>0 DEF SurfaceSettles, Provenance, FindTool, CaptureBefore, SendCall, TakeAnswer, AnswerTimesOut, VisitFails, PageRecord
<1>3. CASE visit'.phase = "closed"
  <2>1. visit.capture = "none" \/ VisitFails
    BY <1>1 DEF PhaseFits, SurfaceSettles, Provenance, FindTool, CaptureBefore, SendCall, TakeAnswer, AnswerTimesOut, Phase
  <2>2. visit'.capture = "none"
    BY <1>0, <2>1 DEF SurfaceSettles, Provenance, FindTool, CaptureBefore, SendCall, TakeAnswer, AnswerTimesOut, VisitFails,
           Close, Enter, VisitRecord
  <2> QED BY <1>3, <2>2, ClosedFits
<1>4. CASE visit'.phase # "closed"
  <2>1. /\ visit'.network = visit.network /\ visit'.inFlight = visit.inFlight
        /\ visit'.phase \notin {"capturing"}
        /\ visit'.phase = "quiescing" => TakeAnswer
    BY <1>0, <1>4 DEF SurfaceSettles, Provenance, FindTool, CaptureBefore, SendCall, TakeAnswer, AnswerTimesOut, VisitFails,
           Close, Enter, VisitRecord
  <2>2. visit'.phase = "quiescing" => elapsed' = 0
    BY <2>1 DEF TakeAnswer, NewWait
  <2>3. quietFor' = quietFor \/ quietFor' = 0
    BY DEF SurfaceSettles, Provenance, FindTool, CaptureBefore, SendCall, TakeAnswer, AnswerTimesOut, VisitFails, Now
  <2>4. \A r : (Announced(r)' <=> Announced(r)) /\ (Answered(r)' <=> Answered(r))
    BY <1>2 DEF Announced, Answered
  <2>5. RequestsFit' /\ DelaysFit'
    BY <1>1, <1>2, <2>1, <2>2, <2>3, <2>4, KeepsRequests DEF EffectsFit
  <2>6. CaptureFits'
    BY <2>1 DEF CaptureFits
  <2> QED BY <1>4, <2>5, <2>6, OpenFits
<1> QED BY <1>3, <1>4

\* Steps that are about the tools, the call and its answer.
LEMMA ToolsKeep ==
  ASSUME EffectInv, RecorderTypes', RecorderNext,
         \/ Load \/ (\E f \in Frame, d \in Tool : ChangeTool(f, d)) \/ (\E status \in {"Completed", "Failed"} : ToolResponds(status))
  PROVE  EffectsFit'
PROOF
<1> USE DEF EffectInv
<1>0. visit \in VisitRecord /\ page \in PageRecord /\ wire \in Seq(Message)
  BY DEF RecorderTypes
<1>1. visit.phase # "closed"
  BY NotClosed
<1>2. \A r : (Announced(r)' <=> Announced(r)) /\ (Answered(r)' <=> Answered(r))
  <2>1. CASE Load
    BY <1>0, <2>1, LoadSends, SentAside
  <2>2. CASE \E f \in Frame, d \in Tool : ChangeTool(f, d)
    BY <1>0, <2>2, ChangeToolSends, SentAside
  <2>3. ASSUME NEW status \in {"Completed", "Failed"}, ToolResponds(status)
        PROVE  \A r : (Announced(r)' <=> Announced(r)) /\ (Answered(r)' <=> Answered(r))
    <3> DEFINE m == [kind |-> "responded", status |-> status]
    <3>1. m \in Message /\ m.kind = "responded" /\ Aside(m)
      BY MessagesOf
    <3>2. Send(<<m>>) \/ Overtaken(m)
      BY <2>3 DEF ToolResponds, Overtaken
    <3> HIDE DEF m
    <3>3. CASE Send(<<m>>)
      BY <1>0, <3>1, <3>3, SentOne
    <3>4. CASE Overtaken(m)
      BY <1>0, <3>1, <3>4, OvertakenIs
    <3> QED BY <3>2, <3>3, <3>4
  <2> QED BY <2>1, <2>2, <2>3
<1>3. page'.open = page.open /\ page'.due = page.due /\ page'.started = page.started
  BY <1>0 DEF Load, ChangeTool, ToolResponds, PageRecord
<1>4. /\ visit'.network = visit.network /\ visit'.inFlight = visit.inFlight
      /\ visit'.phase # "closed" /\ visit'.capture = visit.capture
      /\ visit'.phase \in {"quiescing", "capturing"} =>
           visit'.phase = visit.phase /\ elapsed' = elapsed /\ quietFor' = quietFor
      /\ visit.phase = "loading" \/ quietFor' = quietFor
  BY <1>0, <1>1 DEF Load, ChangeTool, ToolResponds, VisitRecord, Now, Phase
<1>5. page.due = [t \in {} |-> 0] \/ quietFor' = quietFor
  <2>1. visit.phase = "loading" => page.due = [t \in {} |-> 0]
    BY DEF PhaseFits, Working
  <2> QED BY <1>4, <2>1
<1>6. RequestsFit' /\ DelaysFit'
  BY <1>1, <1>2, <1>3, <1>4, <1>5, KeepsRequests DEF EffectsFit
<1>7. CaptureFits'
  BY <1>1, <1>3, <1>4 DEF CaptureFits, EffectsFit
<1> QED BY <1>4, <1>6, <1>7, OpenFits

\* The operation reaches the page.
LEMMA OperationArrives ==
  ASSUME EffectInv, RecorderTypes', ActAsHuman \/ Invoke
  PROVE  EffectsFit'
PROOF
<1> USE DurationsAre DEF EffectInv
<1>0. visit \in VisitRecord /\ page \in PageRecord /\ wire \in Seq(Message)
  BY DEF RecorderTypes
<1>1. /\ visit.phase \in {"operating", "invoking"}
      /\ visit'.phase = IF ActAsHuman THEN "quiescing" ELSE "invoking"
      /\ visit'.network = visit.network /\ visit'.inFlight = visit.inFlight
      /\ ActAsHuman => elapsed' = 0
      /\ quietFor' = quietFor
  <2>1. CASE ActAsHuman
    BY <1>0, <2>1 DEF ActAsHuman, Phase, Enter, NewWait, VisitRecord
  <2>2. CASE ~ActAsHuman
    BY <1>0, <2>2 DEF Invoke, Phase, Now, VisitRecord
  <2> QED BY <2>1, <2>2
<1>2. /\ page'.open = page.open /\ page'.started = page.started
      /\ page'.due = page.due \/ page'.due = With(page.due, "call", FirstDelay)
  BY <1>0 DEF ActAsHuman, Invoke, PageRecord
<1>3. \A r : (Announced(r)' <=> Announced(r)) /\ (Answered(r)' <=> Answered(r))
  <2>1. CASE ActAsHuman
    BY <2>1 DEF ActAsHuman, Announced, Answered
  <2>2. CASE Invoke
    <3>1. Send(<<[kind |-> "refused"]>>) \/ Send(<<[kind |-> "invoked"]>>)
      BY <2>2 DEF Invoke
    <3>2. CASE Send(<<[kind |-> "refused"]>>)
      <4>1. \A r : /\ Announced(r)' <=> Announced(r) \/ ([kind |-> "refused"].kind = "request" /\ [kind |-> "refused"].request = r)
                   /\ Answered(r)' <=> Answered(r) \/ ([kind |-> "refused"].kind = "settled" /\ [kind |-> "refused"].request = r)
        BY <1>0, <3>2, SentOne, MessagesOf
      <4>2. [kind |-> "refused"].kind = "refused"
        OBVIOUS
      <4> QED BY <4>1, <4>2
    <3>3. CASE Send(<<[kind |-> "invoked"]>>)
      <4>1. \A r : /\ Announced(r)' <=> Announced(r) \/ ([kind |-> "invoked"].kind = "request" /\ [kind |-> "invoked"].request = r)
                   /\ Answered(r)' <=> Answered(r) \/ ([kind |-> "invoked"].kind = "settled" /\ [kind |-> "invoked"].request = r)
        BY <1>0, <3>3, SentOne, MessagesOf
      <4>2. [kind |-> "invoked"].kind = "invoked"
        OBVIOUS
      <4> QED BY <4>1, <4>2
    <3> QED BY <3>1, <3>2, <3>3
  <2> QED BY <2>1, <2>2
<1>4. /\ DOMAIN page'.due \subseteq DOMAIN page.due \cup {"call"}
      /\ \A t \in DOMAIN page'.due : IF t \in DOMAIN page.due /\ t # "call" THEN page'.due[t] = page.due[t]
                                   ELSE t = "call" /\ page'.due[t] \in {FirstDelay, page.due[t]}
  <2> DEFINE d == With(page.due, "call", FirstDelay)
  <2>1. "call" \in Pending /\ page.due \in DueTimes
    BY FieldsAre DEF Pending
  <2>2. /\ DOMAIN d = DOMAIN page.due \cup {"call"}
        /\ \A t \in DOMAIN page.due \cup {"call"} : d[t] = IF t = "call" THEN FirstDelay ELSE page.due[t]
    BY DEF With
  <2>3. page'.due = page.due \/ page'.due = d
    BY <1>2
  <2> HIDE DEF d
  <2>4. CASE page'.due = page.due
    BY <2>4
  <2>5. CASE page'.due = d
    BY <2>2, <2>5
  <2> QED BY <2>3, <2>4, <2>5
<1>5. RequestsFit /\ DelaysFit
  BY <1>1 DEF EffectsFit
<1>6. RequestsFit'
  <2>1. visit'.phase = "quiescing" => NotYetQuiet'
    BY <1>1 DEF NotYetQuiet
  <2> QED BY <1>1, <1>2, <1>3, <1>5, <2>1 DEF RequestsFit
<1>7. DelaysFit'
  <2>1. \A t \in DOMAIN page'.due : page'.due[t] <= IF t = "call" THEN FirstDelay ELSE PageDelay
    <3>1. SUFFICES ASSUME NEW t \in DOMAIN page'.due PROVE page'.due[t] <= IF t = "call" THEN FirstDelay ELSE PageDelay
      OBVIOUS
    <3>2. \A u \in DOMAIN page.due : page.due[u] <= IF u = "call" THEN FirstDelay ELSE PageDelay
      BY <1>5 DEF DelaysFit
    <3>3. CASE t # "call"
      BY <1>4, <3>2, <3>3
    <3>4. CASE t = "call" /\ page'.due[t] = FirstDelay
      BY <3>4
    <3>5. CASE t = "call" /\ page'.due[t] # FirstDelay
      <4>1. page'.due = page.due
        BY <1>2, <3>5 DEF With
      <4> QED BY <3>2, <4>1
    <3> QED BY <3>3, <3>4, <3>5
  <2>2. ASSUME "call" \in DOMAIN page'.due, visit'.phase = "quiescing" PROVE elapsed' + page'.due["call"] <= FirstDelay
    <3>1. page'.due["call"] \in Nat /\ page'.due["call"] <= FirstDelay /\ elapsed' = 0
      BY <1>1, <2>1, <2>2, DueTimesIs DEF RecorderTypes, PageRecord
    <3> QED BY <3>1
  <2>3. ASSUME NEW r \in DOMAIN page'.due \cap Request
        PROVE  \/ Answered(r)' /\ (r \in visit'.inFlight \/ Announced(r)')
               \/ quietFor' + page'.due[r] <= PageDelay
    <3>1. r \in DOMAIN page.due /\ page'.due[r] = page.due[r]
      BY <1>4
    <3> QED BY <1>1, <1>3, <1>5, <3>1 DEF DelaysFit
  <2> QED BY <2>1, <2>2, <2>3 DEF DelaysFit
<1>8. CaptureFits'
  BY <1>1 DEF CaptureFits
<1> QED BY <1>1, <1>6, <1>7, <1>8, OpenFits

\* A wait that was quiet leaves nothing behind.
LEMMA WaitEnds ==
  ASSUME EffectInv, RecorderTypes', EndWait
  PROVE  EffectsFit'
PROOF
<1> USE DurationsAre DEF EffectInv
<1>0. visit \in VisitRecord /\ page \in PageRecord /\ elapsed \in Nat /\ quietFor \in Nat
  BY DEF RecorderTypes
<1>1. visit.phase = "quiescing" /\ wire' = wire /\ page' = page /\ elapsed' = 0 /\ quietFor' = 0
  BY DEF EndWait, Phase
<1>2. CASE visit'.phase = "closed"
  <2>1. visit'.capture = "none"
    BY <1>0, <1>1, <1>2 DEF EndWait, Close, PhaseFits, VisitRecord
  <2> QED BY <1>2, <2>1, ClosedFits
<1>3. CASE visit'.phase # "closed"
  <2>1. /\ visit'.phase = "capturing" /\ visit'.network = visit.network /\ visit'.inFlight = visit.inFlight
        /\ visit'.capture = IF Quiescent THEN "complete" ELSE "timeout"
    BY <1>0, <1>3 DEF EndWait, Close, VisitRecord
  <2>2. RequestsFit /\ DelaysFit
    BY <1>1 DEF EffectsFit
  <2>3. \A r : (Announced(r)' <=> Announced(r)) /\ (Answered(r)' <=> Answered(r))
    BY <1>1 DEF Announced, Answered
  <2>4. RequestsFit' /\ DelaysFit'
    BY <1>1, <2>1, <2>2, <2>3, KeepsRequests
  <2>5. ASSUME Quiescent
        PROVE  page.open \subseteq {EarlyRequest} /\ page.due = [t \in {} |-> 0] /\ visit.network = page.started
    <3>1. ~NotYetQuiet /\ visit.inFlight = {} /\ elapsed >= EffectObservation /\ quietFor >= EffectQuietWindow
      BY <1>0, <2>5 DEF Quiescent, NotYetQuiet
    <3>2. \A r \in Request : ~Announced(r)
      BY <1>1, <2>2, <3>1 DEF RequestsFit
    <3>3. page.open \subseteq {EarlyRequest}
      BY <1>0, <2>2, <3>1, <3>2 DEF RequestsFit, PageRecord, AnyRequest
    <3>4. visit.network = page.started
      BY <2>2, <3>2 DEF RequestsFit
    <3>5. /\ DOMAIN page.due \subseteq Pending /\ page.due = [t \in DOMAIN page.due |-> page.due[t]]
          /\ \A t \in DOMAIN page.due : page.due[t] \in Nat
      BY FieldsAre, DueTimesIs
    <3>6. "call" \notin DOMAIN page.due
      <4>1. SUFFICES ASSUME "call" \in DOMAIN page.due PROVE FALSE
        OBVIOUS
      <4>2. elapsed + page.due["call"] <= FirstDelay /\ page.due["call"] \in Nat
        BY <1>1, <2>2, <3>5, <4>1 DEF DelaysFit
      <4> QED BY <1>0, <3>1, <4>2
    <3>7. \A r \in Request : r \notin DOMAIN page.due
      <4>1. SUFFICES ASSUME NEW r \in Request, r \in DOMAIN page.due PROVE FALSE
        OBVIOUS
      <4>2. quietFor + page.due[r] <= PageDelay /\ page.due[r] \in Nat
        BY <2>2, <3>1, <3>2, <3>5, <4>1 DEF DelaysFit
      <4> QED BY <1>0, <3>1, <4>2
    <3>8. DOMAIN page.due = {}
      BY <3>5, <3>6, <3>7 DEF Pending
    <3>9. page.due = [t \in {} |-> 0]
      BY <3>5, <3>8
    <3> QED BY <3>3, <3>4, <3>9
  <2>6. CaptureFits'
    BY <1>1, <2>1, <2>5 DEF CaptureFits
  <2> QED BY <1>3, <2>4, <2>6, OpenFits
<1> QED BY <1>2, <1>3

\* The second capture takes what the page has handled.
LEMMA CaptureEnds ==
  ASSUME EffectInv, RecorderTypes', CaptureAfter
  PROVE  EffectsFit'
PROOF
<1> USE DEF EffectInv
<1>0. visit \in VisitRecord /\ page \in PageRecord
  BY DEF RecorderTypes
<1>1. visit.phase = "capturing" /\ page' = page
  BY DEF CaptureAfter, Phase
<1>2. /\ visit'.phase = "closed" /\ visit'.capture = visit.capture /\ visit'.network = visit.network
      /\ visit'.handled = page.handled
  BY <1>0 DEF CaptureAfter, Close, VisitRecord
<1>3. CaptureFits
  BY <1>1 DEF EffectsFit
<1> QED BY <1>1, <1>2, <1>3 DEF EffectsFit, WholeEffect, CaptureFits

\* A tick brings every delay nearer.
LEMMA TickKeeps ==
  ASSUME EffectInv, RecorderTypes', RecorderTick
  PROVE  EffectsFit'
PROOF
<1> USE DurationsAre DEF EffectInv
<1>0. visit \in VisitRecord /\ page \in PageRecord /\ elapsed \in Nat /\ quietFor \in Nat
  BY DEF RecorderTypes
<1>1. /\ visit.phase # "closed" /\ visit' = visit /\ wire' = wire /\ wire = <<>>
      /\ page'.open = page.open /\ page'.started = page.started
      /\ page'.due = [t \in DOMAIN page.due |-> page.due[t] - 1]
      /\ \A t \in DOMAIN page.due : page.due[t] > 0
  BY <1>0 DEF RecorderTick, Closed, Phase, PageRecord
<1>2. /\ DOMAIN page'.due = DOMAIN page.due
      /\ \A t \in DOMAIN page.due : page.due[t] \in Nat /\ page'.due[t] = page.due[t] - 1 /\ page.due[t] > 0
  BY <1>1, FieldsAre, DueTimesIs
<1>3. /\ elapsed' \in {elapsed, elapsed + 1} /\ quietFor' \in {quietFor, quietFor + 1}
  BY DEF RecorderTick, Now
<1>4. RequestsFit /\ DelaysFit /\ CaptureFits
  BY <1>1 DEF EffectsFit
<1>5. \A r : ~Announced(r) /\ (Announced(r)' <=> Announced(r)) /\ (Answered(r)' <=> Answered(r))
  BY <1>1 DEF Announced, Answered
<1>6. RequestsFit'
  BY <1>1, <1>4, <1>5 DEF RequestsFit
<1>7. DelaysFit'
  <2>1. \A t \in DOMAIN page'.due : page'.due[t] <= IF t = "call" THEN FirstDelay ELSE PageDelay
    BY <1>2, <1>4 DEF DelaysFit
  <2>2. ASSUME "call" \in DOMAIN page'.due, visit'.phase = "quiescing" PROVE elapsed' + page'.due["call"] <= FirstDelay
    <3>1. elapsed + page.due["call"] <= FirstDelay
      BY <1>1, <1>2, <1>4, <2>2 DEF DelaysFit
    <3> QED BY <1>0, <1>2, <1>3, <2>2, <3>1
  <2>3. ASSUME NEW r \in DOMAIN page'.due \cap Request
        PROVE  \/ Answered(r)' /\ (r \in visit'.inFlight \/ Announced(r)')
               \/ quietFor' + page'.due[r] <= PageDelay
    <3>1. \/ Answered(r) /\ (r \in visit.inFlight \/ Announced(r))
          \/ quietFor + page.due[r] <= PageDelay
      BY <1>2, <1>4 DEF DelaysFit
    <3>2. page.due[r] \in Nat /\ page'.due[r] = page.due[r] - 1
      BY <1>2
    <3>3. CASE Answered(r) /\ (r \in visit.inFlight \/ Announced(r))
      BY <1>1, <1>5, <3>3
    <3>4. CASE quietFor + page.due[r] <= PageDelay
      BY <1>0, <1>3, <3>2, <3>4
    <3> QED BY <3>1, <3>3, <3>4
  <2> QED BY <2>1, <2>2, <2>3 DEF DelaysFit
<1>8. CaptureFits'
  <2>1. page.due = [t \in {} |-> 0] => page'.due = [t \in {} |-> 0]
    BY <1>1
  <2> QED BY <1>1, <1>4, <2>1 DEF CaptureFits
<1> QED BY <1>1, <1>6, <1>7, <1>8, OpenFits

\* What the page does while something is due comes before the wait was quiet for long enough.
LEMMA ActsInTime ==
  ASSUME RecorderTypes, RequestsFit, DelaysFit, NEW t \in DOMAIN page.due, visit.phase = "quiescing"
  PROVE  NotYetQuiet
PROOF
<1> USE DurationsAre
<1>1. t \in Pending /\ page.due[t] \in Nat /\ elapsed \in Nat /\ quietFor \in Nat
  BY FieldsAre, DueTimesIs DEF RecorderTypes
<1>2. CASE t = "call"
  <2>1. elapsed + page.due[t] <= FirstDelay
    BY <1>2 DEF DelaysFit
  <2> QED BY <1>1, <2>1 DEF NotYetQuiet
<1>3. CASE t \in Request
  <2>1. CASE Answered(t) /\ (t \in visit.inFlight \/ Announced(t))
    BY <1>3, <2>1 DEF NotYetQuiet, RequestsFit
  <2>2. CASE quietFor + page.due[t] <= PageDelay
    BY <1>1, <2>2 DEF NotYetQuiet
  <2> QED BY <1>3, <2>1, <2>2 DEF DelaysFit
<1> QED BY <1>1, <1>2, <1>3 DEF Pending

\* The page acts, perhaps with one more request.
LEMMA PageActsKeeps ==
  ASSUME EffectInv, RecorderTypes', NEW t \in Pending, PageActs(t)
  PROVE  EffectsFit'
PROOF
<1> USE DurationsAre DEF EffectInv
<1>0. visit \in VisitRecord /\ page \in PageRecord /\ wire \in Seq(Message)
  BY DEF RecorderTypes
<1>1. PICK more \in SUBSET Request :
        /\ more \cap page.started = {}
        /\ page' = [page EXCEPT !.due = Without(@, t), !.handled = @ \cup {t},
                                !.started = @ \cup more, !.open = @ \cup more]
        /\ \/ more = {} /\ wire' = wire
           \/ \E r \in Request : more = {r} /\ Send(<<[kind |-> "request", request |-> r]>>)
  BY PageActsIs
<1>2. /\ visit.phase # "closed" /\ t \in DOMAIN page.due
      /\ visit' = visit /\ elapsed' = elapsed /\ quietFor' = quietFor
  BY DEF PageActs, Closed, Phase, Due, Now
<1>3. page'.started = page.started \cup more /\ page'.open = page.open \cup more /\ page'.due = Without(page.due, t)
  BY <1>0, <1>1 DEF PageRecord
<1>4. \A r : (Announced(r)' <=> Announced(r) \/ r \in more) /\ (Answered(r)' <=> Answered(r))
  <2>1. CASE more = {} /\ wire' = wire
    BY <2>1 DEF Announced, Answered
  <2>2. ASSUME NEW q \in Request, more = {q}, Send(<<[kind |-> "request", request |-> q]>>)
        PROVE  \A r : (Announced(r)' <=> Announced(r) \/ r \in more) /\ (Answered(r)' <=> Answered(r))
    <3> DEFINE m == [kind |-> "request", request |-> q]
    <3>1. m \in Message /\ m.kind = "request" /\ m.request = q
      BY MessagesOf
    <3>2. Send(<<m>>)
      BY <2>2
    <3> HIDE DEF m
    <3> QED BY <1>0, <2>2, <3>1, <3>2, SentOne
  <2> QED BY <1>1, <2>1, <2>2
<1>5. RequestsFit /\ DelaysFit /\ CaptureFits
  BY <1>2 DEF EffectsFit
<1>6. visit'.phase = "quiescing" => NotYetQuiet'
  BY <1>2, <1>5, ActsInTime DEF NotYetQuiet
<1>7. RequestsFit'
  <2>1. page'.started \subseteq {r \in Request : r \in visit'.network \/ Announced(r)'}
    BY <1>2, <1>3, <1>4, <1>5 DEF RequestsFit
  <2>2. visit'.network \subseteq page'.started
    BY <1>2, <1>3, <1>5 DEF RequestsFit
  <2>3. \A r \in Request : Announced(r)' \/ Answered(r)' \/ r \in page'.open => r \in page'.started
    BY <1>3, <1>4, <1>5 DEF RequestsFit
  <2>4. \A r \in Request : Answered(r)' => r \notin page'.open
    BY <1>1, <1>3, <1>4, <1>5 DEF RequestsFit
  <2>5. \A r \in Request : r \in page'.open => r \in visit'.inFlight \/ Announced(r)'
    BY <1>2, <1>3, <1>4, <1>5 DEF RequestsFit
  <2> QED BY <1>6, <2>1, <2>2, <2>3, <2>4, <2>5 DEF RequestsFit
<1>8. DelaysFit'
  <2>1. DOMAIN page'.due = DOMAIN page.due \ {t} /\ \A u \in DOMAIN page'.due : page'.due[u] = page.due[u]
    BY <1>3 DEF Without
  <2>2. \A u \in DOMAIN page'.due : page'.due[u] <= IF u = "call" THEN FirstDelay ELSE PageDelay
    BY <1>5, <2>1 DEF DelaysFit
  <2>3. "call" \in DOMAIN page'.due /\ visit'.phase = "quiescing" => elapsed' + page'.due["call"] <= FirstDelay
    BY <1>2, <1>5, <2>1 DEF DelaysFit
  <2>4. \A r \in DOMAIN page'.due \cap Request :
          \/ Answered(r)' /\ (r \in visit'.inFlight \/ Announced(r)')
          \/ quietFor' + page'.due[r] <= PageDelay
    BY <1>2, <1>4, <1>5, <2>1 DEF DelaysFit
  <2> QED BY <2>2, <2>3, <2>4 DEF DelaysFit
<1>9. CaptureFits'
  <2>1. page.due # [x \in {} |-> 0]
    BY <1>2
  <2> QED BY <1>2, <1>5, <2>1 DEF CaptureFits
<1> QED BY <1>2, <1>7, <1>8, <1>9, OpenFits

\* A request is answered: the page is about to act on it.
LEMMA SettlesKeeps ==
  ASSUME EffectInv, RecorderTypes', NEW q \in AnyRequest, RequestSettles(q)
  PROVE  EffectsFit'
PROOF
<1> USE DurationsAre DEF EffectInv
<1>0. visit \in VisitRecord /\ page \in PageRecord /\ wire \in Seq(Message)
  BY DEF RecorderTypes
<1> DEFINE m == [kind |-> "settled", request |-> q]
<1>1. m \in Message /\ m.kind = "settled" /\ m.request = q
  BY MessagesOf
<1>2. /\ visit.phase # "closed" /\ q \in page.open
      /\ visit' = visit /\ elapsed' = elapsed /\ quietFor' = quietFor /\ Send(<<m>>)
      /\ page'.started = page.started /\ page'.open = page.open \ {q}
      /\ page'.due = IF q = EarlyRequest THEN page.due ELSE With(page.due, q, PageDelay)
  BY <1>0 DEF RequestSettles, Closed, Phase, Now, PageRecord
<1> HIDE DEF m
<1>3. \A r : (Announced(r)' <=> Announced(r)) /\ (Answered(r)' <=> Answered(r) \/ r = q)
  BY <1>0, <1>1, <1>2, SentOne
<1>4. RequestsFit /\ DelaysFit /\ CaptureFits
  BY <1>2 DEF EffectsFit
<1>5. RequestsFit'
  <2>1. visit'.phase = "quiescing" => (NotYetQuiet' <=> NotYetQuiet)
    BY <1>2 DEF NotYetQuiet
  <2> QED BY <1>2, <1>3, <1>4, <2>1 DEF RequestsFit
<1>6. /\ \A u \in DOMAIN page'.due : u = q \/ (u \in DOMAIN page.due /\ page'.due[u] = page.due[u])
      /\ q \in DOMAIN page'.due /\ q # EarlyRequest => page'.due[q] = PageDelay
  BY <1>2 DEF With
<1>7. EarlyRequest \in DOMAIN page'.due => EarlyRequest \in DOMAIN page.due /\ page'.due[EarlyRequest] = page.due[EarlyRequest]
  BY <1>2, <1>6
<1>8. DelaysFit'
  <2>1. q # "call" \/ q = EarlyRequest
    BY DEF AnyRequest
  <2>2. ASSUME NEW u \in DOMAIN page'.due PROVE page'.due[u] <= IF u = "call" THEN FirstDelay ELSE PageDelay
    <3>1. CASE u = q /\ q # EarlyRequest
      BY <1>6, <2>1, <3>1
    <3>2. CASE ~(u = q /\ q # EarlyRequest)
      BY <1>4, <1>6, <1>7, <3>2 DEF DelaysFit
    <3> QED BY <3>1, <3>2
  <2>3. "call" \in DOMAIN page'.due /\ visit'.phase = "quiescing" => elapsed' + page'.due["call"] <= FirstDelay
    BY <1>2, <1>4, <1>6, <1>7, <2>1 DEF DelaysFit
  <2>4. ASSUME NEW r \in DOMAIN page'.due \cap Request
        PROVE  \/ Answered(r)' /\ (r \in visit'.inFlight \/ Announced(r)')
               \/ quietFor' + page'.due[r] <= PageDelay
    <3>1. CASE r = q
      BY <1>2, <1>3, <1>4, <3>1 DEF RequestsFit
    <3>2. CASE r # q
      BY <1>2, <1>3, <1>4, <1>6, <3>2 DEF DelaysFit
    <3> QED BY <3>1, <3>2
  <2> QED BY <2>2, <2>3, <2>4 DEF DelaysFit
<1>9. CaptureFits'
  BY <1>2, <1>4 DEF CaptureFits
<1> QED BY <1>2, <1>5, <1>8, <1>9, OpenFits

\* The runner hears a message: of requests it keeps count from the first to the last.
LEMMA HearKeeps ==
  ASSUME EffectInv, RecorderTypes', Hear
  PROVE  EffectsFit'
PROOF
<1> USE DurationsAre DEF EffectInv
<1>0. visit \in VisitRecord /\ page \in PageRecord /\ wire \in Seq(Message) /\ elapsed \in Nat /\ quietFor \in Nat
  BY DEF RecorderTypes
<1> DEFINE m == Head(wire)
<1>1. /\ visit.phase # "closed" /\ wire' = Tail(wire) /\ wire # <<>> /\ page' = page
      /\ visit' = Heard(m)
      /\ quietFor' = IF Stirs(m) THEN 0 ELSE quietFor
      /\ elapsed' = IF m.kind = "invoked" THEN 0 ELSE elapsed
  BY DEF Hear, Closed, Phase
<1>2. /\ m \in Message
      /\ \A r : Announced(r) <=> Announced(r)' \/ (m.kind = "request" /\ m.request = r)
      /\ \A r : Answered(r) <=> Answered(r)' \/ (m.kind = "settled" /\ m.request = r)
      /\ m.kind \in {"invoked", "refused"} => Reply(1) /\ 1 \in 1 .. Len(wire)
  BY <1>0, <1>1, HeardOne
<1> HIDE DEF m
<1>3. RequestsFit /\ DelaysFit /\ CaptureFits
  BY <1>1 DEF EffectsFit
<1>4. m.kind \in {"tool", "request", "settled", "invoked", "responded", "refused"}
  BY <1>2 DEF Message
<1>5. CASE m.kind = "refused"
  <2>1. visit.phase = "invoking"
    BY <1>1, <1>2, <1>5 DEF PhaseFits
  <2>2. visit' = Close
    BY <1>1, <1>5 DEF Heard
  <2>3. visit'.phase = "closed" /\ visit'.capture = "none"
    BY <1>0, <2>1, <2>2 DEF Close, PhaseFits, VisitRecord
  <2> QED BY <2>3, ClosedFits
<1>6. CASE m.kind = "request"
  <2>1. Announced(m.request) /\ m.request \in Request
    BY <1>2, <1>6 DEF Message
  <2>2. visit.recording
    BY <1>1, <1>3, <2>1 DEF RequestsFit, PhaseFits
  <2>3. visit' = [visit EXCEPT !.network = @ \cup {m.request}, !.inFlight = @ \cup {m.request}] /\ quietFor' = 0 /\ elapsed' = elapsed
    BY <1>1, <1>6, <2>2 DEF Heard, Stirs
  <2>4. /\ visit'.network = visit.network \cup {m.request} /\ visit'.inFlight = visit.inFlight \cup {m.request}
        /\ visit'.phase = visit.phase /\ visit'.capture = visit.capture
    BY <1>0, <2>3 DEF VisitRecord
  <2>5. NotYetQuiet'
    BY <2>4 DEF NotYetQuiet
  <2>6. RequestsFit'
    BY <1>1, <1>2, <1>3, <1>6, <2>1, <2>4, <2>5 DEF RequestsFit
  <2>7. DelaysFit'
    <3>1. \A r \in DOMAIN page.due \cap Request : page.due[r] \in Nat /\ page.due[r] <= PageDelay
      BY <1>3, FieldsAre, DueTimesIs DEF DelaysFit
    <3>2. \A r \in DOMAIN page'.due \cap Request : quietFor' + page'.due[r] <= PageDelay
      BY <1>1, <2>3, <3>1
    <3> QED BY <1>1, <1>3, <2>3, <2>4, <3>2 DEF DelaysFit
  <2>8. CaptureFits'
    BY <1>1, <1>3, <2>1, <2>4 DEF CaptureFits, RequestsFit
  <2> QED BY <1>1, <2>4, <2>6, <2>7, <2>8, OpenFits
<1>7. CASE m.kind = "settled" /\ visit.recording
  <2>1. Answered(m.request)
    BY <1>2, <1>7
  <2>2. visit' = [visit EXCEPT !.inFlight = @ \ {m.request}] /\ quietFor' = 0 /\ elapsed' = elapsed
    BY <1>1, <1>7 DEF Heard, Stirs
  <2>3. /\ visit'.network = visit.network /\ visit'.inFlight = visit.inFlight \ {m.request}
        /\ visit'.phase = visit.phase /\ visit'.capture = visit.capture
    BY <1>0, <2>2 DEF VisitRecord
  <2>4. NotYetQuiet'
    BY <2>2 DEF NotYetQuiet
  <2>5. RequestsFit'
    BY <1>1, <1>2, <1>3, <1>7, <2>1, <2>3, <2>4 DEF RequestsFit
  <2>6. DelaysFit'
    <3>1. \A r \in DOMAIN page.due \cap Request : page.due[r] \in Nat /\ page.due[r] <= PageDelay
      BY <1>3, FieldsAre, DueTimesIs DEF DelaysFit
    <3>2. \A r \in DOMAIN page'.due \cap Request : quietFor' + page'.due[r] <= PageDelay
      BY <1>1, <2>2, <3>1
    <3> QED BY <1>1, <1>3, <2>2, <2>3, <3>2 DEF DelaysFit
  <2>7. CaptureFits'
    BY <1>1, <1>3, <2>3 DEF CaptureFits
  <2> QED BY <1>1, <2>3, <2>5, <2>6, <2>7, OpenFits
<1>8. CASE m.kind = "settled" /\ ~visit.recording
  <2>1. page.due = [t \in {} |-> 0] /\ page.started = {} /\ visit.phase \notin Working
    BY <1>1, <1>8 DEF PhaseFits
  <2>2. visit' = visit
    BY <1>1, <1>8 DEF Heard
  <2>3. RequestsFit'
    BY <1>1, <1>2, <1>3, <1>8, <2>1, <2>2 DEF RequestsFit
  <2>4. DelaysFit'
    BY <1>1, <2>1 DEF DelaysFit
  <2>5. CaptureFits'
    BY <2>1, <2>2 DEF CaptureFits, Working
  <2> QED BY <1>1, <2>2, <2>3, <2>4, <2>5, OpenFits
<1>9. CASE m.kind \in {"tool", "invoked", "responded"}
  <2>1. \/ visit' = [visit EXCEPT !.known[m.frame] = m.definition]
        \/ visit' = [visit EXCEPT !.phase = "awaiting"] /\ m.kind = "invoked"
        \/ visit' = [visit EXCEPT !.answer = m.status]
    BY <1>1, <1>9 DEF Heard, Buffered
  <2>2. /\ visit'.network = visit.network /\ visit'.inFlight = visit.inFlight /\ visit'.capture = visit.capture
        /\ visit'.phase = visit.phase \/ visit'.phase = "awaiting"
        /\ m.kind # "invoked" => visit'.phase = visit.phase
    BY <1>0, <2>1 DEF VisitRecord
  <2>3. m.kind = "invoked" => visit.phase = "invoking"
    BY <1>1, <1>2 DEF PhaseFits
  <2>4. visit.phase = "settling" => page.due = [t \in {} |-> 0]
    BY DEF PhaseFits, Working
  <2>5. page.due = [t \in {} |-> 0] \/ quietFor' = quietFor
    BY <1>1, <1>9, <2>4 DEF Stirs, Phase
  <2>6. visit'.phase = "quiescing" => visit.phase = "quiescing" /\ elapsed' = elapsed /\ quietFor' = quietFor
    BY <1>1, <1>9, <2>2, <2>3 DEF Stirs, Phase
  <2>7. \A r : (Announced(r)' <=> Announced(r)) /\ (Answered(r)' <=> Answered(r))
    BY <1>2, <1>9
  <2>8. RequestsFit' /\ DelaysFit'
    BY <1>1, <1>3, <2>2, <2>5, <2>6, <2>7, KeepsRequests
  <2>9. CaptureFits'
    BY <1>1, <1>3, <2>2 DEF CaptureFits
  <2> QED BY <1>1, <2>2, <2>8, <2>9, OpenFits
<1> QED BY <1>4, <1>5, <1>6, <1>7, <1>8, <1>9

-----------------------------------------------------------------------------

\* Nothing has happened at first.
LEMMA EffectInitially == RecorderInit => EffectInv
PROOF
<1> SUFFICES ASSUME RecorderInit PROVE EffectInv
  OBVIOUS
<1>1. PICK mode \in {"native", "compatibility"}, kind \in {"agent", "human"} :
        visit = [mode |-> mode, kind |-> kind, phase |-> "loading", known |-> [f \in Frame |-> NoTool],
                 surface |-> FALSE, hash |-> NoTool, before |-> NoTool, after |-> NoTool, answer |-> "none",
                 recording |-> FALSE, inFlight |-> {}, network |-> {}, capture |-> "none", handled |-> {}]
  BY DEF RecorderInit
<1>2. PICK live \in [Frame -> {NoTool, SomeDefinition}], forged \in BOOLEAN, open \in SUBSET {EarlyRequest} :
        page = [live |-> live, forged |-> forged, open |-> open, due |-> [t \in {} |-> 0], started |-> {},
                handled |-> {}, invoked |-> NoTool, call |-> "none", changes |-> 0, changedBack |-> FALSE]
  BY DEF RecorderInit
<1>3. wire = <<>> /\ elapsed = 0 /\ quietFor = 0
  BY DEF RecorderInit
<1>4. visit \in VisitRecord
  BY <1>1 DEF VisitRecord, RecorderPhase, Tool
<1>5. [t \in {} |-> 0] \in DueTimes
  BY DueTimesIs
<1>6. live \in [Frame -> Tool] /\ open \in SUBSET AnyRequest
  BY RecorderAssumption, DefinitionsAre DEF Tool, AnyRequest
<1>7. page \in PageRecord
  BY <1>2, <1>5, <1>6 DEF PageRecord, Tool
<1>8. RecorderTypes
  BY <1>3, <1>4, <1>7 DEF RecorderTypes
<1>9. PhaseFits
  BY <1>1, <1>2, <1>3 DEF PhaseFits, Working
<1>10. \A r : ~Announced(r) /\ ~Answered(r)
  BY <1>3 DEF Announced, Answered
<1>11. RequestsFit
  BY <1>1, <1>2, <1>10, RecorderAssumption DEF RequestsFit
<1>12. DelaysFit /\ CaptureFits /\ WholeEffect
  BY <1>1, <1>2 DEF DelaysFit, CaptureFits, WholeEffect, Closed, Phase
<1> QED BY <1>8, <1>9, <1>11, <1>12 DEF EffectInv, EffectsFit

\* Every step keeps the count of requests and delays.
LEMMA EffectKept == EffectInv /\ [RecorderNext]_recorderVars => EffectInv'
PROOF
<1>1. ASSUME EffectInv, RecorderNext PROVE EffectInv'
  <2>1. RecorderTypes' /\ visit.phase # "closed"
    BY <1>1, TypesKept, NotClosed DEF EffectInv
  <2>2. PhaseFits'
    BY <1>1, <2>1, PhaseKept DEF EffectInv, EffectsFit
  <2>3. EffectsFit'
    BY <1>1, <2>1, RunnerKeeps, ToolsKeep, OperationArrives, WaitEnds, CaptureEnds, TickKeeps, PageActsKeeps, SettlesKeeps,
       HearKeeps DEF RecorderNext, RunnerStep, Pending, Tool, AnyRequest
  <2> QED BY <2>1, <2>2, <2>3 DEF EffectInv
<1>2. ASSUME EffectInv, UNCHANGED recorderVars PROVE EffectInv'
  BY <1>2 DEF EffectInv, RecorderTypes, PhaseFits, EffectsFit, RequestsFit, DelaysFit, CaptureFits, WholeEffect, NotYetQuiet,
     Announced, Answered, Reply, Closed, Phase, recorderVars
<1> QED BY <1>1, <1>2

\* A complete trace is the whole effect of the operation (waitForEffectQuiescence, onRequest,
\* onRequestSettled): whatever the requests, the delays and the order of reports.
THEOREM TraceIsWhole == RecorderSpec => []WholeEffect
PROOF
<1>1. RecorderInit => EffectInv
  BY EffectInitially
<1>2. EffectInv /\ [RecorderNext]_recorderVars => EffectInv'
  BY EffectKept
<1>3. EffectInv => WholeEffect
  BY DEF EffectInv, EffectsFit
<1> QED BY <1>1, <1>2, <1>3, PTL DEF RecorderSpec

-----------------------------------------------------------------------------
(* The tool that is executed *)

\* The message tells the tool of the top frame; and the tool that is known when the first k
\* messages of w have been heard, d being known before.
Tells(m) == m.kind = "tool" /\ m.frame = "top"
Stands(w, d, k, v) ==
  \/ d = v /\ \A j \in 1 .. k : ~Tells(w[j])
  \/ \E i \in 1 .. k : /\ Tells(w[i]) /\ w[i].definition = v
                       /\ \A j \in 1 .. k : j > i => ~Tells(w[j])

\* After the first k messages of w no one tells the tool h.
NoneBack(w, k, h) == \A j \in 1 .. Len(w) : j > k /\ Tells(w[j]) => w[j].definition # h

\* Another tool was executed than was found, and the page has not changed it back.
Tainted == page.invoked # NoTool /\ page.invoked # visit.hash /\ ~page.changedBack
Executing == {"awaiting", "quiescing", "capturing"}

CallFits ==
  /\ page.call \in {"none", "sent", "refused"} <=> page.invoked = NoTool
  /\ visit.phase \in {"loading", "settling", "provenance", "ready", "before", "operating"} => page.call = "none"
  /\ visit.kind = "agent" /\ visit.phase \in Working \cup {"before"} => visit.hash # NoTool
  /\ visit.kind = "agent" /\ visit.phase \in Executing => page.invoked # NoTool
  /\ \A k \in 1 .. Len(wire) : wire[k].kind = "invoked" => page.invoked # NoTool /\ visit.kind = "agent"
  /\ visit.phase = "invoking" => visit.kind = "agent"
  /\ Tainted => page.live["top"] # visit.hash

KnownFits ==
  /\ visit.surface <=> Native /\ visit.phase # "loading"
  /\ visit.phase = "loading" => visit.known["top"] = NoTool /\ \A j \in 1 .. Len(wire) : ~Tells(wire[j])
  /\ visit.surface => Stands(wire, visit.known["top"], Len(wire), page.live["top"])
  /\ visit.surface =>
       \A k \in 1 .. Len(wire) : wire[k].kind = "invoked" =>
         /\ Stands(wire, visit.known["top"], k, page.invoked)
         /\ Tainted => NoneBack(wire, k, visit.hash)
  /\ visit.surface /\ visit.kind = "agent" /\ visit.phase \in Executing /\ Tainted =>
       visit.known["top"] # visit.hash /\ NoneBack(wire, 0, visit.hash)

Visible ==
  visit.capture # "none" /\ visit.kind = "agent" /\ page.invoked # visit.hash =>
    visit.before # visit.hash \/ visit.after # visit.before \/ page.changedBack

VisibleInv ==
  /\ EffectInv
  /\ visit.phase # "closed" => CallFits /\ KnownFits
  /\ Visible

\* Messages that tell no tool of the top frame leave what is known.
LEMMA StandsLater ==
  ASSUME NEW w, NEW u, NEW d, NEW v, NEW k \in Nat, NEW n \in Nat, k <= n, Stands(w, d, k, v),
         \A j \in 1 .. k : u[j] = w[j], \A j \in 1 .. n : j > k => ~Tells(u[j])
  PROVE  Stands(u, d, n, v)
PROOF
<1>1. CASE d = v /\ \A j \in 1 .. k : ~Tells(w[j])
  <2>1. ASSUME NEW j \in 1 .. n PROVE ~Tells(u[j])
    BY <1>1
  <2> QED BY <1>1, <2>1 DEF Stands
<1>2. ASSUME NEW i \in 1 .. k, Tells(w[i]), w[i].definition = v, \A j \in 1 .. k : j > i => ~Tells(w[j])
      PROVE  Stands(u, d, n, v)
  <2>1. i \in 1 .. n /\ u[i] = w[i]
    OBVIOUS
  <2>2. ASSUME NEW j \in 1 .. n, j > i PROVE ~Tells(u[j])
    <3>1. CASE j \in 1 .. k
      BY <1>2, <2>2, <3>1
    <3>2. CASE j \notin 1 .. k
      BY <3>2
    <3> QED BY <3>1, <3>2
  <2> QED BY <1>2, <2>1, <2>2 DEF Stands
<1> QED BY <1>1, <1>2 DEF Stands

\* The last message that tells one is what is known.
LEMMA StandsLast ==
  ASSUME NEW w, NEW d, NEW n \in Nat, n > 0, Tells(w[n])
  PROVE  Stands(w, d, n, w[n].definition)
PROOF
<1>1. n \in 1 .. n /\ \A j \in 1 .. n : ~(j > n)
  OBVIOUS
<1> QED BY <1>1 DEF Stands

\* What is known after k messages is known after k - 1 more when one has been heard.
LEMMA StandsHeard ==
  ASSUME NEW w, NEW u, NEW d, NEW e, NEW v, NEW k \in Nat, k > 0, Stands(w, d, k, v),
         \A j \in 1 .. k - 1 : u[j] = w[j + 1],
         e = IF Tells(w[1]) THEN w[1].definition ELSE d
  PROVE  Stands(u, e, k - 1, v)
PROOF
<1>1. 1 \in 1 .. k
  OBVIOUS
<1>2. \A j \in 1 .. k - 1 : j + 1 \in 1 .. k /\ j + 1 > 1 /\ u[j] = w[j + 1]
  OBVIOUS
<1>3. CASE d = v /\ \A j \in 1 .. k : ~Tells(w[j])
  BY <1>1, <1>2, <1>3 DEF Stands
<1>4. ASSUME NEW i \in 1 .. k, Tells(w[i]), w[i].definition = v, \A j \in 1 .. k : j > i => ~Tells(w[j])
      PROVE  Stands(u, e, k - 1, v)
  <2>1. CASE i = 1
    BY <1>2, <1>4, <2>1 DEF Stands
  <2>2. CASE i # 1
    <3>1. i - 1 \in 1 .. k - 1 /\ (i - 1) + 1 = i
      BY <2>2
    <3>2. u[i - 1] = w[i]
      BY <3>1, <1>2
    <3>3. ASSUME NEW j \in 1 .. k - 1, j > i - 1 PROVE ~Tells(u[j])
      <4>1. j + 1 \in 1 .. k /\ j + 1 > i
        BY <3>3
      <4> QED BY <1>2, <1>4, <4>1
    <3> QED BY <1>4, <3>1, <3>2, <3>3 DEF Stands
  <2> QED BY <2>1, <2>2
<1> QED BY <1>3, <1>4 DEF Stands

\* Steps of the runner that hear nothing and leave the tools alone.
QuietStep ==
  \/ SurfaceSettles \/ Provenance \/ FindTool \/ CaptureBefore \/ SendCall \/ ActAsHuman
  \/ TakeAnswer \/ AnswerTimesOut \/ EndWait \/ CaptureAfter \/ VisitFails \/ RecorderTick

Early == {"loading", "settling", "provenance", "ready", "before", "operating"}

\* What these steps leave alone, ...
LEMMA QuietIs ==
  ASSUME RecorderTypes, QuietStep
  PROVE  /\ visit.phase # "closed"
         /\ wire' = wire /\ page'.live = page.live /\ page'.invoked = page.invoked /\ page'.changedBack = page.changedBack
         /\ visit'.known = visit.known /\ visit'.surface = visit.surface /\ visit'.mode = visit.mode /\ visit'.kind = visit.kind
         /\ visit'.hash = visit.hash \/ visit.phase = "ready"
         /\ page'.call = page.call \/ (page'.call = "sent" /\ visit.phase = "operating" /\ visit'.phase = "invoking")
PROOF
<1>0. visit \in VisitRecord /\ page \in PageRecord
  BY DEF RecorderTypes
<1>1. visit.phase # "closed"
  BY DEF QuietStep, SurfaceSettles, Provenance, FindTool, CaptureBefore, SendCall, ActAsHuman, TakeAnswer, AnswerTimesOut, EndWait,
         CaptureAfter, VisitFails, RecorderTick, Phase, Closed
<1>2. /\ wire' = wire /\ page'.live = page.live /\ page'.invoked = page.invoked /\ page'.changedBack = page.changedBack
  BY <1>0 DEF QuietStep, SurfaceSettles, Provenance, FindTool, CaptureBefore, SendCall, ActAsHuman, TakeAnswer, AnswerTimesOut,
         EndWait, CaptureAfter, VisitFails, RecorderTick, PageRecord
<1>3. /\ visit'.known = visit.known /\ visit'.surface = visit.surface /\ visit'.mode = visit.mode /\ visit'.kind = visit.kind
      /\ visit'.hash = visit.hash \/ visit.phase = "ready"
  BY <1>0, ZenonT(40) DEF QuietStep, SurfaceSettles, Provenance, FindTool, CaptureBefore, SendCall, ActAsHuman, TakeAnswer, AnswerTimesOut,
         EndWait, CaptureAfter, VisitFails, RecorderTick, VisitRecord, Close, Enter, Phase
<1>4. page'.call = page.call \/ (page'.call = "sent" /\ visit.phase = "operating" /\ visit'.phase = "invoking")
  BY <1>0 DEF QuietStep, SurfaceSettles, Provenance, FindTool, CaptureBefore, SendCall, ActAsHuman, TakeAnswer, AnswerTimesOut,
         EndWait, CaptureAfter, VisitFails, RecorderTick, PageRecord, VisitRecord, Enter, Phase
<1> QED BY <1>1, <1>2, <1>3, <1>4

\* ... and the phases they lead to.
LEMMA QuietPhases ==
  ASSUME RecorderTypes, QuietStep, visit'.phase # "closed"
  PROVE  /\ visit.phase = "loading" <=> visit'.phase = "loading"
         /\ visit'.phase \in Early => visit.phase \in Early
         /\ visit'.phase = "invoking" => visit.phase = "invoking" \/ visit.kind = "agent"
         /\ visit.kind = "agent" /\ visit'.phase \in Executing => visit.phase \in Executing
         /\ visit.kind = "agent" /\ visit'.phase \in Working \cup {"before"} =>
              visit.phase \in Working \cup {"before"} \/ visit'.hash # NoTool
         /\ visit.phase = "invoking" => visit'.phase = "invoking"
PROOF
<1>0. visit \in VisitRecord
  BY DEF RecorderTypes
<1>1. ASSUME RecorderTick PROVE visit' = visit
  BY <1>1 DEF RecorderTick
<1>2. /\ visit.phase = "loading" <=> visit'.phase = "loading"
      /\ visit'.phase \in Early => visit.phase \in Early
      /\ visit'.phase = "invoking" => visit.phase = "invoking" \/ visit.kind = "agent"
  BY <1>0, <1>1, ZenonT(40) DEF QuietStep, SurfaceSettles, Provenance, FindTool, CaptureBefore, SendCall, ActAsHuman, TakeAnswer, AnswerTimesOut,
         EndWait, CaptureAfter, VisitFails, VisitRecord, Close, Enter, Phase, Early
<1>3. visit.kind = "agent" /\ visit'.phase \in Executing => visit.phase \in Executing
  BY <1>0, <1>1 DEF QuietStep, SurfaceSettles, Provenance, FindTool, CaptureBefore, SendCall, ActAsHuman, TakeAnswer, AnswerTimesOut,
         EndWait, CaptureAfter, VisitFails, VisitRecord, Close, Enter, Phase, Executing
<1>4. visit.kind = "agent" /\ visit'.phase \in Working \cup {"before"} =>
        visit.phase \in Working \cup {"before"} \/ visit'.hash # NoTool
  BY <1>0, <1>1 DEF QuietStep, SurfaceSettles, Provenance, FindTool, CaptureBefore, SendCall, ActAsHuman, TakeAnswer, AnswerTimesOut,
         EndWait, CaptureAfter, VisitFails, VisitRecord, Close, Enter, Phase, Working
<1>5. visit.phase = "invoking" => visit'.phase = "invoking"
  BY <1>0, <1>1 DEF QuietStep, SurfaceSettles, Provenance, FindTool, CaptureBefore, SendCall, ActAsHuman, TakeAnswer, AnswerTimesOut,
         EndWait, CaptureAfter, VisitFails, VisitRecord, Close, Enter, Phase
<1> QED BY <1>2, <1>3, <1>4, <1>5

\* They keep what is known of the tools and the call, ...
LEMMA QuietKeeps ==
  ASSUME RecorderTypes, PhaseFits, CallFits, KnownFits, QuietStep, visit'.phase # "closed"
  PROVE  CallFits' /\ KnownFits'
PROOF
<1>0. visit \in VisitRecord /\ page \in PageRecord
  BY DEF RecorderTypes
<1>1. /\ visit.phase # "closed"
      /\ wire' = wire /\ page'.live = page.live /\ page'.invoked = page.invoked /\ page'.changedBack = page.changedBack
      /\ visit'.known = visit.known /\ visit'.surface = visit.surface /\ visit'.mode = visit.mode /\ visit'.kind = visit.kind
      /\ visit'.hash = visit.hash \/ visit.phase = "ready"
      /\ page'.call = page.call \/ (page'.call = "sent" /\ visit.phase = "operating" /\ visit'.phase = "invoking")
  BY QuietIs
<1>2. /\ visit.phase = "loading" <=> visit'.phase = "loading"
      /\ visit'.phase \in Early => visit.phase \in Early
      /\ visit'.phase = "invoking" => visit.phase = "invoking" \/ visit.kind = "agent"
      /\ visit.kind = "agent" /\ visit'.phase \in Executing => visit.phase \in Executing
      /\ visit.kind = "agent" /\ visit'.phase \in Working \cup {"before"} =>
           visit.phase \in Working \cup {"before"} \/ visit'.hash # NoTool
      /\ visit.phase = "invoking" => visit'.phase = "invoking"
  BY QuietPhases
<1>3. visit.phase = "ready" => page.invoked = NoTool
  BY DEF CallFits
<1>4. Tainted' => Tainted /\ visit'.hash = visit.hash
  BY <1>1, <1>3 DEF Tainted
<1>5. CallFits'
  <2>1. page'.call \in {"none", "sent", "refused"} <=> page'.invoked = NoTool
    BY <1>1 DEF CallFits
  <2>2. visit'.phase \in Early => page'.call = "none"
    BY <1>1, <1>2 DEF CallFits, Early
  <2>3. visit'.kind = "agent" /\ visit'.phase \in Working \cup {"before"} => visit'.hash # NoTool
    BY <1>1, <1>2 DEF CallFits, Working
  <2>4. Tainted' => page'.live["top"] # visit'.hash
    BY <1>1, <1>4 DEF CallFits
  <2> QED BY <1>1, <1>2, <2>1, <2>2, <2>3, <2>4 DEF CallFits, Early
<1>6. KnownFits'
  <2>1. visit'.surface <=> Native' /\ visit'.phase # "loading"
    BY <1>1, <1>2 DEF KnownFits, Native
  <2>2. visit'.phase = "loading" => visit'.known["top"] = NoTool /\ \A j \in 1 .. Len(wire') : ~Tells(wire'[j])
    BY <1>1, <1>2 DEF KnownFits
  <2>3. visit'.surface => Stands(wire', visit'.known["top"], Len(wire'), page'.live["top"])
    BY <1>1 DEF KnownFits
  <2>4. visit'.surface =>
          \A k \in 1 .. Len(wire') : wire'[k].kind = "invoked" =>
            /\ Stands(wire', visit'.known["top"], k, page'.invoked)
            /\ Tainted' => NoneBack(wire', k, visit'.hash)
    BY <1>1, <1>4 DEF KnownFits
  <2>5. visit'.surface /\ visit'.kind = "agent" /\ visit'.phase \in Executing /\ Tainted' =>
          visit'.known["top"] # visit'.hash /\ NoneBack(wire', 0, visit'.hash)
    BY <1>1, <1>2, <1>4 DEF KnownFits
  <2> QED BY <2>1, <2>2, <2>3, <2>4, <2>5 DEF KnownFits
<1> QED BY <1>5, <1>6

\* ... and a wait that ends has known of the substitution.
LEMMA QuietVisible ==
  ASSUME RecorderTypes, PhaseFits, CallFits, KnownFits, Visible, QuietStep
  PROVE  Visible'
PROOF
<1>0. visit \in VisitRecord /\ page \in PageRecord
  BY DEF RecorderTypes
<1>1. /\ visit.phase # "closed"
      /\ page'.invoked = page.invoked /\ page'.changedBack = page.changedBack /\ visit'.kind = visit.kind
      /\ visit'.hash = visit.hash \/ visit.phase = "ready"
  BY QuietIs
<1>2. CASE EndWait
  <2>1. /\ visit.phase = "quiescing"
        /\ visit'.capture = "none" \/ (visit'.after = Tools /\ visit'.before = visit.before /\ visit'.hash = visit.hash)
    BY <1>0, <1>2 DEF EndWait, Phase, Close, ToolsAfter, VisitRecord, PhaseFits
  <2>2. SUFFICES ASSUME visit'.capture # "none", visit.kind = "agent", page.invoked # visit.hash, ~page.changedBack
                 PROVE  visit.before # visit.hash \/ Tools # visit.before
    BY <1>1, <2>1 DEF Visible
  <2>3. Tainted
    BY <2>1, <2>2 DEF CallFits, Tainted, Executing
  <2>4. page.live["top"] # visit.hash
    BY <2>3 DEF CallFits
  <2>5. Native => visit.known["top"] # visit.hash
    BY <2>1, <2>2, <2>3 DEF KnownFits, Executing
  <2> QED BY <2>4, <2>5 DEF Tools
<1>3. CASE ~EndWait /\ visit.phase = "capturing"
  <2>1. visit'.capture = "none" \/ (visit'.capture = visit.capture /\ visit'.before = visit.before /\ visit'.after = visit.after)
    BY <1>0, <1>3 DEF QuietStep, SurfaceSettles, Provenance, FindTool, CaptureBefore, SendCall, ActAsHuman, TakeAnswer,
       AnswerTimesOut, CaptureAfter, VisitFails, RecorderTick, VisitRecord, Close, Phase
  <2> QED BY <1>1, <1>3, <2>1 DEF Visible
<1>4. CASE ~EndWait /\ visit.phase # "capturing"
  <2>1. visit.capture = "none"
    BY <1>1, <1>4 DEF PhaseFits
  <2>2. visit'.capture = "none"
    BY <1>0, <1>4, <2>1 DEF QuietStep, SurfaceSettles, Provenance, FindTool, CaptureBefore, SendCall, ActAsHuman, TakeAnswer,
       AnswerTimesOut, CaptureAfter, VisitFails, RecorderTick, VisitRecord, Close, Enter, Phase
  <2> QED BY <2>2 DEF Visible
<1> QED BY <1>2, <1>3, <1>4

\* A message that is about no tool is sent, or none.
LEMMA BesideKeeps ==
  ASSUME wire \in Seq(Message), CallFits, KnownFits, NEW m \in Message, ~Tells(m), m.kind # "invoked",
         Send(<<m>>) \/ wire' = wire, visit' = visit, visit.phase # "closed",
         page'.live = page.live, page'.invoked = page.invoked, page'.changedBack = page.changedBack,
         page'.call = page.call \/ (page.call = "executing" /\ page'.call = "responded")
  PROVE  CallFits' /\ KnownFits'
PROOF
<1>1. /\ Len(wire) \in Nat /\ Len(wire') \in Nat /\ Len(wire) <= Len(wire')
      /\ \A j \in 1 .. Len(wire) : wire'[j] = wire[j]
      /\ \A j \in 1 .. Len(wire') : j > Len(wire) => wire'[j] = m
  <2>1. CASE wire' = wire
    BY <2>1
  <2>2. CASE Send(<<m>>)
    <3>1. wire' = Append(wire, m)
      BY <2>2 DEF Send
    <3>2. Len(wire') = Len(wire) + 1 /\ wire'[Len(wire) + 1] = m /\ \A j \in 1 .. Len(wire) : wire'[j] = wire[j]
      BY <3>1
    <3>3. \A j \in 1 .. Len(wire') : j > Len(wire) => j = Len(wire) + 1
      BY <3>2
    <3> QED BY <3>2, <3>3
  <2> QED BY <2>1, <2>2
<1>2. Tainted' <=> Tainted
  BY DEF Tainted
<1>3. \A k \in 1 .. Len(wire') : wire'[k].kind = "invoked" => k \in 1 .. Len(wire) /\ wire[k].kind = "invoked"
  BY <1>1
<1>4. CallFits'
  BY <1>2, <1>3 DEF CallFits
<1>5. ASSUME NEW k \in Nat, NEW h, NoneBack(wire, k, h) PROVE NoneBack(wire', k, h)
  BY <1>1, <1>5 DEF NoneBack
<1>6. ASSUME NEW v, Stands(wire, visit.known["top"], Len(wire), v) PROVE Stands(wire', visit.known["top"], Len(wire'), v)
  BY <1>1, <1>6, StandsLater
<1>7. ASSUME NEW v, NEW k \in 1 .. Len(wire), Stands(wire, visit.known["top"], k, v) PROVE Stands(wire', visit.known["top"], k, v)
  <2>1. k \in Nat /\ k <= k /\ (\A j \in 1 .. k : wire'[j] = wire[j]) /\ \A j \in 1 .. k : ~(j > k)
    BY <1>1
  <2> QED BY <1>7, <2>1, StandsLater
<1>8. KnownFits'
  <2>1. visit.phase = "loading" => visit.known["top"] = NoTool /\ \A j \in 1 .. Len(wire') : ~Tells(wire'[j])
    BY <1>1 DEF KnownFits
  <2>2. visit.surface => Stands(wire', visit.known["top"], Len(wire'), page.live["top"])
    BY <1>6 DEF KnownFits
  <2>3. visit.surface =>
          \A k \in 1 .. Len(wire') : wire'[k].kind = "invoked" =>
            /\ Stands(wire', visit.known["top"], k, page.invoked)
            /\ Tainted => NoneBack(wire', k, visit.hash)
    BY <1>1, <1>3, <1>5, <1>7 DEF KnownFits
  <2>4. visit.surface /\ visit.kind = "agent" /\ visit.phase \in Executing /\ Tainted =>
          visit.known["top"] # visit.hash /\ NoneBack(wire', 0, visit.hash)
    BY <1>5 DEF KnownFits
  <2> QED BY <1>2, <2>1, <2>2, <2>3, <2>4 DEF KnownFits, Native
<1> QED BY <1>4, <1>8

\* The tool answers, perhaps ahead of the reply to its call.
LEMMA RespondsKeeps ==
  ASSUME VisibleInv, NEW status \in {"Completed", "Failed"}, ToolResponds(status)
  PROVE  visit.phase # "closed" /\ CallFits' /\ KnownFits' /\ Visible'
PROOF
<1> DEFINE m == [kind |-> "responded", status |-> status]
<1>0. wire \in Seq(Message) /\ page \in PageRecord
  BY DEF VisibleInv, EffectInv, RecorderTypes
<1>1. m \in Message /\ m.kind = "responded" /\ ~Tells(m)
  BY MessagesOf DEF Tells
<1>2. Send(<<m>>) \/ Overtaken(m)
  BY DEF ToolResponds, Overtaken
<1> HIDE DEF m
<1>3. /\ visit.phase # "closed" /\ visit' = visit /\ page.call = "executing" /\ page'.call = "responded"
      /\ page'.live = page.live /\ page'.invoked = page.invoked /\ page'.changedBack = page.changedBack
  BY <1>0 DEF ToolResponds, Closed, Phase, PageRecord
<1>4. CallFits /\ KnownFits /\ Visible
  BY <1>3 DEF VisibleInv
<1>5. Visible'
  BY <1>3, <1>4 DEF Visible
<1>6. CASE Send(<<m>>)
  BY <1>0, <1>1, <1>3, <1>4, <1>5, <1>6, BesideKeeps
<1>7. CASE Overtaken(m)
  <2> DEFINE n == Len(wire)
  <2>1. /\ n \in 1 .. n /\ Len(wire') = n + 1 /\ wire'[n] = m /\ wire[n].kind = "invoked"
        /\ \A i \in 1 .. n : i # n => wire'[i] = wire[i]
        /\ wire'[n + 1] = [kind |-> "invoked"]
    BY <1>0, <1>1, <1>7, OvertakenIs
  <2>2. n \in Nat /\ n > 0 /\ \A i : i \in 1 .. n + 1 <=> i \in 1 .. n - 1 \/ i = n \/ i = n + 1
    BY <1>0, <2>1
  <2>3. ~Tells(wire'[n]) /\ ~Tells(wire'[n + 1]) /\ ~Tells(wire[n]) /\ wire'[n].kind # "invoked"
    BY <1>1, <2>1 DEF Tells
  <2>4. \A j \in 1 .. n + 1 : j > n - 1 => ~Tells(wire'[j])
    BY <2>2, <2>3
  <2>5. \A i \in 1 .. n - 1 : wire'[i] = wire[i] /\ i \in 1 .. n /\ i # n
    BY <2>1, <2>2
  <2> HIDE DEF n
  <2>6. Tainted' <=> Tainted
    BY <1>3 DEF Tainted
  <2>7. ASSUME NEW v, Stands(wire, visit.known["top"], n, v) PROVE Stands(wire', visit.known["top"], n + 1, v)
    <3>1. Stands(wire, visit.known["top"], n - 1, v)
      <4>1. CASE visit.known["top"] = v /\ \A j \in 1 .. n : ~Tells(wire[j])
        BY <2>2, <2>5, <4>1 DEF Stands
      <4>2. ASSUME NEW i \in 1 .. n, Tells(wire[i]), wire[i].definition = v, \A j \in 1 .. n : j > i => ~Tells(wire[j])
            PROVE  Stands(wire, visit.known["top"], n - 1, v)
        <5>1. i \in 1 .. n - 1
          BY <2>2, <2>3, <4>2
        <5> QED BY <2>5, <4>2, <5>1 DEF Stands
      <4> QED BY <2>7, <4>1, <4>2 DEF Stands
    <3>2. n - 1 \in Nat /\ n + 1 \in Nat /\ n - 1 <= n + 1
      BY <2>2
    <3> QED BY <2>4, <2>5, <3>1, <3>2, StandsLater
  <2>8. ASSUME NEW v, NEW k \in 1 .. n - 1, Stands(wire, visit.known["top"], k, v) PROVE Stands(wire', visit.known["top"], k, v)
    <3>1. k \in Nat /\ k <= k /\ (\A j \in 1 .. k : wire'[j] = wire[j]) /\ \A j \in 1 .. k : ~(j > k)
      BY <2>2, <2>5
    <3> QED BY <2>8, <3>1, StandsLater
  <2>9. ASSUME NEW k \in Nat, NEW l \in Nat, k <= l, NEW h, NoneBack(wire, k, h) PROVE NoneBack(wire', l, h)
    <3>1. SUFFICES ASSUME NEW j \in 1 .. n + 1, j > l, Tells(wire'[j]) PROVE wire'[j].definition # h
      BY <2>1 DEF NoneBack
    <3>2. j \in 1 .. n - 1
      BY <2>2, <2>3, <3>1
    <3>3. j \in 1 .. Len(wire) /\ j > k /\ wire'[j] = wire[j]
      BY <2>5, <2>9, <3>1, <3>2 DEF n
    <3> QED BY <2>9, <3>1, <3>3 DEF NoneBack
  <2>10. \A k \in 1 .. Len(wire') : wire'[k].kind = "invoked" => k = n + 1 \/ (k \in 1 .. n - 1 /\ wire[k].kind = "invoked")
    BY <2>1, <2>2, <2>3, <2>5
  <2>11. n \in 1 .. Len(wire) /\ (\A k \in 1 .. n - 1 : k \in 1 .. Len(wire)) /\ Len(wire) = n
    BY <2>1, <2>5 DEF n
  <2>12. CallFits'
    BY <1>3, <1>4, <2>1, <2>6, <2>10, <2>11 DEF CallFits
  <2>13. KnownFits'
    <3>1. visit.phase # "loading"
      BY <1>3, <1>4 DEF CallFits
    <3>2. visit.surface => Stands(wire', visit.known["top"], Len(wire'), page.live["top"])
      BY <1>4, <2>1, <2>7, <2>11 DEF KnownFits
    <3>3. ASSUME visit.surface, NEW k \in 1 .. Len(wire'), wire'[k].kind = "invoked"
          PROVE  /\ Stands(wire', visit.known["top"], k, page.invoked)
                 /\ Tainted => NoneBack(wire', k, visit.hash)
      <4>1. CASE k = n + 1
        <5>1. Stands(wire, visit.known["top"], n, page.invoked) /\ (Tainted => NoneBack(wire, n, visit.hash))
          BY <1>4, <2>1, <2>11, <3>3 DEF KnownFits
        <5>2. n + 1 \in Nat /\ n <= n + 1
          BY <2>2
        <5> QED BY <2>2, <2>7, <2>9, <4>1, <5>1, <5>2
      <4>2. CASE k \in 1 .. n - 1 /\ wire[k].kind = "invoked"
        <5>1. Stands(wire, visit.known["top"], k, page.invoked) /\ (Tainted => NoneBack(wire, k, visit.hash))
          BY <1>4, <2>11, <3>3, <4>2 DEF KnownFits
        <5>2. k \in Nat /\ k <= k
          BY <4>2
        <5> QED BY <2>8, <2>9, <4>2, <5>1, <5>2
      <4> QED BY <2>10, <3>3, <4>1, <4>2
    <3>4. visit.surface /\ visit.kind = "agent" /\ visit.phase \in Executing /\ Tainted =>
            visit.known["top"] # visit.hash /\ NoneBack(wire', 0, visit.hash)
      BY <1>4, <2>9 DEF KnownFits
    <3> QED BY <1>3, <1>4, <2>6, <3>1, <3>2, <3>3, <3>4 DEF KnownFits, Native
  <2> QED BY <1>3, <1>5, <2>12, <2>13
<1> QED BY <1>2, <1>6, <1>7

\* The page acts or a request is answered.
LEMMA PageKeeps ==
  ASSUME VisibleInv, (\E t \in Pending : PageActs(t)) \/ (\E q \in AnyRequest : RequestSettles(q))
  PROVE  visit.phase # "closed" /\ CallFits' /\ KnownFits' /\ Visible'
PROOF
<1>0. wire \in Seq(Message) /\ page \in PageRecord /\ RecorderTypes
  BY DEF VisibleInv, EffectInv, RecorderTypes
<1>1. \E m \in Message : ~Tells(m) /\ m.kind # "invoked" /\ (Send(<<m>>) \/ wire' = wire)
  <2>1. ASSUME NEW t \in Pending, PageActs(t)
        PROVE  \E m \in Message : ~Tells(m) /\ m.kind # "invoked" /\ (Send(<<m>>) \/ wire' = wire)
    <3>1. wire' = wire \/ \E r \in Request : Send(<<[kind |-> "request", request |-> r]>>)
      BY <1>0, <2>1, PageActsIs
    <3>2. CASE wire' = wire
      <4>1. [kind |-> "refused"] \in Message /\ ~Tells([kind |-> "refused"]) /\ [kind |-> "refused"].kind # "invoked"
        BY MessagesOf DEF Tells
      <4> QED BY <3>2, <4>1
    <3>3. ASSUME NEW r \in Request, Send(<<[kind |-> "request", request |-> r]>>)
          PROVE  \E m \in Message : ~Tells(m) /\ m.kind # "invoked" /\ (Send(<<m>>) \/ wire' = wire)
      <4> DEFINE m == [kind |-> "request", request |-> r]
      <4>1. m \in Message /\ ~Tells(m) /\ m.kind # "invoked"
        BY MessagesOf DEF Tells
      <4> QED BY <3>3, <4>1
    <3> QED BY <3>1, <3>2, <3>3
  <2>2. ASSUME NEW q \in AnyRequest, RequestSettles(q)
        PROVE  \E m \in Message : ~Tells(m) /\ m.kind # "invoked" /\ (Send(<<m>>) \/ wire' = wire)
    <3> DEFINE m == [kind |-> "settled", request |-> q]
    <3>1. m \in Message /\ ~Tells(m) /\ m.kind # "invoked"
      BY MessagesOf DEF Tells
    <3>2. Send(<<m>>)
      BY <2>2 DEF RequestSettles
    <3> QED BY <3>1, <3>2
  <2> QED BY <2>1, <2>2
<1>2. /\ visit.phase # "closed" /\ visit' = visit /\ page'.call = page.call
      /\ page'.live = page.live /\ page'.invoked = page.invoked /\ page'.changedBack = page.changedBack
  BY <1>0 DEF PageActs, RequestSettles, Closed, Phase, PageRecord
<1>3. CallFits /\ KnownFits /\ Visible
  BY <1>2 DEF VisibleInv
<1>4. CallFits' /\ KnownFits'
  BY <1>0, <1>1, <1>2, <1>3, BesideKeeps
<1>5. Visible'
  BY <1>2, <1>3 DEF Visible
<1> QED BY <1>2, <1>4, <1>5

\* What is added to the wire, for the positions of messages.
LEMMA AddedIs ==
  ASSUME wire \in Seq(Message), NEW ms \in Seq(Message), Send(ms)
  PROVE  /\ Len(wire) \in Nat /\ Len(ms) \in Nat /\ Len(wire') = Len(wire) + Len(ms)
         /\ \A j \in 1 .. Len(wire) : wire'[j] = wire[j] /\ j \in 1 .. Len(wire')
         /\ \A j \in 1 .. Len(wire') : j > Len(wire) => j - Len(wire) \in 1 .. Len(ms) /\ wire'[j] = ms[j - Len(wire)]
PROOF
<1>1. /\ Len(wire') = Len(wire) + Len(ms) /\ Len(wire) \in Nat /\ Len(ms) \in Nat
      /\ \A i \in 1 .. Len(wire) : wire'[i] = wire[i]
      /\ \A i \in 1 .. Len(ms) : wire'[Len(wire) + i] = ms[i]
  BY SentIs
<1>2. \A j \in 1 .. Len(wire) : j \in 1 .. Len(wire')
  BY <1>1
<1>3. ASSUME NEW j \in 1 .. Len(wire'), j > Len(wire)
      PROVE  j - Len(wire) \in 1 .. Len(ms) /\ wire'[j] = ms[j - Len(wire)]
  <2>1. j - Len(wire) \in 1 .. Len(ms) /\ Len(wire) + (j - Len(wire)) = j
    BY <1>1, <1>3
  <2>2. wire'[Len(wire) + (j - Len(wire))] = ms[j - Len(wire)]
    BY <1>1, <2>1
  <2> QED BY <2>1, <2>2
<1> QED BY <1>1, <1>2, <1>3

\* The browser executes what is registered when the call reaches it.
LEMMA InvokeKeeps ==
  ASSUME VisibleInv, Invoke
  PROVE  visit.phase # "closed" /\ CallFits' /\ KnownFits' /\ Visible'
PROOF
<1>0. wire \in Seq(Message) /\ page \in PageRecord /\ RecorderTypes /\ PhaseFits
  BY DEF VisibleInv, EffectInv, RecorderTypes
<1>1. visit.phase = "invoking" /\ page.call = "sent" /\ visit' = visit
  BY DEF Invoke, Phase
<1>2. CallFits /\ KnownFits /\ Visible
  BY <1>1 DEF VisibleInv
<1>3. page.invoked = NoTool /\ visit.kind = "agent" /\ visit.capture = "none"
  BY <1>0, <1>1, <1>2 DEF CallFits, PhaseFits
<1>4. Visible'
  BY <1>1, <1>3 DEF Visible
<1>5. \A i \in 1 .. Len(wire) : wire[i].kind # "invoked"
  BY <1>0, <1>1 DEF PhaseFits, Reply
<1> DEFINE m == IF page.live["top"] = NoTool THEN [kind |-> "refused"] ELSE [kind |-> "invoked"]
<1>6. m \in Message /\ ~Tells(m) /\ Send(<<m>>)
  BY MessagesOf DEF Tells, Invoke
<1>7. /\ page'.live = page.live /\ page'.changedBack = page.changedBack
      /\ page'.call = IF page.live["top"] = NoTool THEN "refused" ELSE "executing"
      /\ page'.invoked = page.live["top"]
      /\ m.kind = IF page.live["top"] = NoTool THEN "refused" ELSE "invoked"
  BY <1>0, <1>3 DEF Invoke, PageRecord
<1> HIDE DEF m
<1>8. wire' = Append(wire, m)
  BY <1>6 DEF Send
<1>9. /\ Len(wire) \in Nat /\ Len(wire') = Len(wire) + 1 /\ wire'[Len(wire) + 1] = m
      /\ \A j \in 1 .. Len(wire) : wire'[j] = wire[j]
  BY <1>0, <1>8
<1>10. \A j \in 1 .. Len(wire') : j \in 1 .. Len(wire) \/ j = Len(wire) + 1
  BY <1>9
<1>11. \A k \in 1 .. Len(wire') : wire'[k].kind = "invoked" => k = Len(wire') /\ page.live["top"] # NoTool
  BY <1>5, <1>7, <1>9, <1>10
<1>12. CallFits'
  BY <1>1, <1>2, <1>3, <1>7, <1>11 DEF CallFits, Tainted
<1>13. KnownFits'
  <2>1. visit.surface => Stands(wire', visit.known["top"], Len(wire'), page.live["top"])
    <3>1. \A j \in 1 .. Len(wire') : j > Len(wire) => ~Tells(wire'[j])
      BY <1>6, <1>9, <1>10
    <3>2. Len(wire') \in Nat /\ Len(wire) <= Len(wire')
      BY <1>9
    <3> QED BY <1>2, <1>9, <3>1, <3>2, StandsLater DEF KnownFits
  <2>2. \A h : NoneBack(wire', Len(wire'), h)
    BY <1>9 DEF NoneBack
  <2> QED BY <1>1, <1>2, <1>7, <1>11, <2>1, <2>2 DEF KnownFits, Native, Executing
<1> QED BY <1>1, <1>4, <1>12, <1>13

\* The tools there are when they begin to be watched are reported.
LEMMA LoadKeeps ==
  ASSUME VisibleInv, Load
  PROVE  visit.phase # "closed" /\ CallFits' /\ KnownFits' /\ Visible'
PROOF
<1>0. wire \in Seq(Message) /\ page \in PageRecord /\ visit \in VisitRecord /\ RecorderTypes /\ PhaseFits
  BY DEF VisibleInv, EffectInv, RecorderTypes
<1>1. visit.phase = "loading" /\ page' = page
  BY DEF Load, Phase
<1>2. CallFits /\ KnownFits /\ Visible
  BY <1>1 DEF VisibleInv
<1>3. page.call = "none" /\ page.invoked = NoTool /\ visit.capture = "none" /\ visit.known["top"] = NoTool
      /\ \A j \in 1 .. Len(wire) : ~Tells(wire[j])
  BY <1>0, <1>1, <1>2 DEF CallFits, KnownFits, PhaseFits
<1>4. /\ visit'.phase = IF Native THEN "settling" ELSE "ready"
      /\ visit'.surface = Native /\ visit'.mode = visit.mode /\ visit'.kind = visit.kind /\ visit'.hash = visit.hash
      /\ visit'.known = visit.known /\ visit'.capture = visit.capture
  BY <1>0 DEF Load, VisitRecord
<1>5. Visible'
  BY <1>3, <1>4 DEF Visible
<1>6. \A i \in 1 .. Len(wire') : wire'[i].kind # "invoked"
  <2>1. \A i \in 1 .. Len(wire') : ~Reply(i)'
    BY <1>0, <1>1, LoadSends, SentAside DEF PhaseFits
  <2> QED BY <2>1 DEF Reply
<1>7. CallFits'
  BY <1>1, <1>2, <1>3, <1>4, <1>6 DEF CallFits, Tainted, Working, Executing
<1>8. ASSUME Native PROVE Stands(wire', NoTool, Len(wire'), page.live["top"])
  <2> DEFINE there == {f \in Frame : page.live[f] # NoTool}
             top == ToolEvent("top", page.live["top"])
             child == ToolEvent("child", page.live["child"])
  <2>1. /\ top \in Message /\ Tells(top) /\ top.definition = page.live["top"]
        /\ child \in Message /\ ~Tells(child)
    BY <1>0, MessagesOf, FieldsAre DEF ToolEvent, Tells
  <2>2. \/ there = {} /\ Send(<<>>)
        \/ there = {"child"} /\ Send(<<child>>)
        \/ there = {"top"} /\ Send(<<top>>)
        \/ there = Frame /\ Send(<<top, child>>)
    <3>1. there \in SUBSET {"top", "child"}
      BY DEF Frame
    <3>2. there = {} \/ there = {"child"} \/ there = {"top"} \/ there = Frame
      BY <3>1 DEF Frame
    <3>3. CASE there = {} \/ there = Frame
      BY <1>8, <3>3 DEF Load, Frame
    <3>4. ASSUME NEW g \in Frame, there = {g} PROVE Send(<<ToolEvent(g, page.live[g])>>)
      <4>1. (CHOOSE x \in there : TRUE) = g
        BY <3>4
      <4>2. there # {} /\ there # Frame
        BY <3>4 DEF Frame
      <4> QED BY <1>8, <4>1, <4>2 DEF Load
    <3>5. "top" \in Frame /\ "child" \in Frame
      BY DEF Frame
    <3> QED BY <3>2, <3>3, <3>4, <3>5
  <2>3. "top" \notin there <=> page.live["top"] = NoTool
    BY DEF Frame
  <2> HIDE DEF top, child
  <2>4. ASSUME page.live["top"] = NoTool, \A j \in 1 .. Len(wire') : ~Tells(wire'[j])
        PROVE  Stands(wire', NoTool, Len(wire'), page.live["top"])
    BY <2>4 DEF Stands
  <2>5. CASE there = {} /\ Send(<<>>)
    <3>1. wire' = wire
      BY <1>0, <2>5 DEF Send
    <3> QED BY <1>3, <2>3, <2>4, <2>5, <3>1
  <2>6. CASE there = {"child"} /\ Send(<<child>>)
    <3>1. wire' = Append(wire, child)
      BY <2>6 DEF Send
    <3>2. Len(wire) \in Nat /\ Len(wire') = Len(wire) + 1 /\ wire'[Len(wire) + 1] = child
          /\ \A j \in 1 .. Len(wire) : wire'[j] = wire[j]
      BY <1>0, <3>1
    <3>3. \A j \in 1 .. Len(wire') : j \in 1 .. Len(wire) \/ j = Len(wire) + 1
      BY <3>2
    <3>4. \A j \in 1 .. Len(wire') : ~Tells(wire'[j])
      BY <1>3, <2>1, <3>2, <3>3
    <3> QED BY <2>3, <2>4, <2>6, <3>4
  <2>7. CASE there = {"top"} /\ Send(<<top>>)
    <3>1. wire' = Append(wire, top)
      BY <2>7 DEF Send
    <3>2. Len(wire) \in Nat /\ Len(wire') = Len(wire) + 1 /\ wire'[Len(wire) + 1] = top
      BY <1>0, <3>1
    <3>3. Len(wire') \in Nat /\ Len(wire') > 0 /\ wire'[Len(wire')] = top
      BY <3>2
    <3> QED BY <2>1, <3>3, StandsLast
  <2>8. CASE Send(<<top, child>>)
    <3>1. wire' = wire \o <<top, child>>
      BY <2>8 DEF Send
    <3>2. Len(wire) \in Nat /\ Len(wire') = Len(wire) + 2 /\ wire'[Len(wire) + 1] = top /\ wire'[Len(wire) + 2] = child
      BY <1>0, <2>1, <3>1
    <3>3. Len(wire) + 1 \in Nat /\ Len(wire) + 1 > 0
      BY <3>2
    <3>4. Stands(wire', NoTool, Len(wire) + 1, page.live["top"])
      BY <2>1, <3>2, <3>3, StandsLast
    <3>5. \A j \in 1 .. Len(wire') : j > Len(wire) + 1 => j = Len(wire) + 2
      BY <3>2
    <3>6. \A j \in 1 .. Len(wire') : j > Len(wire) + 1 => ~Tells(wire'[j])
      BY <2>1, <3>2, <3>5
    <3>7. Len(wire') \in Nat /\ Len(wire) + 1 <= Len(wire')
      BY <3>2
    <3> QED BY <3>3, <3>4, <3>6, <3>7, StandsLater
  <2> QED BY <2>2, <2>5, <2>6, <2>7, <2>8
<1>9. KnownFits'
  BY <1>1, <1>3, <1>4, <1>6, <1>8 DEF KnownFits, Native, Executing
<1> QED BY <1>1, <1>5, <1>7, <1>9

\* What the page tells of a change: both frames, and nothing before the surface is watched.
LEMMA ChangeTold ==
  ASSUME RecorderTypes, NEW f \in Frame, NEW d \in Tool, ChangeTool(f, d)
  PROVE  /\ Len(wire) \in Nat /\ Len(wire') \in Nat /\ Len(wire) <= Len(wire')
         /\ \A j \in 1 .. Len(wire) : wire'[j] = wire[j] /\ j \in 1 .. Len(wire')
         /\ \A j \in 1 .. Len(wire') : j > Len(wire) =>
              wire'[j].kind = "tool" /\ wire'[j].frame = f /\ wire'[j].definition \in {NoTool, d}
         /\ visit.surface => Len(wire') > Len(wire) /\ wire'[Len(wire')].definition = d
PROOF
<1> DEFINE e == ToolEvent(f, d)
           z == ToolEvent(f, NoTool)
<1>1. /\ e \in Message /\ z \in Message /\ e.kind = "tool" /\ z.kind = "tool" /\ e.frame = f /\ z.frame = f
      /\ e.definition = d /\ z.definition = NoTool
  BY MessagesOf DEF Tool, ToolEvent
<1>2. (~visit.surface /\ Send(<<>>)) \/ Send(<<e>>) \/ Send(<<z, e>>)
  BY DEF ChangeTool
<1>3. wire \in Seq(Message) /\ Len(wire) \in Nat
  BY DEF RecorderTypes
<1> HIDE DEF e, z
<1>4. CASE ~visit.surface /\ Send(<<>>)
  <2>1. wire' = wire
    BY <1>3, <1>4 DEF Send
  <2> QED BY <1>3, <1>4, <2>1
<1>5. CASE Send(<<e>>)
  <2>1. wire' = Append(wire, e)
    BY <1>5 DEF Send
  <2>2. Len(wire') = Len(wire) + 1 /\ wire'[Len(wire) + 1] = e /\ \A j \in 1 .. Len(wire) : wire'[j] = wire[j]
    BY <1>3, <2>1
  <2>3. \A j \in 1 .. Len(wire') : j > Len(wire) => j = Len(wire) + 1
    BY <1>3, <2>2
  <2> QED BY <1>1, <1>3, <2>2, <2>3
<1>6. CASE Send(<<z, e>>)
  <2>1. wire' = wire \o <<z, e>>
    BY <1>6 DEF Send
  <2>2. /\ Len(wire') = Len(wire) + 2 /\ wire'[Len(wire) + 1] = z /\ wire'[Len(wire) + 2] = e
        /\ \A j \in 1 .. Len(wire) : wire'[j] = wire[j]
    BY <1>1, <1>3, <2>1
  <2>3. \A j \in 1 .. Len(wire') : j > Len(wire) => j = Len(wire) + 1 \/ j = Len(wire) + 2
    BY <1>3, <2>2
  <2> QED BY <1>1, <1>3, <2>2, <2>3
<1> QED BY <1>2, <1>4, <1>5, <1>6

\* A tool is registered, replaced or taken away, and reported.
LEMMA ChangeKeeps ==
  ASSUME VisibleInv, NEW f \in Frame, NEW d \in Tool, ChangeTool(f, d)
  PROVE  visit.phase # "closed" /\ CallFits' /\ KnownFits' /\ Visible'
PROOF
<1>0. wire \in Seq(Message) /\ page \in PageRecord /\ visit \in VisitRecord /\ RecorderTypes /\ PhaseFits
  BY DEF VisibleInv, EffectInv, RecorderTypes
<1>1. /\ visit.phase \notin {"closed", "loading"} /\ visit' = visit
      /\ page'.call = page.call /\ page'.invoked = page.invoked
      /\ page'.live = [page.live EXCEPT ![f] = d]
      /\ page'.changedBack <=> page.changedBack \/ (f = "top" /\ page.invoked # NoTool /\ d = visit.hash)
  BY <1>0 DEF ChangeTool, Closed, Phase, PageRecord
<1>2. CallFits /\ KnownFits /\ Visible
  BY <1>1 DEF VisibleInv
<1>3. Visible'
  BY <1>1, <1>2 DEF Visible
<1>4. /\ Len(wire) \in Nat /\ Len(wire') \in Nat /\ Len(wire) <= Len(wire')
      /\ \A j \in 1 .. Len(wire) : wire'[j] = wire[j] /\ j \in 1 .. Len(wire')
      /\ \A j \in 1 .. Len(wire') : j > Len(wire) =>
           wire'[j].kind = "tool" /\ wire'[j].frame = f /\ wire'[j].definition \in {NoTool, d}
      /\ visit.surface => Len(wire') > Len(wire) /\ wire'[Len(wire')].definition = d
  BY <1>0, ChangeTold
<1>5. page'.live["top"] = IF f = "top" THEN d ELSE page.live["top"]
  BY <1>0, <1>1 DEF PageRecord, Frame
<1>6. Tainted' => Tainted /\ (f = "top" => d # visit.hash)
  BY <1>1 DEF Tainted
<1>7. \A k \in 1 .. Len(wire') : wire'[k].kind = "invoked" => k \in 1 .. Len(wire) /\ wire[k].kind = "invoked"
  BY <1>4
<1>8. CallFits'
  BY <1>1, <1>2, <1>5, <1>6, <1>7 DEF CallFits
<1>9. ASSUME NEW k \in Nat, NoneBack(wire, k, visit.hash), visit.hash # NoTool, Tainted'
      PROVE  NoneBack(wire', k, visit.hash)
  <2>1. SUFFICES ASSUME NEW j \in 1 .. Len(wire'), j > k, Tells(wire'[j]) PROVE wire'[j].definition # visit.hash
    BY DEF NoneBack
  <2>2. CASE j \in 1 .. Len(wire)
    BY <1>4, <1>9, <2>1, <2>2 DEF NoneBack
  <2>3. CASE j \notin 1 .. Len(wire)
    <3>1. j > Len(wire)
      BY <1>4, <2>3
    <3>2. f = "top" /\ wire'[j].definition \in {NoTool, d}
      BY <1>4, <2>1, <3>1 DEF Tells
    <3> QED BY <1>6, <1>9, <3>2
  <2> QED BY <2>2, <2>3
<1>10. ASSUME visit.surface PROVE Stands(wire', visit.known["top"], Len(wire'), page'.live["top"])
  <2>1. CASE f = "top"
    <3>1. Len(wire') > 0 /\ Len(wire') \in 1 .. Len(wire') /\ Tells(wire'[Len(wire')]) /\ wire'[Len(wire')].definition = d
      BY <1>4, <1>10, <2>1 DEF Tells
    <3>2. Stands(wire', visit.known["top"], Len(wire'), wire'[Len(wire')].definition)
      BY <1>4, <3>1, StandsLast
    <3> QED BY <1>5, <2>1, <3>1, <3>2
  <2>2. CASE f # "top"
    <3>1. \A j \in 1 .. Len(wire') : j > Len(wire) => ~Tells(wire'[j])
      BY <1>4, <2>2 DEF Tells
    <3>2. Stands(wire, visit.known["top"], Len(wire), page.live["top"])
      BY <1>2, <1>10 DEF KnownFits
    <3> QED BY <1>4, <1>5, <2>2, <3>1, <3>2, StandsLater
  <2> QED BY <2>1, <2>2
<1>11. ASSUME visit.surface, NEW k \in 1 .. Len(wire'), wire'[k].kind = "invoked"
       PROVE  /\ Stands(wire', visit.known["top"], k, page.invoked)
              /\ Tainted' => NoneBack(wire', k, visit.hash)
  <2>1. k \in 1 .. Len(wire) /\ wire[k].kind = "invoked" /\ k \in Nat
    BY <1>7, <1>11
  <2>2. Stands(wire, visit.known["top"], k, page.invoked) /\ (Tainted => NoneBack(wire, k, visit.hash))
    BY <1>2, <1>11, <2>1 DEF KnownFits
  <2>3. visit.hash # NoTool
    <3>1. visit.phase = "invoking"
      BY <1>0, <1>1, <2>1 DEF PhaseFits, Reply
    <3> QED BY <1>2, <3>1 DEF CallFits, Working
  <2>4. Stands(wire', visit.known["top"], k, page.invoked)
    <3>1. k <= k /\ (\A j \in 1 .. k : wire'[j] = wire[j]) /\ \A j \in 1 .. k : ~(j > k)
      BY <1>4, <2>1
    <3> QED BY <2>1, <2>2, <3>1, StandsLater
  <2> QED BY <1>6, <1>9, <2>1, <2>2, <2>3, <2>4
<1>12. ASSUME visit.surface, visit.kind = "agent", visit.phase \in Executing, Tainted'
       PROVE  visit.known["top"] # visit.hash /\ NoneBack(wire', 0, visit.hash)
  <2>1. visit.known["top"] # visit.hash /\ NoneBack(wire, 0, visit.hash)
    BY <1>2, <1>6, <1>12 DEF KnownFits
  <2>2. visit.hash # NoTool
    BY <1>2, <1>12 DEF CallFits, Working, Executing
  <2> QED BY <1>9, <1>12, <2>1, <2>2
<1>13. KnownFits'
  BY <1>1, <1>2, <1>10, <1>11, <1>12 DEF KnownFits, Native
<1> QED BY <1>1, <1>3, <1>8, <1>13

\* The runner hears a message: of the executed tool it knows once it has heard of the call.
LEMMA HearVisible ==
  ASSUME VisibleInv, Hear
  PROVE  /\ visit.phase # "closed" /\ Visible'
         /\ visit'.phase # "closed" => CallFits' /\ KnownFits'
PROOF
<1>0. /\ wire \in Seq(Message) /\ visit \in VisitRecord /\ PhaseFits
  BY DEF VisibleInv, EffectInv, RecorderTypes
<1> DEFINE m == Head(wire)
           n == Len(wire)
<1>1. /\ visit.phase # "closed" /\ wire' = Tail(wire) /\ wire # <<>> /\ page' = page
      /\ visit' = Heard(m)
  BY DEF Hear, Closed, Phase
<1>2. CallFits /\ KnownFits /\ Visible
  BY <1>1 DEF VisibleInv
<1>3. /\ n \in Nat /\ n > 0 /\ Len(wire') = n - 1 /\ m = wire[1] /\ 1 \in 1 .. n
      /\ \A j \in 1 .. n - 1 : wire'[j] = wire[j + 1] /\ j + 1 \in 1 .. n
  BY <1>0, <1>1
<1>4. m \in Message
  BY <1>0, <1>3
<1>5. n = Len(wire)
  OBVIOUS
<1> HIDE DEF m, n
<1>6. m.kind \in {"invoked", "refused"} => visit.phase = "invoking"
  BY <1>0, <1>1, <1>3, <1>5 DEF PhaseFits, Reply
<1>7. /\ m.kind = "refused" => visit' = Close
      /\ m.kind = "tool" => visit' = [visit EXCEPT !.known[m.frame] = m.definition]
      /\ m.kind = "invoked" => visit' = [visit EXCEPT !.phase = "awaiting"]
      /\ m.kind \notin {"refused", "tool", "invoked"} =>
           \/ visit' = visit
           \/ visit' = [visit EXCEPT !.network = @ \cup {m.request}, !.inFlight = @ \cup {m.request}]
           \/ visit' = [visit EXCEPT !.inFlight = @ \ {m.request}]
           \/ visit' = [visit EXCEPT !.answer = m.status]
  BY <1>1 DEF Heard, Buffered
<1>8. /\ visit'.capture = visit.capture /\ visit'.before = visit.before /\ visit'.after = visit.after
      /\ visit'.kind = visit.kind /\ visit'.hash = visit.hash /\ visit'.mode = visit.mode /\ visit'.surface = visit.surface
      /\ visit'.phase = IF m.kind = "refused" THEN "closed" ELSE IF m.kind = "invoked" THEN "awaiting" ELSE visit.phase
  BY <1>0, <1>7, ZenonT(40) DEF VisitRecord, Close
<1>9. Visible'
  BY <1>1, <1>2, <1>8 DEF Visible
<1>10. visit'.known["top"] = IF Tells(wire[1]) THEN wire[1].definition ELSE visit.known["top"]
  <2>1. CASE m.kind = "tool"
    <3>1. m.frame \in Frame
      BY <1>4, <2>1 DEF Message
    <3>2. visit'.known = [visit.known EXCEPT ![m.frame] = m.definition] /\ visit.known \in [Frame -> Tool]
      BY <1>0, <1>7, <2>1 DEF VisitRecord
    <3> QED BY <1>3, <2>1, <3>1, <3>2 DEF Tells, Frame
  <2>2. CASE m.kind # "tool"
    <3>1. visit'.known = visit.known
      BY <1>0, <1>7, <2>2 DEF VisitRecord, Close
    <3> QED BY <1>3, <2>2, <3>1 DEF Tells
  <2> QED BY <2>1, <2>2
<1>11. Tainted' <=> Tainted
  BY <1>1, <1>8 DEF Tainted
<1>12. ASSUME NEW k \in 1 .. n, NEW v, Stands(wire, visit.known["top"], k, v)
       PROVE  Stands(wire', visit'.known["top"], k - 1, v)
  <2>1. k \in Nat /\ k > 0 /\ \A j \in 1 .. k - 1 : j \in 1 .. n - 1
    BY <1>3
  <2>2. \A j \in 1 .. k - 1 : wire'[j] = wire[j + 1]
    BY <1>3, <2>1
  <2> QED BY <1>10, <1>12, <2>1, <2>2, StandsHeard
<1>13. ASSUME NEW k \in Nat, NEW l \in Nat, k <= l + 1, NEW h, NoneBack(wire, k, h)
       PROVE  NoneBack(wire', l, h)
  <2>1. SUFFICES ASSUME NEW j \in 1 .. n - 1, j > l, Tells(wire'[j]) PROVE wire'[j].definition # h
    BY <1>3 DEF NoneBack
  <2>2. j + 1 \in 1 .. Len(wire) /\ j + 1 > k /\ wire'[j] = wire[j + 1]
    BY <1>3, <1>5, <1>13, <2>1
  <2> QED BY <1>13, <2>1, <2>2 DEF NoneBack
<1>14. ASSUME visit'.phase # "closed" PROVE CallFits'
  <2>1. m.kind # "refused"
    BY <1>8, <1>14
  <2>2. \A k \in 1 .. Len(wire') : wire'[k].kind = "invoked" => page.invoked # NoTool /\ visit.kind = "agent"
    BY <1>2, <1>3, <1>5 DEF CallFits
  <2>3. m.kind = "invoked" => page.invoked # NoTool /\ visit.kind = "agent"
    BY <1>2, <1>3, <1>5 DEF CallFits
  <2>4. CASE m.kind = "invoked"
    <3>1. visit.phase = "invoking" /\ visit'.phase = "awaiting"
      BY <1>6, <1>8, <2>4
    <3> QED BY <1>1, <1>2, <1>8, <1>11, <2>2, <2>3, <2>4, <3>1 DEF CallFits, Working
  <2>5. CASE m.kind # "invoked"
    <3>1. visit'.phase = visit.phase
      BY <1>8, <2>1, <2>5
    <3> QED BY <1>1, <1>2, <1>8, <1>11, <2>2, <3>1 DEF CallFits
  <2> QED BY <2>4, <2>5
<1>15. ASSUME visit'.phase # "closed" PROVE KnownFits'
  <2>1. m.kind # "refused"
    BY <1>8, <1>15
  <2>2. visit'.phase = "loading" <=> visit.phase = "loading"
    BY <1>6, <1>8, <2>1
  <2>3. visit'.surface <=> Native' /\ visit'.phase # "loading"
    BY <1>2, <1>8, <2>2 DEF KnownFits, Native
  <2>4. visit'.phase = "loading" => visit'.known["top"] = NoTool /\ \A j \in 1 .. Len(wire') : ~Tells(wire'[j])
    BY <1>2, <1>3, <1>5, <1>10, <2>2 DEF KnownFits
  <2>5. visit.surface => Stands(wire', visit'.known["top"], Len(wire'), page.live["top"])
    <3>1. n \in 1 .. n
      BY <1>3
    <3> QED BY <1>2, <1>3, <1>5, <1>12, <3>1 DEF KnownFits
  <2>6. ASSUME visit.surface, NEW k \in 1 .. Len(wire'), wire'[k].kind = "invoked"
        PROVE  /\ Stands(wire', visit'.known["top"], k, page.invoked)
               /\ Tainted => NoneBack(wire', k, visit.hash)
    <3>1. k + 1 \in 1 .. n /\ wire[k + 1].kind = "invoked" /\ k \in Nat /\ (k + 1) - 1 = k /\ k + 1 \in Nat
      BY <1>3, <2>6
    <3>2. Stands(wire, visit.known["top"], k + 1, page.invoked) /\ (Tainted => NoneBack(wire, k + 1, visit.hash))
      BY <1>2, <1>5, <2>6, <3>1 DEF KnownFits
    <3>3. Stands(wire', visit'.known["top"], (k + 1) - 1, page.invoked)
      BY <1>12, <3>1, <3>2
    <3>4. Tainted => NoneBack(wire', k, visit.hash)
      BY <1>13, <3>1, <3>2
    <3> QED BY <3>1, <3>3, <3>4
  <2>7. ASSUME visit.surface, visit.kind = "agent", visit'.phase \in Executing, Tainted
        PROVE  visit'.known["top"] # visit.hash /\ NoneBack(wire', 0, visit.hash)
    <3>1. CASE m.kind = "invoked"
      <4>1. Stands(wire, visit.known["top"], 1, page.invoked) /\ NoneBack(wire, 1, visit.hash)
        BY <1>2, <1>3, <1>5, <2>7, <3>1 DEF KnownFits
      <4>2. Stands(wire', visit'.known["top"], 1 - 1, page.invoked)
        BY <1>3, <1>12, <4>1
      <4>3. visit'.known["top"] = page.invoked
        BY <4>2 DEF Stands
      <4>4. NoneBack(wire', 0, visit.hash)
        BY <1>13, <4>1
      <4> QED BY <2>7, <4>3, <4>4 DEF Tainted
    <3>2. CASE m.kind # "invoked"
      <4>1. visit.known["top"] # visit.hash /\ NoneBack(wire, 0, visit.hash)
        BY <1>2, <1>8, <2>1, <2>7, <3>2 DEF KnownFits
      <4>2. Tells(wire[1]) => wire[1].definition # visit.hash
        BY <1>3, <1>5, <4>1 DEF NoneBack
      <4>3. NoneBack(wire', 0, visit.hash)
        BY <1>13, <4>1
      <4> QED BY <1>10, <4>1, <4>2, <4>3
    <3> QED BY <3>1, <3>2
  <2> QED BY <1>1, <1>8, <1>11, <2>3, <2>4, <2>5, <2>6, <2>7 DEF KnownFits
<1> QED BY <1>1, <1>9, <1>14, <1>15

\* No tool is known and none was executed at first.
LEMMA VisibleInitially == RecorderInit => VisibleInv
PROOF
<1> SUFFICES ASSUME RecorderInit PROVE VisibleInv
  OBVIOUS
<1>1. /\ visit.phase = "loading" /\ visit.known["top"] = NoTool /\ visit.surface = FALSE /\ visit.capture = "none"
      /\ page.call = "none" /\ page.invoked = NoTool /\ wire = <<>>
  BY DEF RecorderInit, Frame
<1>2. CallFits
  BY <1>1 DEF CallFits, Working, Executing, Tainted
<1>3. KnownFits
  BY <1>1 DEF KnownFits
<1>4. Visible
  BY <1>1 DEF Visible
<1> QED BY <1>2, <1>3, <1>4, EffectInitially DEF VisibleInv

\* Every step keeps what is known of the executed tool.
LEMMA VisibleKept == VisibleInv /\ [RecorderNext]_recorderVars => VisibleInv'
PROOF
<1>1. ASSUME VisibleInv, RecorderNext PROVE VisibleInv'
  <2>1. EffectInv' /\ RecorderTypes /\ PhaseFits
    BY <1>1, EffectKept DEF VisibleInv, EffectInv
  <2>2. CallFits /\ KnownFits /\ Visible
    BY <1>1, <2>1, NotClosed DEF VisibleInv
  <2>3. Visible' /\ (visit'.phase # "closed" => CallFits' /\ KnownFits')
    <3>1. CASE QuietStep
      BY <2>1, <2>2, <3>1, QuietKeeps, QuietVisible
    <3>2. CASE ~QuietStep
      BY <1>1, <3>2, LoadKeeps, InvokeKeeps, HearVisible, PageKeeps, RespondsKeeps, ChangeKeeps
      DEF RecorderNext, RunnerStep, QuietStep, Pending, Tool, AnyRequest
    <3> QED BY <3>1, <3>2
  <2> QED BY <2>1, <2>3 DEF VisibleInv
<1>2. ASSUME VisibleInv, UNCHANGED recorderVars PROVE VisibleInv'
  <2>1. EffectInv'
    BY <1>2, EffectKept DEF VisibleInv
  <2>2. visit' = visit /\ page' = page /\ wire' = wire
    BY <1>2 DEF recorderVars
  <2> QED BY <1>2, <2>1, <2>2 DEF VisibleInv, CallFits, KnownFits, Visible, Tainted, Native
<1> QED BY <1>1, <1>2

\* A finished trace shows that another tool was executed than was found (execute,
\* onToolsAdded, onToolsRemoved, recordPageEffects), whenever the page replaced it and
\* however late the browser's reports reach the runner.
THEOREM SubstitutionShows == RecorderSpec => []SubstitutionIsVisible
PROOF
<1>1. RecorderInit => VisibleInv
  BY VisibleInitially
<1>2. VisibleInv /\ [RecorderNext]_recorderVars => VisibleInv'
  BY VisibleKept
<1>3. VisibleInv => SubstitutionIsVisible
  BY DEF VisibleInv, Visible, SubstitutionIsVisible
<1> QED BY <1>1, <1>2, <1>3, PTL DEF RecorderSpec

-----------------------------------------------------------------------------
(* The import of an eval report: induction, and recursive functions *)

\* Induction over the naturals, with a set for the property: the smallest natural outside
\* would be the smallest of a set of finite segments.
LEMMA NatSetInduction ==
  ASSUME NEW S, 0 \in S, \A n \in Nat : n \in S => n + 1 \in S
  PROVE  Nat \subseteq S
<1>1. SUFFICES ASSUME NEW t \in Nat, t \notin S
               PROVE  FALSE
  OBVIOUS
<1> DEFINE Missing == {k \in 0 .. t : k \notin S}
           Below(k) == 0 .. k - 1
           Segments == {Below(k) : k \in Missing}
           Whole == Below(t)
<1>2. Segments \subseteq FiniteSubsetsOf(Whole)
  <2>1. SUFFICES ASSUME NEW k \in Missing
                 PROVE  Below(k) \in FiniteSubsetsOf(Whole)
    OBVIOUS
  <2>2. Below(k) \subseteq Whole
    OBVIOUS
  <2>3. IsFiniteSet(Below(k))
    BY FS_Interval
  <2> QED BY <2>2, <2>3 DEF FiniteSubsetsOf
<1>3. Segments # {}
  BY <1>1
<1>4. \E x \in Segments : \A y \in Segments : ~(<<y, x>> \in StrictSubsetOrdering(Whole))
  <2> HIDE DEF Segments, Whole
  <2> QED BY <1>2, <1>3, WFMin, FS_StrictSubsetOrderingWellFounded
<1>5. PICK k \in Missing : \A y \in Segments : ~(<<y, Below(k)>> \in StrictSubsetOrdering(Whole))
  BY <1>4
<1>6. k # 0
  OBVIOUS
<1>7. k - 1 \in Missing
  BY <1>6
<1>8. <<Below(k - 1), Below(k)>> \in StrictSubsetOrdering(Whole)
  <2>1. Below(k - 1) \subseteq Whole /\ Below(k) \subseteq Whole /\ Below(k - 1) \subseteq Below(k)
    OBVIOUS
  <2>2. k - 1 \in Below(k) /\ k - 1 \notin Below(k - 1)
    BY <1>6
  <2> QED BY <2>1, <2>2 DEF StrictSubsetOrdering
<1> QED BY <1>5, <1>7, <1>8

\* F gives at s what it takes only from a function's values at places of a smaller rank.
Recursion(S, X, Rank, F) ==
  /\ X # {} /\ Rank \in [S -> Nat] /\ F \in [[S -> X] -> [S -> X]]
  /\ \A g, h \in [S -> X] : \A s \in S :
       (\A t \in S : Rank[t] < Rank[s] => g[t] = h[t]) => F[g][s] = F[h][s]

\* Such a recursion has a solution: the definition of a recursive function means what it says.
LEMMA RecursionExists ==
  ASSUME NEW S, NEW X, NEW Rank, NEW F, Recursion(S, X, Rank, F)
  PROVE  \E f \in [S -> X] : f = F[f]
<1> USE DEF Recursion
<1> DEFINE Good(n, f) == \A s \in S : Rank[s] < n => f[s] = F[f][s]
           Reached == {n \in Nat : \E f \in [S -> X] : Good(n, f)}
           Unique == {n \in Nat : \A f, g \in [S -> X] : Good(n, f) /\ Good(n, g) =>
                                    \A s \in S : Rank[s] < n => f[s] = g[s]}
<1>1. Nat \subseteq Reached
  <2>1. 0 \in Reached
    <3>1. PICK x \in X : TRUE
      OBVIOUS
    <3>2. [s \in S |-> x] \in [S -> X] /\ Good(0, [s \in S |-> x])
      OBVIOUS
    <3> QED BY <3>2
  <2>2. ASSUME NEW n \in Nat, n \in Reached
        PROVE  n + 1 \in Reached
    <3>1. PICK f \in [S -> X] : Good(n, f)
      BY <2>2
    <3>2. F[f] \in [S -> X]
      OBVIOUS
    <3>3. ASSUME NEW s \in S, Rank[s] < n + 1
          PROVE  F[f][s] = F[F[f]][s]
      <4>1. \A t \in S : Rank[t] < Rank[s] => f[t] = F[f][t]
        BY <3>1, <3>3
      <4> QED BY <4>1, <3>2
    <3> QED BY <3>2, <3>3
  <2> HIDE DEF Reached
  <2> QED BY <2>1, <2>2, NatSetInduction
<1>2. Nat \subseteq Unique
  <2>1. 0 \in Unique
    OBVIOUS
  <2>2. ASSUME NEW n \in Nat, n \in Unique
        PROVE  n + 1 \in Unique
    <3>1. SUFFICES ASSUME NEW f \in [S -> X], NEW g \in [S -> X], Good(n + 1, f), Good(n + 1, g),
                          NEW s \in S, Rank[s] < n + 1
                   PROVE  f[s] = g[s]
      <4>1. n + 1 \in Nat
        OBVIOUS
      <4> QED BY <4>1, Zenon
    <3>2. Good(n, f) /\ Good(n, g)
      BY <3>1
    <3>3. \A t \in S : Rank[t] < n => f[t] = g[t]
      BY <2>2, <3>2
    <3>4. F[f][s] = F[g][s]
      BY <3>1, <3>3
    <3> QED BY <3>1, <3>4
  <2> HIDE DEF Unique
  <2> QED BY <2>1, <2>2, NatSetInduction
<1> DEFINE Stage(n) == CHOOSE f : f \in [S -> X] /\ Good(n, f)
           limit == [s \in S |-> Stage(Rank[s] + 1)[s]]
<1>3. ASSUME NEW n \in Nat
      PROVE  Stage(n) \in [S -> X] /\ Good(n, Stage(n))
  BY <1>1, <1>3
<1> HIDE DEF Stage
<1>4. limit \in [S -> X]
  BY <1>3
<1>5. ASSUME NEW s \in S
      PROVE  limit[s] = F[limit][s]
  <2> DEFINE here == Stage(Rank[s] + 1)
  <2>1. here \in [S -> X] /\ Good(Rank[s] + 1, here)
    BY <1>3
  <2> HIDE DEF here
  <2>2. ASSUME NEW t \in S, Rank[t] < Rank[s]
        PROVE  limit[t] = here[t]
    <3> DEFINE there == Stage(Rank[t] + 1)
    <3>1. there \in [S -> X] /\ Good(Rank[t] + 1, there)
      BY <1>3
    <3>2. limit[t] = there[t]
      OBVIOUS
    <3> HIDE DEF there, limit
    <3>3. Good(Rank[t] + 1, here)
      BY <2>1, <2>2
    <3>4. Rank[t] + 1 \in Unique
      BY <1>2
    <3> QED BY <2>1, <3>1, <3>2, <3>3, <3>4
  <2>3. limit[s] = here[s]
    BY DEF here
  <2> HIDE DEF limit
  <2>4. F[limit][s] = F[here][s]
    BY <1>4, <2>1, <2>2
  <2> QED BY <2>1, <2>3, <2>4
<1> HIDE DEF limit
<1>6. F[limit] \in [S -> X]
  BY <1>4
<1>7. limit = F[limit]
  BY <1>4, <1>5, <1>6
<1> QED BY <1>4, <1>7

-----------------------------------------------------------------------------
(* Paths: what matching computes *)

\* The ends a node may have, for each start.
Spans(length) == [0 .. length -> SUBSET (0 .. length)]

\* Through the n spans, each from where the one before it ended.
Path(n, spans, from, to, length) ==
  \E cut \in [0 .. n -> 0 .. length] :
    /\ cut[0] = from /\ cut[n] = to
    /\ \A p \in 1 .. n : cut[p] \in spans[p][cut[p - 1]]

\* A path through no span ends where it starts.
LEMMA PathEmpty ==
  ASSUME NEW length \in Nat, NEW spans, NEW from \in 0 .. length, NEW to \in 0 .. length
  PROVE  Path(0, spans, from, to, length) <=> from = to
<1>1. ASSUME from = to
      PROVE  Path(0, spans, from, to, length)
  <2> DEFINE cut == [p \in 0 .. 0 |-> from]
  <2>1. cut \in [0 .. 0 -> 0 .. length] /\ cut[0] = from /\ cut[0] = to
    BY <1>1
  <2>2. \A p \in 1 .. 0 : FALSE
    OBVIOUS
  <2> QED BY <2>1, <2>2 DEF Path
<1>2. ASSUME Path(0, spans, from, to, length)
      PROVE  from = to
  BY <1>2 DEF Path
<1> QED BY <1>1, <1>2

\* A path through one span more is a path and a step of that span.
LEMMA PathExtends ==
  ASSUME NEW length \in Nat, NEW n \in Nat, NEW spans, NEW from \in 0 .. length, NEW to \in 0 .. length
  PROVE  Path(n + 1, spans, from, to, length)
           <=> \E mid \in 0 .. length : Path(n, spans, from, mid, length) /\ to \in spans[n + 1][mid]
<1>1. ASSUME Path(n + 1, spans, from, to, length)
      PROVE  \E mid \in 0 .. length : Path(n, spans, from, mid, length) /\ to \in spans[n + 1][mid]
  <2>1. PICK cut \in [0 .. n + 1 -> 0 .. length] :
               /\ cut[0] = from /\ cut[n + 1] = to
               /\ \A p \in 1 .. n + 1 : cut[p] \in spans[p][cut[p - 1]]
    BY <1>1 DEF Path
  <2> DEFINE before == [p \in 0 .. n |-> cut[p]]
  <2>2. before \in [0 .. n -> 0 .. length] /\ before[0] = from /\ before[n] = cut[n]
    BY <2>1
  <2>3. \A p \in 1 .. n : before[p] \in spans[p][before[p - 1]]
    BY <2>1
  <2>4. Path(n, spans, from, cut[n], length)
    BY <2>2, <2>3 DEF Path
  <2>5. cut[n] \in 0 .. length /\ to \in spans[n + 1][cut[n]]
    BY <2>1
  <2> QED BY <2>4, <2>5
<1>2. ASSUME NEW mid \in 0 .. length, Path(n, spans, from, mid, length), to \in spans[n + 1][mid]
      PROVE  Path(n + 1, spans, from, to, length)
  <2>1. PICK cut \in [0 .. n -> 0 .. length] :
               /\ cut[0] = from /\ cut[n] = mid
               /\ \A p \in 1 .. n : cut[p] \in spans[p][cut[p - 1]]
    BY <1>2 DEF Path
  <2> DEFINE longer == [p \in 0 .. n + 1 |-> IF p = n + 1 THEN to ELSE cut[p]]
  <2>2. longer \in [0 .. n + 1 -> 0 .. length] /\ longer[0] = from /\ longer[n + 1] = to
    BY <2>1
  <2>3. \A p \in 1 .. n + 1 : longer[p] \in spans[p][longer[p - 1]]
    <3>1. ASSUME NEW p \in 1 .. n
          PROVE  longer[p] \in spans[p][longer[p - 1]]
      BY <2>1
    <3>2. longer[n + 1] \in spans[n + 1][longer[n + 1 - 1]]
      BY <1>2, <2>1
    <3>3. ASSUME NEW p \in 1 .. n + 1
          PROVE  longer[p] \in spans[p][longer[p - 1]]
      <4>1. p \in 1 .. n \/ p = n + 1
        OBVIOUS
      <4> HIDE DEF longer
      <4>2. CASE p \in 1 .. n
        BY <3>1, <4>2
      <4>3. CASE p = n + 1
        BY <3>2, <4>3
      <4> QED BY <4>1, <4>2, <4>3
    <3> QED BY <3>3
  <2> QED BY <2>2, <2>3 DEF Path
<1> QED BY <1>1, <1>2

\* And so is a path with one span before it.
LEMMA PathPrepends ==
  ASSUME NEW length \in Nat, NEW n \in Nat, NEW spans, NEW rest,
         NEW from \in 0 .. length, NEW to \in 0 .. length,
         \A p \in 1 .. n : rest[p] = spans[p + 1]
  PROVE  Path(n + 1, spans, from, to, length)
           <=> \E mid \in 0 .. length :
                 mid \in spans[1][from] /\ Path(n, rest, mid, to, length)
<1>1. ASSUME Path(n + 1, spans, from, to, length)
      PROVE  \E mid \in 0 .. length : mid \in spans[1][from] /\ Path(n, rest, mid, to, length)
  <2>1. PICK cut \in [0 .. n + 1 -> 0 .. length] :
               /\ cut[0] = from /\ cut[n + 1] = to
               /\ \A p \in 1 .. n + 1 : cut[p] \in spans[p][cut[p - 1]]
    BY <1>1 DEF Path
  <2> DEFINE after == [p \in 0 .. n |-> cut[p + 1]]
  <2>2. after \in [0 .. n -> 0 .. length] /\ after[0] = cut[1] /\ after[n] = to
    BY <2>1
  <2>3. ASSUME NEW p \in 1 .. n
        PROVE  after[p] \in rest[p][after[p - 1]]
    <3>1. cut[p + 1] \in spans[p + 1][cut[p]]
      BY <2>1
    <3> QED BY <3>1
  <2>4. Path(n, rest, cut[1], to, length)
    <3> HIDE DEF after
    <3> QED BY <2>2, <2>3 DEF Path
  <2>5. cut[1] \in 0 .. length /\ cut[1] \in spans[1][from]
    BY <2>1
  <2> QED BY <2>4, <2>5
<1>2. ASSUME NEW mid \in 0 .. length, mid \in spans[1][from], Path(n, rest, mid, to, length)
      PROVE  Path(n + 1, spans, from, to, length)
  <2>1. PICK cut \in [0 .. n -> 0 .. length] :
               /\ cut[0] = mid /\ cut[n] = to
               /\ \A p \in 1 .. n : cut[p] \in rest[p][cut[p - 1]]
    BY <1>2 DEF Path
  <2> DEFINE longer == [p \in 0 .. n + 1 |-> IF p = 0 THEN from ELSE cut[p - 1]]
  <2>2. longer \in [0 .. n + 1 -> 0 .. length] /\ longer[0] = from /\ longer[n + 1] = to
    BY <2>1
  <2>3. \A p \in 1 .. n + 1 : longer[p] \in spans[p][longer[p - 1]]
    <3>1. ASSUME NEW p \in 2 .. n + 1
          PROVE  longer[p] \in spans[p][longer[p - 1]]
      <4>1. p - 1 \in 1 .. n /\ cut[p - 1] \in rest[p - 1][cut[p - 1 - 1]]
        BY <2>1
      <4>2. rest[p - 1] = spans[p]
        BY <4>1
      <4>3. longer[p] = cut[p - 1] /\ longer[p - 1] = cut[p - 1 - 1]
        OBVIOUS
      <4> QED BY <4>1, <4>2, <4>3
    <3>2. longer[1] \in spans[1][longer[1 - 1]]
      BY <1>2, <2>1
    <3>3. \A p \in 1 .. n + 1 : p \in 2 .. n + 1 \/ p = 1
      OBVIOUS
    <3> HIDE DEF longer
    <3> QED BY <3>1, <3>2, <3>3, Zenon
  <2> QED BY <2>2, <2>3 DEF Path
<1> QED BY <1>1, <1>2

\* What matchOrdered computes, one node after the other, are the ends of the paths.
LEMMA OrderedIsPath ==
  ASSUME NEW length \in Nat, NEW nodes \in Seq(Node), NEW match, NEW start \in 0 .. length,
         \A p \in 1 .. Len(nodes) : match[nodes[p]] \in Spans(length)
  PROVE  /\ MatchOrdered(nodes, match, start) \subseteq 0 .. length
         /\ \A end \in 0 .. length :
              end \in MatchOrdered(nodes, match, start)
                <=> Path(Len(nodes), [p \in 1 .. Len(nodes) |-> match[nodes[p]]], start, end, length)
<1> DEFINE n == Len(nodes)
           X == SUBSET (0 .. length)
           spans == [p \in 1 .. n |-> match[nodes[p]]]
           Body(f) == [done \in 0 .. n |->
                         IF done = 0 THEN {start} ELSE UNION {match[nodes[done]][index] : index \in f[done - 1]}]
           indexes == CHOOSE f : f = Body(f)
<1>0. n \in Nat
  OBVIOUS
<1>1. \E f : f = Body(f)
  <2> DEFINE F == [f \in [0 .. n -> X] |-> Body(f)]
             Rank == [p \in 0 .. n |-> p]
  <2>1. F \in [[0 .. n -> X] -> [0 .. n -> X]]
    <3>1. SUFFICES ASSUME NEW f \in [0 .. n -> X], NEW done \in 0 .. n
                   PROVE  Body(f)[done] \in X
      OBVIOUS
    <3>2. CASE done = 0
      BY <3>2
    <3>3. CASE done # 0
      <4>1. done - 1 \in 0 .. n /\ done \in 1 .. n
        BY <3>3
      <4>2. f[done - 1] \subseteq 0 .. length
        BY <4>1
      <4>3. \A index \in f[done - 1] : match[nodes[done]][index] \subseteq 0 .. length
        BY <4>1, <4>2 DEF Spans
      <4> QED BY <3>3, <4>3
    <3> QED BY <3>2, <3>3
  <2>2. ASSUME NEW g \in [0 .. n -> X], NEW h \in [0 .. n -> X], NEW s \in 0 .. n,
               \A t \in 0 .. n : Rank[t] < Rank[s] => g[t] = h[t]
        PROVE  F[g][s] = F[h][s]
    <3>1. s # 0 => g[s - 1] = h[s - 1]
      BY <2>2, <1>0
    <3> QED BY <3>1
  <2>3. Rank \in [0 .. n -> Nat] /\ {} \in X
    OBVIOUS
  <2> DEFINE S == 0 .. n
  <2>4. Recursion(S, X, Rank, F)
    BY <2>1, <2>2, <2>3, Zenon DEF Recursion
  <2>5. \E f \in [S -> X] : f = F[f]
    <3> HIDE DEF F, Rank, X, S
    <3> QED BY <2>4, RecursionExists
  <2> QED BY <2>5
<1>2. indexes = Body(indexes)
  BY <1>1
<1>3. MatchOrdered(nodes, match, start) = indexes[n]
  BY DEF MatchOrdered
<1> HIDE DEF indexes
<1> DEFINE Claim == {done \in Nat : done <= n =>
                       /\ indexes[done] \subseteq 0 .. length
                       /\ \A end \in 0 .. length : end \in indexes[done] <=> Path(done, spans, start, end, length)}
<1>4. Nat \subseteq Claim
  <2>1. 0 \in Claim
    <3>1. indexes[0] = {start}
      BY <1>0, <1>2
    <3> QED BY <3>1, PathEmpty
  <2>2. ASSUME NEW done \in Nat, done \in Claim
        PROVE  done + 1 \in Claim
    <3>1. SUFFICES ASSUME done + 1 <= n
                   PROVE  /\ indexes[done + 1] \subseteq 0 .. length
                          /\ \A end \in 0 .. length :
                               end \in indexes[done + 1] <=> Path(done + 1, spans, start, end, length)
      OBVIOUS
    <3>2. indexes[done + 1] = UNION {match[nodes[done + 1]][index] : index \in indexes[done]}
      <4>1. done + 1 \in 0 .. n /\ done + 1 # 0 /\ done + 1 - 1 = done
        BY <3>1, <1>0
      <4>2. indexes[done + 1] = Body(indexes)[done + 1]
        BY <1>2, Zenon
      <4>3. Body(indexes)[done + 1] = UNION {match[nodes[done + 1]][index] : index \in indexes[done + 1 - 1]}
        BY <4>1
      <4> QED BY <4>1, <4>2, <4>3
    <3>3. /\ indexes[done] \subseteq 0 .. length
          /\ \A end \in 0 .. length : end \in indexes[done] <=> Path(done, spans, start, end, length)
      BY <2>2, <3>1
    <3>4. match[nodes[done + 1]] \in Spans(length) /\ spans[done + 1] = match[nodes[done + 1]]
      BY <3>1
    <3> HIDE DEF spans
    <3>5. indexes[done + 1] \subseteq 0 .. length
      BY <3>2, <3>3, <3>4 DEF Spans
    <3>6. ASSUME NEW end \in 0 .. length
          PROVE  end \in indexes[done + 1] <=> Path(done + 1, spans, start, end, length)
      <4>1. end \in indexes[done + 1] <=> \E index \in indexes[done] : end \in spans[done + 1][index]
        BY <3>2, <3>4
      <4> QED BY <3>3, <4>1, PathExtends
    <3> QED BY <3>5, <3>6
  <2> HIDE DEF Claim
  <2> QED BY <2>1, <2>2, NatSetInduction
<1> QED BY <1>0, <1>3, <1>4

\* What is left of a mask without one of its members.
LEMMA RestOfMask ==
  ASSUME NEW n \in Nat, NEW mask \in SUBSET (1 .. n)
  PROVE  /\ Cardinality(mask) \in Nat
         /\ Cardinality(mask) = 0 <=> mask = {}
         /\ \A p \in mask : mask \ {p} \in SUBSET (1 .. n) /\ Cardinality(mask \ {p}) = Cardinality(mask) - 1
<1>1. IsFiniteSet(mask)
  <2>1. IsFiniteSet(1 .. n)
    BY FS_Interval
  <2> QED BY <2>1, FS_Subset
<1>2. Cardinality(mask) \in Nat /\ (Cardinality(mask) = 0 <=> mask = {})
  BY <1>1, FS_CardinalityType, FS_EmptySet
<1>3. \A p \in mask : Cardinality(mask \ {p}) = Cardinality(mask) - 1
  BY <1>1, FS_RemoveElement
<1> QED BY <1>2, <1>3

\* An order of the rest, with that member in front, is an order of the mask.
LEMMA OrderPrepends ==
  ASSUME NEW k \in Nat, NEW mask, NEW p \in mask, NEW order \in Injection(1 .. k, mask \ {p})
  PROVE  [q \in 1 .. k + 1 |-> IF q = 1 THEN p ELSE order[q - 1]] \in Injection(1 .. k + 1, mask)
<1> DEFINE longer == [q \in 1 .. k + 1 |-> IF q = 1 THEN p ELSE order[q - 1]]
<1>1. order \in [1 .. k -> mask \ {p}] /\ \A a, b \in 1 .. k : order[a] = order[b] => a = b
  BY DEF Injection, IsInjective
<1>2. \A q \in 1 .. k + 1 : q # 1 => q - 1 \in 1 .. k /\ longer[q] = order[q - 1] /\ longer[q] \in mask \ {p}
  BY <1>1
<1>3. longer \in [1 .. k + 1 -> mask] /\ longer[1] = p
  BY <1>1, <1>2
<1>4. ASSUME NEW a \in 1 .. k + 1, NEW b \in 1 .. k + 1, longer[a] = longer[b]
      PROVE  a = b
  <2> HIDE DEF longer
  <2>1. CASE a = 1 \/ b = 1
    BY <1>2, <1>3, <1>4, <2>1
  <2>2. CASE a # 1 /\ b # 1
    BY <1>1, <1>2, <1>4, <2>2
  <2> QED BY <2>1, <2>2
<1> HIDE DEF longer
<1>5. longer \in Injection(1 .. k + 1, mask)
  BY <1>3, <1>4 DEF Injection, IsInjective
<1> QED BY <1>5 DEF longer

\* And an order of the mask without its first is one of the rest.
LEMMA OrderLosesFirst ==
  ASSUME NEW k \in Nat, NEW mask, NEW order \in Injection(1 .. k + 1, mask)
  PROVE  /\ order[1] \in mask
         /\ [q \in 1 .. k |-> order[q + 1]] \in Injection(1 .. k, mask \ {order[1]})
<1> DEFINE rest == [q \in 1 .. k |-> order[q + 1]]
<1>1. order \in [1 .. k + 1 -> mask] /\ \A a, b \in 1 .. k + 1 : order[a] = order[b] => a = b
  BY DEF Injection, IsInjective
<1>2. \A q \in 1 .. k : q + 1 \in 1 .. k + 1 /\ q + 1 # 1 /\ 1 \in 1 .. k + 1 /\ rest[q] = order[q + 1]
  OBVIOUS
<1>3. rest \in [1 .. k -> mask \ {order[1]}]
  BY <1>1, <1>2
<1>4. \A a, b \in 1 .. k : rest[a] = rest[b] => a = b
  BY <1>1, <1>2
<1> HIDE DEF rest
<1>5. rest \in Injection(1 .. k, mask \ {order[1]})
  BY <1>3, <1>4 DEF Injection, IsInjective
<1> QED BY <1>1, <1>5 DEF rest

\* The ends where any member of the mask may come next.
Onward(memo, at, mask, from, length) ==
  {end \in 0 .. length : \E p \in mask : \E mid \in at[p][from] : end \in memo[mask \ {p}][mid]}

\* What the memo of visit holds.
Visits(memo, at, n, length) ==
  \A mask \in SUBSET (1 .. n), from \in 0 .. length :
    /\ mask = {} => memo[mask][from] = {from}
    /\ mask # {} => memo[mask][from] = Onward(memo, at, mask, from, length)

\* The spans in an order.
Via(at, order, k) == [p \in 1 .. k |-> at[order[p]]]

\* The memo of a mask of k members holds the ends of the paths in any order of them.
Ends(memo, at, length, k, mask, from) ==
  /\ memo[mask][from] \subseteq 0 .. length
  /\ \A end \in 0 .. length :
       end \in memo[mask][from]
         <=> \E order \in Injection(1 .. k, mask) : Path(k, Via(at, order, k), from, end, length)

\* With no member left it does.
LEMMA VisitNone ==
  ASSUME NEW n \in Nat, NEW length \in Nat, NEW at, NEW memo, Visits(memo, at, n, length),
         NEW from \in 0 .. length
  PROVE  Ends(memo, at, length, 0, {}, from)
<1>1. memo[{}][from] = {from}
  BY DEF Visits
<1>2. [q \in 1 .. 0 |-> q] \in Injection(1 .. 0, {})
  BY DEF Injection, IsInjective
<1>3. \A order : \A end \in 0 .. length : Path(0, Via(at, order, 0), from, end, length) <=> from = end
  BY PathEmpty
<1> QED BY <1>1, <1>2, <1>3 DEF Ends

\* With one member more it does, as it does for what is left of the mask.
LEMMA VisitOne ==
  ASSUME NEW n \in Nat, NEW length \in Nat, NEW at \in [1 .. n -> Spans(length)],
         NEW memo, Visits(memo, at, n, length), NEW k \in Nat,
         NEW mask \in SUBSET (1 .. n), Cardinality(mask) = k + 1, NEW from \in 0 .. length,
         \A p \in mask : \A mid \in 0 .. length : Ends(memo, at, length, k, mask \ {p}, mid)
  PROVE  Ends(memo, at, length, k + 1, mask, from)
<1>1. mask # {}
  BY RestOfMask
<1>2. \A end : end \in memo[mask][from]
                  <=> /\ end \in 0 .. length
                      /\ \E p \in mask : \E mid \in at[p][from] : end \in memo[mask \ {p}][mid]
  <2>1. memo[mask][from] = Onward(memo, at, mask, from, length)
    BY <1>1 DEF Visits
  <2>2. \A end : end \in Onward(memo, at, mask, from, length)
                   <=> /\ end \in 0 .. length
                       /\ \E p \in mask : \E mid \in at[p][from] : end \in memo[mask \ {p}][mid]
    BY DEF Onward
  <2> QED BY <2>1, <2>2
<1>3. \A p \in mask : at[p][from] \subseteq 0 .. length
  BY DEF Spans
<1>4. memo[mask][from] \subseteq 0 .. length
  BY <1>2, <1>3 DEF Ends
<1>5. ASSUME NEW end \in 0 .. length, end \in memo[mask][from]
      PROVE  \E order \in Injection(1 .. k + 1, mask) : Path(k + 1, Via(at, order, k + 1), from, end, length)
  <2>1. PICK p \in mask, mid \in 0 .. length : mid \in at[p][from] /\ end \in memo[mask \ {p}][mid]
    BY <1>2, <1>3, <1>5
  <2>2. PICK order \in Injection(1 .. k, mask \ {p}) : Path(k, Via(at, order, k), mid, end, length)
    BY <2>1 DEF Ends
  <2> DEFINE longer == [q \in 1 .. k + 1 |-> IF q = 1 THEN p ELSE order[q - 1]]
             spans == Via(at, longer, k + 1)
  <2>3. longer \in Injection(1 .. k + 1, mask)
    BY OrderPrepends
  <2>4. spans[1] = at[p]
    BY DEF Via
  <2>5. \A q \in 1 .. k : Via(at, order, k)[q] = spans[q + 1]
    BY DEF Via
  <2> HIDE DEF longer
  <2>6. Path(k + 1, spans, from, end, length)
    <3> HIDE DEF spans
    <3> QED BY <2>1, <2>2, <2>4, <2>5, PathPrepends
  <2> QED BY <2>3, <2>6
<1>6. ASSUME NEW end \in 0 .. length, NEW order \in Injection(1 .. k + 1, mask),
             Path(k + 1, Via(at, order, k + 1), from, end, length)
      PROVE  end \in memo[mask][from]
  <2> DEFINE rest == [q \in 1 .. k |-> order[q + 1]]
             p == order[1]
             spans == Via(at, order, k + 1)
  <2>1. p \in mask /\ rest \in Injection(1 .. k, mask \ {p})
    BY OrderLosesFirst
  <2>2. spans[1] = at[p]
    BY DEF Via
  <2>3. \A q \in 1 .. k : Via(at, rest, k)[q] = spans[q + 1]
    BY DEF Via
  <2> HIDE DEF rest, p
  <2>4. PICK mid \in 0 .. length : mid \in at[p][from] /\ Path(k, Via(at, rest, k), mid, end, length)
    <3>1. Path(k + 1, spans, from, end, length)
      BY <1>6
    <3> HIDE DEF spans
    <3> QED BY <3>1, <2>2, <2>3, PathPrepends
  <2>5. end \in memo[mask \ {p}][mid]
    BY <2>1, <2>4 DEF Ends
  <2> QED BY <1>2, <2>1, <2>4, <2>5
<1> QED BY <1>4, <1>5, <1>6 DEF Ends

\* So it does for all members.
LEMMA VisitAll ==
  ASSUME NEW n \in Nat, NEW length \in Nat, NEW at \in [1 .. n -> Spans(length)],
         NEW memo, Visits(memo, at, n, length), NEW from \in 0 .. length
  PROVE  Ends(memo, at, length, n, 1 .. n, from)
<1> DEFINE Claim == {k \in Nat : \A mask \in SUBSET (1 .. n) : Cardinality(mask) = k =>
                       \A start \in 0 .. length : Ends(memo, at, length, k, mask, start)}
<1>1. 0 \in Claim
  <2>1. SUFFICES ASSUME NEW mask \in SUBSET (1 .. n), Cardinality(mask) = 0, NEW start \in 0 .. length
                 PROVE  Ends(memo, at, length, 0, mask, start)
    OBVIOUS
  <2>2. mask = {}
    BY <2>1, RestOfMask
  <2>3. Ends(memo, at, length, 0, {}, start)
    BY VisitNone
  <2> QED BY <2>2, <2>3
<1>2. ASSUME NEW k \in Nat, k \in Claim
      PROVE  k + 1 \in Claim
  <2>1. SUFFICES ASSUME NEW mask \in SUBSET (1 .. n), Cardinality(mask) = k + 1, NEW start \in 0 .. length
                 PROVE  Ends(memo, at, length, k + 1, mask, start)
    BY <1>2
  <2>2. \A p \in mask : mask \ {p} \in SUBSET (1 .. n) /\ Cardinality(mask \ {p}) = k
    <3>1. \A p \in mask : mask \ {p} \in SUBSET (1 .. n) /\ Cardinality(mask \ {p}) = Cardinality(mask) - 1
      BY RestOfMask
    <3>2. Cardinality(mask) - 1 = k
      BY <2>1
    <3> QED BY <3>1, <3>2
  <2>3. \A p \in mask : \A mid \in 0 .. length : Ends(memo, at, length, k, mask \ {p}, mid)
    BY <1>2, <2>2
  <2> QED BY <2>1, <2>3, VisitOne
<1>3. n \in Claim
  <2> HIDE DEF Claim
  <2> QED BY <1>1, <1>2, NatSetInduction
<1>4. Cardinality(1 .. n) = n
  BY FS_Interval
<1> QED BY <1>3, <1>4

\* What matchUnordered computes over its masks are the ends of the paths in any order.
LEMMA UnorderedIsPath ==
  ASSUME NEW actual \in Seq(Call), NEW nodes \in Seq(Node), NEW match, NEW start \in 0 .. Len(actual),
         \A p \in 1 .. Len(nodes) : match[nodes[p]] \in Spans(Len(actual))
  PROVE  /\ MatchUnordered(nodes, match, actual, start) \subseteq 0 .. Len(actual)
         /\ \A end \in 0 .. Len(actual) :
              end \in MatchUnordered(nodes, match, actual, start)
                <=> \E order \in Injection(1 .. Len(nodes), 1 .. Len(nodes)) :
                      Path(Len(nodes), [p \in 1 .. Len(nodes) |-> match[nodes[order[p]]]], start, end, Len(actual))
<1> DEFINE n == Len(nodes)
           length == Len(actual)
           S == SUBSET (1 .. n)
           X == Spans(length)
           Body(f) == [mask \in SUBSET (1 .. n) |-> [index \in 0 .. length |->
                         IF mask = {} THEN {index}
                         ELSE {end \in 0 .. length :
                                 \E position \in mask : \E after \in match[nodes[position]][index] :
                                   end \in f[mask \ {position}][after]}]]
           memo == CHOOSE f : f = Body(f)
           at == [p \in 1 .. n |-> match[nodes[p]]]
<1>0. n \in Nat /\ length \in Nat
  OBVIOUS
<1>1. \E f : f = Body(f)
  <2> DEFINE F == [f \in [S -> X] |-> Body(f)]
             Rank == [mask \in S |-> Cardinality(mask)]
  <2>1. F \in [[S -> X] -> [S -> X]]
    <3>1. SUFFICES ASSUME NEW f \in [S -> X], NEW mask \in S, NEW index \in 0 .. length
                   PROVE  Body(f)[mask][index] \subseteq 0 .. length
      BY DEF Spans
    <3> QED OBVIOUS
  <2>2. ASSUME NEW g \in [S -> X], NEW h \in [S -> X], NEW s \in S,
               \A t \in S : Rank[t] < Rank[s] => g[t] = h[t]
        PROVE  F[g][s] = F[h][s]
    <3>1. \A position \in s : g[s \ {position}] = h[s \ {position}]
      <4>1. \A position \in s : s \ {position} \in S /\ Rank[s \ {position}] = Rank[s] - 1 /\ Rank[s] \in Nat
        BY <1>0, RestOfMask
      <4> HIDE DEF Rank, S
      <4> QED BY <2>2, <4>1
    <3>2. ASSUME NEW index \in 0 .. length
          PROVE  {end \in 0 .. length : \E position \in s : \E after \in match[nodes[position]][index] :
                    end \in g[s \ {position}][after]}
                   = {end \in 0 .. length : \E position \in s : \E after \in match[nodes[position]][index] :
                        end \in h[s \ {position}][after]}
      BY <3>1
    <3> QED BY <3>2
  <2>3. Rank \in [S -> Nat] /\ X # {}
    <3>1. [index \in 0 .. length |-> {}] \in X
      BY DEF Spans
    <3> QED BY <3>1, <1>0, RestOfMask
  <2>4. Recursion(S, X, Rank, F)
    BY <2>1, <2>2, <2>3, Zenon DEF Recursion
  <2>5. \E f \in [S -> X] : f = F[f]
    <3> HIDE DEF F, Rank, X, S
    <3> QED BY <2>4, RecursionExists
  <2> QED BY <2>5
<1>2. memo = Body(memo)
  BY <1>1
<1>3. MatchUnordered(nodes, match, actual, start) = memo[1 .. n][start]
  BY DEF MatchUnordered
<1> HIDE DEF memo
<1>4. Visits(memo, at, n, length)
  <2>1. ASSUME NEW mask \in SUBSET (1 .. n), NEW from \in 0 .. length
        PROVE  memo[mask][from] = Body(memo)[mask][from]
    BY <1>2, Zenon
  <2>2. ASSUME NEW mask \in SUBSET (1 .. n), NEW from \in 0 .. length, mask = {}
        PROVE  memo[mask][from] = {from}
    BY <2>1, <2>2
  <2>3. ASSUME NEW mask \in SUBSET (1 .. n), NEW from \in 0 .. length, mask # {}
        PROVE  memo[mask][from] = Onward(memo, at, mask, from, length)
    <3>1. memo[mask][from] = {end \in 0 .. length :
                                 \E p \in mask : \E mid \in match[nodes[p]][from] : end \in memo[mask \ {p}][mid]}
      BY <2>1, <2>3
    <3>2. \A p \in mask : at[p] = match[nodes[p]]
      OBVIOUS
    <3> HIDE DEF at
    <3>3. Onward(memo, at, mask, from, length)
            = {end \in 0 .. length :
                 \E p \in mask : \E mid \in match[nodes[p]][from] : end \in memo[mask \ {p}][mid]}
      BY <3>2 DEF Onward
    <3> QED BY <3>1, <3>3
  <2> HIDE DEF at
  <2> QED BY <2>2, <2>3 DEF Visits
<1>5. at \in [1 .. n -> Spans(length)]
  OBVIOUS
<1>6. Ends(memo, at, length, n, 1 .. n, start)
  <2> HIDE DEF at
  <2> QED BY <1>0, <1>4, <1>5, VisitAll
<1>7. ASSUME NEW order \in Injection(1 .. n, 1 .. n)
      PROVE  Via(at, order, n) = [p \in 1 .. n |-> match[nodes[order[p]]]]
  <2>1. \A p \in 1 .. n : order[p] \in 1 .. n
    BY DEF Injection
  <2> QED BY <2>1 DEF Via
<1> HIDE DEF at
<1> QED BY <1>3, <1>6, <1>7 DEF Ends

-----------------------------------------------------------------------------
(* The matching of every node *)

\* matchNode for one node and position.
MatchCell(match, node, actual, index) ==
  IF node.kind = "ordered" THEN MatchOrdered(node.members, match, index)
  ELSE IF node.kind = "unordered" THEN MatchUnordered(node.members, match, actual, index)
  ELSE MatchCall(node, actual, index)

\* matchNode for one node and every position.
MatchRow(match, node, actual) == [index \in 0 .. Len(actual) |-> MatchCell(match, node, actual, index)]

\* What NodeAssumption says of a node and its members.
LEMMA NodeShape ==
  ASSUME NEW node \in Node
  PROVE  /\ node.kind \in {"call", "ordered", "unordered"}
         /\ node.kind = "call" => node.accepts \subseteq Call /\ node.optional \in BOOLEAN
         /\ node.kind # "call" => /\ node.members \in Seq(Node)
                                 /\ Len(node.members) \in Nat
                                 /\ \A p \in 1 .. Len(node.members) :
                                      node.members[p] \in Node /\ Nesting[node.members[p]] < Nesting[node]
         /\ Nesting[node] \in Nat
<1>1. WellFormed(node) /\ Nesting[node] \in Nat
  BY NodeAssumption
<1>2. CASE node.kind = "call"
  BY <1>1, <1>2 DEF WellFormed
<1>3. CASE node.kind # "call"
  <2>1. node.kind \in {"ordered", "unordered"} /\ node.members \in Seq(Node)
        /\ \A p \in 1 .. Len(node.members) : Nesting[node.members[p]] < Nesting[node]
    BY <1>1, <1>3 DEF WellFormed
  <2>2. Len(node.members) \in Nat /\ \A p \in 1 .. Len(node.members) : node.members[p] \in Node
    BY <2>1
  <2> QED BY <1>1, <1>3, <2>1, <2>2
<1> QED BY <1>2, <1>3

\* The three kinds of nodes.
LEMMA RowCases ==
  ASSUME NEW actual \in Seq(Call), NEW node \in Node, NEW match,
         NEW index \in 0 .. Len(actual)
  PROVE  /\ node.kind = "call" => MatchRow(match, node, actual)[index] = MatchCall(node, actual, index)
         /\ node.kind = "ordered" =>
              MatchRow(match, node, actual)[index] = MatchOrdered(node.members, match, index)
         /\ node.kind = "unordered" =>
              MatchRow(match, node, actual)[index] = MatchUnordered(node.members, match, actual, index)
BY DEF MatchRow, MatchCell

\* A node's ends are positions if those of its members are.
LEMMA RowTyped ==
  ASSUME NEW actual \in Seq(Call), NEW node \in Node, NEW match,
         \A other \in Node : Nesting[other] < Nesting[node] => match[other] \in Spans(Len(actual))
  PROVE  MatchRow(match, node, actual) \in Spans(Len(actual))
<1>1. Len(actual) \in Nat
  OBVIOUS
<1>2. ASSUME NEW index \in 0 .. Len(actual)
      PROVE  MatchRow(match, node, actual)[index] \subseteq 0 .. Len(actual)
  <2>1. CASE node.kind = "call"
    BY <1>1, <2>1, RowCases DEF MatchCall
  <2>2. node.kind # "call" =>
          /\ node.members \in Seq(Node)
          /\ \A p \in 1 .. Len(node.members) : match[node.members[p]] \in Spans(Len(actual))
    BY NodeShape
  <2>3. CASE node.kind = "ordered"
    <3>1. MatchOrdered(node.members, match, index) \subseteq 0 .. Len(actual)
      BY <1>1, <2>2, <2>3, OrderedIsPath
    <3> QED BY <2>3, <3>1, RowCases
  <2>4. CASE node.kind = "unordered"
    <3>1. MatchUnordered(node.members, match, actual, index) \subseteq 0 .. Len(actual)
      BY <1>1, <2>2, <2>4, UnorderedIsPath
    <3> QED BY <2>4, <3>1, RowCases
  <2> QED BY <2>1, <2>3, <2>4, NodeShape
<1>3. MatchRow(match, node, actual) = [index \in 0 .. Len(actual) |-> MatchRow(match, node, actual)[index]]
  BY DEF MatchRow
<1> QED BY <1>2, <1>3 DEF Spans

\* A node's ends depend on those of its members only.
LEMMA RowSame ==
  ASSUME NEW actual \in Seq(Call), NEW node \in Node, NEW g, NEW h,
         \A other \in Node : Nesting[other] < Nesting[node] => g[other] = h[other],
         \A other \in Node : g[other] \in Spans(Len(actual)) /\ h[other] \in Spans(Len(actual))
  PROVE  MatchRow(g, node, actual) = MatchRow(h, node, actual)
<1>1. Len(actual) \in Nat
  OBVIOUS
<1>2. ASSUME NEW index \in 0 .. Len(actual)
      PROVE  MatchRow(g, node, actual)[index] = MatchRow(h, node, actual)[index]
  <2> DEFINE nodes == node.members
             n == Len(nodes)
  <2>1. CASE node.kind = "call"
    BY <2>1, RowCases
  <2>2. node.kind # "call" =>
          /\ nodes \in Seq(Node)
          /\ \A p \in 1 .. n : g[nodes[p]] = h[nodes[p]]
          /\ \A p \in 1 .. n : g[nodes[p]] \in Spans(Len(actual)) /\ h[nodes[p]] \in Spans(Len(actual))
    BY NodeShape
  <2>3. CASE node.kind = "ordered"
    <3>1. [p \in 1 .. n |-> g[nodes[p]]] = [p \in 1 .. n |-> h[nodes[p]]]
      BY <2>2, <2>3
    <3>2. /\ MatchOrdered(nodes, g, index) \subseteq 0 .. Len(actual)
          /\ \A end \in 0 .. Len(actual) : end \in MatchOrdered(nodes, g, index)
               <=> Path(n, [p \in 1 .. n |-> g[nodes[p]]], index, end, Len(actual))
      BY <1>1, <2>2, <2>3, OrderedIsPath
    <3>3. /\ MatchOrdered(nodes, h, index) \subseteq 0 .. Len(actual)
          /\ \A end \in 0 .. Len(actual) : end \in MatchOrdered(nodes, h, index)
               <=> Path(n, [p \in 1 .. n |-> h[nodes[p]]], index, end, Len(actual))
      BY <1>1, <2>2, <2>3, OrderedIsPath
    <3>4. MatchOrdered(nodes, g, index) = MatchOrdered(nodes, h, index)
      BY <3>1, <3>2, <3>3
    <3> QED BY <2>3, <3>4, RowCases
  <2>4. CASE node.kind = "unordered"
    <3>1. ASSUME NEW order \in Injection(1 .. n, 1 .. n)
          PROVE  [p \in 1 .. n |-> g[nodes[order[p]]]] = [p \in 1 .. n |-> h[nodes[order[p]]]]
      <4>1. \A p \in 1 .. n : order[p] \in 1 .. n
        BY DEF Injection
      <4> QED BY <2>2, <2>4, <4>1
    <3>2. /\ MatchUnordered(nodes, g, actual, index) \subseteq 0 .. Len(actual)
          /\ \A end \in 0 .. Len(actual) : end \in MatchUnordered(nodes, g, actual, index)
               <=> \E order \in Injection(1 .. n, 1 .. n) :
                     Path(n, [p \in 1 .. n |-> g[nodes[order[p]]]], index, end, Len(actual))
      BY <1>1, <2>2, <2>4, UnorderedIsPath
    <3>3. /\ MatchUnordered(nodes, h, actual, index) \subseteq 0 .. Len(actual)
          /\ \A end \in 0 .. Len(actual) : end \in MatchUnordered(nodes, h, actual, index)
               <=> \E order \in Injection(1 .. n, 1 .. n) :
                     Path(n, [p \in 1 .. n |-> h[nodes[order[p]]]], index, end, Len(actual))
      BY <1>1, <2>2, <2>4, UnorderedIsPath
    <3>4. ASSUME NEW end \in 0 .. Len(actual)
          PROVE  end \in MatchUnordered(nodes, g, actual, index) <=> end \in MatchUnordered(nodes, h, actual, index)
      <4>1. ASSUME NEW order \in Injection(1 .. n, 1 .. n)
            PROVE  Path(n, [p \in 1 .. n |-> g[nodes[order[p]]]], index, end, Len(actual))
                     <=> Path(n, [p \in 1 .. n |-> h[nodes[order[p]]]], index, end, Len(actual))
        BY <3>1
      <4> QED BY <3>2, <3>3, <4>1, Zenon
    <3>5. MatchUnordered(nodes, g, actual, index) = MatchUnordered(nodes, h, actual, index)
      BY <3>2, <3>3, <3>4
    <3> QED BY <2>4, <3>5, RowCases
  <2> QED BY <2>1, <2>3, <2>4, NodeShape
<1>3. /\ MatchRow(g, node, actual) = [index \in 0 .. Len(actual) |-> MatchRow(g, node, actual)[index]]
      /\ MatchRow(h, node, actual) = [index \in 0 .. Len(actual) |-> MatchRow(h, node, actual)[index]]
  BY DEF MatchRow
<1> QED BY <1>2, <1>3

\* Nodes nest to a finite depth, so that the recursion of matchNode means what it says.
LEMMA MatchingUnfolds ==
  ASSUME NEW actual \in Seq(Call)
  PROVE  \A node \in Node : /\ Matching(actual)[node] \in Spans(Len(actual))
                            /\ Matching(actual)[node] = MatchRow(Matching(actual), node, actual)
<1> DEFINE X == Spans(Len(actual))
           Body(f) == [node \in Node |-> MatchRow(f, node, actual)]
           match == CHOOSE f : f = Body(f)
<1>0. Len(actual) \in Nat
  OBVIOUS
<1>1. \E f : f = Body(f)
  <2> DEFINE F == [f \in [Node -> X] |-> Body(f)]
  <2>1. F \in [[Node -> X] -> [Node -> X]]
    <3>1. ASSUME NEW f \in [Node -> X], NEW node \in Node
          PROVE  MatchRow(f, node, actual) \in X
      BY RowTyped
    <3> HIDE DEF X
    <3> QED BY <3>1
  <2>2. ASSUME NEW g \in [Node -> X], NEW h \in [Node -> X], NEW s \in Node,
               \A t \in Node : Nesting[t] < Nesting[s] => g[t] = h[t]
        PROVE  F[g][s] = F[h][s]
    <3>1. MatchRow(g, s, actual) = MatchRow(h, s, actual)
      BY <2>2, RowSame
    <3> HIDE DEF X
    <3> QED BY <3>1
  <2>3. X # {}
    <3>1. [index \in 0 .. Len(actual) |-> {}] \in X
      BY DEF Spans
    <3> QED BY <3>1
  <2>4. Recursion(Node, X, Nesting, F)
    BY <2>1, <2>2, <2>3, NodeAssumption, Zenon DEF Recursion
  <2>5. \E f \in [Node -> X] : f = F[f]
    <3> HIDE DEF F, X
    <3> QED BY <2>4, RecursionExists
  <2> QED BY <2>5
<1>2. match = Body(match)
  BY <1>1
<1>3. Matching(actual) = match
  BY DEF Matching, MatchRow, MatchCell
<1> HIDE DEF match
<1> DEFINE Claim == {k \in Nat : \A node \in Node : Nesting[node] < k => match[node] \in Spans(Len(actual))}
<1>4. Nat \subseteq Claim
  <2>1. 0 \in Claim
    BY NodeShape
  <2>2. ASSUME NEW k \in Nat, k \in Claim
        PROVE  k + 1 \in Claim
    <3>1. ASSUME NEW node \in Node, Nesting[node] < k + 1
          PROVE  match[node] \in Spans(Len(actual))
      <4>1. \A other \in Node : Nesting[other] < Nesting[node] => match[other] \in Spans(Len(actual))
        BY <2>2, <3>1, NodeShape
      <4>2. MatchRow(match, node, actual) \in Spans(Len(actual))
        BY <4>1, RowTyped
      <4> QED BY <1>2, <4>2
    <3> QED BY <3>1
  <2> HIDE DEF Claim
  <2> QED BY <2>1, <2>2, NatSetInduction
<1>5. ASSUME NEW node \in Node
      PROVE  match[node] \in Spans(Len(actual)) /\ match[node] = MatchRow(match, node, actual)
  <2>1. Nesting[node] + 1 \in Nat /\ Nesting[node] < Nesting[node] + 1
    BY NodeShape
  <2>2. match[node] \in Spans(Len(actual))
    BY <1>4, <2>1
  <2> QED BY <1>2, <2>2
<1> QED BY <1>3, <1>5

\* And so does that of the language of a node.
LEMMA WordsUnfold ==
  ASSUME NEW node \in Node
  PROVE  /\ Words[node] \subseteq Seq(Call)
         /\ node.kind = "call" =>
              Words[node] = {<<c>> : c \in node.accepts} \cup (IF node.optional THEN {<<>>} ELSE {})
         /\ node.kind = "ordered" =>
              Words[node] = Concatenation([p \in 1 .. Len(node.members) |-> Words[node.members[p]]])
         /\ node.kind = "unordered" =>
              Words[node] =
                {spoken \in Seq(Call) :
                   \E order \in Injection(1 .. Len(node.members), 1 .. Len(node.members)) :
                     spoken \in Concatenation([p \in 1 .. Len(node.members) |-> Words[node.members[order[p]]]])}
<1> DEFINE X == SUBSET Seq(Call)
           Entry(f, n) ==
             IF n.kind = "ordered"
             THEN Concatenation([p \in 1 .. Len(n.members) |-> f[n.members[p]]])
             ELSE IF n.kind = "unordered"
             THEN {spoken \in Seq(Call) :
                     \E order \in Injection(1 .. Len(n.members), 1 .. Len(n.members)) :
                       spoken \in Concatenation([p \in 1 .. Len(n.members) |-> f[n.members[order[p]]]])}
             ELSE {<<c>> : c \in n.accepts} \cup (IF n.optional THEN {<<>>} ELSE {})
           Body(f) == [n \in Node |-> Entry(f, n)]
<1>1. ASSUME NEW f, NEW n \in Node
      PROVE  Entry(f, n) \subseteq Seq(Call)
  <2>1. CASE n.kind = "call"
    <3>1. \A c \in n.accepts : <<c>> \in Seq(Call)
      BY <2>1, NodeShape
    <3>2. <<>> \in Seq(Call)
      OBVIOUS
    <3> QED BY <2>1, <3>1, <3>2
  <2>2. CASE n.kind = "ordered"
    BY <2>2 DEF Concatenation
  <2>3. CASE n.kind = "unordered"
    BY <2>3
  <2> QED BY <2>1, <2>2, <2>3, NodeShape
<1>2. ASSUME NEW g, NEW h, NEW n \in Node, \A m \in Node : Nesting[m] < Nesting[n] => g[m] = h[m]
      PROVE  Entry(g, n) = Entry(h, n)
  <2>1. CASE n.kind = "call"
    BY <2>1
  <2>2. n.kind # "call" => \A p \in 1 .. Len(n.members) : g[n.members[p]] = h[n.members[p]]
    BY <1>2, NodeShape
  <2>3. CASE n.kind = "ordered"
    <3>1. [p \in 1 .. Len(n.members) |-> g[n.members[p]]] = [p \in 1 .. Len(n.members) |-> h[n.members[p]]]
      BY <2>2, <2>3
    <3> QED BY <2>3, <3>1
  <2>4. CASE n.kind = "unordered"
    <3>1. \A order \in Injection(1 .. Len(n.members), 1 .. Len(n.members)) :
            [p \in 1 .. Len(n.members) |-> g[n.members[order[p]]]]
              = [p \in 1 .. Len(n.members) |-> h[n.members[order[p]]]]
      BY <2>2, <2>4 DEF Injection
    <3> QED BY <2>4, <3>1
  <2> QED BY <2>1, <2>3, <2>4, NodeShape
<1>3. \E f : f = Body(f)
  <2> DEFINE F == [f \in [Node -> X] |-> Body(f)]
  <2> HIDE DEF Entry
  <2>1. F \in [[Node -> X] -> [Node -> X]]
    BY <1>1
  <2>2. ASSUME NEW g \in [Node -> X], NEW h \in [Node -> X], NEW s \in Node,
               \A t \in Node : Nesting[t] < Nesting[s] => g[t] = h[t]
        PROVE  F[g][s] = F[h][s]
    BY <1>2, <2>2
  <2>3. X # {}
    OBVIOUS
  <2>4. Recursion(Node, X, Nesting, F)
    BY <2>1, <2>2, <2>3, NodeAssumption, Zenon DEF Recursion
  <2>5. \E f \in [Node -> X] : f = F[f]
    <3> HIDE DEF F, X
    <3> QED BY <2>4, RecursionExists
  <2> QED BY <2>5
<1>4. Words = Body(Words)
  BY <1>3 DEF Words
<1>5. Words[node] = Entry(Words, node)
  <2> HIDE DEF Entry
  <2> QED BY <1>4
<1> QED BY <1>1, <1>5

-----------------------------------------------------------------------------
(* What the paths say of the calls *)

\* A piece of the calls, between two positions.
LEMMA PieceShape ==
  ASSUME NEW C, NEW s \in Seq(C), NEW i \in 0 .. Len(s), NEW j \in 0 .. Len(s), i <= j
  PROVE  /\ SubSeq(s, i + 1, j) \in Seq(C) /\ Len(SubSeq(s, i + 1, j)) = j - i
         /\ i < j => SubSeq(s, i + 1, j)[1] = s[i + 1]
<1>1. SUFFICES ASSUME NEW m \in Int, m = i + 1
               PROVE  /\ SubSeq(s, m, j) \in Seq(C) /\ Len(SubSeq(s, m, j)) = j - i
                      /\ i < j => SubSeq(s, m, j)[1] = s[m]
  OBVIOUS
<1>2. j \in Int /\ \A k \in m .. j : s[k] \in C
  BY <1>1
<1>3. /\ SubSeq(s, m, j) \in Seq(C)
      /\ Len(SubSeq(s, m, j)) = IF m <= j THEN j - m + 1 ELSE 0
      /\ \A k \in 1 .. j - m + 1 : SubSeq(s, m, j)[k] = s[m + k - 1]
  BY <1>2, SubSeqProperties
<1>4. ASSUME i < j
      PROVE  SubSeq(s, m, j)[1] = s[m]
  <2>1. 1 \in 1 .. j - m + 1 /\ m + 1 - 1 = m
    BY <1>1, <1>4
  <2>2. SubSeq(s, m, j)[1] = s[m + 1 - 1]
    BY <1>3, <2>1
  <2> QED BY <2>1, <2>2
<1>5. (IF m <= j THEN j - m + 1 ELSE 0) = j - i
  BY <1>1
<1> QED BY <1>3, <1>4, <1>5

\* A piece of a piece is a piece of the whole.
LEMMA PieceOfPiece ==
  ASSUME NEW C, NEW s \in Seq(C), NEW i \in 0 .. Len(s), NEW j \in 0 .. Len(s), i <= j,
         NEW a \in 0 .. j - i, NEW b \in 0 .. j - i, a <= b
  PROVE  SubSeq(SubSeq(s, i + 1, j), a + 1, b) = SubSeq(s, i + a + 1, i + b)
<1>1. CASE a = b
  <2>1. SubSeq(SubSeq(s, i + 1, j), a + 1, b) = <<>>
    BY <1>1, SubSeqEmpty
  <2>2. SubSeq(s, i + a + 1, i + b) = <<>>
    BY <1>1, SubSeqEmpty
  <2> QED BY <2>1, <2>2
<1>2. CASE a < b
  <2>1. i + 1 \in 1 .. Len(s) /\ j \in 1 .. Len(s)
    BY <1>2
  <2>2. a + 1 \in 1 .. j - (i + 1) + 1 /\ b \in 1 .. j - (i + 1) + 1
    BY <1>2
  <2>3. SubSeq(SubSeq(s, i + 1, j), a + 1, b) = SubSeq(s, (i + 1) + (a + 1) - 1, (i + 1) + b - 1)
    BY <2>1, <2>2, SubSeqOfSubSeq
  <2>4. (i + 1) + (a + 1) - 1 = i + a + 1 /\ (i + 1) + b - 1 = i + b
    OBVIOUS
  <2> QED BY <2>3, <2>4
<1> QED BY <1>1, <1>2

\* Cuts that climb from one to the next climb from any to any later one.
LEMMA StepsClimb ==
  ASSUME NEW n \in Nat, NEW length \in Nat, NEW cut \in [0 .. n -> 0 .. length],
         \A p \in 1 .. n : cut[p - 1] <= cut[p],
         NEW p \in 0 .. n
  PROVE  cut[0] <= cut[p] /\ cut[p] <= cut[n]
<1> DEFINE Up == {k \in Nat : k <= n => cut[0] <= cut[k]}
           Down == {k \in Nat : k <= n => cut[n - k] <= cut[n]}
<1>1. Nat \subseteq Up
  <2>1. 0 \in Up
    OBVIOUS
  <2>2. ASSUME NEW k \in Nat, k \in Up
        PROVE  k + 1 \in Up
    <3>1. SUFFICES ASSUME k + 1 <= n
                   PROVE  cut[0] <= cut[k + 1]
      OBVIOUS
    <3>2. cut[0] <= cut[k] /\ k + 1 \in 1 .. n /\ k + 1 - 1 = k
      BY <2>2, <3>1
    <3>3. cut[k] <= cut[k + 1]
      BY <3>2
    <3>4. cut[0] \in Nat /\ cut[k] \in Nat /\ cut[k + 1] \in Nat
      BY <3>1
    <3> QED BY <3>2, <3>3, <3>4
  <2> HIDE DEF Up
  <2> QED BY <2>1, <2>2, NatSetInduction
<1>2. Nat \subseteq Down
  <2>1. 0 \in Down
    OBVIOUS
  <2>2. ASSUME NEW k \in Nat, k \in Down
        PROVE  k + 1 \in Down
    <3>1. SUFFICES ASSUME k + 1 <= n
                   PROVE  cut[n - (k + 1)] <= cut[n]
      OBVIOUS
    <3>2. cut[n - k] <= cut[n] /\ n - k \in 1 .. n /\ n - k - 1 = n - (k + 1)
      BY <2>2, <3>1
    <3>3. cut[n - (k + 1)] <= cut[n - k]
      BY <3>2
    <3>4. cut[n - (k + 1)] \in Nat /\ cut[n - k] \in Nat /\ cut[n] \in Nat
      BY <3>1
    <3> QED BY <3>2, <3>3, <3>4
  <2> HIDE DEF Down
  <2> QED BY <2>1, <2>2, NatSetInduction
<1>3. p \in Up /\ n - p \in Down /\ n - (n - p) = p /\ p <= n /\ n - p <= n
  <2> HIDE DEF Up, Down
  <2>1. p \in Nat /\ n - p \in Nat /\ n - (n - p) = p /\ p <= n /\ n - p <= n
    OBVIOUS
  <2> QED BY <1>1, <1>2, <2>1
<1>4. cut[0] <= cut[p]
  BY <1>3
<1>5. cut[n - (n - p)] <= cut[n]
  BY <1>3
<1> QED BY <1>3, <1>4, <1>5

\* The spans are the pieces of the calls that are in the languages.
Describes(actual, languages, spans, n) ==
  \A p \in 1 .. n : \A from, to \in 0 .. Len(actual) :
    to \in spans[p][from] <=> from <= to /\ SubSeq(actual, from + 1, to) \in languages[p]

\* A path through such spans cuts the piece between its ends into one of each language.
LEMMA PathIsConcatenation ==
  ASSUME NEW actual \in Seq(Call), NEW n \in Nat, NEW languages, NEW spans,
         Len(languages) = n, Describes(actual, languages, spans, n),
         NEW from \in 0 .. Len(actual), NEW to \in 0 .. Len(actual)
  PROVE  Path(n, spans, from, to, Len(actual))
           <=> from <= to /\ SubSeq(actual, from + 1, to) \in Concatenation(languages)
<1> DEFINE length == Len(actual)
           spoken == SubSeq(actual, from + 1, to)
<1>1. length \in Nat
  OBVIOUS
<1>2. ASSUME Path(n, spans, from, to, length)
      PROVE  from <= to /\ spoken \in Concatenation(languages)
  <2>1. PICK cut \in [0 .. n -> 0 .. length] :
               /\ cut[0] = from /\ cut[n] = to
               /\ \A p \in 1 .. n : cut[p] \in spans[p][cut[p - 1]]
    BY <1>2 DEF Path
  <2>2. ASSUME NEW p \in 1 .. n
        PROVE  cut[p - 1] <= cut[p] /\ SubSeq(actual, cut[p - 1] + 1, cut[p]) \in languages[p]
    <3>1. cut[p - 1] \in 0 .. length /\ cut[p] \in 0 .. length /\ cut[p] \in spans[p][cut[p - 1]]
      BY <2>1
    <3> QED BY <3>1 DEF Describes
  <2>3. \A p \in 0 .. n : from <= cut[p] /\ cut[p] <= to
    BY <1>1, <2>1, <2>2, StepsClimb
  <2>4. from <= to
    BY <2>3
  <2>5. spoken \in Seq(Call) /\ Len(spoken) = to - from
    BY <2>4, PieceShape
  <2> DEFINE inner == [p \in 0 .. n |-> cut[p] - from]
  <2> HIDE DEF spoken
  <2>6. inner \in [0 .. n -> 0 .. Len(spoken)] /\ inner[0] = 0 /\ inner[n] = Len(spoken)
    BY <2>1, <2>3, <2>5
  <2>7. ASSUME NEW p \in 1 .. n
        PROVE  inner[p - 1] <= inner[p] /\ SubSeq(spoken, inner[p - 1] + 1, inner[p]) \in languages[p]
    <3> DEFINE i == cut[p - 1]
               j == cut[p]
    <3>1. i \in 0 .. length /\ j \in 0 .. length /\ from <= i /\ i <= j /\ j <= to
      BY <2>1, <2>2, <2>3
    <3>2. inner[p - 1] = i - from /\ inner[p] = j - from
      OBVIOUS
    <3>3. SubSeq(actual, i + 1, j) \in languages[p]
      BY <2>2
    <3> DEFINE a == i - from
               b == j - from
    <3> HIDE DEF inner, i, j
    <3>4. a \in 0 .. to - from /\ b \in 0 .. to - from /\ a <= b /\ from + a + 1 = i + 1 /\ from + b = j
      BY <3>1
    <3> HIDE DEF a, b
    <3>5. SubSeq(spoken, a + 1, b) = SubSeq(actual, from + a + 1, from + b)
      BY <2>4, <3>4, PieceOfPiece DEF spoken
    <3>6. inner[p - 1] = a /\ inner[p] = b
      BY <3>2 DEF a, b
    <3> QED BY <3>3, <3>4, <3>5, <3>6
  <2>8. spoken \in Concatenation(languages)
    <3> HIDE DEF inner
    <3> QED BY <2>5, <2>6, <2>7 DEF Concatenation
  <2> QED BY <2>4, <2>8
<1>3. ASSUME from <= to, spoken \in Concatenation(languages)
      PROVE  Path(n, spans, from, to, length)
  <2>1. Len(spoken) = to - from
    BY <1>3, PieceShape
  <2> HIDE DEF spoken
  <2>2. PICK inner \in [0 .. n -> 0 .. Len(spoken)] :
               /\ inner[0] = 0 /\ inner[n] = Len(spoken)
               /\ \A p \in 1 .. n :
                    /\ inner[p - 1] <= inner[p]
                    /\ SubSeq(spoken, inner[p - 1] + 1, inner[p]) \in languages[p]
    BY <1>3 DEF Concatenation
  <2> DEFINE cut == [p \in 0 .. n |-> from + inner[p]]
  <2>3. cut \in [0 .. n -> 0 .. length] /\ cut[0] = from /\ cut[n] = to
    BY <2>1, <2>2, <1>3
  <2>4. ASSUME NEW p \in 1 .. n
        PROVE  cut[p] \in spans[p][cut[p - 1]]
    <3> DEFINE a == inner[p - 1]
               b == inner[p]
    <3>1. a \in 0 .. to - from /\ b \in 0 .. to - from /\ a <= b
      BY <2>1, <2>2
    <3>2. cut[p - 1] = from + a /\ cut[p] = from + b
      OBVIOUS
    <3>3. SubSeq(spoken, a + 1, b) \in languages[p]
      BY <2>2
    <3> HIDE DEF cut, a, b
    <3>4. SubSeq(spoken, a + 1, b) = SubSeq(actual, from + a + 1, from + b)
      BY <1>3, <3>1, PieceOfPiece DEF spoken
    <3>5. from + a \in 0 .. length /\ from + b \in 0 .. length /\ from + a <= from + b
      BY <3>1
    <3>6. from + b \in spans[p][from + a]
      BY <3>3, <3>4, <3>5 DEF Describes
    <3> QED BY <3>2, <3>6
  <2> HIDE DEF cut
  <2> QED BY <2>3, <2>4 DEF Path
<1> QED BY <1>2, <1>3

\* Matching finds exactly the pieces that the node describes.
Finds(actual, node) ==
  \A from, to \in 0 .. Len(actual) :
    to \in Matching(actual)[node][from] <=> from <= to /\ SubSeq(actual, from + 1, to) \in Words[node]

\* It does for a call, maybe optional.
LEMMA CallFound ==
  ASSUME NEW actual \in Seq(Call), NEW node \in Node, node.kind = "call"
  PROVE  Finds(actual, node)
<1>1. SUFFICES ASSUME NEW from \in 0 .. Len(actual), NEW to \in 0 .. Len(actual)
               PROVE  to \in MatchCall(node, actual, from)
                        <=> from <= to /\ SubSeq(actual, from + 1, to) \in Words[node]
  <2>1. Len(actual) \in Nat
    OBVIOUS
  <2>2. \A from \in 0 .. Len(actual) : Matching(actual)[node][from] = MatchCall(node, actual, from)
    BY MatchingUnfolds, RowCases
  <2> QED BY <2>2 DEF Finds
<1> DEFINE piece == SubSeq(actual, from + 1, to)
<1>2. Words[node] = {<<c>> : c \in node.accepts} \cup (IF node.optional THEN {<<>>} ELSE {})
  BY WordsUnfold
<1>3. from <= to => /\ Len(piece) = to - from /\ piece \in Seq(Call)
                    /\ from < to => piece[1] = actual[from + 1]
  BY PieceShape
<1> HIDE DEF piece
<1>4. ASSUME to \in MatchCall(node, actual, from)
      PROVE  from <= to /\ piece \in Words[node]
  <2>1. CASE node.optional /\ to = from
    <3>1. piece = <<>>
      BY <1>3, <2>1
    <3> QED BY <1>2, <2>1, <3>1
  <2>2. CASE from < Len(actual) /\ actual[from + 1] \in node.accepts /\ to = from + 1
    <3>1. Len(piece) = 1 /\ piece[1] = actual[from + 1] /\ piece \in Seq(Call)
      BY <1>3, <2>2
    <3>2. piece = <<actual[from + 1]>>
      BY <3>1
    <3> QED BY <1>2, <2>2, <3>2
  <2> QED BY <1>4, <2>1, <2>2 DEF MatchCall
<1>5. ASSUME from <= to, piece \in Words[node]
      PROVE  to \in MatchCall(node, actual, from)
  <2>1. CASE node.optional /\ piece = <<>>
    <3>1. to = from
      BY <1>3, <1>5, <2>1
    <3> QED BY <2>1, <3>1 DEF MatchCall
  <2>2. ASSUME NEW c \in node.accepts, piece = <<c>>
        PROVE  to \in MatchCall(node, actual, from)
    <3>1. to = from + 1 /\ c = actual[from + 1] /\ from < Len(actual)
      BY <1>3, <1>5, <2>2
    <3> QED BY <3>1 DEF MatchCall
  <2> QED BY <1>2, <1>5, <2>1, <2>2
<1> QED BY <1>4, <1>5 DEF piece

\* A path through the matching of nodes is a piece of their concatenation, if it does for each.
LEMMA SequenceFound ==
  ASSUME NEW actual \in Seq(Call), NEW n \in Nat, NEW nodes, \A p \in 1 .. n : nodes[p] \in Node /\ Finds(actual, nodes[p]),
         NEW from \in 0 .. Len(actual), NEW to \in 0 .. Len(actual)
  PROVE  Path(n, [p \in 1 .. n |-> Matching(actual)[nodes[p]]], from, to, Len(actual))
           <=> from <= to /\ SubSeq(actual, from + 1, to) \in Concatenation([p \in 1 .. n |-> Words[nodes[p]]])
<1> DEFINE languages == [p \in 1 .. n |-> Words[nodes[p]]]
           spans == [p \in 1 .. n |-> Matching(actual)[nodes[p]]]
<1>1. Len(languages) = n
  OBVIOUS
<1>2. Describes(actual, languages, spans, n)
  <2>1. \A p \in 1 .. n : languages[p] = Words[nodes[p]] /\ spans[p] = Matching(actual)[nodes[p]]
    OBVIOUS
  <2> HIDE DEF languages, spans
  <2> QED BY <2>1 DEF Describes, Finds
<1> HIDE DEF languages, spans
<1>3. Path(n, spans, from, to, Len(actual))
        <=> from <= to /\ SubSeq(actual, from + 1, to) \in Concatenation(languages)
  BY <1>1, <1>2, PathIsConcatenation
<1> QED BY <1>3 DEF languages, spans

\* It does for a group, in order or in any order, if it does for its members.
LEMMA GroupFound ==
  ASSUME NEW actual \in Seq(Call), NEW node \in Node, node.kind # "call",
         \A other \in Node : Nesting[other] < Nesting[node] => Finds(actual, other)
  PROVE  Finds(actual, node)
<1> DEFINE nodes == node.members
           n == Len(nodes)
           match == Matching(actual)
<1>1. /\ nodes \in Seq(Node) /\ n \in Nat /\ Len(actual) \in Nat
      /\ \A p \in 1 .. n : nodes[p] \in Node /\ Finds(actual, nodes[p])
      /\ node.kind \in {"ordered", "unordered"}
  BY NodeShape
<1>2. \A p \in 1 .. n : match[nodes[p]] \in Spans(Len(actual))
  BY <1>1, MatchingUnfolds
<1>3. SUFFICES ASSUME NEW from \in 0 .. Len(actual), NEW to \in 0 .. Len(actual)
               PROVE  to \in MatchRow(match, node, actual)[from]
                        <=> from <= to /\ SubSeq(actual, from + 1, to) \in Words[node]
  BY MatchingUnfolds DEF Finds
<1> DEFINE piece == SubSeq(actual, from + 1, to)
<1>4. from <= to => piece \in Seq(Call)
  BY PieceShape
<1>5. CASE node.kind = "ordered"
  <2>1. MatchRow(match, node, actual)[from] = MatchOrdered(nodes, match, from)
    BY <1>5, RowCases
  <2>2. to \in MatchOrdered(nodes, match, from)
          <=> Path(n, [p \in 1 .. n |-> match[nodes[p]]], from, to, Len(actual))
    BY <1>1, <1>2, OrderedIsPath
  <2>3. Path(n, [p \in 1 .. n |-> match[nodes[p]]], from, to, Len(actual))
          <=> from <= to /\ piece \in Concatenation([p \in 1 .. n |-> Words[nodes[p]]])
    BY <1>1, SequenceFound
  <2>4. Words[node] = Concatenation([p \in 1 .. n |-> Words[nodes[p]]])
    BY <1>5, WordsUnfold
  <2> QED BY <2>1, <2>2, <2>3, <2>4, Zenon
<1>6. CASE node.kind = "unordered"
  <2>1. MatchRow(match, node, actual)[from] = MatchUnordered(nodes, match, actual, from)
    BY <1>6, RowCases
  <2>2. to \in MatchUnordered(nodes, match, actual, from)
          <=> \E order \in Injection(1 .. n, 1 .. n) :
                Path(n, [p \in 1 .. n |-> match[nodes[order[p]]]], from, to, Len(actual))
    BY <1>1, <1>2, UnorderedIsPath
  <2>3. ASSUME NEW order \in Injection(1 .. n, 1 .. n)
        PROVE  Path(n, [p \in 1 .. n |-> match[nodes[order[p]]]], from, to, Len(actual))
                 <=> from <= to /\ piece \in Concatenation([p \in 1 .. n |-> Words[nodes[order[p]]]])
    <3> DEFINE placed == [p \in 1 .. n |-> nodes[order[p]]]
    <3>1. \A p \in 1 .. n : order[p] \in 1 .. n
      BY DEF Injection
    <3>2. \A p \in 1 .. n : placed[p] = nodes[order[p]] /\ placed[p] \in Node /\ Finds(actual, placed[p])
      BY <1>1, <3>1
    <3>3. /\ [p \in 1 .. n |-> match[placed[p]]] = [p \in 1 .. n |-> match[nodes[order[p]]]]
          /\ [p \in 1 .. n |-> Words[placed[p]]] = [p \in 1 .. n |-> Words[nodes[order[p]]]]
      BY <3>2
    <3> HIDE DEF placed
    <3>4. Path(n, [p \in 1 .. n |-> match[placed[p]]], from, to, Len(actual))
            <=> from <= to /\ piece \in Concatenation([p \in 1 .. n |-> Words[placed[p]]])
      BY <1>1, <3>2, SequenceFound
    <3> QED BY <3>3, <3>4
  <2>4. Words[node] = {spoken \in Seq(Call) :
                         \E order \in Injection(1 .. n, 1 .. n) :
                           spoken \in Concatenation([p \in 1 .. n |-> Words[nodes[order[p]]]])}
    BY <1>6, WordsUnfold
  <2>5. from <= to /\ piece \in Words[node]
          <=> from <= to /\ \E order \in Injection(1 .. n, 1 .. n) :
                               piece \in Concatenation([p \in 1 .. n |-> Words[nodes[order[p]]]])
    BY <1>4, <2>4
  <2> QED BY <2>1, <2>2, <2>3, <2>5, Zenon
<1> QED BY <1>1, <1>5, <1>6

\* So it does for every node.
LEMMA NodesFound ==
  ASSUME NEW actual \in Seq(Call)
  PROVE  \A node \in Node : Finds(actual, node)
<1> DEFINE Claim == {k \in Nat : \A node \in Node : Nesting[node] < k => Finds(actual, node)}
<1>1. 0 \in Claim
  BY NodeShape
<1>2. ASSUME NEW k \in Nat, k \in Claim
      PROVE  k + 1 \in Claim
  <2>1. ASSUME NEW node \in Node, Nesting[node] < k + 1
        PROVE  Finds(actual, node)
    <3>1. \A other \in Node : Nesting[other] < Nesting[node] => Finds(actual, other)
      BY <1>2, <2>1, NodeShape
    <3>2. CASE node.kind = "call"
      BY <3>2, CallFound
    <3>3. CASE node.kind # "call"
      BY <3>1, <3>3, GroupFound
    <3> QED BY <3>2, <3>3
  <2> QED BY <2>1
<1>3. Nat \subseteq Claim
  <2> HIDE DEF Claim
  <2> QED BY <1>1, <1>2, NatSetInduction
<1>4. ASSUME NEW node \in Node
      PROVE  Finds(actual, node)
  <2>1. Nesting[node] + 1 \in Nat /\ Nesting[node] < Nesting[node] + 1
    BY NodeShape
  <2> QED BY <1>3, <2>1
<1> QED BY <1>4

\* For every trajectory of any nesting and every sequence of calls, trajectoryMatches answers
\* true exactly if the trajectory describes the sequence: with its memo over positions and
\* masks it misses no order, no optional call and no cut, and accepts nothing else.
THEOREM MatchingIsExact ==
  \A trajectory \in Trajectory, actual \in Seq(Call) :
    TrajectoryMatches(trajectory, actual) <=> actual \in Described(trajectory)
<1>1. SUFFICES ASSUME NEW trajectory \in Trajectory, NEW actual \in Seq(Call)
               PROVE  TrajectoryMatches(trajectory, actual) <=> actual \in Described(trajectory)
  OBVIOUS
<1>2. CASE trajectory.kind = "null"
  BY <1>2 DEF TrajectoryMatches, Described
<1>3. CASE trajectory.kind # "null"
  <2> DEFINE nodes == trajectory.members
             n == Len(nodes)
             length == Len(actual)
             match == Matching(actual)
  <2>1. nodes \in Seq(Node)
    BY <1>3, TrajectoryAssumption
  <2>2. n \in Nat /\ length \in Nat /\ \A p \in 1 .. n : nodes[p] \in Node
    BY <2>1
  <2>3. \A p \in 1 .. n : match[nodes[p]] \in Spans(length)
    BY <2>2, MatchingUnfolds
  <2>4. 0 \in 0 .. length /\ length \in 0 .. length
    BY <2>2
  <2>5. length \in MatchOrdered(nodes, match, 0) <=> Path(n, [p \in 1 .. n |-> match[nodes[p]]], 0, length, length)
    BY <2>1, <2>2, <2>3, <2>4, OrderedIsPath
  <2>6. \A p \in 1 .. n : nodes[p] \in Node /\ Finds(actual, nodes[p])
    BY <2>2, NodesFound
  <2>7. Path(n, [p \in 1 .. n |-> match[nodes[p]]], 0, length, length)
          <=> 0 <= length /\ SubSeq(actual, 0 + 1, length) \in Concatenation([p \in 1 .. n |-> Words[nodes[p]]])
    BY <2>2, <2>4, <2>6, SequenceFound
  <2>8. SubSeq(actual, 0 + 1, length) = actual
    BY SubSeqFull
  <2>9. 0 <= length
    BY <2>2
  <2>10. length \in MatchOrdered(nodes, match, 0) <=> actual \in Concatenation([p \in 1 .. n |-> Words[nodes[p]]])
    <3> HIDE DEF n, length, match, nodes
    <3> QED BY <2>5, <2>7, <2>8, <2>9, Zenon
  <2> QED BY <1>3, <2>10 DEF TrajectoryMatches, Described
<1> QED BY <1>2, <1>3

-----------------------------------------------------------------------------
(* Sorting the rows of a run *)

\* Rows of one run: finitely many, each with a step of its own.
Stepped(rows) ==
  /\ IsFiniteSet(rows)
  /\ \A row \in rows : row.step \in Nat
  /\ \A row, other \in rows : row.step = other.step => row = other

\* By step.
Climbing(order, n) == \A i, j \in 1 .. n : i < j => order[i].step < order[j].step

\* The sequences of n rows by step.
Listing(rows, n) == {order \in [1 .. n -> rows] : Climbing(order, n)}

\* There is a first row.
LEMMA LeastStep ==
  ASSUME NEW rows, Stepped(rows), rows # {}
  PROVE  \E row \in rows : \A other \in rows : row.step <= other.step
<1>1. SUFFICES ASSUME \A row \in rows : \E other \in rows : ~(row.step <= other.step)
               PROVE  FALSE
  OBVIOUS
<1>2. \A row \in rows : \E other \in rows : other.step < row.step
  BY <1>1 DEF Stepped
<1> DEFINE Above == {k \in Nat : \A row \in rows : k <= row.step}
<1>3. 0 \in Above
  BY DEF Stepped
<1>4. ASSUME NEW k \in Nat, k \in Above
      PROVE  k + 1 \in Above
  <2>1. ASSUME NEW row \in rows
        PROVE  k + 1 <= row.step
    <3>1. PICK other \in rows : other.step < row.step
      BY <1>2
    <3>2. k <= other.step /\ row.step \in Nat /\ other.step \in Nat
      BY <1>4 DEF Stepped
    <3> QED BY <3>1, <3>2
  <2> QED BY <2>1
<1>5. Nat \subseteq Above
  <2> HIDE DEF Above
  <2> QED BY <1>3, <1>4, NatSetInduction
<1>6. PICK row \in rows : TRUE
  OBVIOUS
<1>7. row.step \in Nat /\ row.step + 1 \in Nat /\ ~(row.step + 1 <= row.step)
  BY <1>6 DEF Stepped
<1> QED BY <1>5, <1>6, <1>7

\* Some of the rows are such rows.
LEMMA SteppedSubset ==
  ASSUME NEW rows, Stepped(rows), NEW part \in SUBSET rows
  PROVE  Stepped(part) /\ Cardinality(part) \in Nat
<1>1. IsFiniteSet(part) /\ Cardinality(part) \in Nat
  BY FS_Subset, FS_CardinalityType DEF Stepped
<1> QED BY <1>1 DEF Stepped

\* The rows can be sorted.
LEMMA ListingExists ==
  ASSUME NEW rows, Stepped(rows)
  PROVE  Listing(rows, Cardinality(rows)) # {}
<1> DEFINE Claim == {n \in Nat : \A some \in SUBSET rows : Cardinality(some) = n => Listing(some, n) # {}}
<1>1. 0 \in Claim
  <2>1. ASSUME NEW some \in SUBSET rows, Cardinality(some) = 0
        PROVE  Listing(some, 0) # {}
    <3>1. [i \in 1 .. 0 |-> i] \in [1 .. 0 -> some]
      OBVIOUS
    <3>2. Climbing([i \in 1 .. 0 |-> i], 0)
      BY DEF Climbing
    <3> QED BY <3>1, <3>2 DEF Listing
  <2> QED BY <2>1
<1>2. ASSUME NEW n \in Nat, n \in Claim
      PROVE  n + 1 \in Claim
  <2>1. ASSUME NEW some \in SUBSET rows, Cardinality(some) = n + 1
        PROVE  Listing(some, n + 1) # {}
    <3>1. Stepped(some) /\ IsFiniteSet(some)
      BY SteppedSubset DEF Stepped
    <3>2. some # {}
      BY <2>1, FS_EmptySet
    <3>3. PICK first \in some : \A other \in some : first.step <= other.step
      BY <3>1, <3>2, LeastStep
    <3> DEFINE rest == some \ {first}
    <3>4. Cardinality(rest) = n
      <4>1. Cardinality(rest) = Cardinality(some) - 1
        BY <3>1, <3>3, FS_RemoveElement
      <4> QED BY <2>1, <4>1
    <3>5. rest \in SUBSET rows
      OBVIOUS
    <3>6. PICK tail \in Listing(rest, n) : TRUE
      BY <1>2, <3>4, <3>5
    <3> DEFINE order == [i \in 1 .. n + 1 |-> IF i = 1 THEN first ELSE tail[i - 1]]
    <3>7. \A i \in 1 .. n : tail[i] \in some /\ tail[i] # first
      BY <3>6 DEF Listing
    <3>8. \A i \in 1 .. n : first.step < tail[i].step
      <4>1. SUFFICES ASSUME NEW i \in 1 .. n
                     PROVE  first.step < tail[i].step
        OBVIOUS
      <4>2. tail[i] \in some /\ tail[i] # first /\ first.step <= tail[i].step
        BY <3>3, <3>7
      <4>3. first.step # tail[i].step /\ first.step \in Nat /\ tail[i].step \in Nat
        BY <3>1, <3>3, <4>2 DEF Stepped
      <4> QED BY <4>2, <4>3
    <3>9. order \in [1 .. n + 1 -> some]
      <4>1. ASSUME NEW i \in 1 .. n + 1
            PROVE  order[i] \in some
        <5>1. CASE i = 1
          BY <5>1
        <5>2. CASE i # 1
          BY <5>2, <3>7
        <5> QED BY <5>1, <5>2
      <4> QED BY <4>1
    <3>10. Climbing(order, n + 1)
      <4>1. SUFFICES ASSUME NEW i \in 1 .. n + 1, NEW j \in 1 .. n + 1, i < j
                     PROVE  order[i].step < order[j].step
        BY DEF Climbing
      <4>2. order[j] = tail[j - 1] /\ j - 1 \in 1 .. n
        BY <4>1
      <4>3. CASE i = 1
        BY <4>2, <4>3, <3>8
      <4>4. CASE i # 1
        <5>1. order[i] = tail[i - 1] /\ i - 1 \in 1 .. n /\ i - 1 < j - 1
          BY <4>1, <4>4
        <5>2. Climbing(tail, n)
          BY <3>6 DEF Listing
        <5> QED BY <4>2, <5>1, <5>2 DEF Climbing
      <4> QED BY <4>3, <4>4
    <3> QED BY <3>9, <3>10 DEF Listing
  <2> QED BY <2>1
<1>3. Nat \subseteq Claim
  <2> HIDE DEF Claim
  <2> QED BY <1>1, <1>2, NatSetInduction
<1>4. Cardinality(rows) \in Nat
  BY SteppedSubset
<1> QED BY <1>3, <1>4

\* Sorted rows do not repeat.
LEMMA ListingInjective ==
  ASSUME NEW rows, Stepped(rows), NEW n \in Nat, NEW order \in Listing(rows, n)
  PROVE  order \in Injection(1 .. n, rows)
<1>1. order \in [1 .. n -> rows] /\ Climbing(order, n)
  BY DEF Listing
<1>2. ASSUME NEW i \in 1 .. n, NEW j \in 1 .. n, order[i] = order[j]
      PROVE  i = j
  <2>1. order[i].step \in Nat /\ order[j].step \in Nat
    BY <1>1 DEF Stepped
  <2>2. ~(order[i].step < order[j].step) /\ ~(order[j].step < order[i].step)
    BY <1>2, <2>1
  <2>3. ~(i < j) /\ ~(j < i)
    BY <1>1, <2>2 DEF Climbing
  <2> QED BY <2>3
<1> QED BY <1>1, <1>2 DEF Injection, IsInjective

\* As many sorted rows as there are rows are all of them.
LEMMA ListingOnto ==
  ASSUME NEW rows, Stepped(rows), NEW order \in Listing(rows, Cardinality(rows))
  PROVE  \A row \in rows : \E i \in 1 .. Cardinality(rows) : order[i] = row
<1>1. Cardinality(rows) \in Nat /\ IsFiniteSet(rows)
  BY SteppedSubset DEF Stepped
<1>2. order \in Injection(1 .. Cardinality(rows), rows)
  BY <1>1, ListingInjective
<1>3. Cardinality(1 .. Cardinality(rows)) = Cardinality(rows)
  BY <1>1, FS_Interval
<1>4. order \in Surjection(1 .. Cardinality(rows), rows)
  BY <1>1, <1>2, <1>3, FS_Injection
<1> QED BY <1>4 DEF Surjection

\* All of the rows, sorted, are as many as there are rows.
LEMMA ListingCounts ==
  ASSUME NEW rows, Stepped(rows), NEW n \in Nat, NEW order \in Listing(rows, n),
         \A row \in rows : \E i \in 1 .. n : order[i] = row
  PROVE  n = Cardinality(rows)
<1>1. IsFiniteSet(rows) /\ order \in [1 .. n -> rows]
  BY DEF Stepped, Listing
<1>2. order \in Injection(1 .. n, rows)
  BY ListingInjective
<1>3. order \in Surjection(1 .. n, rows)
  BY <1>1 DEF Surjection
<1>4. Cardinality(1 .. n) = n
  BY FS_Interval
<1> QED BY <1>1, <1>2, <1>3, <1>4, FS_Injection

\* There is one way to sort the rows: the order they were reported in does not matter.
LEMMA ListingUnique ==
  ASSUME NEW rows, Stepped(rows),
         NEW order \in Listing(rows, Cardinality(rows)), NEW other \in Listing(rows, Cardinality(rows))
  PROVE  order = other
<1> DEFINE n == Cardinality(rows)
<1>1. n \in Nat
  BY SteppedSubset
<1>2. /\ order \in [1 .. n -> rows] /\ Climbing(order, n)
      /\ other \in [1 .. n -> rows] /\ Climbing(other, n)
  BY DEF Listing
<1>3. /\ \A row \in rows : \E i \in 1 .. n : order[i] = row
      /\ \A row \in rows : \E i \in 1 .. n : other[i] = row
  BY ListingOnto
<1> HIDE DEF n
<1> DEFINE Claim == {k \in Nat : \A i \in 1 .. n : i <= k => order[i] = other[i]}
<1>4. 0 \in Claim
  OBVIOUS
<1>5. ASSUME NEW k \in Nat, k \in Claim
      PROVE  k + 1 \in Claim
  <2>1. SUFFICES ASSUME k + 1 \in 1 .. n
                 PROVE  order[k + 1] = other[k + 1]
    BY <1>1, <1>5
  <2>2. /\ order[k + 1] \in rows /\ other[k + 1] \in rows
        /\ order[k + 1].step \in Nat /\ other[k + 1].step \in Nat
    BY <1>2, <2>1 DEF Stepped
  <2>3. order[k + 1].step <= other[k + 1].step
    <3>1. PICK i \in 1 .. n : order[i] = other[k + 1]
      BY <1>3, <2>2
    <3>2. CASE i <= k
      <4>1. other[i] = other[k + 1] /\ i < k + 1
        BY <1>5, <3>1, <3>2
      <4>2. other[i].step < other[k + 1].step
        BY <1>2, <2>1, <4>1 DEF Climbing
      <4> QED BY <2>2, <4>1, <4>2
    <3>3. CASE i = k + 1
      BY <2>2, <3>1, <3>3
    <3>4. CASE k + 1 < i
      <4>1. order[k + 1].step < order[i].step
        BY <1>2, <2>1, <3>4 DEF Climbing
      <4> QED BY <2>2, <3>1, <4>1
    <3> QED BY <3>2, <3>3, <3>4
  <2>4. other[k + 1].step <= order[k + 1].step
    <3>1. PICK i \in 1 .. n : other[i] = order[k + 1]
      BY <1>3, <2>2
    <3>2. CASE i <= k
      <4>1. order[i] = order[k + 1] /\ i < k + 1
        BY <1>5, <3>1, <3>2
      <4>2. order[i].step < order[k + 1].step
        BY <1>2, <2>1, <4>1 DEF Climbing
      <4> QED BY <2>2, <4>1, <4>2
    <3>3. CASE i = k + 1
      BY <2>2, <3>1, <3>3
    <3>4. CASE k + 1 < i
      <4>1. other[k + 1].step < other[i].step
        BY <1>2, <2>1, <3>4 DEF Climbing
      <4> QED BY <2>2, <3>1, <4>1
    <3> QED BY <3>2, <3>3, <3>4
  <2>5. order[k + 1].step = other[k + 1].step
    BY <2>2, <2>3, <2>4
  <2> QED BY <2>2, <2>5 DEF Stepped
<1>6. Nat \subseteq Claim
  <2> HIDE DEF Claim
  <2> QED BY <1>4, <1>5, NatSetInduction
<1>7. \A i \in 1 .. n : order[i] = other[i]
  <2>1. n \in Claim
    BY <1>1, <1>6
  <2> QED BY <1>1, <2>1
<1>8. order = [i \in 1 .. n |-> order[i]] /\ other = [i \in 1 .. n |-> other[i]]
  BY <1>2
<1>9. [i \in 1 .. n |-> order[i]] = [i \in 1 .. n |-> other[i]]
  BY <1>7
<1> QED BY <1>8, <1>9, Zenon

\* Append, for a sequence as a function.
LEMMA AppendIsFunction ==
  ASSUME NEW m \in Nat, NEW f \in [1 .. m -> Call], NEW x \in Call
  PROVE  /\ Append(f, x) \in [1 .. m + 1 -> Call]
         /\ \A i \in 1 .. m : Append(f, x)[i] = f[i]
         /\ Append(f, x)[m + 1] = x
<1>1. f \in Seq(Call) /\ Len(f) = m
  OBVIOUS
<1>2. /\ Append(f, x) \in Seq(Call) /\ Len(Append(f, x)) = m + 1
      /\ \A i \in 1 .. m : Append(f, x)[i] = f[i]
      /\ Append(f, x)[m + 1] = x
  BY <1>1, AppendProperties
<1>3. Append(f, x) \in [1 .. m + 1 -> Call]
  <2> DEFINE longer == Append(f, x)
  <2>1. longer \in Seq(Call) /\ Len(longer) = m + 1
    BY <1>2
  <2> HIDE DEF longer
  <2>2. longer \in [1 .. m + 1 -> Call]
    BY <2>1
  <2> QED BY <2>2 DEF longer
<1> QED BY <1>2, <1>3

\* The calls of sorted rows.
CallsOf(order, n) == [i \in 1 .. n |-> order[i].response]

\* Leaving out rows without a call, one by one, gives the sorted calls of the others.
LEMMA CallsOfSorted ==
  ASSUME NEW rows, Stepped(rows), \A row \in rows : row.response \in Call \cup {NoCall},
         NEW n \in Nat, NEW sorted \in Listing(rows, n), NEW spoken,
         spoken[0] = <<>>,
         \A k \in 1 .. n :
           spoken[k] = IF sorted[k].response = NoCall THEN spoken[k - 1]
                      ELSE Append(spoken[k - 1], sorted[k].response)
  PROVE  \E m \in Nat : \E order \in Listing(rows, m) :
           /\ spoken[n] = CallsOf(order, m)
           /\ \A i \in 1 .. m : order[i].response # NoCall
           /\ \A j \in 1 .. n : sorted[j].response # NoCall => \E i \in 1 .. m : order[i] = sorted[j]
<1> DEFINE Holds(k, m, order) ==
             /\ spoken[k] = CallsOf(order, m)
             /\ \A i \in 1 .. m : order[i].response # NoCall /\ \E j \in 1 .. k : order[i] = sorted[j]
             /\ \A j \in 1 .. k : sorted[j].response # NoCall => \E i \in 1 .. m : order[i] = sorted[j]
           Claim == {k \in Nat : k <= n => \E m \in Nat : \E order \in Listing(rows, m) : Holds(k, m, order)}
<1>1. 0 \in Claim
  <2> DEFINE order == [i \in 1 .. 0 |-> i]
  <2>1. order \in Listing(rows, 0)
    <3>1. order \in [1 .. 0 -> rows] /\ \A i, j \in 1 .. 0 : FALSE
      OBVIOUS
    <3> QED BY <3>1 DEF Listing, Climbing
  <2>2. spoken[0] = <<>>
    OBVIOUS
  <2>3. CallsOf(order, 0) = <<>>
    BY DEF CallsOf
  <2>4. \A i \in 1 .. 0 : FALSE
    OBVIOUS
  <2> HIDE DEF order
  <2>5. Holds(0, 0, order)
    BY <2>2, <2>3, <2>4
  <2> QED BY <2>1, <2>5
<1>2. ASSUME NEW k \in Nat, k \in Claim
      PROVE  k + 1 \in Claim
  <2> HIDE DEF Holds
  <2>1. SUFFICES ASSUME k + 1 <= n
                 PROVE  \E m \in Nat : \E order \in Listing(rows, m) : Holds(k + 1, m, order)
    OBVIOUS
  <2>2a. PICK m \in Nat : \E order \in Listing(rows, m) : Holds(k, m, order)
    BY <1>2, <2>1
  <2>2. PICK order \in Listing(rows, m) : Holds(k, m, order)
    BY <2>2a
  <2> USE DEF Holds
  <2>3. k + 1 \in 0 .. n /\ k + 1 # 0 /\ k + 1 - 1 = k /\ k + 1 \in 1 .. n
    BY <2>1
  <2>4. spoken[k + 1] = IF sorted[k + 1].response = NoCall THEN spoken[k] ELSE Append(spoken[k], sorted[k + 1].response)
    BY <2>3
  <2>5. /\ sorted \in [1 .. n -> rows] /\ Climbing(sorted, n)
        /\ order \in [1 .. m -> rows] /\ Climbing(order, m)
    BY DEF Listing
  <2> DEFINE last == sorted[k + 1]
  <2>6. last \in rows /\ last.response \in Call \cup {NoCall}
    BY <2>3, <2>5
  <2>7. \A j \in 1 .. k + 1 : j \in 1 .. k \/ j = k + 1
    OBVIOUS
  <2>8. \A j \in 1 .. k : j \in 1 .. k + 1
    OBVIOUS
  <2>9. CASE last.response = NoCall
    <3>1. spoken[k + 1] = CallsOf(order, m)
      BY <2>2, <2>4, <2>9
    <3>2. \A j \in 1 .. k + 1 : sorted[j].response # NoCall => \E i \in 1 .. m : order[i] = sorted[j]
      BY <2>2, <2>7, <2>9
    <3>3. \A i \in 1 .. m : order[i].response # NoCall /\ \E j \in 1 .. k + 1 : order[i] = sorted[j]
      BY <2>2, <2>8
    <3>4. Holds(k + 1, m, order)
      BY <3>1, <3>2, <3>3
    <3> QED BY <3>4
  <2>10. CASE last.response # NoCall
    <3> DEFINE longer == [i \in 1 .. m + 1 |-> IF i <= m THEN order[i] ELSE last]
    <3>1. \A i \in 1 .. m + 1 : i \in 1 .. m \/ i = m + 1
      OBVIOUS
    <3>2. \A i \in 1 .. m : longer[i] = order[i] /\ i \in 1 .. m + 1
      OBVIOUS
    <3>3. longer[m + 1] = last /\ m + 1 \in 1 .. m + 1
      OBVIOUS
    <3>4. longer \in [1 .. m + 1 -> rows]
      BY <2>5, <2>6
    <3> HIDE DEF longer
    <3>5. \A i \in 1 .. m : order[i].step < last.step
      <4>1. SUFFICES ASSUME NEW i \in 1 .. m
                     PROVE  order[i].step < last.step
        OBVIOUS
      <4>2. PICK j \in 1 .. k : order[i] = sorted[j]
        BY <2>2
      <4>3. j \in 1 .. n /\ k + 1 \in 1 .. n /\ j < k + 1
        BY <2>1
      <4> QED BY <2>5, <4>2, <4>3 DEF Climbing
    <3>6. Climbing(longer, m + 1)
      <4>1. SUFFICES ASSUME NEW i \in 1 .. m + 1, NEW j \in 1 .. m + 1, i < j
                     PROVE  longer[i].step < longer[j].step
        BY DEF Climbing
      <4>2. i \in 1 .. m
        BY <4>1
      <4>3. CASE j = m + 1
        BY <3>2, <3>3, <3>5, <4>2, <4>3
      <4>4. CASE j \in 1 .. m
        BY <2>5, <3>2, <4>1, <4>2, <4>4 DEF Climbing
      <4> QED BY <3>1, <4>3, <4>4
    <3>7. longer \in Listing(rows, m + 1)
      BY <3>4, <3>6 DEF Listing
    <3>8. spoken[k + 1] = CallsOf(longer, m + 1)
      <4> DEFINE before == CallsOf(order, m)
                 x == last.response
      <4>1. before \in [1 .. m -> Call]
        BY <2>2, <2>5 DEF CallsOf
      <4>2. x \in Call
        BY <2>6, <2>10
      <4>3. spoken[k + 1] = Append(before, x)
        BY <2>2, <2>4, <2>10
      <4> HIDE DEF before, x
      <4>4. /\ Append(before, x) \in [1 .. m + 1 -> Call]
            /\ \A i \in 1 .. m : Append(before, x)[i] = before[i]
            /\ Append(before, x)[m + 1] = x
        BY <2>2a, <4>1, <4>2, AppendIsFunction
      <4>5. \A i \in 1 .. m + 1 : Append(before, x)[i] = longer[i].response
        <5>1. \A i \in 1 .. m : before[i] = longer[i].response
          BY <3>2 DEF before, CallsOf
        <5>2. x = longer[m + 1].response
          BY <3>3 DEF x
        <5> QED BY <3>1, <4>4, <5>1, <5>2
      <4>6. Append(before, x) = [i \in 1 .. m + 1 |-> longer[i].response]
        BY <4>4, <4>5
      <4> QED BY <4>3, <4>6 DEF CallsOf
    <3>9. \A i \in 1 .. m + 1 : longer[i].response # NoCall /\ \E j \in 1 .. k + 1 : longer[i] = sorted[j]
      <4>1. SUFFICES ASSUME NEW i \in 1 .. m + 1
                     PROVE  longer[i].response # NoCall /\ \E j \in 1 .. k + 1 : longer[i] = sorted[j]
        OBVIOUS
      <4>2. CASE i \in 1 .. m
        <5>1. longer[i] = order[i]
          BY <3>2, <4>2
        <5>2. order[i].response # NoCall /\ \E j \in 1 .. k : order[i] = sorted[j]
          BY <2>2, <4>2
        <5> QED BY <2>8, <5>1, <5>2
      <4>3. CASE i = m + 1
        BY <2>10, <3>3, <4>3
      <4> QED BY <3>1, <4>2, <4>3
    <3>10. \A j \in 1 .. k + 1 : sorted[j].response # NoCall => \E i \in 1 .. m + 1 : longer[i] = sorted[j]
      <4>1. SUFFICES ASSUME NEW j \in 1 .. k + 1, sorted[j].response # NoCall
                     PROVE  \E i \in 1 .. m + 1 : longer[i] = sorted[j]
        OBVIOUS
      <4>2. CASE j \in 1 .. k
        BY <2>2, <3>2, <4>1, <4>2
      <4>3. CASE j = k + 1
        BY <3>3, <4>3
      <4> QED BY <2>7, <4>2, <4>3
    <3>11. Holds(k + 1, m + 1, longer)
      BY <3>8, <3>9, <3>10
    <3>12. m + 1 \in Nat
      OBVIOUS
    <3> HIDE DEF Holds
    <3> QED BY <3>7, <3>11, <3>12
  <2> QED BY <2>9, <2>10
<1>3. Nat \subseteq Claim
  <2> HIDE DEF Claim
  <2> QED BY <1>1, <1>2, NatSetInduction
<1>4. \E m \in Nat : \E order \in Listing(rows, m) : Holds(n, m, order)
  <2> HIDE DEF Holds
  <2> QED BY <1>3
<1>5. PICK m \in Nat : \E order \in Listing(rows, m) : Holds(n, m, order)
  BY <1>4
<1>6. PICK order \in Listing(rows, m) : Holds(n, m, order)
  BY <1>5
<1> QED BY <1>6

-----------------------------------------------------------------------------
(* Importing a report *)

\* The rows of a run that have a call.
Called(run) == {row \in report : row.run = run /\ row.response # NoCall}

\* What the report's rows of a run are.
Sortable(run) ==
  /\ Stepped(RowsOf(run))
  /\ \A row \in RowsOf(run) : row.response \in Call \cup {NoCall}

\* Sorted sorts.
LEMMA SortedIsListing ==
  ASSUME NEW rows, Stepped(rows)
  PROVE  Sorted(rows) \in Listing(rows, Cardinality(rows))
<1> DEFINE n == Cardinality(rows)
<1>1. PICK order \in Listing(rows, n) : TRUE
  BY ListingExists
<1>2. \E other \in [1 .. n -> rows] : \A i, j \in 1 .. n : i < j => other[i].step < other[j].step
  BY <1>1 DEF Listing, Climbing
<1>3. /\ Sorted(rows) \in [1 .. n -> rows]
      /\ \A i, j \in 1 .. n : i < j => Sorted(rows)[i].step < Sorted(rows)[j].step
  BY <1>2, Zenon DEF Sorted
<1> QED BY <1>3 DEF Listing, Climbing

\* The recursion of Actual means what it says.
LEMMA ActualUnfolds ==
  ASSUME NEW run, Sortable(run)
  PROVE  \E spoken :
           /\ spoken[0] = <<>>
           /\ \A k \in 1 .. Cardinality(RowsOf(run)) :
                spoken[k] = IF Sorted(RowsOf(run))[k].response = NoCall THEN spoken[k - 1]
                           ELSE Append(spoken[k - 1], Sorted(RowsOf(run))[k].response)
           /\ Actual(run) = spoken[Cardinality(RowsOf(run))]
<1> DEFINE n == Cardinality(RowsOf(run))
           sorted == Sorted(RowsOf(run))
           X == Seq(Call)
           Body(f) == [k \in 0 .. n |->
                         IF k = 0 THEN <<>>
                         ELSE IF sorted[k].response = NoCall THEN f[k - 1] ELSE Append(f[k - 1], sorted[k].response)]
           spoken == CHOOSE f : f = Body(f)
<1>0. n \in Nat
  BY SteppedSubset DEF Sortable
<1>1. \A k \in 1 .. n : sorted[k].response \in Call \cup {NoCall}
  BY SortedIsListing DEF Sortable, Listing
<1>2. Actual(run) = spoken[n]
  BY DEF Actual
<1> HIDE DEF n, sorted
<1>3. \E f : f = Body(f)
  <2> DEFINE F == [f \in [0 .. n -> X] |-> Body(f)]
             Rank == [p \in 0 .. n |-> p]
             S == 0 .. n
  <2>1. F \in [[0 .. n -> X] -> [0 .. n -> X]]
    <3>1. SUFFICES ASSUME NEW f \in [0 .. n -> X], NEW k \in 0 .. n
                   PROVE  Body(f)[k] \in X
      OBVIOUS
    <3>2. CASE k = 0
      BY <3>2
    <3>3. CASE k # 0
      <4>1. k - 1 \in 0 .. n /\ k \in 1 .. n
        BY <3>3, <1>0
      <4>2. f[k - 1] \in Seq(Call)
        BY <4>1
      <4>3. sorted[k].response = NoCall \/ sorted[k].response \in Call
        BY <1>1, <4>1
      <4> QED BY <3>3, <4>2, <4>3
    <3> QED BY <3>2, <3>3
  <2>2. ASSUME NEW g \in [0 .. n -> X], NEW h \in [0 .. n -> X], NEW s \in 0 .. n,
               \A t \in 0 .. n : Rank[t] < Rank[s] => g[t] = h[t]
        PROVE  F[g][s] = F[h][s]
    <3>1. s # 0 => g[s - 1] = h[s - 1]
      BY <2>2, <1>0
    <3> QED BY <3>1
  <2>3. Rank \in [0 .. n -> Nat] /\ <<>> \in X
    OBVIOUS
  <2>4. Recursion(S, X, Rank, F)
    BY <2>1, <2>2, <2>3, Zenon DEF Recursion
  <2>5. \E f \in [S -> X] : f = F[f]
    <3> HIDE DEF F, Rank, X, S
    <3> QED BY <2>4, RecursionExists
  <2> QED BY <2>5
<1>4. spoken = Body(spoken)
  BY <1>3
<1> HIDE DEF spoken
<1>5. spoken[0] = <<>>
  <2>1. spoken[0] = Body(spoken)[0]
    BY <1>4, Zenon
  <2>2. Body(spoken)[0] = <<>>
    BY <1>0
  <2> QED BY <2>1, <2>2
<1>6. ASSUME NEW k \in 1 .. n
      PROVE  spoken[k] = IF sorted[k].response = NoCall THEN spoken[k - 1] ELSE Append(spoken[k - 1], sorted[k].response)
  <2>1. spoken[k] = Body(spoken)[k]
    BY <1>4, Zenon
  <2>2. Body(spoken)[k] = IF sorted[k].response = NoCall THEN spoken[k - 1] ELSE Append(spoken[k - 1], sorted[k].response)
    BY <1>0
  <2> QED BY <2>1, <2>2
<1> QED BY <1>2, <1>5, <1>6 DEF n, sorted

\* Actual is the calls of the rows that have one, by step.
LEMMA ActualIsListing ==
  ASSUME NEW run, Sortable(run)
  PROVE  /\ Stepped(Called(run)) /\ Cardinality(Called(run)) \in Nat
         /\ Actual(run) \in Seq(Call)
         /\ \E order \in Listing(Called(run), Cardinality(Called(run))) :
              Actual(run) = CallsOf(order, Cardinality(Called(run)))
<1> DEFINE rows == RowsOf(run)
           n == Cardinality(rows)
           sorted == Sorted(rows)
           called == Called(run)
<1>1. Stepped(rows) /\ n \in Nat /\ sorted \in Listing(rows, n)
  BY SteppedSubset, SortedIsListing DEF Sortable
<1>2. called \subseteq rows /\ \A row \in rows : row \in called <=> row.response # NoCall
  BY DEF Called, RowsOf
<1>3. Stepped(called) /\ Cardinality(called) \in Nat
  BY <1>1, <1>2, SteppedSubset
<1>4. \A row \in rows : row.response \in Call \cup {NoCall}
  BY DEF Sortable
<1>5. PICK spoken :
        /\ spoken[0] = <<>>
        /\ \A k \in 1 .. n :
             spoken[k] = IF sorted[k].response = NoCall THEN spoken[k - 1]
                        ELSE Append(spoken[k - 1], sorted[k].response)
        /\ Actual(run) = spoken[n]
  BY ActualUnfolds
<1>6. \A row \in rows : \E j \in 1 .. n : sorted[j] = row
  BY <1>1, ListingOnto
<1> HIDE DEF rows, n, sorted, called
<1>7. PICK m \in Nat :
        \E order \in Listing(rows, m) :
          /\ spoken[n] = CallsOf(order, m)
          /\ \A i \in 1 .. m : order[i].response # NoCall
          /\ \A j \in 1 .. n : sorted[j].response # NoCall => \E i \in 1 .. m : order[i] = sorted[j]
  BY <1>1, <1>4, <1>5, CallsOfSorted
<1>8. PICK order \in Listing(rows, m) :
          /\ spoken[n] = CallsOf(order, m)
          /\ \A i \in 1 .. m : order[i].response # NoCall
          /\ \A j \in 1 .. n : sorted[j].response # NoCall => \E i \in 1 .. m : order[i] = sorted[j]
  BY <1>7
<1>9. order \in [1 .. m -> rows] /\ Climbing(order, m)
  BY DEF Listing
<1>10. \A i \in 1 .. m : order[i] \in called /\ order[i].response \in Call
  BY <1>2, <1>4, <1>8, <1>9
<1>11. order \in Listing(called, m)
  BY <1>9, <1>10 DEF Listing
<1>12. \A row \in called : \E i \in 1 .. m : order[i] = row
  BY <1>2, <1>6, <1>8
<1>13. m = Cardinality(called)
  BY <1>3, <1>7, <1>11, <1>12, ListingCounts
<1>14. Actual(run) \in Seq(Call)
  <2>1. CallsOf(order, m) \in [1 .. m -> Call]
    BY <1>10 DEF CallsOf
  <2>2. CallsOf(order, m) \in Seq(Call)
    BY <1>7, <2>1
  <2> QED BY <1>5, <1>8, <2>2
<1>15. \E by \in Listing(called, Cardinality(called)) : Actual(run) = CallsOf(by, Cardinality(called))
  BY <1>5, <1>8, <1>11, <1>13
<1> QED BY <1>3, <1>14, <1>15 DEF called

\* So a run is described exactly if Actual is.
LEMMA RunIsDescribedByCalls ==
  ASSUME NEW run, Sortable(run)
  PROVE  RunIsDescribed(run) <=> Actual(run) \in Described(expected)
<1> DEFINE called == Called(run)
           n == Cardinality(called)
<1>1. /\ Stepped(called) /\ n \in Nat
      /\ \E order \in Listing(called, n) : Actual(run) = CallsOf(order, n)
  BY ActualIsListing
<1>2. RunIsDescribed(run) <=> \E other \in Listing(called, n) : CallsOf(other, n) \in Described(expected)
  BY DEF RunIsDescribed, Called, Listing, Climbing, CallsOf
<1>3. \A order, other \in Listing(called, n) : order = other
  BY <1>1, ListingUnique
<1> HIDE DEF called, n
<1> QED BY <1>1, <1>2, <1>3, Zenon

\* And exactly if the trajectory matches.
LEMMA RunMatches ==
  ASSUME NEW run, Sortable(run), expected \in Trajectory
  PROVE  RunIsDescribed(run) <=> TrajectoryMatches(expected, Actual(run))
<1>1. Actual(run) \in Seq(Call)
  BY ActualIsListing
<1> QED BY <1>1, RunIsDescribedByCalls, MatchingIsExact

\* Rows have numbers for steps, no step twice in a run, and the verdicts are those of the
\* report that was read: no row comes after them.
EvalInv ==
  /\ expected \in Trajectory /\ stranger \in BOOLEAN
  /\ IsFiniteSet(report)
  /\ report \subseteq [run : EvalRun, step : Nat, response : Call \cup {NoCall}]
  /\ \A row, other \in report : row.run = other.run /\ row.step = other.step => row = other
  /\ \/ evaluation \in [step : {"open", "refused"}]
     \/ \E other \in {"pass", "warn", "inconclusive", "fail"} :
          evaluation = [step |-> "done", selection |-> Selection, other |-> other,
                        verdict |-> Worst({Selection, other})]

\* The invariant holds, whatever order rows of several runs come in.
LEMMA EvalInvHolds == EvalSpec => []EvalInv
<1>1. EvalInit => EvalInv
  <2> SUFFICES ASSUME EvalInit PROVE EvalInv
    OBVIOUS
  <2>1. IsFiniteSet(report) /\ report = {}
    BY FS_EmptySet DEF EvalInit
  <2>2. expected \in Trajectory /\ stranger \in BOOLEAN /\ evaluation \in [step : {"open", "refused"}]
    BY DEF EvalInit
  <2> QED BY <2>1, <2>2 DEF EvalInv
<1>2. EvalInv /\ [EvalNext]_evalVars => EvalInv'
  <2> SUFFICES ASSUME EvalInv, [EvalNext]_evalVars
               PROVE  EvalInv'
    OBVIOUS
  <2>1. CASE UNCHANGED evalVars
    <3>1. UNCHANGED <<expected, report, stranger, evaluation>>
      BY <2>1 DEF evalVars
    <3>2. Selection' = Selection
      BY <3>1 DEF Selection, RunsInReport, Actual, RowsOf
    <3> QED BY <3>1, <3>2 DEF EvalInv
  <2>2. CASE ImportStranger
    <3>1. evaluation.step = "open" /\ stranger' = TRUE /\ UNCHANGED <<expected, report, evaluation>>
      BY <2>2 DEF ImportStranger
    <3>2. evaluation' \in [step : {"open", "refused"}]
      BY <3>1 DEF EvalInv
    <3> QED BY <3>1, <3>2 DEF EvalInv
  <2>3. ASSUME NEW run \in EvalRun, NEW step \in EvalStep \cup {NoStep}, NEW response \in Call \cup {NoCall},
               ImportRow(run, step, response)
        PROVE  EvalInv'
    <3> DEFINE row == [run |-> run, step |-> IF step = NoStep THEN Position ELSE step, response |-> response]
    <3>1. /\ evaluation.step = "open" /\ UNCHANGED <<expected, stranger>>
          /\ IF \E other \in report : other.run = row.run /\ other.step = row.step
             THEN evaluation' = [step |-> "refused"] /\ UNCHANGED report
             ELSE report' = report \cup {row} /\ UNCHANGED evaluation
      BY <2>3 DEF ImportRow
    <3>2. evaluation \in [step : {"open", "refused"}]
      BY <3>1 DEF EvalInv
    <3>3. CASE \E other \in report : other.run = row.run /\ other.step = row.step
      <4>1. evaluation' = [step |-> "refused"] /\ UNCHANGED <<expected, stranger, report>>
        BY <3>1, <3>3
      <4>2. evaluation' \in [step : {"open", "refused"}]
        BY <4>1
      <4> QED BY <4>1, <4>2 DEF EvalInv
    <3>4. CASE ~\E other \in report : other.run = row.run /\ other.step = row.step
      <4>1. report' = report \cup {row} /\ UNCHANGED <<expected, stranger, evaluation>>
        BY <3>1, <3>4
      <4>2. row \in [run : EvalRun, step : Nat, response : Call \cup {NoCall}]
        <5>1. Position \in Nat
          BY FS_CardinalityType DEF Position, EvalInv
        <5>2. (IF step = NoStep THEN Position ELSE step) \in Nat
          BY <5>1, EvalAssumption
        <5> QED BY <5>2
      <4>3. IsFiniteSet(report')
        BY <4>1, FS_AddElement DEF EvalInv
      <4> HIDE DEF row
      <4>4. report' \subseteq [run : EvalRun, step : Nat, response : Call \cup {NoCall}]
        BY <4>1, <4>2 DEF EvalInv
      <4>5. \A one, other \in report' : one.run = other.run /\ one.step = other.step => one = other
        BY <3>4, <4>1 DEF EvalInv
      <4> QED BY <3>2, <4>1, <4>3, <4>4, <4>5 DEF EvalInv
    <3> QED BY <3>3, <3>4
  <2>4. ASSUME NEW other \in {"pass", "warn", "inconclusive", "fail"}, AuditReport(other)
        PROVE  EvalInv'
    <3>1. /\ evaluation' = [step |-> "done", selection |-> Selection, other |-> other,
                            verdict |-> Worst({Selection, other})]
          /\ UNCHANGED <<expected, report, stranger>>
      BY <2>4 DEF AuditReport
    <3>2. Selection' = Selection
      BY <3>1 DEF Selection, RunsInReport, Actual, RowsOf
    <3>3. evaluation' = [step |-> "done", selection |-> Selection', other |-> other,
                         verdict |-> Worst({Selection', other})]
      BY <3>1, <3>2
    <3> QED BY <3>1, <3>3 DEF EvalInv
  <2> QED BY <2>1, <2>2, <2>3, <2>4 DEF EvalNext
<1> QED BY <1>1, <1>2, PTL DEF EvalSpec

\* An imported report passes only if the calls of each of its runs, by step, are what the
\* trajectory describes, and fails on them only if they are not (TrajectoryAgrees).
THEOREM ImportedVerdictsAgree == EvalSpec => []TrajectoryAgrees
<1>1. EvalInv => TrajectoryAgrees
  <2> SUFFICES ASSUME EvalInv, evaluation.step = "done"
               PROVE  LET groups == IF report = {} THEN {1} ELSE {row.run : row \in report} IN
                      /\ evaluation.selection = "pass" <=> ~stranger /\ \A run \in groups : RunIsDescribed(run)
                      /\ evaluation.verdict = "pass" <=> evaluation.selection = "pass" /\ evaluation.other \in {"pass", "warn"}
                      /\ evaluation.verdict = "fail" <=> "fail" \in {evaluation.selection, evaluation.other}
    BY DEF TrajectoryAgrees
  <2> DEFINE groups == IF report = {} THEN {1} ELSE {row.run : row \in report}
             matched == ~stranger /\ \A run \in groups : TrajectoryMatches(expected, Actual(run))
  <2>1. PICK other \in {"pass", "warn", "inconclusive", "fail"} :
          evaluation = [step |-> "done", selection |-> Selection, other |-> other,
                        verdict |-> Worst({Selection, other})]
    BY DEF EvalInv
  <2>2. ASSUME NEW run
        PROVE  Sortable(run)
    <3>1. RowsOf(run) \subseteq report
      BY DEF RowsOf
    <3>2. IsFiniteSet(RowsOf(run))
      BY <3>1, FS_Subset DEF EvalInv
    <3>3. \A row \in RowsOf(run) : row.step \in Nat /\ row.response \in Call \cup {NoCall}
      BY <3>1 DEF EvalInv
    <3>4. \A row, two \in RowsOf(run) : row.step = two.step => row = two
      BY DEF EvalInv, RowsOf
    <3> QED BY <3>2, <3>3, <3>4 DEF Sortable, Stepped
  <2>3. \A run : RunIsDescribed(run) <=> TrajectoryMatches(expected, Actual(run))
    BY <2>2, RunMatches DEF EvalInv
  <2>4. Selection = IF matched THEN "pass" ELSE "fail"
    <3>1. RunsInReport = {row.run : row \in report} /\ (RunsInReport = {} <=> report = {})
      BY DEF RunsInReport
    <3>2. groups = IF RunsInReport = {} THEN {1} ELSE RunsInReport
      BY <3>1
    <3> HIDE DEF groups
    <3> QED BY <3>2 DEF Selection
  <2>5. Selection \in {"pass", "fail"} /\ (Selection = "pass" <=> matched)
    BY <2>4
  <2>6. matched <=> ~stranger /\ \A run \in groups : RunIsDescribed(run)
    BY <2>3
  <2>7. evaluation.selection = Selection /\ evaluation.other = other /\ evaluation.verdict = Worst({Selection, other})
    BY <2>1
  <2>8. Worst({Selection, other}) = "pass" <=> Selection = "pass" /\ other \in {"pass", "warn"}
    BY <2>5 DEF Worst
  <2>9. Worst({Selection, other}) = "fail" <=> "fail" \in {Selection, other}
    BY <2>5 DEF Worst
  <2> HIDE DEF matched, groups
  <2>10. evaluation.selection = "pass" <=> ~stranger /\ \A run \in groups : RunIsDescribed(run)
    BY <2>5, <2>6, <2>7
  <2>11. evaluation.verdict = "pass" <=> evaluation.selection = "pass" /\ evaluation.other \in {"pass", "warn"}
    BY <2>7, <2>8
  <2>12. evaluation.verdict = "fail" <=> "fail" \in {evaluation.selection, evaluation.other}
    BY <2>7, <2>9
  <2> QED BY <2>10, <2>11, <2>12 DEF groups
<1> QED BY <1>1, EvalInvHolds, PTL
=============================================================================
