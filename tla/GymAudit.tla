------------------------------- MODULE GymAudit -------------------------------
(***************************************************************************)
(* The gym booking target and its audit adapter: src/gym-fixture.js holds  *)
(* trials, each with its state and its event stream; src/gym-audit-        *)
(* adapter.js leases a trial for one route of an audit, has the route run  *)
(* in a browser, and reads and validates the evidence of the fixture.      *)
(*                                                                         *)
(* Requests and answers between the two get lost, other pages may be open  *)
(* on the same trial, and the fixture, which keeps nothing, may restart.   *)
(* A deletion is asked for, served and answered in steps of its own.       *)
(*                                                                         *)
(* Not represented: tokens, hashes, the seed (it never changes), and the   *)
(* parts of an observation that come from the browser (BrowserRecorder).   *)
(* Booking never opens.  A trial is named after the lease it is made for.  *)
(* An answer is the set of its events: their numbers say their order.      *)
(***************************************************************************)
EXTENDS Naturals, Sequences, FiniteSets

CONSTANTS
  GymLease,            \* leases: one per route of an audit, recipe or probe
  OtherRun,            \* the run id of pages that no audit opened
  Principal, Other,    \* members
  MaxClicks,           \* bound: bookings of a human route; the agent's tool is called once
  MaxDeletions,        \* bound: overlapping deletions of a trial
  MaxStray,            \* bound: bookings by other pages
  MaxRestart           \* bound: restarts of the fixture

ASSUME GymAssumption ==
  /\ OtherRun \notin GymLease /\ Principal # Other
  /\ {MaxClicks, MaxDeletions, MaxStray, MaxRestart} \subseteq Nat

VARIABLES
  trials,              \* the fixture's trials: [some leases -> a trial]
  gym,                 \* [GymLease -> the adapter's side of it, with how often its route booked]
  deletion,            \* [GymLease -> deletions sent and not served, answers on their way,
                       \*  whether one came, and whether an exchange with the fixture failed]
  strays, gymRestarts  \* counters of the bounds

gymVars == <<trials, gym, deletion, strays, gymRestarts>>

Member == {Principal, Other}
Route == {"human", "agent"}

\* The evidence of a lease that has none yet.
Unread == [events |-> {}, stream |-> <<>>, version |-> "fixed", reservations |-> [m \in Member |-> "none"]]

GymInit ==
  /\ trials = <<>>
  /\ gym = [l \in GymLease |-> [step |-> "none", route |-> "human", member |-> Principal, evidence |-> Unread,
                             booked |-> 0]]
  /\ deletion = [l \in GymLease |-> [sent |-> 0, answered |-> 0, released |-> FALSE, lost |-> FALSE]]
  /\ strays = 0 /\ gymRestarts = 0

Exists(l) == l \in DOMAIN trials

-----------------------------------------------------------------------------
(* The fixture *)

FreshTrial(version) == [version |-> version, events |-> <<>>,
                        reservations |-> [m \in Member |-> IF m = Other THEN "active" ELSE "none"]]

Event(trial, run, kind, route, member, decision) ==
  [run |-> run, sequence |-> Len(trial.events) + 1, kind |-> kind, route |-> route, member |-> member,
   decision |-> decision]

Recorded(trial, run, kind, route, member, decision) ==
  [trial EXCEPT !.events = Append(@, Event(trial, run, kind, route, member, decision))]

\* POST /api/human/book books for the principal once booking is open; /api/agent/book for
\* whom it is told, and only the fixed version looks at the owner and the window.
Decision(trial, route) == IF route = "agent" /\ trial.version = "vulnerable" THEN "allow" ELSE "deny"

Booked(trial, run, route, member) ==
  LET decided == Recorded(trial, run, "authorization", route, member, Decision(trial, route)) IN
  IF Decision(trial, route) = "deny" THEN decided
  ELSE [Recorded(decided, run, "mutation", route, member, "allow") EXCEPT !.reservations[member] = "booked_early"]

\* A page that no audit opened, on the trial of a lease.
StrayBooking(l, route, member) ==
  /\ strays < MaxStray /\ Exists(l)
  /\ route = "human" => member = Principal
  /\ strays' = strays + 1
  /\ trials' = [trials EXCEPT ![l] = Booked(@, OtherRun, route, member)]
  /\ UNCHANGED <<gym, deletion, gymRestarts>>

FixtureRestarts ==
  /\ gymRestarts < MaxRestart /\ trials # <<>>
  /\ gymRestarts' = gymRestarts + 1
  /\ trials' = <<>>
  /\ UNCHANGED <<gym, deletion, strays>>

Deleted(l) == trials' = [k \in DOMAIN trials \ {l} |-> trials[k]]

\* DELETE /__arena/trials/<id>: what is not there is answered 404, which the adapter accepts.
FixtureDeletes(l) ==
  /\ deletion[l].sent > 0
  /\ Deleted(l)
  /\ deletion' = [deletion EXCEPT ![l].sent = @ - 1, ![l].answered = @ + 1]
  /\ UNCHANGED <<gym, strays, gymRestarts>>

-----------------------------------------------------------------------------
(* The adapter: a lease and its route *)

Bounds == UNCHANGED <<strays, gymRestarts>>
GymStep(l, step) == gym' = [gym EXCEPT ![l] = [@ EXCEPT !.step = step]]
Lost(l) == deletion' = [deletion EXCEPT ![l].lost = TRUE]

\* The fixture makes the trial that provisionTrial asks for.
ProvisionTrial(l, version, route, member) ==
  /\ gym[l].step = "none"
  /\ route = "human" => member = Principal
  /\ trials' = [k \in DOMAIN trials \cup {l} |-> IF k = l THEN FreshTrial(version) ELSE trials[k]]
  /\ gym' = [gym EXCEPT ![l] = [@ EXCEPT !.step = "asked", !.route = route, !.member = member]]
  /\ UNCHANGED deletion /\ Bounds

Provisioned(l) ==
  /\ gym[l].step = "asked"
  /\ GymStep(l, "live")
  /\ UNCHANGED <<trials, deletion>> /\ Bounds

\* No answer that names the trial: the adapter does not learn what to release.
AnswerLost(l) ==
  /\ gym[l].step = "asked"
  /\ GymStep(l, "unknown")
  /\ Lost(l)
  /\ UNCHANGED trials /\ Bounds

\* While the browser shows the trial's page for the run of the lease, and after a failure
\* that did not stop it, the page books: as often as a human clicks, once for the agent,
\* or not at all if the action does not get there or the fixture does not know the class.
RouteBooks(l) ==
  /\ gym[l].step \in {"live", "failed"} /\ Exists(l)
  /\ gym[l].booked < IF gym[l].route = "agent" THEN 1 ELSE MaxClicks
  /\ trials' = [trials EXCEPT ![l] = Booked(@, l, gym[l].route, gym[l].member)]
  /\ gym' = [gym EXCEPT ![l].booked = @ + 1]
  /\ UNCHANGED deletion /\ Bounds

\* runHuman and runAgent: the browser is done, with a trace that validates or not.
RouteEnds(l) ==
  /\ gym[l].step = "live"
  /\ \E step \in {"ran", "failed"} : GymStep(l, step)
  /\ UNCHANGED <<trials, deletion>> /\ Bounds

\* GET /__arena/evidence filters the stream by the run.
EvidenceOf(l) ==
  LET stream == trials[l].events IN {stream[i] : i \in {j \in 1 .. Len(stream) : stream[j].run = l}}

\* Mutant: gaps in the sequence are accepted.
AnySequence(events) == TRUE
\* validateServerEvents: no event at all is a sequence, too.
Consecutive(events) == {e.sequence : e \in events} = 1 .. Cardinality(events)

\* validateAgentEvidence
BoundToCall(l, events) ==
  gym[l].route = "agent" =>
    \A e \in events : e.route = "agent" /\ e.member = gym[l].member

\* The fixture's answer is accepted ...
ReadEvidence(l) ==
  /\ gym[l].step = "ran"
  /\ Exists(l) /\ Consecutive(EvidenceOf(l)) /\ BoundToCall(l, EvidenceOf(l))
  /\ gym' = [gym EXCEPT ![l] = [@ EXCEPT !.step = "observed", !.evidence =
               [events |-> EvidenceOf(l), stream |-> trials[l].events,
                version |-> trials[l].version, reservations |-> trials[l].reservations]]]
  /\ UNCHANGED <<trials, deletion>> /\ Bounds

\* ... or refused, or does not come.
EvidenceFails(l) ==
  /\ gym[l].step = "ran"
  /\ GymStep(l, "failed")
  /\ UNCHANGED <<trials, deletion>> /\ Bounds

-----------------------------------------------------------------------------
(* The adapter: the release of a trial *)

DeletionSent(l, requests) == deletion' = [deletion EXCEPT ![l].sent = @ + requests]

\* Mutant: a trial whose description is refused is left to itself.
LeftAlone == 0
AfterRefusal == 1

\* The description names the trial but is refused: releaseAfterFailure asks for its deletion
\* once and forgets it.
DescriptorRefused(l) ==
  /\ gym[l].step = "asked"
  /\ GymStep(l, "refused")
  /\ DeletionSent(l, AfterRefusal)
  /\ UNCHANGED trials /\ Bounds

\* release: until an answer has come the lease is not released, so calls that overlap and
\* calls after a failure ask again.
ReleaseCalled(l) ==
  /\ gym[l].step \in {"live", "failed", "observed", "over"} /\ ~deletion[l].released
  /\ deletion[l].sent + deletion[l].answered < MaxDeletions
  /\ GymStep(l, "over")
  /\ DeletionSent(l, 1)
  /\ UNCHANGED trials /\ Bounds

\* releaseTrial returns, ...
DeletionAnswered(l) ==
  /\ deletion[l].answered > 0
  /\ deletion' = [deletion EXCEPT ![l].answered = @ - 1, ![l].released = TRUE]
  /\ UNCHANGED <<trials, gym>> /\ Bounds

\* ... or throws: its request or the answer is lost.  Nobody asks again for a trial whose
\* description was refused.
DeletionLost(l) ==
  /\ \/ /\ deletion[l].sent > 0
        /\ deletion' = [deletion EXCEPT ![l].sent = @ - 1, ![l].lost = TRUE]
     \/ /\ deletion[l].answered > 0
        /\ deletion' = [deletion EXCEPT ![l].answered = @ - 1, ![l].lost = TRUE]
  /\ UNCHANGED <<trials, gym>> /\ Bounds

GymNext ==
  \/ FixtureRestarts
  \/ \E l \in GymLease :
       \/ \E version \in {"vulnerable", "fixed"}, route \in Route, member \in Member :
            ProvisionTrial(l, version, route, member)
       \/ \E route \in Route, member \in Member : StrayBooking(l, route, member)
       \/ Provisioned(l) \/ AnswerLost(l) \/ RouteBooks(l) \/ RouteEnds(l) \/ ReadEvidence(l) \/ EvidenceFails(l)
       \/ DescriptorRefused(l) \/ ReleaseCalled(l) \/ FixtureDeletes(l) \/ DeletionAnswered(l) \/ DeletionLost(l)

GymSpec == GymInit /\ [][GymNext]_gymVars

-----------------------------------------------------------------------------
(* Properties *)

\* Evidence that the adapter accepts is the beginning of the trial's event stream, possibly
\* an empty one: nobody else did anything before or between.  It shows the route it was
\* leased for, with its arguments, and every booking of that route: no event means that the
\* route booked nothing.  What it shows explains the final state, unless another page came
\* after it.
EvidenceIsOwn ==
  \A l \in GymLease : gym[l].step = "observed" =>
    LET seen == gym[l].evidence
        first == FreshTrial(seen.version).reservations IN
    /\ seen.events = {seen.stream[i] : i \in 1 .. Cardinality(seen.events)}
    /\ \A e \in seen.events : e.route = gym[l].route /\ e.member = gym[l].member
    /\ Cardinality({i \in 1 .. Cardinality(seen.events) : seen.stream[i].kind = "authorization"}) = gym[l].booked
    /\ Len(seen.stream) = Cardinality(seen.events) =>
         seen.reservations = IF seen.version = "vulnerable" /\ gym[l].route = "agent" /\ gym[l].booked > 0
                             THEN [first EXCEPT ![gym[l].member] = "booked_early"] ELSE first

\* A lease counts as released only when its trial is gone; and a trial that is still there
\* is held by a route, or its deletion is on the way, or an exchange with the fixture
\* failed: however provisioning, the run and the evidence end, and however calls of
\* release overlap, none is left in silence.
TrialsAreReleased ==
  \A l \in GymLease :
    /\ deletion[l].released => ~Exists(l)
    /\ Exists(l) => \/ gym[l].step \in {"asked", "live", "ran", "failed", "observed"}
                    \/ deletion[l].sent > 0
                    \/ deletion[l].lost
=============================================================================
