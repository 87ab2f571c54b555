----------------------------- MODULE CheckoutPage -----------------------------
(***************************************************************************)
(* The checkout page that the arena offers for inspection:                 *)
(* app/checkout/page.tsx with app/checkout/simulation.ts.  It registers a  *)
(* tool for the mode it is in, plays the timeline of a route when a button *)
(* or the tool asks for it, and publishes what it shows as window state.   *)
(*                                                                         *)
(* A switch of the mode goes through an unresolved one: the registration   *)
(* is aborted, the URL advertises the next mode, a timer resolves it, and  *)
(* the effects of that render clear the timelines and register anew.       *)
(* Timers, tool calls and the answers of registerTool fall in between.     *)
(* React renders and runs effects some time after a state was set, but     *)
(* before anything else when a click set it.                               *)
(*                                                                         *)
(* Not represented: what is rendered; carts other than the demo's (they    *)
(* throw before anything is played).                                       *)
(***************************************************************************)
EXTENDS Naturals, Sequences, FiniteSets

CONSTANTS
  MaxSwitches,         \* bound: switches of the mode
  MaxPlays             \* bound: timelines played

ASSUME PageAssumption == MaxSwitches \in Nat /\ MaxPlays \in Nat

VARIABLES
  ui,                  \* the page's state and references
  registrations,       \* the registerTool calls so far
  timers,              \* timeline events that are still to come
  calls,               \* tool calls on their way to the page
  url,                 \* the mode that the URL asks for
  published            \* window.__arenaState

pageVars == <<ui, registrations, timers, calls, url, published>>

Mode == {"vulnerable", "fixed"}
Panel == {"human", "agent"}
Unresolved == "unresolved"
NoEvidence == [mode |-> Unresolved]

\* createHumanTrace and createAgentTrace: kinds and times of the events.
Timeline(panel, mode) ==
  IF panel = "human"
  THEN <<<<"route_started", 0>>, <<"review_presented", 260>>, <<"preview_returned", 620>>, <<"settlement_complete", 1350>>>>
  ELSE <<<<"tool_invoked", 0>>, <<"preview_returned", 180>>>> \o
       IF mode = "fixed" THEN <<<<"settlement_complete", 1550>>>>
       ELSE <<<<"simulated_charge", 1250>>, <<"settlement_complete", 1650>>>>

IdleRun == [kind |-> "idle", play |-> 0, mode |-> Unresolved, events |-> 0]

PageInit ==
  /\ \E context \in BOOLEAN :
       ui = [context |-> context, resolution |-> Unresolved, epoch |-> 0, effects |-> 0, webMcp |-> "checking",
             active |-> 0, next |-> Unresolved, run |-> [p \in Panel |-> IdleRun], plays |-> 0, mounted |-> TRUE,
             latest |-> [p \in Panel |-> 0]]
  /\ registrations = <<>>
  /\ timers = {}
  /\ calls = {}
  /\ url \in Mode
  /\ published = NoEvidence

-----------------------------------------------------------------------------
(* Timelines *)

\* Mutant: earlier timelines of the route go on.
Keep(set, panels) == set
ClearTimers(set, panels) == {t \in set : t.panel \notin panels}

\* playTrace
Play(panel, mode) ==
  LET n == ui.plays + 1 IN
  /\ n <= MaxPlays
  /\ timers' = ClearTimers(timers, {panel})
               \cup {[panel |-> panel, play |-> n, mode |-> mode, event |-> i] : i \in 1 .. Len(Timeline(panel, mode))}
  /\ ui' = [ui EXCEPT !.plays = n, !.latest[panel] = n,
                      !.run[panel] = [kind |-> "running", play |-> n, mode |-> mode, events |-> 0]]

FiresNext(t) == \A s \in timers : s.play = t.play => s.event >= t.event

TimerFires(t) ==
  /\ t \in timers /\ FiresNext(t)
  /\ timers' = timers \ {t}
  /\ ui' = [ui EXCEPT !.run[t.panel] =
              [kind |-> IF t.event = Len(Timeline(t.panel, t.mode)) THEN "complete" ELSE "running",
               play |-> t.play, mode |-> t.mode, events |-> t.event]]
  /\ UNCHANGED <<registrations, calls, url, published>>

\* The buttons are disabled while their route runs.
Locked == ui.resolution = Unresolved \/ ui.webMcp \in {"checking", "registering"}

PressRun(panel) ==
  /\ ui.mounted /\ ~Locked /\ ui.run[panel].kind # "running"
  /\ Play(panel, ui.resolution)
  /\ UNCHANGED <<registrations, calls, url, published>>

-----------------------------------------------------------------------------
(* The registered tool *)

Abort(id) == IF id = 0 THEN registrations ELSE [registrations EXCEPT ![id].aborted = TRUE]
Live == {id \in 1 .. Len(registrations) : registrations[id].state = "registered" /\ ~registrations[id].aborted}

\* registerTool takes effect, or throws; an aborted registration never does.
RegistrationSettles(id, outcome) ==
  /\ registrations[id].state = "pending"
  /\ outcome = "registered" => ~registrations[id].aborted
  /\ IF registrations[id].aborted
     THEN registrations' = [registrations EXCEPT ![id].state = outcome] /\ UNCHANGED ui
     ELSE /\ registrations' = [registrations EXCEPT ![id].state = outcome, ![id].aborted = (outcome = "failed")]
          /\ ui' = [ui EXCEPT !.webMcp = outcome, !.active = IF outcome = "failed" THEN 0 ELSE @]
  /\ UNCHANGED <<timers, calls, url, published>>

\* A browser calls a tool that it finds registered ...
CallTool(id) ==
  /\ id \in Live /\ calls = {}
  /\ calls' = {id}
  /\ UNCHANGED <<ui, registrations, timers, url, published>>

StillActive(id) == ~registrations[id].aborted

\* ... and the call arrives: executed in the mode it was registered for, or refused.
CallArrives(id) ==
  /\ id \in calls
  /\ calls' = {}
  /\ IF StillActive(id) THEN Play("agent", registrations[id].mode) ELSE UNCHANGED <<ui, timers>>
  /\ UNCHANGED <<registrations, url, published>>

-----------------------------------------------------------------------------
(* Modes, renders and effects *)

\* The first effect after mounting: the mode that the URL asks for.
ResolveFromUrl ==
  /\ ui.epoch = 0 /\ ui.mounted
  /\ ui' = [ui EXCEPT !.resolution = url, !.epoch = 1]
  /\ UNCHANGED <<registrations, timers, calls, url, published>>

Evidence(u) == [mode |-> u.resolution, human |-> u.run["human"], agent |-> u.run["agent"]]

\* React commits: the effects of a resolved mode, cleanups first, and the evidence of what
\* is shown.
RunEffects ==
  /\ ui.mounted /\ ui.epoch > 0
  /\ IF ui.epoch # ui.effects
     THEN /\ timers' = ClearTimers(timers, Panel)
          /\ registrations' = IF ui.context THEN Append(Abort(ui.active), [mode |-> ui.resolution, state |-> "pending",
                                                                           aborted |-> FALSE])
                              ELSE registrations
          /\ ui' = [ui EXCEPT !.effects = ui.epoch, !.run = [p \in Panel |-> IdleRun],
                              !.webMcp = IF ui.context THEN "registering" ELSE "unavailable",
                              !.active = IF ui.context THEN Len(registrations) + 1 ELSE 0]
          /\ published' = NoEvidence
     ELSE /\ ~Locked /\ published # Evidence(ui)
          /\ published' = Evidence(ui)
          /\ UNCHANGED <<ui, registrations, timers>>
  /\ UNCHANGED <<calls, url>>

\* chooseMode, with the render and the effects of the unresolved mode.
ChooseMode(mode) ==
  /\ ui.mounted /\ ~Locked /\ ui.effects = ui.epoch /\ ui.epoch <= MaxSwitches
  /\ registrations' = Abort(ui.active)
  /\ url' = mode
  /\ ui' = [ui EXCEPT !.resolution = Unresolved, !.webMcp = "checking", !.active = 0, !.next = mode]
  /\ published' = NoEvidence
  /\ UNCHANGED <<timers, calls>>

\* The timer that chooseMode set.
ResolveNext ==
  /\ ui.next # Unresolved
  /\ ui' = [ui EXCEPT !.resolution = ui.next, !.epoch = @ + 1, !.next = Unresolved]
  /\ UNCHANGED <<registrations, timers, calls, url, published>>

Unmount ==
  /\ ui.mounted
  /\ timers' = ClearTimers(timers, Panel)
  /\ registrations' = Abort(ui.active)
  /\ ui' = [ui EXCEPT !.mounted = FALSE, !.active = 0, !.next = Unresolved]
  /\ published' = NoEvidence
  /\ UNCHANGED <<calls, url>>

PageNext ==
  \/ ResolveFromUrl \/ RunEffects \/ ResolveNext \/ Unmount
  \/ \E mode \in Mode : ChooseMode(mode)
  \/ \E panel \in Panel : PressRun(panel)
  \/ \E t \in timers : TimerFires(t)
  \/ \E id \in 1 .. Len(registrations) :
       \/ \E outcome \in {"registered", "failed"} : RegistrationSettles(id, outcome)
       \/ CallTool(id) \/ CallArrives(id)

PageSpec == PageInit /\ [][PageNext]_pageVars

-----------------------------------------------------------------------------
(* Properties *)

\* What the page publishes is of the mode that its URL advertises: the timelines in it
\* were played in that mode, each is a beginning of the latest one of its route, and no
\* tool of another mode is registered or still plays.  There is never more than one tool,
\* and a page that is gone leaves nothing behind.
EvidenceIsOfItsMode ==
  /\ published # NoEvidence =>
       /\ published.mode = url
       /\ \A run \in {published.human, published.agent} : run = IdleRun \/ run.mode = url
       /\ \A p \in Panel : ui.run[p] = IdleRun \/ (ui.run[p].play = ui.latest[p] /\ ui.run[p].mode = url)
       /\ \A id \in Live : registrations[id].mode = url
       /\ \A t \in timers : t.mode = url
  /\ Cardinality(Live) <= 1
  /\ ~ui.mounted => Live = {} /\ timers = {} /\ published = NoEvidence
=============================================================================
