---------------------------- MODULE BrowserRecorder ----------------------------
(***************************************************************************)
(* One visit of the WebMCP browser runner, src/webmcp-runner.js: it loads  *)
(* a page, finds a tool, has it executed (or replays a human route), waits *)
(* until the effects settle and captures a trace.                          *)
(*                                                                         *)
(* The page and the browser go on while the runner awaits: tools are       *)
(* replaced, requests start and are answered, and what the browser reports *)
(* reaches the runner in order but late.  In native mode the runner knows  *)
(* the tools by those reports; with the compatibility shim it asks.        *)
(*                                                                         *)
(* Time is counted in ticks since the present wait began.  What the        *)
(* browser reports arrives within the tick.  Not represented: arguments    *)
(* and their redaction, console, storage, opened pages; one tool name.     *)
(***************************************************************************)
EXTENDS Naturals, Sequences, FiniteSets

CONSTANTS
  Definition, NoTool,  \* what a tool is registered with (its hash); no tool
  Request,             \* requests that the page may start
  EarlyRequest,        \* a request of the page's own loading
  SurfaceMaxWait,      \* how long the tools may take to settle
  AnswerTimeout,       \* timeoutMs, for the tool's answer
  EffectObservation, EffectQuietWindow, EffectMaxWait,
  FirstDelay,          \* the page acts on the operation within this time,
  PageDelay,           \* and on an answer within this
  MaxActivity          \* bound: changes of the page's tools and requests it starts

ASSUME RecorderAssumption ==
  /\ Definition # {} /\ NoTool \notin Definition
  /\ EarlyRequest \notin Request /\ "call" \notin Request
  /\ {SurfaceMaxWait, AnswerTimeout, EffectQuietWindow, EffectMaxWait, MaxActivity} \subseteq Nat
  /\ EffectObservation \in 0 .. EffectMaxWait
  /\ FirstDelay \in Nat /\ FirstDelay < EffectObservation
  /\ PageDelay \in Nat /\ PageDelay < EffectQuietWindow

VARIABLES
  visit,               \* the runner
  page,                \* the page and its server
  wire,                \* what the browser has reported and the runner not yet heard
  elapsed, quietFor    \* since the wait began; since the last change or activity

recorderVars == <<visit, page, wire, elapsed, quietFor>>

Frame == {"top", "child"}

\* Definitions that a frame's tool may have: those of a child frame are not told apart.
SomeDefinition == CHOOSE d \in Definition : TRUE
DefinitionsOf(f) == IF f = "top" THEN Definition ELSE {SomeDefinition}

Forever == EffectQuietWindow + 1     \* no change or activity yet

\* The phases in which the runner waits for a time, and the longest it waits.
Limit == [settling |-> SurfaceMaxWait, awaiting |-> AnswerTimeout, quiescing |-> EffectMaxWait]
Native == visit.mode = "native"

RecorderInit ==
  /\ \E mode \in {"native", "compatibility"}, kind \in {"agent", "human"} :
       visit = [mode |-> mode, kind |-> kind, phase |-> "loading", known |-> [f \in Frame |-> NoTool],
                surface |-> FALSE, hash |-> NoTool, before |-> NoTool, after |-> NoTool, answer |-> "none",
                recording |-> FALSE, inFlight |-> {}, network |-> {}, capture |-> "none", handled |-> {}]
  /\ \E live \in [Frame -> {NoTool, SomeDefinition}], forged \in BOOLEAN, open \in SUBSET {EarlyRequest} :
       /\ ~Native => live["child"] = NoTool /\ ~forged
       /\ page = [live |-> live, forged |-> forged, open |-> open, due |-> [t \in {} |-> 0], started |-> {},
                  handled |-> {}, invoked |-> NoTool, call |-> "none", changes |-> 0, changedBack |-> FALSE]
  /\ wire = <<>>
  /\ elapsed = 0 /\ quietFor = 0

Phase(p) == visit.phase = p
Enter(p) == visit' = [visit EXCEPT !.phase = p]
Send(messages) == wire' = wire \o messages
NewWait == elapsed' = 0
Now == UNCHANGED <<elapsed, quietFor>>

Closed == Phase("closed")

-----------------------------------------------------------------------------
(* The page and its server *)

Activity == page.changes + Cardinality(page.started)

ToolEvent(f, d) == [kind |-> "tool", frame |-> f, definition |-> d]

\* A registration ends, one begins where there is none, or both in one turn of the page.
ChangeTool(f, d) ==
  /\ ~Closed /\ ~Phase("loading") /\ Activity < MaxActivity
  /\ d \in {NoTool} \cup DefinitionsOf(f) /\ d # page.live[f]
  /\ page' = [page EXCEPT !.live[f] = d, !.changes = @ + 1,
                          !.changedBack = @ \/ (f = "top" /\ page.invoked # NoTool /\ d = visit.hash)]
  /\ Send(IF ~visit.surface THEN <<>>
          ELSE IF NoTool \in {d, page.live[f]} THEN <<ToolEvent(f, d)>>
          ELSE <<ToolEvent(f, NoTool), ToolEvent(f, d)>>)
  /\ UNCHANGED visit /\ Now

Due(t) == t \in DOMAIN page.due
Without(f, x) == [y \in DOMAIN f \ {x} |-> f[y]]
With(f, x, n) == [y \in DOMAIN f \cup {x} |-> IF y = x THEN n ELSE f[y]]

\* The page acts on the operation or on an answer: its state changes and it may start
\* further requests.
PageActs(t) == \E more \in {{}} \cup {{r} : r \in Request \ page.started} :
  /\ ~Closed /\ Due(t) /\ Activity + Cardinality(more) <= MaxActivity
  /\ page' = [page EXCEPT !.due = Without(@, t), !.handled = @ \cup {t},
                          !.started = @ \cup more, !.open = @ \cup more]
  /\ Send(IF more = {} THEN <<>> ELSE <<[kind |-> "request", request |-> CHOOSE r \in more : TRUE]>>)
  /\ UNCHANGED visit /\ Now

\* A request is answered, or fails.
RequestSettles(r) ==
  /\ ~Closed /\ r \in page.open
  /\ page' = [page EXCEPT !.open = @ \ {r}, !.due = IF r = EarlyRequest THEN @ ELSE With(@, r, PageDelay)]
  /\ Send(<<[kind |-> "settled", request |-> r]>>)
  /\ UNCHANGED visit /\ Now

\* The browser, or the shim in the page, executes what is registered when the call reaches it.
Invoke ==
  /\ Phase("invoking") /\ page.call = "sent"
  /\ page' = IF page.live["top"] = NoTool THEN [page EXCEPT !.call = "refused"]
             ELSE [page EXCEPT !.call = "executing", !.invoked = page.live["top"], !.due = With(@, "call", FirstDelay)]
  /\ Send(IF page.live["top"] = NoTool THEN <<[kind |-> "refused"]>> ELSE <<[kind |-> "invoked"]>>)
  /\ UNCHANGED visit /\ Now

\* The tool's answer, before or after its effects, possibly ahead of the reply to the call.
ToolResponds(status) ==
  /\ ~Closed /\ page.call = "executing"
  /\ page' = [page EXCEPT !.call = "responded"]
  /\ LET answer == [kind |-> "responded", status |-> status] IN
     \/ Send(<<answer>>)
     \/ /\ wire # <<>> /\ wire[Len(wire)].kind = "invoked"
        /\ wire' = SubSeq(wire, 1, Len(wire) - 1) \o <<answer, [kind |-> "invoked"]>>
  /\ UNCHANGED visit /\ Now

-----------------------------------------------------------------------------
(* What the runner hears *)

Close == [visit EXCEPT !.phase = "closed", !.recording = FALSE]

\* Mutant: an answer that nobody waits for yet is dropped.
Dropped(status) == visit.answer
Buffered(status) == status

\* onRequest and onRequestSettled, while they are attached.
Heard(m) ==
  CASE m.kind = "tool" -> [visit EXCEPT !.known[m.frame] = m.definition]
    [] m.kind = "request" /\ visit.recording -> [visit EXCEPT !.network = @ \cup {m.request},
                                                              !.inFlight = @ \cup {m.request}]
    [] m.kind = "settled" /\ visit.recording -> [visit EXCEPT !.inFlight = @ \ {m.request}]
    [] m.kind = "invoked" -> [visit EXCEPT !.phase = "awaiting"]
    [] m.kind = "responded" -> [visit EXCEPT !.answer = IF Phase("awaiting") THEN m.status ELSE Buffered(m.status)]
    [] m.kind = "refused" -> Close
    [] OTHER -> visit

\* Does it count as a change of the tools, or as activity of the page?
Stirs(m) ==
  \/ m.kind = "tool" /\ Phase("settling")
  \/ m.kind \in {"request", "settled"} /\ visit.recording

Hear ==
  /\ ~Closed /\ wire # <<>>
  /\ visit' = Heard(Head(wire))
  /\ wire' = Tail(wire)
  /\ quietFor' = IF Stirs(Head(wire)) THEN 0 ELSE quietFor
  /\ elapsed' = IF Head(wire).kind = "invoked" THEN 0 ELSE elapsed
  /\ UNCHANGED page

-----------------------------------------------------------------------------
(* run: navigation and the tool surface *)

\* page.goto returns; in native mode WebMCP.enable reports the tools there are.
Load ==
  /\ Phase("loading")
  /\ visit' = [visit EXCEPT !.phase = IF Native THEN "settling" ELSE "ready", !.surface = Native]
  /\ Send(IF Native
          THEN LET there == {f \in Frame : page.live[f] # NoTool} IN
               CASE there = {} -> <<>>
                 [] there = Frame -> <<ToolEvent("top", page.live["top"]), ToolEvent("child", page.live["child"])>>
                 [] OTHER -> LET f == CHOOSE x \in there : TRUE IN <<ToolEvent(f, page.live[f])>>
          ELSE <<>>)
  /\ NewWait /\ quietFor' = IF Native THEN Forever ELSE 0
  /\ UNCHANGED page

\* waitForCdpToolSurfaceSettle: "Forever" is a surface that never changed.
SurfaceSettles ==
  /\ Phase("settling")
  /\ elapsed >= SurfaceMaxWait \/ (quietFor >= EffectQuietWindow /\ quietFor # Forever)
  /\ Enter("provenance")
  /\ elapsed' = 0 /\ quietFor' = 0
  /\ UNCHANGED <<page, wire>>

\* The tools of the top frame, as getTools finds them.
Tools == IF Native THEN visit.known["top"] ELSE page.live["top"]
\* Only the top frame may have tools.
Foreign == Native /\ visit.known["child"] # NoTool

\* assertNoPageAuthoredNativeSurface: what the page lists must be known to the browser.
Provenance ==
  /\ Phase("provenance") /\ wire = <<>>
  /\ visit' = IF Foreign \/ page.forged THEN Close ELSE [visit EXCEPT !.phase = "ready"]
  /\ UNCHANGED <<page, wire>> /\ Now

\* execute: the tool is found and compared with the definition that was reviewed; a human
\* route needs none.
FindTool ==
  /\ Phase("ready")
  /\ \/ visit.kind = "agent" /\ (Foreign \/ Tools = NoTool) /\ visit' = Close
     \/ visit.kind = "agent" /\ ~Foreign /\ Tools # NoTool
        /\ visit' \in {[visit EXCEPT !.phase = "before", !.hash = Tools], Close}
     \/ visit.kind = "human" /\ Enter("before")
  /\ UNCHANGED <<page, wire>> /\ Now

-----------------------------------------------------------------------------
(* recordPageEffects *)

\* capturePageState, then the listeners are attached and the operation begins.
CaptureBefore ==
  /\ Phase("before")
  /\ visit' = IF Foreign THEN Close
              ELSE [visit EXCEPT !.phase = "operating", !.before = Tools, !.recording = TRUE]
  /\ quietFor' = 0
  /\ UNCHANGED <<page, wire, elapsed>>

\* runtime.execute sends the call, in native mode for the one tool known by that name ...
SendCall ==
  /\ Phase("operating") /\ visit.kind = "agent"
  /\ IF Foreign \/ (Native /\ Tools = NoTool)
     THEN visit' = Close /\ UNCHANGED page
     ELSE Enter("invoking") /\ page' = [page EXCEPT !.call = "sent"]
  /\ UNCHANGED wire /\ Now

\* ... and performHumanAction acts on the page.
ActAsHuman ==
  /\ Phase("operating") /\ visit.kind = "human"
  /\ page' = [page EXCEPT !.due = With(@, "call", FirstDelay)]
  /\ Enter("quiescing") /\ NewWait
  /\ UNCHANGED <<wire, quietFor>>

\* The answer was buffered or comes in time, ...
TakeAnswer ==
  /\ Phase("awaiting") /\ visit.answer # "none"
  /\ IF visit.answer = "Completed" THEN Enter("quiescing") ELSE visit' = Close
  /\ NewWait
  /\ UNCHANGED <<page, wire, quietFor>>

\* ... or not; the shim has no timeout of its own.
AnswerTimesOut ==
  /\ Phase("awaiting") /\ Native /\ elapsed >= AnswerTimeout
  /\ visit.answer = "none"
  /\ visit' = [Close EXCEPT !.answer = "timeout"]
  /\ UNCHANGED <<page, wire>> /\ Now

\* Mutant: requests in flight are not waited for.
QuietAlone == elapsed >= EffectObservation /\ quietFor >= EffectQuietWindow
\* waitForEffectQuiescence
Quiescent == elapsed >= EffectObservation /\ visit.inFlight = {} /\ quietFor >= EffectQuietWindow

Over == Quiescent \/ elapsed >= EffectMaxWait

\* Mutant: the trace states the tools of its beginning.
ToolsBefore == visit.before
ToolsAfter == Tools

\* The wait ends and the second capture begins: in native mode with the tools as known now.
EndWait ==
  /\ Phase("quiescing")
  /\ Over
  /\ visit' = IF Foreign THEN Close
              ELSE [visit EXCEPT !.phase = "capturing", !.after = ToolsAfter,
                                 !.capture = IF Quiescent THEN "complete" ELSE "timeout"]
  /\ elapsed' = 0 /\ quietFor' = 0
  /\ UNCHANGED <<page, wire>>

\* The page answers with its state; the listeners are detached and the browser is closed.
CaptureAfter ==
  /\ Phase("capturing")
  /\ visit' = [Close EXCEPT !.handled = page.handled]
  /\ UNCHANGED <<page, wire>> /\ Now

\* Launch, navigation, a selector or the browser fails.
VisitFails ==
  /\ ~Closed
  /\ visit' = [Close EXCEPT !.capture = "none"]
  /\ UNCHANGED <<page, wire>> /\ Now

\* A tick; where nothing is timed, only the page moves on.
RecorderTick ==
  /\ ~Closed
  /\ wire = <<>> /\ \A t \in DOMAIN page.due : page.due[t] > 0
  /\ page' = [page EXCEPT !.due = [t \in DOMAIN @ |-> @[t] - 1]]
  /\ IF visit.phase \in DOMAIN Limit
     THEN /\ elapsed < Limit[visit.phase] /\ elapsed' = elapsed + 1
          /\ quietFor' = IF quietFor < EffectQuietWindow THEN quietFor + 1 ELSE quietFor
     ELSE page.due # [t \in {} |-> 0] /\ Now
  /\ UNCHANGED <<visit, wire>>

RunnerStep ==
  \/ Load \/ SurfaceSettles \/ Provenance \/ FindTool \/ CaptureBefore \/ SendCall \/ ActAsHuman
  \/ Invoke \/ Hear \/ TakeAnswer \/ AnswerTimesOut \/ EndWait \/ CaptureAfter
  \/ RecorderTick \/ \E t \in {"call"} \cup Request : PageActs(t)

RecorderNext ==
  \/ RunnerStep
  \/ VisitFails
  \/ \E f \in Frame, d \in {NoTool} \cup Definition : ChangeTool(f, d)
  \/ \E r \in {EarlyRequest} \cup Request : RequestSettles(r)
  \/ \E status \in {"Completed", "Failed"} : ToolResponds(status)

\* The runner has called into the page, which may never answer: the page's own getTools in
\* page.evaluate, the capture of its state and, with the shim, the lookup and the execution
\* of its tool have no timeout.
AwaitsPage ==
  \/ visit.phase \in {"provenance", "before", "capturing"}
  \/ /\ ~Native
     /\ \/ Phase("ready") /\ visit.kind = "agent"
        \/ ~Closed /\ page.call \in {"sent", "executing"}

\* The runner, its timers and the messages to it go on while it does not wait for the page.
\* The page, its server and its tools need do nothing; that a due reaction happens or is
\* left out is how time passes here.
RecorderFairness == WF_recorderVars(~AwaitsPage /\ RunnerStep)

RecorderSpec == RecorderInit /\ [][RecorderNext]_recorderVars /\ RecorderFairness

-----------------------------------------------------------------------------
(* Properties *)

\* A finished trace shows if another tool than the reported one was executed: in the tools
\* before, or in the changes until after, unless the page changed the tool back in time.
SubstitutionIsVisible ==
  Closed /\ visit.capture # "none" /\ visit.kind = "agent" /\ page.invoked # visit.hash =>
    visit.before # visit.hash \/ visit.after # visit.before \/ page.changedBack

\* A complete trace is the whole effect of the operation: every request that it led to was
\* recorded and answered, and every reaction of the page is in the captured state.
WholeEffect ==
  Closed /\ visit.capture = "complete" =>
    /\ page.open \subseteq {EarlyRequest} /\ page.due = [t \in {} |-> 0]
    /\ visit.network = page.started
    /\ visit.handled = page.handled

\* A visit whose page answers what it is asked ends and closes its browser, whatever the
\* page does with its tools and its requests; and one that ends for want of an answer had
\* none that the browser reported and the runner heard, whenever it came.
VisitEnds ==
  []<>~AwaitsPage =>
    <>(Closed /\ (visit.answer = "timeout" => page.call = "executing" \/ wire # <<>>))
=============================================================================
