-------------------------- MODULE CheckoutSettlement --------------------------
(***************************************************************************)
(* How a checkout audit learns that every delayed effect of a route has    *)
(* happened:                                                               *)
(*   src/effect-settlement.js       the scheduler and the observer         *)
(*   src/checkout-fixture.js        trials, and the delayed hidden charge  *)
(*   src/checkout-audit-adapter.js  a route followed by its observation    *)
(*                                                                         *)
(* One fixture and one virtual clock serve every trial of an adapter.      *)
(* Time is what observers make of it: a sleep runs the tasks that fall due *)
(* and moves the clock, and tasks of any trial run in anybody's sleep.  An *)
(* action is the code between two awaits, so observations of two trials    *)
(* interleave, each with the snapshot it read before.                      *)
(*                                                                         *)
(* Not represented: ids, hashes and correlation of the events; the money   *)
(* event stands for them.                                                  *)
(***************************************************************************)
EXTENDS Naturals, FiniteSets, FiniteSetsExt

CONSTANTS
  Trial,          \* trials the adapter provisions
  Charging,       \* those that run the vulnerable agent route
  Delays,         \* chargeDelayMs the fixture may have been created with
  PollInterval,   \* settlementPollIntervalMs
  Timeout,        \* settlementTimeoutMs
  Lanes           \* how many observations may be under way at once: the cases to look at

ASSUME SettlementAssumption ==
  /\ IsFiniteSet(Trial) /\ Charging \subseteq Trial
  /\ Delays \subseteq Nat \ {0}
  /\ PollInterval \in Nat \ {0} /\ Timeout \in Nat \ {0} /\ Lanes \subseteq Nat \ {0}

VARIABLES
  lanes,          \* observations that may be under way at once
  delay,          \* chargeDelayMs
  clock, nextId, tasks,                 \* the scheduler
  stage,          \* [Trial -> "new", then "live" in the fixture's map, then "gone"]
  executed,       \* trials that ran their route
  pending,        \* [Trial -> pendingEffects]
  charged,        \* trials whose charge is in their events and their watermark
  observer        \* [Trial -> the observation that follows its route]: its deadline, the
                  \* snapshot it awaits (effects pending, whether the watermark counts the
                  \* charge), the target of its sleep; how it ended, with the charge or not

scheduler == <<lanes, delay, clock, nextId, tasks>>
fixture == <<stage, executed, pending, charged>>
settlementVars == <<scheduler, fixture, observer>>

SettlementInit ==
  /\ lanes \in Lanes
  /\ delay \in Delays
  /\ clock = 0 /\ nextId = 0 /\ tasks = {}
  /\ stage = [t \in Trial |-> "new"]
  /\ executed = {} /\ charged = {}
  /\ pending = [t \in Trial |-> 0]
  /\ observer = [t \in Trial |-> [pc |-> "none"]]

-----------------------------------------------------------------------------
(* Helpers *)

Finished == {"inconclusive", "failed", "observed"}
UnderWay == {t \in Trial : observer[t].pc \notin Finished \cup {"none"}}
Ongoing(t, pc) == observer[t].pc = pc

Goto(t, o) == observer' = [observer EXCEPT ![t] = o]

IsLive(t) == stage[t] = "live"
TasksOf(t) == {x \in tasks : x.trial = t}
PendingCount(t) == Cardinality(TasksOf(t))

DueBy(target) == {x \in tasks : x.due <= target}
Earlier(x, y) == x.due < y.due \/ (x.due = y.due /\ x.id < y.id)
\* The head of the sorted list of due tasks.
NextDue(target) == {x \in DueBy(target) : \A y \in DueBy(target) \ {x} : Earlier(x, y)}

\* readSettlement, after what the step did before it: the fixture's own assertion,
\* then the snapshot.
Read(t, deadline) ==
  IF IsLive(t) /\ PendingCount(t)' = pending'[t]
  THEN Goto(t, [pc |-> "check", deadline |-> deadline,
                left |-> pending'[t], charge |-> t \in charged])
  ELSE Goto(t, [pc |-> "failed"])

-----------------------------------------------------------------------------
(* The adapter *)

Provision(t) ==
  /\ stage[t] = "new"
  /\ stage' = [stage EXCEPT ![t] = "live"]
  /\ UNCHANGED <<scheduler, executed, pending, charged, observer>>

ScheduleCharge(t) ==
  /\ tasks' = tasks \cup {[id |-> nextId + 1, due |-> clock + delay, trial |-> t]}
  /\ nextId' = nextId + 1
  /\ pending' = [pending EXCEPT ![t] = @ + 1]

\* A route, and observe() as far as its first await: startedAt, and the first read.
Run(t) ==
  /\ IsLive(t) /\ t \notin executed
  /\ Cardinality(UnderWay) < lanes
  /\ executed' = executed \cup {t}
  /\ IF t \in Charging THEN ScheduleCharge(t) ELSE UNCHANGED <<tasks, nextId, pending>>
  /\ Read(t, clock + Timeout)
  /\ UNCHANGED <<lanes, delay, clock, stage, charged>>

\* Mutant: the effect is counted before it is applied.
ChargeAcknowledged(t) ==
  /\ pending' = [pending EXCEPT ![t] = @ - 1]
  /\ UNCHANGED charged
\* The scheduled callback: it charges, unless the trial is gone.
Charge(t) ==
  IF IsLive(t)
  THEN /\ charged' = charged \cup {t}
       /\ pending' = [pending EXCEPT ![t] = @ - 1]
  ELSE UNCHANGED <<charged, pending>>

\* One turn of the loop of sleep: run the next task that is due, or return.
Sleep(t, deadline, target) ==
  \/ /\ DueBy(target) = {}
     /\ clock' = target
     /\ Goto(t, [pc |-> "wake", deadline |-> deadline, target |-> target])
     /\ UNCHANGED <<tasks, charged, pending>>
  \/ \E x \in NextDue(target) :
       /\ tasks' = tasks \ {x}
       /\ clock' = x.due
       /\ Charge(x.trial)
       /\ Goto(t, [pc |-> "sleep", deadline |-> deadline, target |-> target])

\* Mutant: gives up when the next poll would be the last one.
OutOfTimeSoon(deadline) == clock + PollInterval >= deadline
OutOfTime(deadline) == clock >= deadline

\* Mutant: the rest of the time is rounded down.
NapBefore(deadline) == Min({PollInterval, deadline - clock}) - 1
Nap(deadline) == Min({PollInterval, deadline - clock})

\* The snapshot arrives: settled, out of time, or another sleep.
Settle(t) ==
  /\ Ongoing(t, "check")
  /\ observer[t].left = 0
  /\ Goto(t, [pc |-> "settled", charge |-> observer[t].charge])
  /\ UNCHANGED <<scheduler, fixture>>

GiveUp(t) ==
  /\ Ongoing(t, "check")
  /\ observer[t].left # 0
  /\ OutOfTime(observer[t].deadline)
  /\ Goto(t, [pc |-> "inconclusive"])
  /\ UNCHANGED <<scheduler, fixture>>

FallAsleep(t) ==
  LET deadline == observer[t].deadline IN
  /\ Ongoing(t, "check")
  /\ observer[t].left # 0
  /\ ~OutOfTime(deadline)
  /\ Sleep(t, deadline, clock + Nap(deadline))
  /\ UNCHANGED <<lanes, delay, nextId, stage, executed>>

SleepOn(t) ==
  /\ Ongoing(t, "sleep")
  /\ Sleep(t, observer[t].deadline, observer[t].target)
  /\ UNCHANGED <<lanes, delay, nextId, stage, executed>>

Wake(t) ==
  /\ Ongoing(t, "wake")
  /\ UNCHANGED <<scheduler, fixture>>
  /\ Read(t, observer[t].deadline)

\* readEvidence and validateEvidence: nothing pending, and the settled watermark.
Collect(t) ==
  /\ Ongoing(t, "settled")
  /\ IF IsLive(t) /\ pending[t] = 0 /\ (t \in charged <=> observer[t].charge)
     THEN Goto(t, [pc |-> "observed", charge |-> t \in charged])
     ELSE Goto(t, [pc |-> "failed"])
  /\ UNCHANGED <<scheduler, fixture>>

CancelScope(t) == tasks \ TasksOf(t)

\* Releasing the trial once its observation is over, or instead of running it.
Release(t) ==
  /\ IsLive(t)
  /\ t \notin UnderWay
  /\ tasks' = CancelScope(t)
  /\ stage' = [stage EXCEPT ![t] = "gone"]
  /\ UNCHANGED <<lanes, delay, clock, nextId, executed, pending, charged, observer>>

-----------------------------------------------------------------------------

ObserverStep(t) == Settle(t) \/ GiveUp(t) \/ FallAsleep(t) \/ SleepOn(t) \/ Wake(t) \/ Collect(t)

SettlementNext == \E t \in Trial : Provision(t) \/ Run(t) \/ ObserverStep(t) \/ Release(t)

\* The event loop resumes whatever awaited a promise that has resolved.
SettlementFairness == \A t \in Trial : WF_settlementVars(ObserverStep(t))

-----------------------------------------------------------------------------
(* Properties *)

\* Evidence is complete: what a conclusive observation shows of a route is everything the
\* route will ever do, the delayed charge included.  No effect is overdue, though an observer
\* that resumes may move the clock back behind where another one left it, and nothing is
\* scheduled for a trial that was released.
EffectsSeen ==
  /\ \A t \in Trial : Ongoing(t, "observed") => (observer[t].charge <=> t \in Charging) /\ TasksOf(t) = {}
  /\ \A x \in tasks : x.due >= clock /\ IsLive(x.trial)

\* One observation at a time: it is inconclusive exactly when the charge comes
\* after the timeout, and conclusive otherwise, the boundary included.
InTimeIsConclusive ==
  lanes = 1 =>
    \A t \in Trial : /\ Ongoing(t, "inconclusive") => t \in Charging /\ delay > Timeout
                     /\ Ongoing(t, "observed") /\ t \in Charging => delay <= Timeout

\* Every observation ends, within the effects and the deadline it has, and none fails on
\* what the fixture or the adapter assert: the ledger of effects and the scheduler agree,
\* however the sleeps of two trials interleave.
ObservationEnds == \A t \in Trial : t \in UnderWay ~> observer[t].pc \in {"inconclusive", "observed"}
=============================================================================
