---------------------------- MODULE BoundaryAudit ----------------------------
(***************************************************************************)
(* The boundary auditor of src/src/boundary-audit.js: a plan is prepared   *)
(* by measuring the human route, reviewed by a human, and run once, the    *)
(* human and the agent route each in a trial of its own.  The target       *)
(* harness (leases) and the route runner (observations) are external: what *)
(* they do between two awaits of the code is the environment's choice.     *)
(* A plan and a run are identified by the call that makes them.            *)
(***************************************************************************)
EXTENDS BoundaryVerdict

CONSTANTS
  Plan,                     \* calls of prepare
  Run,                      \* calls of run
  Policy,                   \* the normalised invariants of recipes; None is "none given"
  Observation,              \* what a route runner may return
  Ttl,                      \* planTtlMs
  Attestor                  \* whether an attestor is configured, and answers

\* What the map of plans stores.
PlanRecord == [id : Plan, policy : Policy \cup {None}, expiresAt : Nat,
               evidence : {o.trusted : o \in Observation}]

\* The absent value is none of those it stands in for.
ASSUME BoundaryAssumption ==
  /\ Ttl \in Nat
  /\ Attestor \in BOOLEAN
  /\ None \notin Observation
  /\ None \notin PlanRecord
  /\ \A o \in Observation : IsEvidence(o.trusted)

VARIABLES
  now,
  prepare,                  \* where each call of prepare stands
  plans,                    \* the map of prepared plans
  call,                     \* where each call of run stands
  live,                     \* leases that the harness has not got back
  bundle,                   \* the evidence bundle each run returned
  stuck,                    \* history: leases whose release failed
  acted                     \* history: the runs that started a plan's agent route

vars == <<now, prepare, plans, call, live, bundle, stuck, acted>>

PrepareStage == {"new", "human", "releasing", "returned", "threw"}

CallStage == {"new", "provisioning human", "provisioning agent", "human", "agent",
              "releasing", "concluding", "returned", "threw"}

PrepareCall == [stage : PrepareStage, policy : Policy \cup {None},
                observed : Observation \cup {None}]

RunCall == [stage : CallStage, plan : PlanRecord \cup {None}, seeded : BOOLEAN, thrown : BOOLEAN,
            human : Observation \cup {None}, agent : Observation \cup {None}]

Init ==
  /\ now = 0
  /\ prepare = [p \in Plan |-> [stage |-> "new", policy |-> None, observed |-> None]]
  /\ plans = [p \in Plan |-> None]
  /\ call = [r \in Run |-> [stage |-> "new", plan |-> None, seeded |-> TRUE, thrown |-> FALSE,
                            human |-> None, agent |-> None]]
  /\ live = {}
  /\ bundle = [r \in Run |-> None]
  /\ stuck = {}
  /\ acted = [p \in Plan |-> {}]

\* The leases among S are given back, except those whose release fails.
Release(S, failed) ==
  /\ live' = live \ (S \ failed)
  /\ stuck' = stuck \cup failed

-----------------------------------------------------------------------------
(* prepare *)

Trial(p) == <<p, "prepare-human">>

\* The target is established and a trial provisioned; a failure of either leaves nothing.
Prepare(p, policy) ==
  /\ prepare[p].stage = "new"
  /\ \/ /\ prepare' = [prepare EXCEPT ![p].stage = "human", ![p].policy = policy]
        /\ live' = live \cup {Trial(p)}
     \/ /\ prepare' = [prepare EXCEPT ![p].stage = "threw"]
        /\ UNCHANGED live
  /\ UNCHANGED <<now, plans, call, bundle, stuck, acted>>

\* The human route has been measured, or it threw or returned no canonical observation (None).
MeasureBaseline(p, observed) ==
  /\ prepare[p].stage = "human"
  /\ prepare' = [prepare EXCEPT ![p].stage = "releasing", ![p].observed = observed]
  /\ UNCHANGED <<now, plans, call, live, bundle, stuck, acted>>

NewPlan(p) == [id |-> p, policy |-> prepare[p].policy, expiresAt |-> now + Ttl,
               evidence |-> prepare[p].observed.trusted]

\* The release in the finally block decides whether the plan is stored at all.
FinishPrepare(p) ==
  /\ prepare[p].stage = "releasing"
  /\ \E failed \in SUBSET {Trial(p)} :
       LET stored == failed = {} /\ prepare[p].observed # None
       IN /\ Release({Trial(p)}, failed)
          /\ prepare' = [prepare EXCEPT ![p].stage = IF stored THEN "returned" ELSE "threw"]
          /\ plans' = IF stored THEN [plans EXCEPT ![p] = NewPlan(p)] ELSE plans
  /\ UNCHANGED <<now, call, bundle, acted>>

-----------------------------------------------------------------------------
(* run *)

Expired(p) == now > plans[p].expiresAt

Throws(r) == call' = [call EXCEPT ![r].stage = "threw", ![r].thrown = TRUE]

\* An unknown plan, or an approval that is not the exact plan's, changes nothing.
Refuse(r, p) ==
  /\ call[r].stage = "new"
  /\ plans[p] # None => ~Expired(p)
  /\ Throws(r)
  /\ UNCHANGED <<now, prepare, plans, live, bundle, stuck, acted>>

Lapse(r, p) ==
  /\ call[r].stage = "new"
  /\ plans[p] # None
  /\ Expired(p)
  /\ plans' = [plans EXCEPT ![p] = None]
  /\ Throws(r)
  /\ UNCHANGED <<now, prepare, live, bundle, stuck, acted>>

\* The plan is deleted before the first await: a second run does not find it.
Consume(r, p) ==
  /\ call[r].stage = "new"
  /\ plans[p] # None
  /\ ~Expired(p)
  /\ plans' = [plans EXCEPT ![p] = None]
  /\ call' = [call EXCEPT ![r].stage = "provisioning human", ![r].plan = plans[p]]
  /\ UNCHANGED <<now, prepare, live, bundle, stuck, acted>>

\* Mutant: provisioning and routes outside the try block.
AbandonAtOnce(r) == Throws(r)

\* Whatever happens next, the finally block releases what was leased.
Abandon(r) == call' = [call EXCEPT ![r].stage = "releasing", ![r].thrown = TRUE]

Human(r) == <<r, "human">>
Agent(r) == <<r, "agent">>

Held(r) == live \cap {Human(r), Agent(r)}

\* The trial has the approved seed, or another one.
ProvisionHuman(r) ==
  /\ call[r].stage = "provisioning human"
  /\ \/ /\ \E right \in BOOLEAN :
             call' = [call EXCEPT ![r].stage = "provisioning agent", ![r].seeded = right]
        /\ live' = live \cup {Human(r)}
     \/ Abandon(r) /\ UNCHANGED live
  /\ UNCHANGED <<now, prepare, plans, bundle, stuck, acted>>

\* With a wrong seed on either side no route runs.
ProvisionAgent(r) ==
  /\ call[r].stage = "provisioning agent"
  /\ \/ /\ \E right \in BOOLEAN :
             LET seeded == call[r].seeded /\ right
             IN call' = [call EXCEPT ![r].seeded = seeded,
                                     ![r].stage = IF seeded THEN "human" ELSE "releasing"]
        /\ live' = live \cup {Agent(r)}
     \/ Abandon(r) /\ UNCHANGED live
  /\ UNCHANGED <<now, prepare, plans, bundle, stuck, acted>>

\* The human route has returned, and the agent route is started in the same turn.
RunAgent(r, observed) ==
  /\ call[r].stage = "human"
  /\ call' = [call EXCEPT ![r].stage = "agent", ![r].human = observed]
  /\ acted' = [acted EXCEPT ![call[r].plan.id] = @ \cup {r}]
  /\ UNCHANGED <<now, prepare, plans, live, bundle, stuck>>

AgentReturns(r, observed) ==
  /\ call[r].stage = "agent"
  /\ call' = [call EXCEPT ![r].stage = "releasing", ![r].agent = observed]
  /\ UNCHANGED <<now, prepare, plans, live, bundle, stuck, acted>>

RouteThrows(r) ==
  /\ call[r].stage \in {"human", "agent"}
  /\ Abandon(r)
  /\ UNCHANGED <<now, prepare, plans, live, bundle, stuck, acted>>

\* Both releases are awaited, whether or not one of them fails; a failure is thrown.
ReleaseTargets(r) ==
  /\ call[r].stage = "releasing"
  /\ \E failed \in SUBSET Held(r) :
       /\ Release(Held(r), failed)
       /\ IF failed # {} \/ call[r].thrown THEN Throws(r)
          ELSE call' = [call EXCEPT ![r].stage = "concluding"]
  /\ UNCHANGED <<now, prepare, plans, bundle, acted>>

\* Mutant: the auditor does not wait for settlement, its verifier does.
JudgeUnsettled(c) ==
  IF ~c.seeded THEN SeedMismatch
  ELSE RouteParity(c.plan.evidence, c.human, c.agent, c.plan.evidence, None, c.plan.id)

Judge(c) ==
  IF ~c.seeded THEN SeedMismatch
  ELSE RouteParity(c.plan.evidence, c.human, c.agent, c.plan.evidence, c.plan.policy, c.plan.id)

Events(observation) == IF observation = None THEN NothingObserved ELSE observation

\* buildResult, with the attestor's proof when there is one to be had.
Result(c) ==
  LET parity == Judge(c)
      safety == BaselineSafety(c.plan.evidence, c.plan.policy)
      verdict == Combined(parity, safety)
      eligible == AttestationEligible(verdict, Events(c.human).trusted, Events(c.agent).trusted)
  IN [binding |-> c.plan.id, baseline |-> c.plan.evidence, policy |-> c.plan.policy,
      human |-> Events(c.human), agent |-> Events(c.agent),
      parity |-> parity, safety |-> safety, verdict |-> verdict,
      eligible |-> eligible, signed |-> eligible /\ Attestor]

\* The attestor may throw; then nothing is returned.
Conclude(r) ==
  /\ call[r].stage = "concluding"
  /\ \/ /\ bundle' = [bundle EXCEPT ![r] = Result(call[r])]
        /\ call' = [call EXCEPT ![r].stage = "returned"]
     \/ /\ Result(call[r]).signed
        /\ Throws(r)
        /\ UNCHANGED bundle
  /\ UNCHANGED <<now, prepare, plans, live, stuck, acted>>

-----------------------------------------------------------------------------
\* The clock matters while a plan waits, and no longer than it takes to expire.
Tick ==
  /\ \E p \in Plan : plans[p] # None /\ ~Expired(p)
  /\ now' = now + 1
  /\ UNCHANGED <<prepare, plans, call, live, bundle, stuck, acted>>

Next ==
  \/ Tick
  \/ \E p \in Plan :
       \/ \E policy \in Policy : Prepare(p, policy)
       \/ \E o \in Observation \cup {None} : MeasureBaseline(p, o)
       \/ FinishPrepare(p)
  \/ \E r \in Run :
       \/ \E p \in Plan : Refuse(r, p) \/ Lapse(r, p) \/ Consume(r, p)
       \/ ProvisionHuman(r) \/ ProvisionAgent(r)
       \/ \E o \in Observation : RunAgent(r, o) \/ AgentReturns(r, o)
       \/ RouteThrows(r) \/ ReleaseTargets(r) \/ Conclude(r)

Spec == Init /\ [][Next]_vars

-----------------------------------------------------------------------------
(* Properties *)

TypeOK ==
  /\ now \in Nat
  /\ prepare \in [Plan -> PrepareCall]
  /\ plans \in [Plan -> PlanRecord \cup {None}]
  /\ call \in [Run -> RunCall]
  /\ stuck \subseteq live
  /\ live \subseteq (Plan \X {"prepare-human"}) \cup (Run \X {"human", "agent"})
  /\ DOMAIN bundle = Run
  /\ acted \in [Plan -> SUBSET Run]

\* Every lease is given back on every path out of prepare and run: what the harness
\* still has out belongs to a call under way, or its own release failed, and then
\* the call produced neither a plan nor a bundle.
LeasesAccountedFor ==
  /\ \A p \in Plan :
       Trial(p) \in live => \/ prepare[p].stage \in {"human", "releasing"}
                            \/ Trial(p) \in stuck /\ plans[p] = None
  /\ \A r \in Run : \A lease \in Held(r) :
       \/ call[r].stage \in CallStage \ {"new", "concluding", "returned", "threw"}
       \/ lease \in stuck /\ call[r].stage = "threw" /\ bundle[r] = None

ApprovedEarlier(b, i) ==
  \E j \in Approvals(b.agent.trusted) :
    j < i /\ At(b.agent.trusted[j].payload, "binding") = b.binding

Faithful(b) ==
  LET done == b.agent.trusted
      pairs == Paired(Effects(Payloads(b.baseline)), Effects(Payloads(done)))
  IN /\ Cardinality(Effects(Payloads(b.baseline))) = Cardinality(Effects(Payloads(done)))
     /\ \A pair \in pairs :
          LET left == b.baseline[pair[1]].payload
              right == done[pair[2]].payload
          IN /\ left.kind = right.kind
             /\ \A field \in {"owner", "identity", "after", "requests"} :
                  At(left, field) = At(right, field)
             /\ Amount(left) = Amount(right)
     /\ OfKind(Payloads(b.baseline), "approval") # {} =>
          \A i \in DOMAIN done : SafetyConsequential(done[i]) => ApprovedEarlier(b, i)

\* When parity passes, whatever the agent did has its counterpart in what the human saw
\* and approved: the same kinds in the same order, on the same resources of the same
\* owners, for the same amounts, and, where the reviewed route needed an approval, no
\* consequence without an approval of exactly this plan before it.
PassIsFaithful ==
  \A r \in Run : bundle[r] # None /\ bundle[r].parity.status = "pass" => Faithful(bundle[r])

\* A signature is put under evidence of both routes only, after both trials were given
\* back, for one run of a plan, and when there is something to sign: the agent was
\* compared with an unchanged baseline, or the reviewed baseline itself is unsafe.
SignedIsEarned ==
  \A r \in Run :
    LET b == bundle[r]
    IN b # None /\ b.signed =>
         /\ Held(r) = {}
         /\ Outcomes(b.human.trusted) # {} /\ Outcomes(b.agent.trusted) # {}
         /\ \/ b.parity.status \in {"pass", "fail"} /\ b.human.trusted = b.baseline
            \/ b.safety.status = "fail"
         /\ \A s \in Run \ {r} : bundle[s] # None => bundle[s].binding # b.binding

\* The verifier derives what the auditor concluded, for every bundle of a decisive
\* comparison, and for every bundle at all when no human route recorded an approval.
DecisiveBundlesVerify ==
  \A r \in Run :
    LET b == bundle[r]
        recorded(evidence) == OfKind(Payloads(evidence), "approval") # {}
    IN /\ b # None
       /\ b.parity.status = "inconclusive" => ~recorded(b.baseline) /\ ~recorded(b.human.trusted)
       => Verifies(b)

\* What the tests say of inconclusive audits (test/boundary-audit.test.js:614 and :694):
\* their bundles verify.
InconclusiveBundlesVerify ==
  \A r \in Run : bundle[r] # None /\ bundle[r].parity.status = "inconclusive" => Verifies(bundle[r])

\* What test/boundary-audit.test.js:797 says: "before-after state values are compared
\* exactly", so that routes at parity change the same values to the same values.
StateComparedExactly ==
  \A r \in Run : bundle[r] # None /\ bundle[r].parity.status = "pass" =>
    LET reviewed == Payloads(bundle[r].baseline)
        done == Payloads(bundle[r].agent.trusted)
    IN \A pair \in Paired(Effects(reviewed), Effects(done)) :
         reviewed[pair[1]].kind = "state" =>
           /\ Before(reviewed[pair[1]]) = Before(done[pair[2]])
           /\ After(reviewed[pair[1]]) = After(done[pair[2]])

-----------------------------------------------------------------------------
(* A plan is a one-shot authority: stored when its baseline has been measured, refused *)
(* when it lapses, authorised when a run consumes it, performed by its agent route.    *)

Consumers(p) == {r \in Run : call[r].plan # None /\ call[r].plan.id = p}

PlanPhase(p) ==
  CASE prepare[p].stage # "returned" -> "new"
    [] prepare[p].stage = "returned" /\ plans[p] # None -> "waiting"
    [] OTHER -> IF Consumers(p) = {} THEN "refused"
                ELSE IF \E r \in Consumers(p) : call[r].stage \notin {"returned", "threw"}
                THEN "authorised" ELSE "closed"

Authority == INSTANCE OneShot WITH
  Job <- Plan,
  phase <- [p \in Plan |-> PlanPhase(p)],
  performed <- [p \in Plan |-> Cardinality(acted[p])]

ImplementsOneShot == Authority!Spec

-----------------------------------------------------------------------------
(* The inductive invariant of the proofs *)

\* The map holds a plan under its own id, from the end of its preparation on.
PlanInv ==
  \A p \in Plan : plans[p] # None => prepare[p].stage = "returned" /\ plans[p].id = p

\* A plan that a run works on has left the map for good, and nobody else works on it.
ConsumedInv ==
  \A r \in Run : LET mine == call[r].plan IN
    IF mine = None THEN call[r].stage \in {"new", "threw"}
    ELSE /\ call[r].stage # "new"
         /\ plans[mine.id] = None
         /\ prepare[mine.id].stage = "returned"
         /\ \A s \in Run \ {r} : call[s].plan # None => call[s].plan.id # mine.id

ActedInv ==
  \A p \in Plan : \A r \in acted[p] :
    /\ call[r].plan # None /\ call[r].plan.id = p
    /\ call[r].stage \in {"agent", "releasing", "concluding", "returned", "threw"}

\* A lease is stuck because its call threw.
StuckInv ==
  /\ \A p \in Plan : Trial(p) \in stuck => prepare[p].stage = "threw"
  /\ \A r \in Run : Human(r) \in stuck \/ Agent(r) \in stuck => call[r].stage = "threw"

\* Leases that are not stuck belong to calls under way.
LeaseInv ==
  /\ \A p \in Plan : Trial(p) \in live \ stuck <=> prepare[p].stage \in {"human", "releasing"}
  /\ \A r \in Run : Human(r) \in live \ stuck \/ Agent(r) \in live \ stuck =>
       call[r].stage \in {"provisioning agent", "human", "agent", "releasing"}

Judged(c) == c.stage \in {"concluding", "returned"} \/ (c.stage = "releasing" /\ ~c.thrown)

\* Routes run on the approved seed only; what is judged then was observed.
ObservedInv ==
  \A r \in Run : LET c == call[r] IN
    /\ c.stage \in {"new", "provisioning human", "provisioning agent"} \/ ~c.seeded =>
         c.human = None /\ c.agent = None
    /\ c.stage \in {"human", "agent"} => c.seeded
    /\ c.stage = "agent" => c.human # None
    /\ Judged(c) /\ c.seeded => c.human # None /\ c.agent # None

BundleInv ==
  bundle = [r \in Run |-> IF call[r].stage = "returned" THEN Result(call[r]) ELSE None]

IInv ==
  /\ TypeOK
  /\ PlanInv
  /\ ConsumedInv
  /\ ActedInv
  /\ StuckInv
  /\ LeaseInv
  /\ ObservedInv
  /\ BundleInv
=============================================================================
