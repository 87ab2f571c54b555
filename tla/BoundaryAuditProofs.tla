------------------------- MODULE BoundaryAuditProofs -------------------------
(***************************************************************************)
(* For any number of plans and runs, any evidence and any failures: what   *)
(* no finding between two routes means, leases are accounted for, a pass   *)
(* and a signature mean what they say, the verifier agrees with decisive   *)
(* audits, and a plan is a one-shot authority.                             *)
(***************************************************************************)
EXTENDS BoundaryAudit, WellFoundedInduction, FiniteSetTheorems, TLAPS

-----------------------------------------------------------------------------
(* The verdict, for any evidence *)

-----------------------------------------------------------------------------
(* Least positions *)

\* A set of positions has a least one.
LEMMA LeastExists ==
  ASSUME NEW S, S \subseteq Nat, S # {}
  PROVE  \E i \in S : \A j \in S : i <= j
<1>1. ASSUME NEW R, IsWellFoundedOn(R, Nat), \A i, j \in Nat : j < i => <<j, i>> \in R
      PROVE  \E i \in S : \A j \in S : i <= j
  <2>1. PICK i \in S : \A j \in S : ~(<<j, i>> \in R)
    BY <1>1, WFMin
  <2>2. \A j \in S : ~(j < i)
    BY <1>1, <2>1, Zenon
  <2>3. i \in Nat /\ \A j \in S : j \in Nat
    BY Zenon
  <2> QED
    BY <2>2, <2>3
<1>2. \A i, j \in Nat : j < i => <<j, i>> \in OpToRel(<, Nat)
  BY DEF OpToRel
<1> QED
  BY <1>1, <1>2, NatLessThanWellFounded, Zenon

\* First is what its name says.
LEMMA FirstIsLeast ==
  ASSUME NEW S, S \subseteq Nat, S # {}
  PROVE  First(S) \in S /\ \A j \in S : First(S) <= j
  BY LeastExists DEF First

-----------------------------------------------------------------------------
(* Two effects without a finding *)

\* Payloads that agree outside some fields agree in every other field.
LEMMA DropKeeps ==
  ASSUME NEW left, NEW right, NEW fields, Drop(left, fields) = Drop(right, fields),
         NEW field, field \notin fields
  PROVE  /\ At(left, field) = At(right, field)
         /\ field \in DOMAIN left => left[field] = right[field]
<1> DEFINE a == Drop(left, fields)
           b == Drop(right, fields)
<1>1. /\ DOMAIN a = DOMAIN left \ fields /\ \A f \in DOMAIN left \ fields : a[f] = left[f]
      /\ DOMAIN b = DOMAIN right \ fields /\ \A f \in DOMAIN right \ fields : b[f] = right[f]
  BY DEF Drop
<1>2. a = b
  OBVIOUS
<1> HIDE DEF a, b
<1> QED
  BY <1>1, <1>2 DEF At

\* removeComparedValues keeps the kind, so that effects of two kinds always differ.
LEMMA RemainderKeepsKind ==
  ASSUME NEW left, NEW right, "kind" \in DOMAIN left, Remainder(left) = Remainder(right)
  PROVE  left.kind = right.kind
<1>1. ASSUME NEW p
      PROVE  /\ "kind" \in DOMAIN Remainder(p) <=> "kind" \in DOMAIN p
             /\ "kind" \in DOMAIN p => Remainder(p)["kind"] = p["kind"]
  BY DEF Remainder, Drop
<1> QED
  BY <1>1

\* Two effects without a finding agree in all that the contract is about.
LEMMA SameEffect ==
  ASSUME NEW left, NEW right, "kind" \in DOMAIN left, "kind" \in DOMAIN right,
         ComparisonFindings(left, right) = {}
  PROVE  /\ left.kind = right.kind
         /\ \A field \in {"owner", "identity", "after", "requests"} : At(left, field) = At(right, field)
         /\ Amount(left) = Amount(right)
<1> DEFINE kinds == {left.kind, right.kind}
<1>1. CASE kinds = {"execution_proof"}
  <2>1. Drop(left, {"transport"}) = Drop(right, {"transport"})
    BY <1>1 DEF ComparisonFindings, When
  <2>2. \A field : field \notin {"transport"} => At(left, field) = At(right, field)
    BY <2>1, DropKeeps
  <2>3. left.kind = right.kind
    BY <1>1
  <2> QED
    BY <2>2, <2>3 DEF Amount, Either
<1>2. CASE /\ kinds # {"execution_proof"}
           /\ ~(kinds = {"network"} /\ left # right)
           /\ ~(kinds = {"ui"} /\ left # right)
  <2>1. /\ At(left, "owner") = At(right, "owner")
        /\ At(left, "identity") = At(right, "identity")
        /\ Amount(left) = Amount(right)
        /\ left.kind = "state" => StateValues(left) = StateValues(right)
        /\ Remainder(left) = Remainder(right)
    BY <1>2 DEF ComparisonFindings, When
  <2>2. left.kind = right.kind
    BY <2>1, RemainderKeepsKind
  <2> DEFINE fields == {"owner", "identity", "amount", "amountAfter"} \cup
                       IF left.kind = "state" THEN {"before", "after", "priorAmount"} ELSE {}
  <2>3. Drop(left, fields) = Drop(right, fields)
    BY <2>1, <2>2 DEF Remainder
  <2>4. At(left, "requests") = At(right, "requests")
    BY <2>3, DropKeeps
  <2>5. At(left, "after") = At(right, "after")
    <3>1. CASE left.kind = "state"
      BY <2>1, <3>1 DEF StateValues
    <3>2. CASE left.kind # "state"
      BY <2>3, <3>2, DropKeeps
    <3> QED
      BY <3>1, <3>2
  <2> QED
    BY <2>1, <2>2, <2>4, <2>5
<1> QED
  BY <1>1, <1>2 DEF ComparisonFindings

-----------------------------------------------------------------------------
(* Two routes without a finding *)

\* Approvals are not consequences.
LEMMA ApprovalIsNoEffect ==
  ASSUME NEW evidence, NEW i \in Approvals(evidence)
  PROVE  ~SafetyConsequential(evidence[i])
  BY DEF Approvals, ServerOfKind, Server, SafetyConsequential, Consequential

\* Without a finding about approvals, every consequence follows an approval of this plan.
LEMMA ApprovedBefore ==
  ASSUME NEW evidence, IsEvidence(evidence), NEW binding,
         ApprovalFindings(evidence, binding) = {},
         NEW i \in DOMAIN evidence, SafetyConsequential(evidence[i])
  PROVE  \E j \in Approvals(evidence) :
           j < i /\ At(evidence[j].payload, "binding") = binding
<1> DEFINE approvals == Approvals(evidence)
           effects == {k \in DOMAIN evidence : SafetyConsequential(evidence[k])}
           j == First(approvals)
<1>1. approvals # {} /\ approvals \subseteq Nat
  BY DEF ApprovalFindings, Approvals, ServerOfKind, Server, IsEvidence
<1>2. j \in approvals /\ j \in Nat
  BY <1>1, FirstIsLeast
<1>3. i \in effects /\ effects \subseteq Nat
  BY DEF IsEvidence
<1>4. First(effects) \in Nat /\ First(effects) <= i
  BY <1>3, FirstIsLeast
<1>5. /\ ~(j > First(effects))
      /\ At(evidence[j].payload, "binding") = binding
  BY <1>1, <1>3 DEF ApprovalFindings, When
<1>6. j # i
  BY <1>2, ApprovalIsNoEffect
<1> HIDE DEF approvals, effects, j
<1>7. j < i
  BY <1>2, <1>3, <1>4, <1>5, <1>6
<1> QED
  BY <1>2, <1>5, <1>7 DEF approvals

\* What CompareEffects finding nothing says about the two routes.
LEMMA NothingFound ==
  ASSUME NEW prepared, NEW done, IsEvidence(prepared), IsEvidence(done), NEW binding,
         CompareEffects(Payloads(prepared), done, binding) = {}
  PROVE  LET pairs == Paired(Effects(Payloads(prepared)), Effects(Payloads(done)))
         IN /\ Cardinality(Effects(Payloads(prepared))) = Cardinality(Effects(Payloads(done)))
            /\ \A pair \in pairs :
                 LET left == prepared[pair[1]].payload
                     right == done[pair[2]].payload
                 IN /\ left.kind = right.kind
                    /\ \A field \in {"owner", "identity", "after", "requests"} :
                         At(left, field) = At(right, field)
                    /\ Amount(left) = Amount(right)
            /\ OfKind(Payloads(prepared), "approval") # {} =>
                 \A i \in DOMAIN done : SafetyConsequential(done[i]) =>
                   \E j \in Approvals(done) :
                     j < i /\ At(done[j].payload, "binding") = binding
<1> DEFINE expected == Payloads(prepared)
           actual == Payloads(done)
           pairs == Paired(Effects(expected), Effects(actual))
<1>1. /\ OfKind(expected, "approval") # {} => ApprovalFindings(done, binding) = {}
      /\ PairFindings(expected, actual) = {}
  BY DEF CompareEffects
<1>2. Cardinality(Effects(expected)) = Cardinality(Effects(actual))
  BY <1>1 DEF PairFindings
<1>3. \A pair \in pairs : ComparisonFindings(expected[pair[1]], actual[pair[2]]) = {}
  BY <1>1, <1>2 DEF PairFindings
<1>4. ASSUME NEW pair \in pairs
      PROVE  /\ expected[pair[1]] = prepared[pair[1]].payload /\ "kind" \in DOMAIN prepared[pair[1]].payload
             /\ actual[pair[2]] = done[pair[2]].payload /\ "kind" \in DOMAIN done[pair[2]].payload
  <2>1. pair[1] \in DOMAIN prepared /\ pair[2] \in DOMAIN done
    BY DEF Paired, Effects, Payloads
  <2> QED
    BY <2>1 DEF Payloads, IsEvidence
<1>5. \A pair \in pairs :
        LET left == prepared[pair[1]].payload
            right == done[pair[2]].payload
        IN /\ left.kind = right.kind
           /\ \A field \in {"owner", "identity", "after", "requests"} : At(left, field) = At(right, field)
           /\ Amount(left) = Amount(right)
  BY <1>3, <1>4, SameEffect
<1>6. OfKind(expected, "approval") # {} =>
        \A i \in DOMAIN done : SafetyConsequential(done[i]) =>
          \E j \in Approvals(done) : j < i /\ At(done[j].payload, "binding") = binding
  BY <1>1, ApprovedBefore
<1> QED
  BY <1>2, <1>5, <1>6

-----------------------------------------------------------------------------
(* The verdict *)

\* Two layers with different statuses, or different findings, are different.
LEMMA LayerFields == \A status, findings : /\ Layer(status, findings).status = status
                                           /\ Layer(status, findings).findings = findings
  BY DEF Layer

\* The comparison is reached with an unchanged baseline only, and is what decides.
LEMMA DecisiveIsCompared ==
  ASSUME NEW prepared, NEW human, NEW agent, NEW asked, NEW policy, NEW binding
  PROVE  LET parity == RouteParity(prepared, human, agent, asked, policy, binding)
         IN /\ parity.status \in {"pass", "fail", "inconclusive"}
            /\ parity.status # "inconclusive" =>
                 human.trusted = prepared /\ parity = Compared(prepared, agent.trusted, binding)
            /\ parity # SeedMismatch
<1>1. \A code : Inconclusive(code).status = "inconclusive" /\ Inconclusive(code).findings = {code}
  BY LayerFields DEF Inconclusive
<1>2. LET compared == Compared(prepared, agent.trusted, binding)
      IN compared.status \in {"pass", "fail"}
  BY LayerFields DEF Compared
<1>3. SeedMismatch.status = "inconclusive" /\ SeedMismatch.findings = {"seed_mismatch"}
  BY <1>1 DEF SeedMismatch
<1> DEFINE parity == RouteParity(prepared, human, agent, asked, policy, binding)
           codes == {"page_assertions_untrusted", "trusted_evidence_missing",
                     "effect_settlement_incomplete", "authoritative_evidence_missing",
                     "browser_execution_proof_incomplete", "human_baseline_changed"}
<1>4. \/ \E code \in codes : parity = Inconclusive(code)
      \/ human.trusted = prepared /\ parity = Compared(prepared, agent.trusted, binding)
  BY DEF RouteParity
<1> HIDE DEF parity
<1>5. /\ parity.status \in {"pass", "fail", "inconclusive"}
      /\ parity.status # "inconclusive" =>
           human.trusted = prepared /\ parity = Compared(prepared, agent.trusted, binding)
      /\ parity # SeedMismatch
  <2>1. CASE \E code \in codes : parity = Inconclusive(code)
    BY <1>1, <1>3, <2>1
  <2>2. CASE human.trusted = prepared /\ parity = Compared(prepared, agent.trusted, binding)
    BY <1>2, <1>3, <2>2
  <2> QED
    BY <1>4, <2>1, <2>2
<1> QED
  BY <1>5 DEF parity

\* A pass is a comparison without a finding.
LEMMA PassFoundNothing ==
  ASSUME NEW prepared, NEW human, NEW agent, NEW asked, NEW policy, NEW binding,
         RouteParity(prepared, human, agent, asked, policy, binding).status = "pass"
  PROVE  CompareEffects(Payloads(prepared), agent.trusted, binding) = {}
<1>1. Compared(prepared, agent.trusted, binding).status = "pass"
  BY DecisiveIsCompared
<1> QED
  BY <1>1, LayerFields DEF Compared

\* Asking one human observation or the other makes no difference to a decisive
\* comparison, nor when neither has an approval.
LEMMA EitherHumanAsked ==
  ASSUME NEW prepared, NEW human, NEW agent, NEW policy, NEW binding,
         \/ RouteParity(prepared, human, agent, prepared, policy, binding).status # "inconclusive"
         \/ /\ OfKind(Payloads(prepared), "approval") = {}
            /\ OfKind(Payloads(human.trusted), "approval") = {}
  PROVE  RouteParity(prepared, human, agent, prepared, policy, binding) =
           RouteParity(prepared, human, agent, human.trusted, policy, binding)
<1>1. CASE human.trusted = prepared
  BY <1>1
<1>2. CASE /\ OfKind(Payloads(prepared), "approval") = {}
           /\ OfKind(Payloads(human.trusted), "approval") = {}
  <2>1. /\ ~ApprovalEvidenceMissing(prepared, agent.trusted)
        /\ ~ApprovalEvidenceMissing(human.trusted, agent.trusted)
    BY <1>2 DEF ApprovalEvidenceMissing
  <2> QED
    BY <2>1 DEF RouteParity
<1> QED
  BY <1>1, <1>2, DecisiveIsCompared

\* What can be signed is covered, and decided by one of the two layers.
LEMMA EligibleIsDecided ==
  ASSUME NEW parity, NEW safety, NEW human, NEW agent,
         parity.status \in {"pass", "fail", "inconclusive"},
         AttestationEligible(Combined(parity, safety), human, agent)
  PROVE  /\ Outcomes(human) # {} /\ Outcomes(agent) # {}
         /\ parity.status \in {"pass", "fail"} \/ safety.status = "fail"
<1>1. Combined(parity, safety).status # "inconclusive" /\ CoverageComplete(human, agent)
  BY DEF AttestationEligible
<1>2. parity.status \in {"pass", "fail"} \/ safety.status = "fail"
  BY <1>1, LayerFields DEF Combined
<1> QED
  BY <1>1, <1>2 DEF CoverageComplete, AuthoritativeComplete

-----------------------------------------------------------------------------
(* The audit, step by step *)

-----------------------------------------------------------------------------
(* Typing *)

\* Only the record of run r is replaced.
OnlyCall(r) ==
  /\ call' \in [Run -> RunCall]
  /\ \A s \in Run \ {r} : call'[s] = call[s]

\* Run r goes to another stage, and no more.
MovesTo(r, stage, thrown) ==
  /\ OnlyCall(r)
  /\ call'[r].stage = stage
  /\ call'[r].thrown = thrown
  /\ call'[r].plan = call[r].plan
  /\ call'[r].seeded = call[r].seeded
  /\ call'[r].human = call[r].human
  /\ call'[r].agent = call[r].agent

\* Its record is replaced.
LEMMA Replaced ==
  ASSUME TypeOK, NEW r \in Run, NEW new \in RunCall, call' = [call EXCEPT ![r] = new]
  PROVE  OnlyCall(r) /\ call'[r] = new
  BY DEF TypeOK, OnlyCall

\* A new stage and nothing else.
LEMMA StageMoves ==
  ASSUME TypeOK, NEW r \in Run, NEW stage \in CallStage, call' = [call EXCEPT ![r].stage = stage]
  PROVE  MovesTo(r, stage, call[r].thrown)
<1> DEFINE new == [call[r] EXCEPT !.stage = stage]
<1>1. new \in RunCall
  BY DEF TypeOK, RunCall
<1> QED
  BY <1>1, Replaced DEF MovesTo, OnlyCall, TypeOK, RunCall

\* What the steps that fail do.
LEMMA FailureMoves ==
  ASSUME TypeOK, NEW r \in Run
  PROVE  /\ Throws(r) => MovesTo(r, "threw", TRUE)
         /\ Abandon(r) => MovesTo(r, "releasing", TRUE)
<1>1. ASSUME NEW stage \in CallStage,
              call' = [call EXCEPT ![r].stage = stage, ![r].thrown = TRUE]
      PROVE  MovesTo(r, stage, TRUE)
  <2> DEFINE new == [call[r] EXCEPT !.stage = stage, !.thrown = TRUE]
  <2>0. call[r] \in RunCall
    BY DEF TypeOK
  <2>1. new \in RunCall
    BY <2>0 DEF RunCall
  <2>2. call' = [call EXCEPT ![r] = new]
    BY <1>1 DEF TypeOK, RunCall
  <2> QED
    BY <2>1, <2>2, Replaced DEF MovesTo, OnlyCall, TypeOK, RunCall
<1> QED
  BY <1>1 DEF Throws, Abandon, CallStage

\* A run takes its plan out of the map.
LEMMA ConsumeMoves ==
  ASSUME TypeOK, NEW r \in Run, NEW p \in Plan, Consume(r, p)
  PROVE  /\ plans[p] \in PlanRecord
         /\ plans' \in [Plan -> PlanRecord \cup {None}] /\ plans'[p] = None
         /\ \A q \in Plan \ {p} : plans'[q] = plans[q]
         /\ OnlyCall(r)
         /\ call'[r].stage = "provisioning human" /\ call'[r].plan = plans[p]
         /\ call'[r].seeded = call[r].seeded /\ call'[r].thrown = call[r].thrown
         /\ call'[r].human = call[r].human /\ call'[r].agent = call[r].agent
<1> DEFINE new == [call[r] EXCEPT !.stage = "provisioning human", !.plan = plans[p]]
<1>1. plans[p] \in PlanRecord
  BY DEF Consume, TypeOK
<1>0. call[r] \in RunCall
  BY DEF TypeOK
<1>2. new \in RunCall
  BY <1>0, <1>1 DEF RunCall, CallStage
<1>3. call' = [call EXCEPT ![r] = new]
  BY <1>0 DEF Consume, TypeOK, RunCall
<1>4. /\ new.stage = "provisioning human" /\ new.plan = plans[p]
      /\ new.seeded = call[r].seeded /\ new.thrown = call[r].thrown
      /\ new.human = call[r].human /\ new.agent = call[r].agent
  BY <1>0 DEF RunCall
<1> HIDE DEF new
<1>5. plans' = [plans EXCEPT ![p] = None]
  BY DEF Consume
<1> QED
  BY <1>1, <1>2, <1>3, <1>4, <1>5, Replaced DEF TypeOK

\* A trial is provisioned, with or without the approved seed, or the run is abandoned.
LEMMA ProvisionMoves ==
  ASSUME TypeOK, NEW r \in Run
  PROVE  LET Goes(stage, seeded) ==
               /\ OnlyCall(r)
               /\ call'[r].stage = stage /\ call'[r].seeded = seeded
               /\ call'[r].plan = call[r].plan /\ call'[r].thrown = call[r].thrown
               /\ call'[r].human = call[r].human /\ call'[r].agent = call[r].agent
         IN /\ ProvisionHuman(r) =>
                 \/ MovesTo(r, "releasing", TRUE) /\ live' = live
                 \/ /\ live' = live \cup {Human(r)}
                    /\ \E right \in BOOLEAN : Goes("provisioning agent", right)
            /\ ProvisionAgent(r) =>
                 \/ MovesTo(r, "releasing", TRUE) /\ live' = live
                 \/ /\ live' = live \cup {Agent(r)}
                    /\ \/ call[r].seeded /\ Goes("human", TRUE)
                       \/ Goes("releasing", FALSE)
<1> DEFINE Goes(stage, seeded) ==
             /\ OnlyCall(r)
             /\ call'[r].stage = stage /\ call'[r].seeded = seeded
             /\ call'[r].plan = call[r].plan /\ call'[r].thrown = call[r].thrown
             /\ call'[r].human = call[r].human /\ call'[r].agent = call[r].agent
<1>1. ASSUME NEW stage \in CallStage, NEW seeded \in BOOLEAN,
              \/ call' = [call EXCEPT ![r].stage = stage, ![r].seeded = seeded]
              \/ call' = [call EXCEPT ![r].seeded = seeded, ![r].stage = stage]
      PROVE  Goes(stage, seeded)
  <2> DEFINE new == [call[r] EXCEPT !.stage = stage, !.seeded = seeded]
  <2>0. call[r] \in RunCall
    BY DEF TypeOK
  <2>1. new \in RunCall
    BY <2>0 DEF RunCall
  <2>2. call' = [call EXCEPT ![r] = new]
    BY <1>1 DEF TypeOK, RunCall
  <2> QED
    BY <2>1, <2>2, Replaced DEF TypeOK, RunCall
<1>2. ASSUME ProvisionHuman(r), ~(Abandon(r) /\ UNCHANGED live)
      PROVE  /\ live' = live \cup {Human(r)}
             /\ \E right \in BOOLEAN :
                  call' = [call EXCEPT ![r].stage = "provisioning agent", ![r].seeded = right]
  BY <1>2 DEF ProvisionHuman
<1>3. ASSUME ProvisionAgent(r), ~(Abandon(r) /\ UNCHANGED live)
      PROVE  /\ live' = live \cup {Agent(r)}
             /\ \/ /\ call[r].seeded
                   /\ call' = [call EXCEPT ![r].seeded = TRUE, ![r].stage = "human"]
                \/ call' = [call EXCEPT ![r].seeded = FALSE, ![r].stage = "releasing"]
  <2>1. call[r].seeded \in BOOLEAN
    BY DEF TypeOK, RunCall
  <2>2. PICK right \in BOOLEAN :
          call' = [call EXCEPT ![r].seeded = call[r].seeded /\ right,
                               ![r].stage = IF call[r].seeded /\ right THEN "human" ELSE "releasing"]
    BY <1>3 DEF ProvisionAgent
  <2>3. CASE call[r].seeded /\ right
    <3>1. (call[r].seeded /\ right) = TRUE
      BY <2>3
    <3> QED
      BY <1>3, <2>2, <2>3, <3>1 DEF ProvisionAgent
  <2>4. CASE ~(call[r].seeded /\ right)
    <3>1. (call[r].seeded /\ right) = FALSE
      BY <2>4
    <3> QED
      BY <1>3, <2>2, <2>4, <3>1 DEF ProvisionAgent
  <2> QED
    BY <2>3, <2>4
<1> HIDE DEF Goes
<1>4. ProvisionHuman(r) =>
        \/ MovesTo(r, "releasing", TRUE) /\ live' = live
        \/ live' = live \cup {Human(r)} /\ \E right \in BOOLEAN : Goes("provisioning agent", right)
  BY <1>1, <1>2, FailureMoves DEF CallStage
<1>5. ProvisionAgent(r) =>
        \/ MovesTo(r, "releasing", TRUE) /\ live' = live
        \/ /\ live' = live \cup {Agent(r)}
           /\ \/ call[r].seeded /\ Goes("human", TRUE)
              \/ Goes("releasing", FALSE)
  BY <1>1, <1>3, FailureMoves DEF CallStage
<1> QED
  BY <1>4, <1>5 DEF Goes

\* A route returns its observation.
LEMMA RouteMoves ==
  ASSUME TypeOK, NEW r \in Run, NEW o \in Observation
  PROVE  /\ RunAgent(r, o) =>
              /\ OnlyCall(r)
              /\ call'[r].stage = "agent" /\ call'[r].human = o /\ call'[r].agent = call[r].agent
              /\ call'[r].plan = call[r].plan
              /\ call'[r].seeded = call[r].seeded /\ call'[r].thrown = call[r].thrown
         /\ AgentReturns(r, o) =>
              /\ OnlyCall(r)
              /\ call'[r].stage = "releasing" /\ call'[r].agent = o /\ call'[r].human = call[r].human
              /\ call'[r].plan = call[r].plan
              /\ call'[r].seeded = call[r].seeded /\ call'[r].thrown = call[r].thrown
<1> DEFINE human == [call[r] EXCEPT !.stage = "agent", !.human = o]
           agent == [call[r] EXCEPT !.stage = "releasing", !.agent = o]
<1>0. call[r] \in RunCall
  BY DEF TypeOK
<1>1. human \in RunCall /\ agent \in RunCall
  BY <1>0 DEF RunCall, CallStage
<1>2. RunAgent(r, o) => call' = [call EXCEPT ![r] = human]
  BY DEF RunAgent, TypeOK, RunCall
<1>3. AgentReturns(r, o) => call' = [call EXCEPT ![r] = agent]
  BY DEF AgentReturns, TypeOK, RunCall
<1>4. /\ human.stage = "agent" /\ human.human = o /\ human.agent = call[r].agent
      /\ human.plan = call[r].plan
      /\ human.seeded = call[r].seeded /\ human.thrown = call[r].thrown
      /\ agent.stage = "releasing" /\ agent.agent = o /\ agent.human = call[r].human
      /\ agent.plan = call[r].plan
      /\ agent.seeded = call[r].seeded /\ agent.thrown = call[r].thrown
  BY DEF TypeOK, RunCall
<1> HIDE DEF human, agent
<1> QED
  BY <1>1, <1>2, <1>3, <1>4, Replaced

\* What the steps of prepare do.
LEMMA PrepareMoves ==
  ASSUME TypeOK, NEW p \in Plan
  PROVE  /\ \A policy \in Policy : Prepare(p, policy) =>
              /\ prepare' \in [Plan -> PrepareCall]
              /\ \A q \in Plan \ {p} : prepare'[q] = prepare[q]
              /\ \/ prepare'[p].stage = "human" /\ live' = live \cup {Trial(p)}
                 \/ prepare'[p].stage = "threw" /\ live' = live
         /\ \A o \in Observation \cup {None} : MeasureBaseline(p, o) =>
              /\ prepare' \in [Plan -> PrepareCall]
              /\ \A q \in Plan \ {p} : prepare'[q] = prepare[q]
              /\ prepare'[p].stage = "releasing"
         /\ FinishPrepare(p) =>
              /\ prepare' \in [Plan -> PrepareCall]
              /\ \A q \in Plan \ {p} : prepare'[q] = prepare[q]
              /\ \/ /\ prepare'[p].stage = "returned"
                    /\ Release({Trial(p)}, {})
                    /\ NewPlan(p) \in PlanRecord
                    /\ plans' = [plans EXCEPT ![p] = NewPlan(p)]
                 \/ /\ prepare'[p].stage = "threw"
                    /\ \E failed \in SUBSET {Trial(p)} : Release({Trial(p)}, failed)
                    /\ plans' = plans
<1>1. prepare[p] \in PrepareCall
  BY DEF TypeOK
<1>2. ASSUME NEW new \in PrepareCall, prepare' = [prepare EXCEPT ![p] = new]
      PROVE  /\ prepare' \in [Plan -> PrepareCall] /\ prepare'[p] = new
             /\ \A q \in Plan \ {p} : prepare'[q] = prepare[q]
  BY <1>2 DEF TypeOK
<1>3. ASSUME NEW policy \in Policy, Prepare(p, policy)
      PROVE  /\ prepare' \in [Plan -> PrepareCall]
             /\ \A q \in Plan \ {p} : prepare'[q] = prepare[q]
             /\ \/ prepare'[p].stage = "human" /\ live' = live \cup {Trial(p)}
                \/ prepare'[p].stage = "threw" /\ live' = live
  <2> DEFINE started == [prepare[p] EXCEPT !.stage = "human", !.policy = policy]
             failed == [prepare[p] EXCEPT !.stage = "threw"]
  <2>1. started \in PrepareCall /\ failed \in PrepareCall
    BY <1>1 DEF PrepareCall, PrepareStage
  <2>2. \/ prepare' = [prepare EXCEPT ![p] = started] /\ live' = live \cup {Trial(p)}
        \/ prepare' = [prepare EXCEPT ![p] = failed] /\ live' = live
    BY <1>1, <1>3 DEF Prepare, TypeOK, PrepareCall
  <2>3. started.stage = "human" /\ failed.stage = "threw"
    BY <1>1 DEF PrepareCall
  <2> HIDE DEF started, failed
  <2> QED
    BY <1>2, <2>1, <2>2, <2>3
<1>4. ASSUME NEW o \in Observation \cup {None}, MeasureBaseline(p, o)
      PROVE  /\ prepare' \in [Plan -> PrepareCall]
             /\ \A q \in Plan \ {p} : prepare'[q] = prepare[q]
             /\ prepare'[p].stage = "releasing"
  <2> DEFINE new == [prepare[p] EXCEPT !.stage = "releasing", !.observed = o]
  <2>1. new \in PrepareCall /\ new.stage = "releasing"
    BY <1>1 DEF PrepareCall, PrepareStage
  <2>2. prepare' = [prepare EXCEPT ![p] = new]
    BY <1>1, <1>4 DEF MeasureBaseline, TypeOK, PrepareCall
  <2> HIDE DEF new
  <2> QED
    BY <1>2, <2>1, <2>2
<1>5. ASSUME FinishPrepare(p)
      PROVE  /\ prepare' \in [Plan -> PrepareCall]
             /\ \A q \in Plan \ {p} : prepare'[q] = prepare[q]
             /\ \/ /\ prepare'[p].stage = "returned"
                   /\ Release({Trial(p)}, {})
                   /\ NewPlan(p) \in PlanRecord
                   /\ plans' = [plans EXCEPT ![p] = NewPlan(p)]
                \/ /\ prepare'[p].stage = "threw"
                   /\ \E failed \in SUBSET {Trial(p)} : Release({Trial(p)}, failed)
                   /\ plans' = plans
  <2>1. PICK failed \in SUBSET {Trial(p)} :
          LET stored == failed = {} /\ prepare[p].observed # None
          IN /\ Release({Trial(p)}, failed)
             /\ prepare' = [prepare EXCEPT ![p].stage = IF stored THEN "returned" ELSE "threw"]
             /\ plans' = IF stored THEN [plans EXCEPT ![p] = NewPlan(p)] ELSE plans
    BY <1>5 DEF FinishPrepare
  <2>2. ASSUME NEW stage \in PrepareStage, prepare' = [prepare EXCEPT ![p].stage = stage]
        PROVE  /\ prepare' \in [Plan -> PrepareCall] /\ prepare'[p].stage = stage
               /\ \A q \in Plan \ {p} : prepare'[q] = prepare[q]
    <3> DEFINE new == [prepare[p] EXCEPT !.stage = stage]
    <3>1. new \in PrepareCall /\ new.stage = stage /\ prepare' = [prepare EXCEPT ![p] = new]
      BY <1>1, <2>2 DEF PrepareCall
    <3> HIDE DEF new
    <3> QED
      BY <1>2, <3>1
  <2>3. CASE failed = {} /\ prepare[p].observed # None
    <3>1. prepare[p].observed \in Observation /\ prepare[p].policy \in Policy \cup {None}
      BY <1>1, <2>3 DEF PrepareCall
    <3>2. now + Ttl \in Nat
      BY BoundaryAssumption DEF TypeOK
    <3>3. NewPlan(p) \in PlanRecord
      BY <3>1, <3>2 DEF NewPlan, PlanRecord
    <3> QED
      BY <2>1, <2>2, <2>3, <3>3 DEF PrepareStage
  <2>4. CASE ~(failed = {} /\ prepare[p].observed # None)
    BY <2>1, <2>2, <2>4 DEF PrepareStage
  <2> QED
    BY <2>3, <2>4
<1> QED
  BY <1>3, <1>4, <1>5

\* Both releases of a run: it goes on if neither fails.
LEMMA ReleaseMoves ==
  ASSUME TypeOK, NEW r \in Run, ReleaseTargets(r)
  PROVE  \E failed \in SUBSET Held(r) :
           /\ live' = live \ (Held(r) \ failed)
           /\ stuck' = stuck \cup failed
           /\ \/ MovesTo(r, "threw", TRUE)
              \/ failed = {} /\ ~call[r].thrown /\ MovesTo(r, "concluding", FALSE)
<1>1. PICK failed \in SUBSET Held(r) :
        /\ Release(Held(r), failed)
        /\ IF failed # {} \/ call[r].thrown THEN Throws(r)
           ELSE call' = [call EXCEPT ![r].stage = "concluding"]
  BY DEF ReleaseTargets
<1>2. CASE failed # {} \/ call[r].thrown
  BY <1>1, <1>2, FailureMoves DEF Release
<1>3. CASE ~(failed # {} \/ call[r].thrown)
  <2>1. call[r].thrown = FALSE
    BY <1>3 DEF TypeOK, RunCall
  <2> QED
    BY <1>1, <1>3, <2>1, StageMoves DEF Release, CallStage
<1> QED
  BY <1>2, <1>3

\* The end of a run.
LEMMA ConcludeMoves ==
  ASSUME TypeOK, NEW r \in Run, Conclude(r)
  PROVE  \/ MovesTo(r, "threw", TRUE) /\ bundle' = bundle
         \/ /\ MovesTo(r, "returned", call[r].thrown)
            /\ bundle' = [bundle EXCEPT ![r] = Result(call[r])]
  BY FailureMoves, StageMoves DEF Conclude, CallStage

\* No two trials are one lease.
LEMMA LeasesDiffer ==
  /\ \A p, q : Trial(p) = Trial(q) => p = q
  /\ \A r, s : (Human(r) = Human(s) \/ Agent(r) = Agent(s)) => r = s
  /\ \A p, r : Trial(p) # Human(r) /\ Trial(p) # Agent(r)
  /\ \A r, s : Human(r) # Agent(s)
  BY DEF Trial, Human, Agent

-----------------------------------------------------------------------------
(* The inductive invariant *)

\* The typing: a lease that is given back is not stuck.
LEMMA NextTypeOK ==
  ASSUME TypeOK, StuckInv, LeaseInv, [Next]_vars PROVE TypeOK'
<1>1. CASE Tick \/ UNCHANGED vars
  BY <1>1 DEF Tick, vars, TypeOK
<1>2. ASSUME NEW p \in Plan, NEW policy \in Policy, Prepare(p, policy) PROVE TypeOK'
  <2>1. prepare' \in [Plan -> PrepareCall]
    BY <1>2, PrepareMoves
  <2>2. live' \in {live, live \cup {Trial(p)}}
    BY <1>2 DEF Prepare
  <2> QED
    BY <1>2, <2>1, <2>2 DEF Prepare, Trial, TypeOK
<1>3. ASSUME NEW p \in Plan, NEW o \in Observation \cup {None}, MeasureBaseline(p, o) PROVE TypeOK'
  BY <1>3, PrepareMoves DEF MeasureBaseline, TypeOK
<1>4. ASSUME NEW p \in Plan, FinishPrepare(p) PROVE TypeOK'
  <2>1. prepare' \in [Plan -> PrepareCall] /\ plans' \in [Plan -> PlanRecord \cup {None}]
    BY <1>4, PrepareMoves DEF TypeOK
  <2>2. Trial(p) \in live \ stuck
    BY <1>4 DEF FinishPrepare, LeaseInv
  <2>3. PICK failed \in SUBSET {Trial(p)} : Release({Trial(p)}, failed)
    BY <1>4 DEF FinishPrepare
  <2>4. stuck' \subseteq live' /\ live' \subseteq live
    BY <2>2, <2>3 DEF Release, TypeOK
  <2> QED
    BY <1>4, <2>1, <2>4 DEF FinishPrepare, TypeOK
<1>5. ASSUME NEW r \in Run, NEW p \in Plan, Refuse(r, p) \/ Lapse(r, p) PROVE TypeOK'
  BY <1>5, FailureMoves DEF Refuse, Lapse, MovesTo, OnlyCall, TypeOK
<1>6. ASSUME NEW r \in Run, NEW p \in Plan, Consume(r, p) PROVE TypeOK'
  BY <1>6, ConsumeMoves DEF Consume, OnlyCall, TypeOK
<1>7. ASSUME NEW r \in Run, ProvisionHuman(r) \/ ProvisionAgent(r) PROVE TypeOK'
  <2>1. call' \in [Run -> RunCall]
    BY <1>7, ProvisionMoves DEF MovesTo, OnlyCall
  <2>2. live' \in {live, live \cup {Human(r)}, live \cup {Agent(r)}}
    BY <1>7 DEF ProvisionHuman, ProvisionAgent
  <2>3. UNCHANGED <<now, prepare, plans, bundle, stuck, acted>>
    BY <1>7 DEF ProvisionHuman, ProvisionAgent
  <2> QED
    BY <2>1, <2>2, <2>3 DEF Human, Agent, TypeOK
<1>8. ASSUME NEW r \in Run, NEW o \in Observation, RunAgent(r, o) \/ AgentReturns(r, o) PROVE TypeOK'
  <2>1. call' \in [Run -> RunCall]
    BY <1>8, RouteMoves DEF OnlyCall
  <2>2. acted' \in [Plan -> SUBSET Run]
    BY <1>8 DEF RunAgent, AgentReturns, TypeOK
  <2> QED
    BY <1>8, <2>1, <2>2 DEF RunAgent, AgentReturns, TypeOK
<1>9. ASSUME NEW r \in Run, RouteThrows(r) \/ ReleaseTargets(r) PROVE TypeOK'
  <2>1. call' \in [Run -> RunCall]
    BY <1>9, FailureMoves, ReleaseMoves DEF RouteThrows, MovesTo, OnlyCall
  <2>2. stuck' \subseteq live' /\ live' \subseteq live
    <3>1. CASE ReleaseTargets(r)
      <4>1. PICK failed \in SUBSET Held(r) :
              live' = live \ (Held(r) \ failed) /\ stuck' = stuck \cup failed
        BY <3>1, ReleaseMoves
      <4>2. Held(r) \cap stuck = {} /\ Held(r) \subseteq live
        BY <3>1 DEF ReleaseTargets, Held, StuckInv
      <4> QED
        BY <4>1, <4>2 DEF TypeOK
    <3> QED
      BY <1>9, <3>1 DEF RouteThrows, TypeOK
  <2> QED
    BY <1>9, <2>1, <2>2 DEF RouteThrows, ReleaseTargets, TypeOK
<1>10. ASSUME NEW r \in Run, Conclude(r) PROVE TypeOK'
  BY <1>10, ConcludeMoves DEF Conclude, MovesTo, OnlyCall, TypeOK
<1> QED
  BY <1>1, <1>2, <1>3, <1>4, <1>5, <1>6, <1>7, <1>8, <1>9, <1>10 DEF Next

\* A failed release makes its call throw, and a call that threw is over.
LEMMA NextStuckInv ==
  ASSUME TypeOK, StuckInv, [Next]_vars PROVE StuckInv'
<1>1. CASE Tick \/ UNCHANGED vars
  BY <1>1 DEF Tick, vars, StuckInv
<1>2. ASSUME NEW p \in Plan, NEW policy \in Policy, Prepare(p, policy) PROVE StuckInv'
  BY <1>2, PrepareMoves DEF Prepare, StuckInv
<1>3. ASSUME NEW p \in Plan, NEW o \in Observation \cup {None}, MeasureBaseline(p, o) PROVE StuckInv'
  BY <1>3, PrepareMoves DEF MeasureBaseline, StuckInv
<1>4. ASSUME NEW p \in Plan, FinishPrepare(p) PROVE StuckInv'
  <2>1. UNCHANGED call /\ \A q \in Plan \ {p} : prepare'[q] = prepare[q]
    BY <1>4, PrepareMoves DEF FinishPrepare
  <2>2. stuck' \subseteq stuck \cup {Trial(p)}
    BY <1>4, PrepareMoves DEF Release
  <2>3. Trial(p) \in stuck' => prepare'[p].stage = "threw"
    <3>1. CASE prepare'[p].stage = "returned" /\ Release({Trial(p)}, {})
      <4>1. stuck' = stuck /\ prepare[p].stage # "threw"
        BY <1>4, <3>1 DEF FinishPrepare, Release
      <4> QED
        BY <4>1 DEF StuckInv
    <3> QED
      BY <1>4, <3>1, PrepareMoves
  <2>4. \A q \in Plan \ {p} : Trial(q) # Trial(p)
    BY LeasesDiffer
  <2>5. \A s \in Run : Human(s) # Trial(p) /\ Agent(s) # Trial(p)
    BY LeasesDiffer
  <2> QED
    BY <2>1, <2>2, <2>3, <2>4, <2>5 DEF StuckInv
<1>5. ASSUME NEW r \in Run, NEW p \in Plan, Refuse(r, p) \/ Lapse(r, p) PROVE StuckInv'
  <2>1. call'[r].stage = "threw" /\ \A s \in Run \ {r} : call'[s] = call[s]
    BY <1>5, FailureMoves DEF Refuse, Lapse, MovesTo, OnlyCall
  <2> QED
    BY <1>5, <2>1 DEF Refuse, Lapse, StuckInv
<1>6. ASSUME NEW r \in Run, NEW p \in Plan, Consume(r, p) PROVE StuckInv'
  <2>1. call[r].stage = "new" /\ \A s \in Run \ {r} : call'[s] = call[s]
    BY <1>6, ConsumeMoves DEF Consume, OnlyCall
  <2> QED
    BY <1>6, <2>1 DEF Consume, StuckInv
<1>7. ASSUME NEW r \in Run, ProvisionHuman(r) \/ ProvisionAgent(r) PROVE StuckInv'
  BY <1>7, ProvisionMoves, ZenonT(40) DEF ProvisionHuman, ProvisionAgent, OnlyCall, StuckInv, MovesTo
<1>8. ASSUME NEW r \in Run, NEW o \in Observation, RunAgent(r, o) \/ AgentReturns(r, o) PROVE StuckInv'
  BY <1>8, RouteMoves DEF RunAgent, AgentReturns, OnlyCall, StuckInv
<1>9. ASSUME NEW r \in Run, RouteThrows(r) \/ ReleaseTargets(r) PROVE StuckInv'
  <2>1. \A s \in Run \ {r} : call'[s] = call[s]
    BY <1>9, FailureMoves, ReleaseMoves DEF RouteThrows, MovesTo, OnlyCall
  <2>2. CASE RouteThrows(r)
    BY <2>1, <2>2 DEF RouteThrows, StuckInv
  <2>3. CASE ReleaseTargets(r)
    <3>1. PICK failed \in SUBSET Held(r) :
             /\ stuck' = stuck \cup failed
             /\ call'[r].stage = "threw" \/ failed = {}
      BY <2>3, ReleaseMoves DEF MovesTo
    <3>2. call[r].stage # "threw" /\ prepare' = prepare
      BY <2>3 DEF ReleaseTargets
    <3>3. failed \subseteq {Human(r), Agent(r)}
      BY DEF Held
    <3> QED
      BY <2>1, <3>1, <3>2, <3>3, LeasesDiffer DEF StuckInv
  <2> QED
    BY <1>9, <2>2, <2>3
<1>10. ASSUME NEW r \in Run, Conclude(r) PROVE StuckInv'
  <2>1. call[r].stage # "threw" /\ \A s \in Run \ {r} : call'[s] = call[s]
    BY <1>10, ConcludeMoves DEF Conclude, MovesTo, OnlyCall
  <2> QED
    BY <1>10, <2>1 DEF Conclude, StuckInv
<1> QED
  BY <1>1, <1>2, <1>3, <1>4, <1>5, <1>6, <1>7, <1>8, <1>9, <1>10 DEF Next

\* Leases are taken by calls under way, which give them back before they end.
LEMMA NextLeaseInv ==
  ASSUME TypeOK, StuckInv, LeaseInv, [Next]_vars PROVE LeaseInv'
<1>1. CASE Tick \/ UNCHANGED vars
  BY <1>1 DEF Tick, vars, LeaseInv
<1>2. ASSUME NEW p \in Plan, NEW policy \in Policy, Prepare(p, policy) PROVE LeaseInv'
  <2>1. /\ Trial(p) \notin stuck /\ Trial(p) \notin live \ stuck /\ UNCHANGED <<stuck, call>>
        /\ \A q \in Plan \ {p} : prepare'[q] = prepare[q]
    BY <1>2, PrepareMoves DEF Prepare, StuckInv, LeaseInv
  <2>2. CASE prepare'[p].stage = "human" /\ live' = live \cup {Trial(p)}
    BY <2>1, <2>2, LeasesDiffer DEF LeaseInv
  <2>3. CASE prepare'[p].stage = "threw" /\ live' = live
    BY <2>1, <2>3 DEF LeaseInv
  <2> QED
    BY <1>2, <2>2, <2>3, PrepareMoves
<1>3. ASSUME NEW p \in Plan, NEW o \in Observation \cup {None}, MeasureBaseline(p, o) PROVE LeaseInv'
  BY <1>3, PrepareMoves DEF MeasureBaseline, LeaseInv
<1>4. ASSUME NEW p \in Plan, FinishPrepare(p) PROVE LeaseInv'
  <2>1. /\ prepare'[p].stage \in {"returned", "threw"} /\ call' = call
        /\ \A q \in Plan \ {p} : prepare'[q] = prepare[q]
    BY <1>4, PrepareMoves DEF FinishPrepare
  <2>2. PICK failed \in SUBSET {Trial(p)} : Release({Trial(p)}, failed)
    BY <1>4 DEF FinishPrepare
  <2>3. live' \ stuck' = (live \ stuck) \ {Trial(p)}
    BY <2>2 DEF Release
  <2> QED
    BY <2>1, <2>3, LeasesDiffer DEF LeaseInv
<1>5. ASSUME NEW r \in Run, NEW p \in Plan, Refuse(r, p) \/ Lapse(r, p) PROVE LeaseInv'
  BY <1>5, FailureMoves DEF Refuse, Lapse, MovesTo, OnlyCall, LeaseInv
<1>6. ASSUME NEW r \in Run, NEW p \in Plan, Consume(r, p) PROVE LeaseInv'
  <2>1. call[r].stage = "new" /\ \A s \in Run \ {r} : call'[s] = call[s]
    BY <1>6, ConsumeMoves DEF Consume, OnlyCall
  <2> QED
    BY <1>6, <2>1 DEF Consume, LeaseInv
<1>7. ASSUME NEW r \in Run, ProvisionHuman(r) \/ ProvisionAgent(r) PROVE LeaseInv'
  <2>1. /\ call'[r].stage \in {"provisioning agent", "human", "agent", "releasing"}
        /\ \A s \in Run \ {r} : call'[s] = call[s]
    BY <1>7, ProvisionMoves DEF OnlyCall, MovesTo
  <2>2. /\ live' \in {live, live \cup {Human(r)}, live \cup {Agent(r)}}
        /\ UNCHANGED <<prepare, stuck>>
    BY <1>7 DEF ProvisionHuman, ProvisionAgent
  <2> QED
    BY <2>1, <2>2, LeasesDiffer DEF LeaseInv
<1>8. ASSUME NEW r \in Run, NEW o \in Observation, RunAgent(r, o) \/ AgentReturns(r, o) PROVE LeaseInv'
  BY <1>8, RouteMoves, ZenonT(40) DEF RunAgent, AgentReturns, OnlyCall, LeaseInv
<1>9. ASSUME NEW r \in Run, RouteThrows(r) \/ ReleaseTargets(r) PROVE LeaseInv'
  <2>1. \A s \in Run \ {r} : call'[s] = call[s]
    BY <1>9, FailureMoves, ReleaseMoves DEF RouteThrows, MovesTo, OnlyCall
  <2>2. CASE RouteThrows(r)
    BY <2>1, <2>2, FailureMoves DEF RouteThrows, MovesTo, LeaseInv
  <2>3. CASE ReleaseTargets(r)
    <3>1. live' \ stuck' = (live \ stuck) \ {Human(r), Agent(r)}
      BY <2>3, ReleaseMoves DEF Held
    <3>2. prepare' = prepare
      BY <2>3 DEF ReleaseTargets
    <3> QED
      BY <2>1, <3>1, <3>2, LeasesDiffer DEF LeaseInv
  <2> QED
    BY <1>9, <2>2, <2>3
<1>10. ASSUME NEW r \in Run, Conclude(r) PROVE LeaseInv'
  BY <1>10, ConcludeMoves DEF Conclude, MovesTo, OnlyCall, LeaseInv
<1> QED
  BY <1>1, <1>2, <1>3, <1>4, <1>5, <1>6, <1>7, <1>8, <1>9, <1>10 DEF Next

\* The map holds plans under their own ids.
LEMMA NextPlanInv ==
  ASSUME TypeOK, PlanInv, [Next]_vars PROVE PlanInv'
<1>1. CASE Tick \/ UNCHANGED vars
  BY <1>1 DEF Tick, vars, PlanInv
<1>2. ASSUME NEW p \in Plan, NEW policy \in Policy, Prepare(p, policy) PROVE PlanInv'
  <2>1. plans[p] = None
    BY <1>2 DEF Prepare, PlanInv
  <2>2. plans' = plans /\ \A q \in Plan \ {p} : prepare'[q] = prepare[q]
    BY <1>2, PrepareMoves DEF Prepare
  <2> QED
    BY <2>1, <2>2 DEF PlanInv
<1>3. ASSUME NEW p \in Plan, NEW o \in Observation \cup {None}, MeasureBaseline(p, o) PROVE PlanInv'
  <2>1. plans[p] = None
    BY <1>3 DEF MeasureBaseline, PlanInv
  <2>2. plans' = plans /\ \A q \in Plan \ {p} : prepare'[q] = prepare[q]
    BY <1>3, PrepareMoves DEF MeasureBaseline
  <2> QED
    BY <2>1, <2>2 DEF PlanInv
<1>4. ASSUME NEW p \in Plan, FinishPrepare(p) PROVE PlanInv'
  <2>1. plans[p] = None /\ plans \in [Plan -> PlanRecord \cup {None}]
    BY <1>4 DEF FinishPrepare, PlanInv, TypeOK
  <2>2. \A q \in Plan \ {p} : prepare'[q] = prepare[q]
    BY <1>4, PrepareMoves
  <2>3. CASE prepare'[p].stage = "returned" /\ plans' = [plans EXCEPT ![p] = NewPlan(p)]
    <3>1. NewPlan(p).id = p
      BY DEF NewPlan
    <3> QED
      BY <2>1, <2>2, <2>3, <3>1 DEF PlanInv
  <2>4. CASE plans' = plans
    BY <2>1, <2>2, <2>4 DEF PlanInv
  <2> QED
    BY <1>4, <2>3, <2>4, PrepareMoves
<1>5. ASSUME NEW r \in Run, NEW p \in Plan, Refuse(r, p) \/ Lapse(r, p) PROVE PlanInv'
  BY <1>5 DEF Refuse, Lapse, PlanInv, TypeOK
<1>6. ASSUME NEW r \in Run, NEW p \in Plan, Consume(r, p) PROVE PlanInv'
  BY <1>6, ConsumeMoves DEF Consume, PlanInv
<1>7. ASSUME NEW r \in Run, ProvisionHuman(r) \/ ProvisionAgent(r) PROVE PlanInv'
  BY <1>7 DEF ProvisionHuman, ProvisionAgent, PlanInv
<1>8. ASSUME NEW r \in Run, NEW o \in Observation, RunAgent(r, o) \/ AgentReturns(r, o) PROVE PlanInv'
  BY <1>8 DEF RunAgent, AgentReturns, PlanInv
<1>9. ASSUME NEW r \in Run, RouteThrows(r) \/ ReleaseTargets(r) PROVE PlanInv'
  BY <1>9 DEF RouteThrows, ReleaseTargets, PlanInv
<1>10. ASSUME NEW r \in Run, Conclude(r) PROVE PlanInv'
  BY <1>10 DEF Conclude, PlanInv
<1> QED
  BY <1>1, <1>2, <1>3, <1>4, <1>5, <1>6, <1>7, <1>8, <1>9, <1>10 DEF Next

\* A run that goes on with the plan it has disturbs nobody's hold on a plan.
LEMMA KeepsPlans ==
  ASSUME ConsumedInv, NEW r \in Run, OnlyCall(r), UNCHANGED <<prepare, plans>>,
         call'[r].plan = call[r].plan, call[r].stage # "new",
         call'[r].stage # "new", call[r].plan = None => call'[r].stage = "threw"
  PROVE  ConsumedInv'
  BY DEF ConsumedInv, OnlyCall

\* What a run works on is a plan.
LEMMA OwnPlan ==
  ASSUME TypeOK, NEW r \in Run, call[r].plan # None
  PROVE  call[r].plan \in PlanRecord /\ call[r].plan.id \in Plan
  BY DEF TypeOK, RunCall, PlanRecord

\* A plan is taken out of the map by the run that works on it.
LEMMA NextConsumedInv ==
  ASSUME TypeOK, PlanInv, ConsumedInv, [Next]_vars PROVE ConsumedInv'
<1>1. CASE Tick \/ UNCHANGED vars
  BY <1>1 DEF Tick, vars, ConsumedInv
<1>2. ASSUME NEW p \in Plan, NEW policy \in Policy, Prepare(p, policy) PROVE ConsumedInv'
  <2>1. /\ UNCHANGED <<plans, call>> /\ prepare[p].stage # "returned"
        /\ \A q \in Plan \ {p} : prepare'[q] = prepare[q]
    BY <1>2, PrepareMoves DEF Prepare
  <2> QED
    BY <2>1, OwnPlan DEF ConsumedInv
<1>3. ASSUME NEW p \in Plan, NEW o \in Observation \cup {None}, MeasureBaseline(p, o) PROVE ConsumedInv'
  <2>1. /\ UNCHANGED <<plans, call>> /\ prepare[p].stage # "returned"
        /\ \A q \in Plan \ {p} : prepare'[q] = prepare[q]
    BY <1>3, PrepareMoves DEF MeasureBaseline
  <2> QED
    BY <2>1, OwnPlan DEF ConsumedInv
<1>4. ASSUME NEW p \in Plan, FinishPrepare(p) PROVE ConsumedInv'
  <2>1. /\ call' = call /\ prepare[p].stage # "returned"
        /\ \A q \in Plan \ {p} : prepare'[q] = prepare[q]
    BY <1>4, PrepareMoves DEF FinishPrepare
  <2>2. plans' = plans \/ plans' = [plans EXCEPT ![p] = NewPlan(p)]
    BY <1>4, PrepareMoves
  <2>3. \A q \in Plan \ {p} : plans'[q] = plans[q]
    BY <2>2 DEF TypeOK
  <2> QED
    BY <2>1, <2>3, OwnPlan DEF ConsumedInv
<1>5. ASSUME NEW r \in Run, NEW p \in Plan, Refuse(r, p) \/ Lapse(r, p) PROVE ConsumedInv'
  <2>1. MovesTo(r, "threw", TRUE) /\ call[r].stage = "new" /\ prepare' = prepare
    BY <1>5, FailureMoves DEF Refuse, Lapse
  <2>2. call[r].plan = None
    BY <2>1 DEF ConsumedInv
  <2>3. \A q \in Plan : plans[q] = None => plans'[q] = None
    BY <1>5 DEF Refuse, Lapse, TypeOK
  <2> QED
    BY <2>1, <2>2, <2>3, OwnPlan DEF MovesTo, OnlyCall, ConsumedInv
<1>6. ASSUME NEW r \in Run, NEW p \in Plan, Consume(r, p) PROVE ConsumedInv'
  <2>1. plans[p] # None /\ prepare' = prepare
    BY <1>6 DEF Consume
  <2>2. /\ call'[r].plan # None /\ call'[r].plan.id = p /\ call'[r].stage # "new"
        /\ plans'[p] = None /\ prepare'[p].stage = "returned"
    <3>1. /\ call'[r].plan = plans[p] /\ call'[r].stage = "provisioning human"
          /\ plans'[p] = None
      BY <1>6, ConsumeMoves
    <3> QED
      BY <2>1, <3>1 DEF PlanInv
  <2>3. /\ \A s \in Run \ {r} : call'[s] = call[s]
        /\ \A q \in Plan \ {p} : plans'[q] = plans[q]
    BY <1>6, ConsumeMoves DEF OnlyCall
  <2>4. \A s \in Run : call[s].plan # None => call[s].plan.id # p
    BY <2>1 DEF ConsumedInv
  <2> QED
    BY <2>1, <2>2, <2>3, <2>4, OwnPlan DEF ConsumedInv
<1>7. ASSUME NEW r \in Run, ProvisionHuman(r) \/ ProvisionAgent(r) PROVE ConsumedInv'
  <2>1. /\ OnlyCall(r) /\ call'[r].plan = call[r].plan /\ call'[r].stage # "new"
        /\ call[r].plan # None
    BY <1>7, ProvisionMoves DEF ProvisionHuman, ProvisionAgent, MovesTo, ConsumedInv
  <2> QED
    BY <1>7, <2>1, KeepsPlans DEF ProvisionHuman, ProvisionAgent
<1>8. ASSUME NEW r \in Run, NEW o \in Observation, RunAgent(r, o) \/ AgentReturns(r, o) PROVE ConsumedInv'
  <2>1. /\ OnlyCall(r) /\ call'[r].plan = call[r].plan /\ call'[r].stage # "new"
        /\ call[r].plan # None
    <3>1. call[r].stage \in {"human", "agent"}
      BY <1>8 DEF RunAgent, AgentReturns
    <3>2. call[r].plan # None
      BY <3>1 DEF ConsumedInv
    <3> QED
      BY <1>8, <3>2, RouteMoves
  <2> QED
    BY <1>8, <2>1, KeepsPlans DEF RunAgent, AgentReturns
<1>9. ASSUME NEW r \in Run, RouteThrows(r) \/ ReleaseTargets(r) PROVE ConsumedInv'
  <2>1. /\ OnlyCall(r) /\ call'[r].plan = call[r].plan /\ call'[r].stage # "new"
    BY <1>9, FailureMoves, ReleaseMoves DEF RouteThrows, MovesTo
  <2>2. call[r].plan # None /\ call[r].stage # "new" /\ UNCHANGED <<prepare, plans>>
    BY <1>9 DEF RouteThrows, ReleaseTargets, ConsumedInv
  <2> QED
    BY <2>1, <2>2, KeepsPlans
<1>10. ASSUME NEW r \in Run, Conclude(r) PROVE ConsumedInv'
  <2>1. /\ OnlyCall(r) /\ call'[r].plan = call[r].plan /\ call'[r].stage # "new"
        /\ call[r].plan # None
    BY <1>10, ConcludeMoves DEF Conclude, MovesTo, ConsumedInv
  <2> QED
    BY <1>10, <2>1, KeepsPlans DEF Conclude
<1> QED
  BY <1>1, <1>2, <1>3, <1>4, <1>5, <1>6, <1>7, <1>8, <1>9, <1>10 DEF Next

\* A run whose stage is past the start of the agent route stays there.
LEMMA KeepsActed ==
  ASSUME TypeOK, ActedInv, NEW r \in Run, OnlyCall(r), acted' = acted,
         call'[r].plan = call[r].plan \/ call[r].stage = "new",
         \/ call[r].stage \notin {"agent", "releasing", "concluding", "returned", "threw"}
         \/ call'[r].stage \in {"agent", "releasing", "concluding", "returned", "threw"}
  PROVE  ActedInv'
  BY DEF ActedInv, OnlyCall, TypeOK

\* The agent route of a plan is started by the run that works on the plan.
LEMMA NextActedInv ==
  ASSUME TypeOK, ConsumedInv, ActedInv, [Next]_vars PROVE ActedInv'
<1>1. CASE Tick \/ UNCHANGED vars
  BY <1>1 DEF Tick, vars, ActedInv
<1>2. ASSUME NEW p \in Plan, NEW policy \in Policy, Prepare(p, policy) PROVE ActedInv'
  BY <1>2 DEF Prepare, ActedInv
<1>3. ASSUME NEW p \in Plan, NEW o \in Observation \cup {None}, MeasureBaseline(p, o) PROVE ActedInv'
  BY <1>3 DEF MeasureBaseline, ActedInv
<1>4. ASSUME NEW p \in Plan, FinishPrepare(p) PROVE ActedInv'
  BY <1>4 DEF FinishPrepare, ActedInv
<1>5. ASSUME NEW r \in Run, NEW p \in Plan, Refuse(r, p) \/ Lapse(r, p) PROVE ActedInv'
  BY <1>5, FailureMoves, KeepsActed DEF Refuse, Lapse, MovesTo
<1>6. ASSUME NEW r \in Run, NEW p \in Plan, Consume(r, p) PROVE ActedInv'
  BY <1>6, ConsumeMoves, KeepsActed DEF Consume
<1>7. ASSUME NEW r \in Run, ProvisionHuman(r) \/ ProvisionAgent(r) PROVE ActedInv'
  <2>1. OnlyCall(r) /\ call'[r].plan = call[r].plan
    BY <1>7, ProvisionMoves DEF MovesTo
  <2>2. acted' = acted /\ call[r].stage \in {"provisioning human", "provisioning agent"}
    BY <1>7 DEF ProvisionHuman, ProvisionAgent
  <2> QED
    BY <2>1, <2>2, KeepsActed
<1>8. ASSUME NEW r \in Run, NEW o \in Observation, RunAgent(r, o) \/ AgentReturns(r, o) PROVE ActedInv'
  <2>1. CASE AgentReturns(r, o)
    BY <2>1, RouteMoves, KeepsActed DEF AgentReturns
  <2>2. CASE RunAgent(r, o)
    <3>1. /\ \A s \in Run \ {r} : call'[s] = call[s]
          /\ call'[r].stage = "agent" /\ call'[r].plan = call[r].plan
      BY <2>2, RouteMoves DEF OnlyCall
    <3>2. call[r].plan # None /\ call[r].plan.id \in Plan
      BY <2>2, OwnPlan DEF RunAgent, ConsumedInv
    <3>3. \A p \in Plan : acted'[p] = IF p = call[r].plan.id THEN acted[p] \cup {r} ELSE acted[p]
      BY <2>2 DEF RunAgent, TypeOK
    <3>4. ASSUME NEW p \in Plan, NEW s \in acted'[p]
          PROVE  s \in acted[p] \/ (s = r /\ p = call[r].plan.id)
      BY <3>3
    <3>5. ASSUME NEW p \in Plan, NEW s \in acted[p], s # r
          PROVE  call'[s] = call[s]
      BY <3>1, <3>5 DEF TypeOK
    <3> QED
      BY <3>1, <3>2, <3>4, <3>5 DEF ActedInv
  <2> QED
    BY <1>8, <2>1, <2>2
<1>9. ASSUME NEW r \in Run, RouteThrows(r) \/ ReleaseTargets(r) PROVE ActedInv'
  <2>1. /\ OnlyCall(r) /\ call'[r].plan = call[r].plan
        /\ call'[r].stage \in {"releasing", "concluding", "threw"}
    BY <1>9, FailureMoves, ReleaseMoves DEF RouteThrows, MovesTo
  <2>2. acted' = acted
    BY <1>9 DEF RouteThrows, ReleaseTargets
  <2> QED
    BY <2>1, <2>2, KeepsActed
<1>10. ASSUME NEW r \in Run, Conclude(r) PROVE ActedInv'
  BY <1>10, ConcludeMoves, KeepsActed DEF Conclude, MovesTo
<1> QED
  BY <1>1, <1>2, <1>3, <1>4, <1>5, <1>6, <1>7, <1>8, <1>9, <1>10 DEF Next

\* A run that keeps its observations.
LEMMA KeepsObserved ==
  ASSUME ObservedInv, NEW r \in Run, OnlyCall(r),
         call'[r].seeded = call[r].seeded,
         call'[r].human = call[r].human, call'[r].agent = call[r].agent,
         \/ call'[r].stage \in {"threw", "releasing"} /\ call'[r].thrown
         \/ Judged(call[r]) /\ Judged(call'[r])
  PROVE  ObservedInv'
<1> DEFINE Observed(c) ==
             /\ c.stage \in {"new", "provisioning human", "provisioning agent"} \/ ~c.seeded =>
                  c.human = None /\ c.agent = None
             /\ c.stage \in {"human", "agent"} => c.seeded
             /\ c.stage = "agent" => c.human # None
             /\ Judged(c) /\ c.seeded => c.human # None /\ c.agent # None
<1>1. \A s \in Run : Observed(call[s])
  BY DEF ObservedInv
<1>2. ASSUME NEW s \in Run PROVE Observed(call'[s])
  <2>1. CASE s # r
    <3>1. call'[s] = call[s]
      BY <2>1 DEF OnlyCall
    <3> HIDE DEF Observed
    <3> QED
      BY <1>1, <3>1
  <2>2. CASE s = r
    BY <1>1, <2>2 DEF Judged
  <2> QED
    BY <2>1, <2>2
<1> QED
  BY <1>2 DEF ObservedInv, Judged

\* Routes run on the approved seed only; what is judged then was observed.
LEMMA NextObservedInv ==
  ASSUME TypeOK, ObservedInv, [Next]_vars PROVE ObservedInv'
<1>1. CASE Tick \/ UNCHANGED vars
  BY <1>1 DEF Tick, vars, ObservedInv, Judged, TypeOK
<1>2. ASSUME NEW p \in Plan, NEW policy \in Policy, Prepare(p, policy) PROVE ObservedInv'
  BY <1>2 DEF Prepare, ObservedInv, Judged
<1>3. ASSUME NEW p \in Plan, NEW o \in Observation \cup {None}, MeasureBaseline(p, o) PROVE ObservedInv'
  BY <1>3 DEF MeasureBaseline, ObservedInv, Judged
<1>4. ASSUME NEW p \in Plan, FinishPrepare(p) PROVE ObservedInv'
  BY <1>4 DEF FinishPrepare, ObservedInv, Judged
<1>5. ASSUME NEW r \in Run, NEW p \in Plan, Refuse(r, p) \/ Lapse(r, p) PROVE ObservedInv'
  BY <1>5, FailureMoves, KeepsObserved DEF Refuse, Lapse, MovesTo
<1>6. ASSUME NEW r \in Run, NEW p \in Plan, Consume(r, p) PROVE ObservedInv'
  <2>1. /\ OnlyCall(r) /\ call[r].stage = "new" /\ call'[r].stage = "provisioning human"
        /\ call'[r].human = call[r].human /\ call'[r].agent = call[r].agent
    BY <1>6, ConsumeMoves DEF Consume
  <2> QED
    BY <2>1 DEF OnlyCall, ObservedInv, Judged
<1>7. ASSUME NEW r \in Run, ProvisionHuman(r) \/ ProvisionAgent(r) PROVE ObservedInv'
  <2>1. call[r].human = None /\ call[r].agent = None
    BY <1>7 DEF ProvisionHuman, ProvisionAgent, ObservedInv
  <2>2. \/ MovesTo(r, "releasing", TRUE)
        \/ /\ OnlyCall(r) /\ call'[r].human = None /\ call'[r].agent = None
           /\ \/ call'[r].stage = "provisioning agent"
              \/ call'[r].stage = "human" /\ call'[r].seeded
              \/ call'[r].stage = "releasing" /\ ~call'[r].seeded
    BY <1>7, <2>1, ProvisionMoves
  <2>3. CASE MovesTo(r, "releasing", TRUE)
    BY <2>3, KeepsObserved DEF MovesTo
  <2>4. CASE ~MovesTo(r, "releasing", TRUE)
    BY <2>2, <2>4 DEF OnlyCall, ObservedInv, Judged
  <2> QED
    BY <2>3, <2>4
<1>8. ASSUME NEW r \in Run, NEW o \in Observation, RunAgent(r, o) \/ AgentReturns(r, o) PROVE ObservedInv'
  <2>1. o # None
    BY BoundaryAssumption
  <2>2. CASE RunAgent(r, o)
    <3>1. call[r].stage = "human" /\ call[r].seeded
      BY <2>2 DEF RunAgent, ObservedInv
    <3>2. /\ OnlyCall(r) /\ call'[r].stage = "agent" /\ call'[r].human = o
          /\ call'[r].seeded = call[r].seeded
      BY <2>2, RouteMoves
    <3> QED
      BY <2>1, <3>1, <3>2 DEF OnlyCall, ObservedInv, Judged
  <2>3. CASE AgentReturns(r, o)
    <3>1. call[r].stage = "agent" /\ call[r].seeded /\ call[r].human # None
      BY <2>3 DEF AgentReturns, ObservedInv
    <3>2. /\ OnlyCall(r) /\ call'[r].stage = "releasing" /\ call'[r].agent = o
          /\ call'[r].human = call[r].human /\ call'[r].seeded = call[r].seeded
      BY <2>3, RouteMoves
    <3> QED
      BY <2>1, <3>1, <3>2, ZenonT(40) DEF OnlyCall, ObservedInv, Judged
  <2> QED
    BY <1>8, <2>2, <2>3
<1>9. ASSUME NEW r \in Run, RouteThrows(r) \/ ReleaseTargets(r) PROVE ObservedInv'
  <2>1. \/ MovesTo(r, "releasing", TRUE) \/ MovesTo(r, "threw", TRUE)
        \/ call[r].stage = "releasing" /\ ~call[r].thrown /\ MovesTo(r, "concluding", FALSE)
    BY <1>9, FailureMoves, ReleaseMoves DEF RouteThrows, ReleaseTargets
  <2> QED
    BY <2>1, KeepsObserved DEF MovesTo, Judged
<1>10. ASSUME NEW r \in Run, Conclude(r) PROVE ObservedInv'
  <2>1. call[r].stage = "concluding"
    BY <1>10 DEF Conclude
  <2> QED
    BY <1>10, <2>1, ConcludeMoves, KeepsObserved DEF MovesTo, Judged
<1> QED
  BY <1>1, <1>2, <1>3, <1>4, <1>5, <1>6, <1>7, <1>8, <1>9, <1>10 DEF Next

\* A result depends on what the run observed, and not on where the run stands.
LEMMA SameResult ==
  ASSUME NEW c, NEW d, c.seeded = d.seeded, c.plan = d.plan, c.human = d.human, c.agent = d.agent
  PROVE  Result(c) = Result(d)
  BY DEF Result, Judge, Events

\* A run that neither has returned nor returns has no bundle.
LEMMA KeepsBundles ==
  ASSUME BundleInv, NEW r \in Run, OnlyCall(r), bundle' = bundle,
         call[r].stage # "returned", call'[r].stage # "returned"
  PROVE  BundleInv'
  BY DEF BundleInv, OnlyCall

\* A bundle is what its run concluded.
LEMMA NextBundleInv ==
  ASSUME TypeOK, BundleInv, [Next]_vars PROVE BundleInv'
<1>1. CASE Tick \/ UNCHANGED vars
  BY <1>1 DEF Tick, vars, BundleInv
<1>2. ASSUME NEW p \in Plan, NEW policy \in Policy, Prepare(p, policy) PROVE BundleInv'
  BY <1>2 DEF Prepare, BundleInv
<1>3. ASSUME NEW p \in Plan, NEW o \in Observation \cup {None}, MeasureBaseline(p, o) PROVE BundleInv'
  BY <1>3 DEF MeasureBaseline, BundleInv
<1>4. ASSUME NEW p \in Plan, FinishPrepare(p) PROVE BundleInv'
  BY <1>4 DEF FinishPrepare, BundleInv
<1>5. ASSUME NEW r \in Run, NEW p \in Plan, Refuse(r, p) \/ Lapse(r, p) PROVE BundleInv'
  BY <1>5, FailureMoves, KeepsBundles DEF Refuse, Lapse, MovesTo
<1>6. ASSUME NEW r \in Run, NEW p \in Plan, Consume(r, p) PROVE BundleInv'
  BY <1>6, ConsumeMoves, KeepsBundles DEF Consume
<1>7. ASSUME NEW r \in Run, ProvisionHuman(r) \/ ProvisionAgent(r) PROVE BundleInv'
  <2>1. OnlyCall(r) /\ call'[r].stage # "returned"
    BY <1>7, ProvisionMoves DEF MovesTo
  <2> QED
    BY <1>7, <2>1, KeepsBundles DEF ProvisionHuman, ProvisionAgent
<1>8. ASSUME NEW r \in Run, NEW o \in Observation, RunAgent(r, o) \/ AgentReturns(r, o) PROVE BundleInv'
  BY <1>8, RouteMoves, KeepsBundles DEF RunAgent, AgentReturns
<1>9. ASSUME NEW r \in Run, RouteThrows(r) \/ ReleaseTargets(r) PROVE BundleInv'
  <2>1. OnlyCall(r) /\ call'[r].stage # "returned"
    BY <1>9, FailureMoves, ReleaseMoves DEF RouteThrows, MovesTo
  <2> QED
    BY <1>9, <2>1, KeepsBundles DEF RouteThrows, ReleaseTargets
<1>10. ASSUME NEW r \in Run, Conclude(r) PROVE BundleInv'
  <2>1. CASE MovesTo(r, "threw", TRUE) /\ bundle' = bundle
    BY <1>10, <2>1, KeepsBundles DEF Conclude, MovesTo
  <2>2. CASE /\ MovesTo(r, "returned", call[r].thrown)
             /\ bundle' = [bundle EXCEPT ![r] = Result(call[r])]
    <3>1. Result(call[r]) = Result(call'[r]) /\ call'[r].stage = "returned"
      BY <2>2, SameResult DEF MovesTo
    <3>2. \A s \in Run \ {r} : call'[s] = call[s]
      BY <2>2 DEF MovesTo, OnlyCall
    <3> QED
      BY <2>2, <3>1, <3>2 DEF BundleInv
  <2> QED
    BY <1>10, <2>1, <2>2, ConcludeMoves
<1> QED
  BY <1>1, <1>2, <1>3, <1>4, <1>5, <1>6, <1>7, <1>8, <1>9, <1>10 DEF Next

\* The invariant holds initially.
LEMMA InitIInv == Init => IInv
<1> SUFFICES ASSUME Init PROVE IInv
  OBVIOUS
<1>1. TypeOK
  BY DEF Init, TypeOK, PrepareCall, PrepareStage, RunCall, CallStage
<1>2. PlanInv /\ ActedInv /\ StuckInv
  BY DEF Init, PlanInv, ActedInv, StuckInv
<1>3. ConsumedInv /\ LeaseInv /\ ObservedInv /\ BundleInv
  BY DEF Init, ConsumedInv, LeaseInv, ObservedInv, Judged, BundleInv
<1> QED
  BY <1>1, <1>2, <1>3 DEF IInv

\* The invariant of every state, on which everything below rests.
THEOREM Invariant == Spec => []IInv
<1>1. IInv /\ [Next]_vars => IInv'
  BY NextTypeOK, NextPlanInv, NextConsumedInv, NextActedInv, NextStuckInv, NextLeaseInv,
     NextObservedInv, NextBundleInv DEF IInv
<1> QED
  BY InitIInv, <1>1, PTL DEF Spec

\* The state of the auditor is typed: calls of prepare and run are at one of their
\* awaits, the map holds plans, and the harness has only leases of theirs.
THEOREM TypeCorrect == Spec => []TypeOK
<1>1. IInv => TypeOK
  BY DEF IInv
<1> QED
  BY Invariant, <1>1, PTL

-----------------------------------------------------------------------------
(* Leases *)

\* The finally blocks of prepare and run give back every lease, or fail with it and
\* leave neither a plan nor a bundle.
THEOREM LeasesReturned == Spec => []LeasesAccountedFor
<1>1. IInv => LeasesAccountedFor
  <2> SUFFICES ASSUME IInv PROVE LeasesAccountedFor
    OBVIOUS
  <2>1. ASSUME NEW p \in Plan, Trial(p) \in live
        PROVE  \/ prepare[p].stage \in {"human", "releasing"}
               \/ Trial(p) \in stuck /\ plans[p] = None
    BY <2>1 DEF IInv, LeaseInv, StuckInv, PlanInv
  <2>2. ASSUME NEW r \in Run, NEW lease \in Held(r)
        PROVE  \/ call[r].stage \in CallStage \ {"new", "concluding", "returned", "threw"}
               \/ lease \in stuck /\ call[r].stage = "threw" /\ bundle[r] = None
    <3>1. lease \in live /\ (lease = Human(r) \/ lease = Agent(r))
      BY DEF Held
    <3>2. CASE lease \in stuck
      <4>1. call[r].stage = "threw"
        BY <3>1, <3>2 DEF IInv, StuckInv
      <4> QED
        BY <3>2, <4>1 DEF IInv, BundleInv
    <3>3. CASE lease \notin stuck
      BY <3>1, <3>3 DEF IInv, LeaseInv, CallStage
    <3> QED
      BY <3>2, <3>3
  <2> QED
    BY <2>1, <2>2 DEF LeasesAccountedFor
<1> QED
  BY Invariant, <1>1, PTL

-----------------------------------------------------------------------------
(* Bundles *)

\* A bundle is the result of a run that worked on a plan.
LEMMA Returned ==
  ASSUME IInv, NEW r \in Run, bundle[r] # None
  PROVE  /\ call[r] \in RunCall /\ call[r].stage = "returned"
         /\ bundle[r] = Result(call[r])
         /\ call[r].plan \in PlanRecord /\ IsEvidence(call[r].plan.evidence)
<1>1. call[r] \in RunCall /\ call[r].stage = "returned" /\ bundle[r] = Result(call[r])
  BY DEF IInv, BundleInv, TypeOK
<1>2. call[r].plan # None
  BY <1>1 DEF IInv, ConsumedInv
<1>3. call[r].plan \in PlanRecord
  BY <1>2, OwnPlan DEF IInv
<1>4. PICK o \in Observation : call[r].plan.evidence = o.trusted
  BY <1>3 DEF PlanRecord
<1> QED
  BY <1>1, <1>3, <1>4, BoundaryAssumption

\* What it holds.
LEMMA ResultFields ==
  \A c : /\ Result(c).binding = c.plan.id
         /\ Result(c).baseline = c.plan.evidence
         /\ Result(c).policy = c.plan.policy
         /\ Result(c).human = Events(c.human) /\ Result(c).agent = Events(c.agent)
         /\ Result(c).parity = Judge(c)
         /\ Result(c).safety = BaselineSafety(c.plan.evidence, c.plan.policy)
         /\ Result(c).verdict = Combined(Result(c).parity, Result(c).safety)
         /\ Result(c).signed =>
              AttestationEligible(Result(c).verdict, Events(c.human).trusted, Events(c.agent).trusted)
  BY ZenonT(40) DEF Result

\* With the approved seed both routes were observed and compared; otherwise neither ran.
LEMMA JudgedOnObservations ==
  ASSUME IInv, NEW r \in Run, bundle[r] # None
  PROVE  LET c == call[r] IN
         /\ c.seeded =>
              /\ c.human \in Observation /\ Events(c.human) = c.human
              /\ c.agent \in Observation /\ Events(c.agent) = c.agent
              /\ Judge(c) = RouteParity(c.plan.evidence, c.human, c.agent, c.plan.evidence,
                                        c.plan.policy, c.plan.id)
         /\ ~c.seeded =>
              /\ Events(c.human) = NothingObserved /\ Events(c.agent) = NothingObserved
              /\ Judge(c) = SeedMismatch
<1> DEFINE c == call[r]
<1>1. c \in RunCall /\ c.stage = "returned"
  BY Returned
<1>2. c.seeded => c.human # None /\ c.agent # None
  BY <1>1 DEF IInv, ObservedInv, Judged
<1>3. ~c.seeded => c.human = None /\ c.agent = None
  BY <1>1 DEF IInv, ObservedInv
<1>4. c.human \in Observation \cup {None} /\ c.agent \in Observation \cup {None}
  BY <1>1 DEF RunCall
<1> HIDE DEF c
<1>5. c.seeded =>
        /\ c.human \in Observation /\ Events(c.human) = c.human
        /\ c.agent \in Observation /\ Events(c.agent) = c.agent
        /\ Judge(c) = RouteParity(c.plan.evidence, c.human, c.agent, c.plan.evidence,
                                  c.plan.policy, c.plan.id)
  BY <1>2, <1>4 DEF Events, Judge
<1>6. ~c.seeded =>
        /\ Events(c.human) = NothingObserved /\ Events(c.agent) = NothingObserved
        /\ Judge(c) = SeedMismatch
  BY <1>3 DEF Events, Judge
<1> QED
  BY <1>5, <1>6 DEF c

\* A run without the approved seed is inconclusive.
LEMMA MismatchInconclusive == SeedMismatch.status = "inconclusive"
  BY LayerFields DEF SeedMismatch, Inconclusive

\* For any evidence: what the agent did under a pass has its counterpart in what the human
\* reviewed, in kind, order, resource and amount, and followed an approval of this plan.
THEOREM PassFaithful == Spec => []PassIsFaithful
<1>1. IInv => PassIsFaithful
  <2> SUFFICES ASSUME IInv, NEW r \in Run, bundle[r] # None, bundle[r].parity.status = "pass"
               PROVE  Faithful(bundle[r])
    BY DEF PassIsFaithful
  <2> DEFINE c == call[r]
  <2>1. /\ bundle[r].baseline = c.plan.evidence /\ bundle[r].binding = c.plan.id
        /\ bundle[r].agent = Events(c.agent) /\ bundle[r].parity = Judge(c)
        /\ IsEvidence(c.plan.evidence)
    BY Returned, ResultFields
  <2>2. c.seeded
    BY <2>1, JudgedOnObservations, MismatchInconclusive
  <2>3. /\ c.agent \in Observation /\ Events(c.agent) = c.agent
        /\ Judge(c) = RouteParity(c.plan.evidence, c.human, c.agent, c.plan.evidence,
                                  c.plan.policy, c.plan.id)
    BY <2>2, JudgedOnObservations
  <2>4. CompareEffects(Payloads(c.plan.evidence), c.agent.trusted, c.plan.id) = {}
    BY <2>1, <2>3, PassFoundNothing
  <2>5. IsEvidence(c.agent.trusted)
    BY <2>3, BoundaryAssumption
  <2> DEFINE b == bundle[r]
             done == c.agent.trusted
  <2>6. b.agent.trusted = done /\ b.baseline = c.plan.evidence /\ b.binding = c.plan.id
    BY <2>1, <2>3
  <2> HIDE DEF c, b, done
  <2>7. /\ IsEvidence(b.baseline) /\ IsEvidence(b.agent.trusted)
        /\ CompareEffects(Payloads(b.baseline), b.agent.trusted, b.binding) = {}
    BY <2>1, <2>4, <2>5, <2>6 DEF done
  <2>8. Faithful(b)
    BY <2>7, NothingFound DEF Faithful, ApprovedEarlier
  <2> QED
    BY <2>8 DEF b
<1> QED
  BY Invariant, <1>1, PTL

\* What is signed was observed on both routes, leased no longer, of a plan that no other
\* bundle is about, and decided by a comparison or by the reviewed baseline.
THEOREM SignedEarned == Spec => []SignedIsEarned
<1>1. IInv => SignedIsEarned
  <2> SUFFICES ASSUME IInv, NEW r \in Run, bundle[r] # None, bundle[r].signed
               PROVE  /\ Held(r) = {}
                      /\ Outcomes(bundle[r].human.trusted) # {}
                      /\ Outcomes(bundle[r].agent.trusted) # {}
                      /\ \/ /\ bundle[r].parity.status \in {"pass", "fail"}
                            /\ bundle[r].human.trusted = bundle[r].baseline
                         \/ bundle[r].safety.status = "fail"
                      /\ \A s \in Run \ {r} :
                           bundle[s] # None => bundle[s].binding # bundle[r].binding
    BY DEF SignedIsEarned
  <2> DEFINE c == call[r]
  <2>1. /\ c.stage = "returned" /\ bundle[r] = Result(c) /\ c.plan \in PlanRecord
    BY Returned
  <2>2. Held(r) = {}
    BY <2>1 DEF IInv, Held, LeaseInv, StuckInv
  <2>3. /\ bundle[r].parity = Judge(c) /\ bundle[r].baseline = c.plan.evidence
        /\ bundle[r].human = Events(c.human) /\ bundle[r].agent = Events(c.agent)
        /\ bundle[r].binding = c.plan.id
        /\ bundle[r].verdict = Combined(bundle[r].parity, bundle[r].safety)
        /\ AttestationEligible(bundle[r].verdict, Events(c.human).trusted, Events(c.agent).trusted)
    BY <2>1, ResultFields
  <2>4. /\ Judge(c).status \in {"pass", "fail", "inconclusive"}
        /\ Judge(c).status # "inconclusive" => Events(c.human).trusted = c.plan.evidence
    <3>1. CASE c.seeded
      BY <3>1, JudgedOnObservations, DecisiveIsCompared
    <3>2. CASE ~c.seeded
      BY <3>2, JudgedOnObservations, MismatchInconclusive
    <3> QED
      BY <3>1, <3>2
  <2>5. /\ Outcomes(Events(c.human).trusted) # {} /\ Outcomes(Events(c.agent).trusted) # {}
        /\ Judge(c).status \in {"pass", "fail"} \/ bundle[r].safety.status = "fail"
    BY <2>3, <2>4, EligibleIsDecided
  <2>6. ASSUME NEW s \in Run \ {r}, bundle[s] # None
        PROVE  bundle[s].binding # bundle[r].binding
    <3>1. bundle[s].binding = call[s].plan.id /\ call[s].plan \in PlanRecord
      BY <2>6, Returned, ResultFields
    <3>2. call[s].plan # None /\ c.plan # None
      BY <2>1, <3>1, BoundaryAssumption
    <3>3. call[s].plan.id # c.plan.id
      BY <3>2 DEF IInv, ConsumedInv
    <3> QED
      BY <2>3, <3>1, <3>3
  <2> HIDE DEF c
  <2> QED
    BY <2>2, <2>3, <2>4, <2>5, <2>6
<1> QED
  BY Invariant, <1>1, PTL

\* The auditor's eligibility is the one that the verifier recomputes.
LEMMA ResultEligible ==
  \A c : /\ Result(c).eligible =
              AttestationEligible(Result(c).verdict, Events(c.human).trusted, Events(c.agent).trusted)
         /\ Result(c).signed => Result(c).eligible
  BY DEF Result

\* Whatever the auditor returns after a decisive comparison, or where no approval was
\* recorded, its verifier accepts: both derive the same layers from the same evidence.
THEOREM VerifierAgrees == Spec => []DecisiveBundlesVerify
<1>1. IInv => DecisiveBundlesVerify
  <2> SUFFICES ASSUME IInv, NEW r \in Run, bundle[r] # None,
                      bundle[r].parity.status = "inconclusive" =>
                        /\ OfKind(Payloads(bundle[r].baseline), "approval") = {}
                        /\ OfKind(Payloads(bundle[r].human.trusted), "approval") = {}
               PROVE  Verifies(bundle[r])
    BY DEF DecisiveBundlesVerify
  <2> DEFINE c == call[r]
             b == bundle[r]
  <2>1. /\ b.parity = Judge(c) /\ b.baseline = c.plan.evidence /\ b.policy = c.plan.policy
        /\ b.human = Events(c.human) /\ b.agent = Events(c.agent) /\ b.binding = c.plan.id
        /\ b.safety = BaselineSafety(b.baseline, b.policy)
        /\ b.verdict = Combined(b.parity, b.safety)
        /\ b.eligible = AttestationEligible(b.verdict, b.human.trusted, b.agent.trusted)
        /\ b.signed => b.eligible
    <3>1. b = Result(c)
      BY Returned
    <3> HIDE DEF b, c
    <3> QED
      BY <3>1, ResultFields, ResultEligible
  <2>2. b.parity = DerivedParity(b)
    <3>1. CASE c.seeded
      <4>1. b.parity = RouteParity(b.baseline, b.human, b.agent, b.baseline, b.policy, b.binding)
        BY <2>1, <3>1, JudgedOnObservations
      <4>2. b.parity # SeedMismatch
        BY <4>1, DecisiveIsCompared
      <4>3. CASE b.parity.status # "inconclusive"
        BY <4>1, <4>2, <4>3, EitherHumanAsked DEF DerivedParity
      <4>4. CASE /\ OfKind(Payloads(b.baseline), "approval") = {}
                 /\ OfKind(Payloads(b.human.trusted), "approval") = {}
        BY <4>1, <4>2, <4>4, EitherHumanAsked DEF DerivedParity
      <4> QED
        BY <4>3, <4>4
    <3>2. CASE ~c.seeded
      BY <2>1, <3>2, JudgedOnObservations DEF DerivedParity
    <3> QED
      BY <3>1, <3>2
  <2> HIDE DEF b, c
  <2>3. Verifies(b)
    BY <2>1, <2>2 DEF Verifies
  <2> QED
    BY <2>3 DEF b
<1> QED
  BY Invariant, <1>1, PTL

-----------------------------------------------------------------------------
(* A plan is a one-shot authority *)

Over(r) == call[r].stage \in {"returned", "threw"}

\* The phase of every plan, by what holds of it.
PhasesOfPlans ==
  \A p \in Plan :
    /\ prepare[p].stage # "returned" => PlanPhase(p) = "new"
    /\ plans[p] # None => PlanPhase(p) = "waiting"
    /\ prepare[p].stage = "returned" /\ plans[p] = None /\ Consumers(p) = {} =>
         PlanPhase(p) = "refused"
    /\ \A r \in Consumers(p) : PlanPhase(p) = IF Over(r) THEN "closed" ELSE "authorised"

\* The phase of a plan can be read off where its call and its run stand.
LEMMA PhasesNow == IInv => PhasesOfPlans
<1> SUFFICES ASSUME IInv, NEW p \in Plan
             PROVE  /\ prepare[p].stage # "returned" => PlanPhase(p) = "new"
                    /\ plans[p] # None => PlanPhase(p) = "waiting"
                    /\ prepare[p].stage = "returned" /\ plans[p] = None /\ Consumers(p) = {} =>
                         PlanPhase(p) = "refused"
                    /\ \A r \in Consumers(p) :
                         PlanPhase(p) = IF Over(r) THEN "closed" ELSE "authorised"
  BY DEF PhasesOfPlans
<1>1. prepare[p].stage # "returned" => PlanPhase(p) = "new"
  BY DEF PlanPhase
<1>2. plans[p] # None => PlanPhase(p) = "waiting"
  BY DEF PlanPhase, IInv, PlanInv
<1>3. prepare[p].stage = "returned" /\ plans[p] = None /\ Consumers(p) = {} => PlanPhase(p) = "refused"
  BY DEF PlanPhase
<1>4. ASSUME NEW r \in Consumers(p)
      PROVE  PlanPhase(p) = IF Over(r) THEN "closed" ELSE "authorised"
  <2>1. prepare[p].stage = "returned" /\ plans[p] = None
    BY DEF Consumers, IInv, ConsumedInv
  <2>2. Consumers(p) = {r}
    BY DEF Consumers, IInv, ConsumedInv
  <2> QED
    BY <2>1, <2>2 DEF PlanPhase, Over
<1> QED
  BY <1>1, <1>2, <1>3, <1>4

\* So it can after a step.
LEMMA PhasesNext == IInv' => PhasesOfPlans'
  BY PhasesNow, PTL

\* A plan nobody is done with, or starts with, keeps its phase.
LEMMA SamePhase ==
  ASSUME NEW p \in Plan,
         prepare'[p].stage = "returned" <=> prepare[p].stage = "returned",
         plans'[p] = None <=> plans[p] = None,
         Consumers(p)' = Consumers(p),
         \A r \in Consumers(p) : Over(r)' <=> Over(r)
  PROVE  PlanPhase(p)' = PlanPhase(p)
<1>1. CASE prepare[p].stage # "returned"
  BY <1>1 DEF PlanPhase
<1>2. CASE prepare[p].stage = "returned" /\ plans[p] # None
  BY <1>2 DEF PlanPhase
<1>3. CASE prepare[p].stage = "returned" /\ plans[p] = None
  <2>1. (\E r \in Consumers(p)' : ~Over(r)') <=> (\E r \in Consumers(p) : ~Over(r))
    OBVIOUS
  <2> QED
    BY <1>3, <2>1 DEF PlanPhase, Over
<1> QED
  BY <1>1, <1>2, <1>3

\* What one run does with the plan it has matters to this plan only.
LEMMA SameConsumers ==
  ASSUME TypeOK, NEW r \in Run, OnlyCall(r), call'[r].plan = call[r].plan, NEW p \in Plan
  PROVE  /\ Consumers(p)' = Consumers(p)
         /\ r \notin Consumers(p) \/ (Over(r)' <=> Over(r)) =>
              \A s \in Consumers(p) : Over(s)' <=> Over(s)
<1>1. \A s \in Run : call'[s].plan = call[s].plan
  BY DEF OnlyCall
<1> QED
  BY <1>1 DEF Consumers, Over, OnlyCall

\* Nothing happens to the authorities.
Still == /\ \A p \in Plan : PlanPhase(p)' = PlanPhase(p)
         /\ acted' = acted

\* If no phase changes and no route starts, the authority stutters.
LEMMA StillStutters == Still => UNCHANGED Authority!vars
  BY DEF Still, Authority!vars

\* The steps that no authority is about.
LEMMA StillSteps ==
  ASSUME IInv, [Next]_vars,
         \A p \in Plan : ~(FinishPrepare(p) /\ prepare'[p].stage = "returned"),
         \A r \in Run, p \in Plan : ~Lapse(r, p) /\ ~Consume(r, p),
         \A r \in Run : ~(\E o \in Observation : RunAgent(r, o))
                        /\ ~((ReleaseTargets(r) \/ Conclude(r)) /\ Over(r)')
  PROVE  Still
<1> USE DEF IInv
<1>1. CASE Tick \/ UNCHANGED vars
  BY <1>1 DEF Tick, vars, Still, PlanPhase, Consumers
<1>2. ASSUME NEW p \in Plan, prepare[p].stage # "returned", prepare'[p].stage # "returned",
             \A q \in Plan \ {p} : prepare'[q] = prepare[q],
             UNCHANGED <<plans, call, acted>>
      PROVE  Still
  <2>1. \A q \in Plan : PlanPhase(q)' = PlanPhase(q)
    BY <1>2, SamePhase DEF Consumers, Over
  <2> QED
    BY <1>2, <2>1 DEF Still
<1>3. ASSUME NEW r \in Run, OnlyCall(r), call'[r].plan = call[r].plan,
             call[r].plan = None \/ (Over(r)' <=> Over(r)),
             UNCHANGED <<prepare, plans, acted>>
      PROVE  Still
  <2>1. ASSUME NEW q \in Plan PROVE PlanPhase(q)' = PlanPhase(q)
    <3>1. r \notin Consumers(q) \/ (Over(r)' <=> Over(r))
      BY <1>3 DEF Consumers
    <3> QED
      BY <1>3, <3>1, SameConsumers, SamePhase
  <2> QED
    BY <1>3, <2>1 DEF Still
<1>4. ASSUME NEW p \in Plan,
             \/ \E policy \in Policy : Prepare(p, policy)
             \/ \E o \in Observation \cup {None} : MeasureBaseline(p, o)
      PROVE  Still
  BY <1>2, <1>4, PrepareMoves DEF Prepare, MeasureBaseline
<1>5. ASSUME NEW p \in Plan, FinishPrepare(p) PROVE Still
  <2>1. /\ prepare'[p].stage = "threw" /\ plans' = plans
        /\ \A q \in Plan \ {p} : prepare'[q] = prepare[q]
    BY <1>5, PrepareMoves
  <2> QED
    BY <1>2, <1>5, <2>1 DEF FinishPrepare
<1>6. ASSUME NEW r \in Run, NEW p \in Plan, Refuse(r, p) PROVE Still
  <2>1. MovesTo(r, "threw", TRUE) /\ call[r].plan = None
    BY <1>6, FailureMoves DEF Refuse, ConsumedInv
  <2> QED
    BY <1>3, <1>6, <2>1 DEF Refuse, MovesTo
<1>7. ASSUME NEW r \in Run, ProvisionHuman(r) \/ ProvisionAgent(r) PROVE Still
  <2>1. OnlyCall(r) /\ call'[r].plan = call[r].plan /\ ~Over(r)'
    BY <1>7, ProvisionMoves DEF MovesTo, Over
  <2> QED
    BY <1>3, <1>7, <2>1 DEF ProvisionHuman, ProvisionAgent, Over
<1>8. ASSUME NEW r \in Run, NEW o \in Observation, AgentReturns(r, o) PROVE Still
  BY <1>3, <1>8, RouteMoves DEF AgentReturns, Over
<1>9. ASSUME NEW r \in Run, RouteThrows(r) PROVE Still
  BY <1>3, <1>9, FailureMoves DEF RouteThrows, MovesTo, Over
<1>10. ASSUME NEW r \in Run, ReleaseTargets(r) \/ Conclude(r) PROVE Still
  <2>1. OnlyCall(r) /\ call'[r].plan = call[r].plan
    BY <1>10, ReleaseMoves, ConcludeMoves DEF MovesTo
  <2> QED
    BY <1>3, <1>10, <2>1 DEF ReleaseTargets, Conclude, Over
<1> QED
  BY <1>1, <1>4, <1>5, <1>6, <1>7, <1>8, <1>9, <1>10 DEF Next

\* A measured preparation submits its plan for review.
LEMMA SubmitPhase ==
  ASSUME IInv, IInv', NEW p \in Plan, FinishPrepare(p), prepare'[p].stage = "returned"
  PROVE  Authority!Submit({}, p)
<1>1. /\ plans' = [plans EXCEPT ![p] = NewPlan(p)] /\ NewPlan(p) \in PlanRecord
      /\ \A q \in Plan \ {p} : prepare'[q] = prepare[q]
  BY PrepareMoves DEF IInv
<1>2. prepare[p].stage # "returned" /\ UNCHANGED <<call, acted>>
  BY DEF FinishPrepare
<1>3. \A q \in Plan \ {p} : PlanPhase(q)' = PlanPhase(q)
  BY <1>1, <1>2, SamePhase DEF IInv, TypeOK, Consumers, Over
<1>4. plans'[p] # None
  BY <1>1, BoundaryAssumption DEF IInv, TypeOK
<1>5. PlanPhase(p) = "new" /\ PlanPhase(p)' = "waiting"
  BY <1>2, <1>4, PhasesNow, PhasesNext DEF PhasesOfPlans
<1> QED
  BY <1>2, <1>3, <1>5 DEF Authority!Submit

\* A lapsed plan is refused.
LEMMA SettlePhase ==
  ASSUME IInv, IInv', NEW r \in Run, NEW p \in Plan, Lapse(r, p)
  PROVE  Authority!Settle({p}, {})
<1>1. /\ plans[p] # None /\ plans' = [plans EXCEPT ![p] = None] /\ call[r].stage = "new"
      /\ UNCHANGED <<prepare, acted>>
  BY DEF Lapse
<1>2. MovesTo(r, "threw", TRUE) /\ call[r].plan = None
  BY <1>1, FailureMoves DEF Lapse, IInv, ConsumedInv
<1>3. \A q \in Plan : Consumers(q)' = Consumers(q) /\ r \notin Consumers(q)
  BY <1>2, SameConsumers DEF MovesTo, Consumers, IInv
<1>4. \A q \in Plan \ {p} : PlanPhase(q)' = PlanPhase(q)
  BY <1>1, <1>2, <1>3, SameConsumers, SamePhase DEF MovesTo, IInv, TypeOK
<1>5. Consumers(p) = {} /\ prepare[p].stage = "returned"
  BY <1>1 DEF Consumers, IInv, ConsumedInv, PlanInv
<1>6. plans'[p] = None
  BY <1>1 DEF IInv, TypeOK
<1>7. PlanPhase(p) = "waiting" /\ PlanPhase(p)' = "refused"
  BY <1>1, <1>3, <1>5, <1>6, PhasesNow, PhasesNext DEF PhasesOfPlans
<1> QED
  BY <1>1, <1>4, <1>7 DEF Authority!Settle

\* The run that takes a plan is authorised.
LEMMA AuthorisePhase ==
  ASSUME IInv, IInv', NEW r \in Run, NEW p \in Plan, Consume(r, p)
  PROVE  Authority!Authorise(p)
<1>1. /\ plans[p] # None /\ call[r].stage = "new" /\ UNCHANGED <<prepare, acted>>
  BY DEF Consume
<1>2. /\ OnlyCall(r) /\ call'[r].plan = plans[p] /\ call'[r].stage = "provisioning human"
      /\ \A q \in Plan \ {p} : plans'[q] = plans[q]
  BY ConsumeMoves DEF IInv
<1>3. call[r].plan = None /\ plans[p].id = p
  BY <1>1 DEF IInv, ConsumedInv, PlanInv
<1>4. ASSUME NEW q \in Plan \ {p} PROVE PlanPhase(q)' = PlanPhase(q)
  <2>1. Consumers(q)' = Consumers(q) /\ \A s \in Consumers(q) : Over(s)' <=> Over(s)
    BY <1>2, <1>3, ZenonT(40) DEF Consumers, Over, OnlyCall
  <2> QED
    BY <1>1, <1>2, <2>1, SamePhase
<1>5. r \in Consumers(p)' /\ ~Over(r)'
  BY <1>1, <1>2, <1>3 DEF Consumers, Over
<1>6. PlanPhase(p) = "waiting" /\ PlanPhase(p)' = "authorised"
  BY <1>1, <1>5, PhasesNow, PhasesNext DEF PhasesOfPlans
<1> QED
  BY <1>1, <1>4, <1>6 DEF Authority!Authorise

\* Its agent route is started, for the first time.
LEMMA PerformPhase ==
  ASSUME IInv, NEW r \in Run, NEW o \in Observation, RunAgent(r, o)
  PROVE  Authority!Perform(call[r].plan.id)
<1> DEFINE p == call[r].plan.id
<1>1. /\ call[r].stage = "human" /\ UNCHANGED <<prepare, plans>>
      /\ acted' = [acted EXCEPT ![p] = acted[p] \cup {r}]
  BY DEF RunAgent
<1>2. p \in Plan /\ r \in Consumers(p) /\ ~Over(r)
  BY <1>1, OwnPlan DEF IInv, ConsumedInv, Consumers, Over
<1>3. /\ OnlyCall(r) /\ call'[r].plan = call[r].plan /\ ~Over(r)'
  BY RouteMoves DEF IInv, Over
<1> HIDE DEF p
<1>4. \A q \in Plan : PlanPhase(q)' = PlanPhase(q)
  BY <1>1, <1>2, <1>3, SameConsumers, SamePhase DEF IInv
<1>5. PlanPhase(p) = "authorised"
  BY <1>2, PhasesNow DEF PhasesOfPlans
<1>6. acted[p] = {}
  <2>1. ASSUME NEW s \in acted[p] PROVE FALSE
    <3>1. s \in Run /\ call[s].plan # None /\ call[s].plan.id = p /\ call[s].stage # "human"
      BY <1>2 DEF IInv, ActedInv, TypeOK
    <3> QED
      BY <1>1, <1>2, <3>1 DEF IInv, ConsumedInv, Consumers
  <2> QED
    BY <2>1
<1>7. \A q \in Plan : acted'[q] = IF q = p THEN {r} ELSE acted[q]
  BY <1>1, <1>6 DEF IInv, TypeOK
<1>8. Cardinality({}) = 0 /\ Cardinality({r}) = 1
  BY FS_EmptySet, FS_Singleton
<1>9. Authority!Perform(p)
  BY <1>2, <1>4, <1>5, <1>6, <1>7, <1>8 DEF Authority!Perform
<1> QED
  BY <1>9 DEF p

\* A run that is over closes its plan.
LEMMA ClosePhase ==
  ASSUME IInv, IInv', NEW r \in Run, ReleaseTargets(r) \/ Conclude(r), Over(r)',
         NEW p \in Plan, p = call[r].plan.id
  PROVE  Authority!Settle({}, {p})
<1>1. ~Over(r) /\ UNCHANGED <<prepare, plans, acted>>
  BY DEF ReleaseTargets, Conclude, Over
<1>2. r \in Consumers(p)
  BY DEF ReleaseTargets, Conclude, IInv, ConsumedInv, Consumers
<1>3. OnlyCall(r) /\ call'[r].plan = call[r].plan
  BY ReleaseMoves, ConcludeMoves DEF MovesTo, IInv
<1>4. ASSUME NEW q \in Plan, q # p PROVE PlanPhase(q)' = PlanPhase(q)
  <2>1. r \notin Consumers(q)
    BY <1>4 DEF Consumers
  <2> QED
    BY <1>1, <1>3, <2>1, SameConsumers, SamePhase DEF IInv
<1>5. r \in Consumers(p)'
  BY <1>2, <1>3, SameConsumers DEF IInv
<1>6. PlanPhase(p) = "authorised" /\ PlanPhase(p)' = "closed"
  BY <1>1, <1>2, <1>5, PhasesNow, PhasesNext DEF PhasesOfPlans
<1> QED
  BY <1>1, <1>4, <1>6 DEF Authority!Settle

\* Every step of the auditor is a step of the authority, or none.
LEMMA NextAuthority == IInv /\ IInv' /\ [Next]_vars => [Authority!Next]_(Authority!vars)
<1> SUFFICES ASSUME IInv, IInv', [Next]_vars PROVE [Authority!Next]_(Authority!vars)
  OBVIOUS
<1>1. ASSUME NEW p \in Plan, FinishPrepare(p), prepare'[p].stage = "returned"
      PROVE  Authority!Next
  BY <1>1, SubmitPhase, {} \in SUBSET Plan DEF Authority!Next
<1>2. ASSUME NEW r \in Run, NEW p \in Plan, Lapse(r, p) PROVE Authority!Next
  BY <1>2, SettlePhase, {p} \in SUBSET Plan, {} \in SUBSET Plan DEF Authority!Next
<1>3. ASSUME NEW r \in Run, NEW p \in Plan, Consume(r, p) PROVE Authority!Next
  BY <1>3, AuthorisePhase DEF Authority!Next
<1>4. ASSUME NEW r \in Run, NEW o \in Observation, RunAgent(r, o) PROVE Authority!Next
  <2>1. call[r].plan.id \in Plan
    BY <1>4, OwnPlan DEF RunAgent, IInv, ConsumedInv
  <2> QED
    BY <1>4, <2>1, PerformPhase DEF Authority!Next
<1>5. ASSUME NEW r \in Run, ReleaseTargets(r) \/ Conclude(r), Over(r)' PROVE Authority!Next
  <2>1. PICK p \in Plan : p = call[r].plan.id
    BY <1>5, OwnPlan DEF ReleaseTargets, Conclude, IInv, ConsumedInv
  <2> QED
    BY <1>5, <2>1, ClosePhase, {p} \in SUBSET Plan, {} \in SUBSET Plan DEF Authority!Next
<1> QED
  BY <1>1, <1>2, <1>3, <1>4, <1>5, StillSteps, StillStutters

\* Every plan is a one-shot authority: stored once, lapsed or consumed by one run, and its
\* agent route started at most once, by that run (ImplementsOneShot).
THEOREM Refinement == Spec => ImplementsOneShot
<1>1. Init => Authority!Init
  <2> SUFFICES ASSUME Init PROVE Authority!Init
    OBVIOUS
  <2>1. \A p \in Plan : prepare[p].stage # "returned" /\ acted[p] = {}
    BY DEF Init
  <2>2. \A p \in Plan : PlanPhase(p) = "new" /\ Cardinality(acted[p]) = 0
    BY <2>1, FS_EmptySet DEF PlanPhase
  <2> QED
    BY <2>2 DEF Authority!Init
<1> QED
  BY Invariant, <1>1, NextAuthority, PTL DEF Spec, ImplementsOneShot, Authority!Spec
=============================================================================
