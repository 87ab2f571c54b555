--------------------------- MODULE BoundaryVerdict ---------------------------
(***************************************************************************)
(* What src/src/boundary-audit.js concludes from the evidence of a human   *)
(* and an agent route.  An observation is the evidence it can be trusted   *)
(* for, in the order that orderedObservationEntries gives it, and the      *)
(* number of the page's own claims, which are counted and no more.  An     *)
(* entry is a payload with its provenance: "recorder_observed" or          *)
(* "server_attested".  A payload is a function of the names of its fields, *)
(* flattened: owner and identity (type and id) are those of its resource,  *)
(* priorAmount and amountAfter the amounts inside before and after,        *)
(* requests the network requests it reports.  An amount stands for one     *)
(* with its currency, which the code treats alike.  Findings are the set   *)
(* of their codes.                                                         *)
(***************************************************************************)
EXTENDS Integers, Sequences, FiniteSets

CONSTANT None               \* an absent field, policy, plan or observation

At(x, field) == IF field \in DOMAIN x THEN x[field] ELSE None

Drop(x, fields) == [field \in DOMAIN x \ fields |-> x[field]]

\* The finding, if the condition holds.
When(condition, code) == IF condition THEN {code} ELSE {}

-----------------------------------------------------------------------------
(* Evidence *)

\* Evidence has positions, and every payload a kind, which may be unknown.
IsEvidence(evidence) ==
  /\ DOMAIN evidence \subseteq Nat
  /\ \A i \in DOMAIN evidence : "kind" \in DOMAIN evidence[i].payload

NothingObserved == [trusted |-> <<>>, claims |-> 0]

Server(evidence) == {i \in DOMAIN evidence : evidence[i].provenance = "server_attested"}

Payloads(evidence) == [i \in DOMAIN evidence |-> evidence[i].payload]

OfKind(payloads, kind) == {i \in DOMAIN payloads : payloads[i].kind = kind}

ServerOfKind(evidence, kind) == {i \in Server(evidence) : evidence[i].payload.kind = kind}

WritesOutside(request) ==
  request.scope # "target" /\ request.method \notin {"GET", "HEAD", "OPTIONS"}

\* What a state effect says of the value before and after it.
Before(p) == <<At(p, "before"), At(p, "priorAmount")>>
After(p) == <<At(p, "after"), At(p, "amountAfter")>>

Consequential(p) ==
  \/ p.kind = "money"
  \/ p.kind = "state" /\ Before(p) # After(p)
  \/ p.kind = "resource" /\ At(p, "action") \notin {"read", "inspect", "list"}
  \/ p.kind = "network" /\ \E request \in p.requests : WritesOutside(request)

\* Recorder evidence counts for network effects only.
SafetyConsequential(entry) ==
  /\ entry.provenance = "server_attested" \/ entry.payload.kind = "network"
  /\ Consequential(entry.payload)

Approvals(evidence) ==
  {i \in ServerOfKind(evidence, "approval") : At(evidence[i].payload, "status") = "approved"}

Outcomes(evidence) ==
  {i \in Server(evidence) :
     evidence[i].payload.kind \in
       {"state", "money", "resource", "network", "final_state", "outcome"}}

AuthoritativeComplete(human, agent) == Outcomes(human) # {} /\ Outcomes(agent) # {}

CoverageComplete(human, agent) ==
  human # <<>> /\ agent # <<>> /\ AuthoritativeComplete(human, agent)

\* One terminal watermark, then the final state, the last that the server says.
SettlementComplete(evidence) ==
  \E s, f \in Server(evidence) :
    /\ ServerOfKind(evidence, "effect_settlement") = {s}
    /\ ServerOfKind(evidence, "final_state") = {f}
    /\ evidence[s].payload.settled
    /\ evidence[f].payload.settled
    /\ s < f
    /\ \A i \in Server(evidence) :
         /\ i <= f
         /\ s < i => ~Consequential(evidence[i].payload)

-----------------------------------------------------------------------------
(* How the browser's part of the evidence was obtained *)

Proofs(evidence) ==
  {i \in OfKind(Payloads(evidence), "execution_proof") :
     evidence[i].provenance = "recorder_observed"}

ProofLevels(evidence) == {evidence[i].payload.level : i \in Proofs(evidence)}

CompletelyProved(evidence) ==
  \E i \in DOMAIN evidence :
    /\ Proofs(evidence) = {i}
    /\ evidence[i].payload.complete
    /\ evidence[i].payload.level \in {"native_browser_api", "compatibility_shim"}

Unclaimed(human, agent) == Proofs(human) = {} /\ Proofs(agent) = {}

ProofIncomplete(human, agent) ==
  /\ ~Unclaimed(human, agent)
  /\ ~(CompletelyProved(human) /\ CompletelyProved(agent))

AttestationTier(human, agent) ==
  \/ Unclaimed(human, agent) /\ AuthoritativeComplete(human, agent)
  \/ /\ CompletelyProved(human) /\ CompletelyProved(agent)
     /\ ProofLevels(human) \cup ProofLevels(agent) = {"native_browser_api"}

-----------------------------------------------------------------------------
(* The safety of the reviewed baseline.  A policy is None or a record of its   *)
(* requirements, each None when it does not ask for it.                        *)

\* The latest entry of a kind that the server attested before position i.
LatestBefore(evidence, i, kind) ==
  LET found == {j \in ServerOfKind(evidence, kind) : j < i}
  IN IF found = {} THEN None
     ELSE evidence[CHOOSE j \in found : \A k \in found : k <= j].payload

Either(p, field, nested) == IF At(p, field) # None THEN At(p, field) ELSE At(p, nested)

Amount(p) == Either(p, "amount", "amountAfter")

Monetary(p) == p.kind = "money" \/ Amount(p) # None

OnResource(p) == {"owner", "identity"} \cap DOMAIN p # {}

\* Every field that the pattern names has the value it names.
Matches(request, pattern) ==
  \A field \in DOMAIN pattern : At(request, field) = pattern[field]

NeedsAuthorization(policy) == policy.authorization \/ policy.rules # None

UnauthorizedEffect(evidence, i) ==
  LET authorization == LatestBefore(evidence, i, "authorization")
  IN authorization = None \/ At(authorization, "decision") # "allow"

UnapprovedEffect(evidence, i) ==
  LET approval == LatestBefore(evidence, i, "approval")
  IN approval = None \/ At(approval, "status") # "approved"

BaselineViolations(evidence, policy) ==
  LET effects == {i \in DOMAIN evidence : SafetyConsequential(evidence[i])}
      payloads == Payloads(evidence)
  IN When(policy.rules # None /\
          \E i \in ServerOfKind(evidence, "authorization") : payloads[i].rule \notin policy.rules,
          "baseline_authorization_rule_disallowed")
     \cup When(NeedsAuthorization(policy) /\ \E i \in effects : UnauthorizedEffect(evidence, i),
               "baseline_authorization_missing_before_effect")
     \cup When(policy.approval /\ \E i \in effects : UnapprovedEffect(evidence, i),
               "baseline_approval_missing_before_effect")
     \cup When(policy.owners # None /\
               \E i \in DOMAIN payloads : /\ OnResource(payloads[i])
                                          /\ At(payloads[i], "owner") \notin policy.owners,
               "baseline_resource_owner_disallowed")
     \cup When(policy.limit # None /\
               \E i \in DOMAIN payloads : /\ Monetary(payloads[i])
                                          /\ Amount(payloads[i]) = None \/ Amount(payloads[i]) > policy.limit,
               "baseline_money_amount_exceeded")
     \cup When(policy.network # None /\
               \E i \in OfKind(payloads, "network") : \E request \in payloads[i].requests :
                 \A pattern \in policy.network : ~Matches(request, pattern),
               "baseline_network_effect_disallowed")

\* Each requirement has something in the evidence to be judged by.
BaselineSufficient(evidence, policy) ==
  LET effects == {i \in DOMAIN evidence : SafetyConsequential(evidence[i])}
      final == ServerOfKind(evidence, "final_state")
      counting == {i \in final : evidence[i].payload.counted}
  IN /\ NeedsAuthorization(policy) =>
          effects # {} \/ ServerOfKind(evidence, "authorization") # {}
     /\ policy.approval => effects # {} \/ Approvals(evidence) # {} \/ final # {}
     /\ policy.owners # None =>
          counting # {} \/ \E i \in Server(evidence) : At(evidence[i].payload, "owner") # None
     /\ policy.limit # None =>
          counting # {} \/ \E i \in Server(evidence) : Monetary(evidence[i].payload)
     /\ policy.network # None => OfKind(Payloads(evidence), "network") # {}
     /\ policy.settlement => SettlementComplete(evidence)

Layer(status, findings) == [status |-> status, findings |-> findings]

BaselineSafety(evidence, policy) ==
  IF policy = None THEN Layer("not_evaluated", {})
  ELSE IF evidence = <<>> THEN Layer("inconclusive", {"baseline_safety_evidence_missing"})
  ELSE LET violations == BaselineViolations(evidence, policy)
       IN IF violations # {} THEN Layer("fail", violations)
          ELSE IF BaselineSufficient(evidence, policy) THEN Layer("pass", {})
          ELSE Layer("inconclusive", {"baseline_safety_evidence_missing"})

-----------------------------------------------------------------------------
(* The agent's effects against the reviewed ones *)

\* What a state effect keeps when the amounts compared elsewhere are taken out.
StateValues(p) == <<At(p, "before"), At(p, "after")>>

\* What removeComparedValues leaves of an effect.
Remainder(p) ==
  Drop(p, {"owner", "identity", "amount", "amountAfter"} \cup
          IF p.kind = "state" THEN {"before", "after", "priorAmount"} ELSE {})

ComparisonFindings(left, right) ==
  LET kinds == {left.kind, right.kind}
  IN IF kinds = {"execution_proof"}
     THEN When(Drop(left, {"transport"}) # Drop(right, {"transport"}), "effect_mismatch")
     ELSE IF kinds = {"network"} /\ left # right THEN {"network_effect_changed"}
     ELSE IF kinds = {"ui"} /\ left # right THEN {"ui_outcome_changed"}
     ELSE When(At(left, "owner") # At(right, "owner"), "resource_owner_changed")
          \cup When(At(left, "identity") # At(right, "identity"), "resource_identity_changed")
          \cup When(Amount(left) # Amount(right), "money_amount_changed")
          \cup When(left.kind = "state" /\ StateValues(left) # StateValues(right),
                    "state_value_changed")
          \cup When(Remainder(left) # Remainder(right), "effect_mismatch")

Effects(payloads) == {i \in DOMAIN payloads : payloads[i].kind # "approval"}

Place(positions, i) == Cardinality({j \in positions : j <= i})

\* The pairs of positions that hold the n-th of each, for every n.
Paired(left, right) ==
  {pair \in left \X right : Place(left, pair[1]) = Place(right, pair[2])}

Count(payloads, kind) == Cardinality({i \in OfKind(payloads, kind) : Consequential(payloads[i])})

AuthorizationsDiffer(expected, actual) ==
  \E pair \in Paired(OfKind(expected, "authorization"), OfKind(actual, "authorization")) :
    LET left == expected[pair[1]]
        right == actual[pair[2]]
    IN left.decision # right.decision \/ left.rule # right.rule

First(positions) == CHOOSE i \in positions : \A j \in positions : i <= j

\* Mutant: the approval need not be of this plan.
ApprovalFindingsUnbound(evidence, binding) ==
  LET approvals == Approvals(evidence)
      effects == {i \in DOMAIN evidence : SafetyConsequential(evidence[i])}
  IN IF approvals = {} THEN {"approval_missing"}
     ELSE When(effects # {} /\ First(approvals) > First(effects), "approval_after_effect")

\* The first approval must come before the first effect and be bound to this plan.
ApprovalFindings(evidence, binding) ==
  LET approvals == Approvals(evidence)
      effects == {i \in DOMAIN evidence : SafetyConsequential(evidence[i])}
  IN IF approvals = {} THEN {"approval_missing"}
     ELSE IF effects # {} /\ First(approvals) > First(effects) THEN {"approval_after_effect"}
     ELSE When(At(evidence[First(approvals)].payload, "binding") # binding,
               "approval_binding_mismatch")

PairFindings(expected, actual) ==
  IF Cardinality(Effects(expected)) # Cardinality(Effects(actual)) THEN {"effect_mismatch"}
  ELSE UNION {ComparisonFindings(expected[pair[1]], actual[pair[2]]) :
                pair \in Paired(Effects(expected), Effects(actual))}

CompareEffects(expected, evidence, binding) ==
  LET actual == Payloads(evidence)
      kinds == {"money", "state", "resource", "network"}
  IN (IF OfKind(expected, "approval") = {} THEN {} ELSE ApprovalFindings(evidence, binding))
     \cup When(AuthorizationsDiffer(expected, actual), "authorization_outcome_changed")
     \cup When(\E kind \in kinds : Count(actual, kind) > Count(expected, kind),
               "unexpected_consequential_effect")
     \cup When(\E kind \in kinds : Count(actual, kind) < Count(expected, kind),
               "expected_consequential_effect_missing")
     \cup PairFindings(expected, actual)

-----------------------------------------------------------------------------
(* The verdict *)

\* Approvals were expected, and one of the two routes has none that the server attested.
ApprovalEvidenceMissing(expected, actual) ==
  /\ OfKind(Payloads(expected), "approval") # {}
  /\ Approvals(expected) = {} \/ Approvals(actual) = {}

SettlementMissing(human, agent, policy) ==
  /\ policy # None
  /\ policy.settlement
  /\ ~(SettlementComplete(human) /\ SettlementComplete(agent))

Inconclusive(code) == Layer("inconclusive", {code})

Compared(prepared, agent, binding) ==
  LET findings == CompareEffects(Payloads(prepared), agent, binding)
  IN Layer(IF findings = {} THEN "pass" ELSE "fail", findings)

\* run and deriveBundleSemantics ask the same questions in the same order, of the same
\* observations; they differ in whose evidence says that an approval is needed (asked).
RouteParity(prepared, human, agent, asked, policy, binding) ==
  LET seen == human.trusted
      done == agent.trusted
  IN IF seen = <<>> \/ done = <<>>
     THEN Inconclusive(IF human.claims + agent.claims > 0
                       THEN "page_assertions_untrusted" ELSE "trusted_evidence_missing")
     ELSE IF SettlementMissing(seen, done, policy)
     THEN Inconclusive("effect_settlement_incomplete")
     ELSE IF ~AuthoritativeComplete(seen, done)
     THEN Inconclusive("authoritative_evidence_missing")
     ELSE IF ProofIncomplete(seen, done)
     THEN Inconclusive("browser_execution_proof_incomplete")
     ELSE IF ApprovalEvidenceMissing(asked, done)
     THEN Inconclusive("authoritative_evidence_missing")
     ELSE IF seen # prepared
     THEN Inconclusive("human_baseline_changed")
     ELSE Compared(prepared, done, binding)

Combined(parity, safety) ==
  Layer(IF "fail" \in {parity.status, safety.status} THEN "fail"
        ELSE IF "inconclusive" \in {parity.status, safety.status} THEN "inconclusive"
        ELSE "pass",
        parity.findings \cup safety.findings)

SeedMismatch == Inconclusive("seed_mismatch")

\* Mutant: whatever is covered can be signed.
EligibleByCoverage(verdict, human, agent) ==
  CoverageComplete(human, agent) /\ AttestationTier(human, agent)

AttestationEligible(verdict, human, agent) ==
  /\ verdict.status # "inconclusive"
  /\ CoverageComplete(human, agent)
  /\ AttestationTier(human, agent)

\* What verifyAuditBundle recomputes from the events and the contract of a bundle.
DerivedParity(bundle) ==
  IF {bundle.human, bundle.agent} = {NothingObserved} /\ bundle.parity = SeedMismatch
  THEN SeedMismatch
  ELSE RouteParity(bundle.baseline, bundle.human, bundle.agent, bundle.human.trusted,
                   bundle.policy, bundle.binding)

Verifies(bundle) ==
  LET parity == DerivedParity(bundle)
      safety == BaselineSafety(bundle.baseline, bundle.policy)
      verdict == Combined(parity, safety)
  IN /\ bundle.parity = parity
     /\ bundle.safety = safety
     /\ bundle.verdict = verdict
     /\ bundle.eligible = AttestationEligible(verdict, bundle.human.trusted, bundle.agent.trusted)
     /\ bundle.signed => bundle.eligible
=============================================================================
