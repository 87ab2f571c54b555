---------------------------- MODULE HostedEvidence ----------------------------
(***************************************************************************)
(* How a hosted audit earns its signed evidence: completeHostedAudit and   *)
(* the verifiers of src/hosted-audit.js, the callback receipts of          *)
(* src/webmcp-invocation.js and lib/portable-proof.ts, over the one-use    *)
(* authorisation of GeneratedRelease.                                      *)
(*                                                                         *)
(* A completion prepares the release afresh with one reading of the clock, *)
(* compares it with what was reviewed, puts four wrong runs, the exact one *)
(* and a replay to it, and verifies the evidence it assembled before it    *)
(* stores it.  Approval, invocation and completion read the clocks of the  *)
(* isolates that serve them.                                               *)
(*                                                                         *)
(* Not represented: how the store serialises the claims (HostedAudit), the *)
(* signature (EvidenceKeys), the schema of the documents.  A plan stands   *)
(* for all the commitments that are compared together: target, release,    *)
(* agent, principal, tool, arguments, contract.  Its profile is the part   *)
(* that a verifier compares with constants of its own deployment: label    *)
(* and address of the target, the agent and the principal.                 *)
(***************************************************************************)
EXTENDS GeneratedRelease, Sequences

CONSTANTS
  Hosted,              \* the audits that are hosted
  Plan,                \* what a deployment of the arena would execute
  ProfileOf,           \* [Plan -> its TARGETS, GENERATED_AGENT and CHECKOUT_AUDIT_PRINCIPAL]
  Null,                \* a field of a record that is not filled in
  ReviewWindow,        \* approvalExpiresAt - createdAt
  InvocationLease,     \* EXECUTION_LEASE_MS
  Retention30,         \* HOSTED_AUDIT_RETENTION_MS
  MaxSkew              \* bound: how far the clock of an isolate is behind

ASSUME EvidenceAssumption ==
  /\ Hosted \subseteq Release
  /\ {ReviewWindow, InvocationLease, Retention30, MaxSkew} \subseteq Nat
  /\ Retention30 > ReviewWindow + MaxSkew      \* days, and minutes

VARIABLES
  deployed,            \* the plan of the current deployment
  hosted,              \* [Hosted -> the audit record]
  completion           \* [Hosted -> the completion under way]

evidenceVars == <<deployed, hosted, completion>>

Reading == {t \in 0 .. MaxAuditTime : t <= auditClock /\ auditClock <= t + MaxSkew}

NoHosted == [state |-> "none", review |-> Null, approvalExpiresAt |-> 0, retentionUntil |-> 0,
             approval |-> Null, leaseUntil |-> 0, invocation |-> Null, evidence |-> Null]
Idle == [step |-> "none", after |-> 0, now |-> 0, plan |-> Null, checks |-> <<>>]

EvidenceInit ==
  /\ ReleaseInit
  /\ deployed \in Plan
  /\ hosted = [h \in Hosted |-> NoHosted]
  /\ completion = [h \in Hosted |-> Idle]

Expected == <<"invalid_capability", "tool_binding_mismatch", "agent_identity_mismatch",
              "argument_substitution", "execute", "authorization_replayed">>

-----------------------------------------------------------------------------
(* The record: created, approved, invoked *)

CreateHosted(h) == \E now \in Reading :
  /\ hosted[h].state = "none"
  /\ hosted' = [hosted EXCEPT ![h] = [NoHosted EXCEPT !.state = "awaiting_approval", !.review = deployed,
       !.approvalExpiresAt = now + ReviewWindow, !.retentionUntil = now + Retention30]]
  /\ UNCHANGED <<auditClock, releaseVars, deployed, completion>>

\* claimApproval: the receipt commits to the plan that was reviewed.
ApproveHosted(h) == \E now \in Reading :
  /\ hosted[h].state = "awaiting_approval" /\ now < hosted[h].approvalExpiresAt
  /\ hosted' = [hosted EXCEPT ![h] = [hosted[h] EXCEPT !.state = "running",
       !.approval = [approvedAt |-> now, expiresAt |-> hosted[h].approvalExpiresAt, reviewed |-> hosted[h].review],
       !.leaseUntil = now + InvocationLease]]
  /\ UNCHANGED <<auditClock, releaseVars, deployed, completion>>

\* claimInvocation: the lease is what counts, not the review window.
InvokeHosted(h) == \E now \in Reading :
  /\ hosted[h].state = "running" /\ now < hosted[h].leaseUntil
  /\ hosted' = [hosted EXCEPT ![h] = [hosted[h] EXCEPT !.state = "waiting_for_effects",
       !.invocation = [audit |-> h, plan |-> hosted[h].review, invokedAt |-> now]]]
  /\ completion' = [completion EXCEPT ![h] = [Idle EXCEPT !.step = "prepare", !.after = now]]
  /\ UNCHANGED <<auditClock, releaseVars, deployed>>

-----------------------------------------------------------------------------
(* Verification *)

\* Mutant: the deadline of the approval is not looked at.
NoDeadline(e) ==
  /\ e.generatedAt = e.boundary.generatedAt
  /\ e.approval.approvedAt <= e.boundary.generatedAt
InTime(e) ==
  /\ e.generatedAt = e.boundary.generatedAt
  /\ e.approval.approvedAt <= e.boundary.generatedAt
  /\ e.boundary.generatedAt <= e.approval.expiresAt
  /\ e.retentionUntil > e.approval.expiresAt
  /\ e.retentionUntil - e.generatedAt >= Retention30

\* verifyPreparedWebMcpInvocationReceipt
ReceiptBound(receipt, audit, plan) == receipt.audit = audit /\ receipt.plan = plan

\* Mutant: the receipt may be of another result than the one that was measured.
AnyResult(e) ==
  /\ ReceiptBound(e.receipt, e.audit, e.review)
  /\ e.receipt.settledAt >= e.receipt.invokedAt
\* verifyWebMcpInvocationReceipt: also the request, the result and the settlement.
ReceiptSettled(e) ==
  /\ ReceiptBound(e.receipt, e.audit, e.review)
  /\ e.receipt.result = e.boundary.tool
  /\ e.receipt.settledAt >= e.receipt.invokedAt

\* The profile of the evidence is that of the deployment that looks at it.
OwnProfile(e, plan) == ProfileOf[e.review] = ProfileOf[plan]

\* verifyHostedAuditEvidence by the deployment of a plan: the first objection, or "valid".
Objection(e, plan) ==
  IF ~OwnProfile(e, plan) THEN "hosted_profile_mismatch"
  ELSE IF e.approval.reviewed # e.review \/ e.approval.approvedAt > e.approval.expiresAt THEN "approval_commitment_mismatch"
  ELSE IF e.checks # Expected THEN "authorization_probe_mismatch"
  ELSE IF ~ReceiptSettled(e) THEN "webmcp_invocation"
  ELSE IF ~InTime(e) THEN "approval_chronology_mismatch"
  ELSE IF e.boundary.plan # e.review THEN "boundary_exact_intent_mismatch"
  ELSE IF e.tool # e.boundary.tool THEN "selected_tool_verdict_mismatch"
  ELSE IF e.verdict # ReleaseVerdict(e.complete, e.tool) THEN "release_verdict_mismatch"
  ELSE "valid"

\* verifyHostedAuditRecord: a stored record against its evidence.
RecordVerifies(h) ==
  LET e == hosted[h].evidence IN
  /\ Objection(e, deployed) = "valid"
  /\ e.audit = h /\ e.review = hosted[h].review /\ e.approval = hosted[h].approval
  /\ hosted[h].approvalExpiresAt = e.approval.expiresAt
  /\ hosted[h].retentionUntil = e.retentionUntil

\* The proof that a client may take away: the record's own fields, its evidence, and the
\* payload that the attestation signs.
Portable(h) == [audit |-> h, approvalExpiresAt |-> hosted[h].approvalExpiresAt,
                retentionUntil |-> hosted[h].retentionUntil,
                evidence |-> hosted[h].evidence, signed |-> hosted[h].evidence]

\* parsePortableHostedAuditProof and verifyPortableHostedAuditProof.
ProofVerifies(p) ==
  /\ p.evidence.audit = p.audit
  /\ p.evidence.retentionUntil = p.retentionUntil
  /\ p.evidence.approval.expiresAt = p.approvalExpiresAt
  /\ Objection(p.evidence, deployed) = "valid"
  /\ p.signed = p.evidence

-----------------------------------------------------------------------------
(* completeHostedAudit *)

Step(h, c) == completion' = [completion EXCEPT ![h] = c]

\* An exception: the invoke route records the failure.
Fail(h) ==
  /\ hosted' = [hosted EXCEPT ![h].state = "failed"]
  /\ Step(h, Idle)

\* assertReviewedPlan
StillReviewed(h) == hosted[h].review = deployed /\ hosted[h].approval.reviewed = hosted[h].review

\* validateApprovalReceipt, the prepared receipt, prepareMeasuredCheckout and
\* assertReviewedPlan, all with the time that the rest of the completion uses.
PrepareCompletion(h) == \E now \in Reading :
  /\ completion[h].step = "prepare" /\ now >= completion[h].after
  /\ ReceiptBound(hosted[h].invocation, h, hosted[h].review)
  /\ Prepare(h, Exact, TRUE, now)
  /\ IF StillReviewed(h)
     THEN /\ Step(h, [Idle EXCEPT !.step = "approve", !.now = now, !.plan = deployed])
          /\ UNCHANGED hosted
     ELSE Fail(h)
  /\ UNCHANGED <<auditClock, deployed>>

\* measured.approve, for the reviewer that the receipt names.
ApproveCompletion(h) == \E secret \in Secret :
  /\ completion[h].step = "approve"
  /\ ApproveRelease(h, secret, completion[h].now)
  /\ Step(h, [completion[h] EXCEPT !.step = "probe"])
  /\ UNCHANGED <<auditClock, deployed, hosted>>

\* The runs in their order, each once the one before it is answered.
Probes(h) == <<[secret |-> NoSecret, intent |-> Exact],
               [secret |-> release[h].secret, intent |-> WrongTool],
               [secret |-> release[h].secret, intent |-> WrongAgent],
               [secret |-> release[h].secret, intent |-> WrongArgs],
               [secret |-> release[h].secret, intent |-> Exact],
               [secret |-> release[h].secret, intent |-> Exact]>>

ProbeRelease(h) ==
  LET c == completion[h]
      probe == Probes(h)[Len(c.checks) + 1]
      reply == Reply(h, probe.secret, probe.intent, c.now) IN
  /\ c.step = "probe" /\ Len(c.checks) < Len(Probes(h))
  /\ release[h].state # "executing"
  /\ \/ RunDenied(h, probe.secret, probe.intent, c.now)
     \/ RunExecutes(h, probe.secret, probe.intent, c.now, 0)
  /\ Step(h, [c EXCEPT !.checks = Append(@, reply)])
  /\ UNCHANGED <<auditClock, deployed, hosted>>

\* The exact run returns with the verdict of the boundary auditor, ...
ProbeReturns(h) ==
  /\ completion[h].step = "probe"
  /\ \E tool \in Verdict : RunCompletes(h, tool)
  /\ UNCHANGED <<auditClock, evidenceVars>>

\* ... or throws, and the completion with it.
ProbeThrows(h) ==
  /\ completion[h].step = "probe"
  /\ RunThrows(h)
  /\ Fail(h)
  /\ UNCHANGED <<auditClock, deployed>>

\* Mutant: retention counts from the audit's creation, as the record says until now.
SinceCreation(h) == hosted[h].retentionUntil
RetainedUntil(h) == completion[h].now + Retention30

Evidence(h) ==
  LET c == completion[h]
      r == release[h]
      i == hosted[h].invocation IN
  [audit |-> h, generatedAt |-> c.now, retentionUntil |-> RetainedUntil(h),
   approval |-> hosted[h].approval, review |-> hosted[h].review,
   receipt |-> [audit |-> i.audit, plan |-> i.plan, invokedAt |-> i.invokedAt,
                result |-> r.tool, settledAt |-> c.now],
   checks |-> c.checks, complete |-> r.complete, tool |-> r.tool, verdict |-> r.verdict,
   boundary |-> [plan |-> c.plan, generatedAt |-> c.now, tool |-> r.tool]]

\* The isolate that completes an audit verifies its evidence with its own constants.
OwnObjection(h) == Objection(Evidence(h), completion[h].plan)

\* The evidence verifies, is signed and stored with the retention it states.
StoreEvidence(h) ==
  /\ completion[h].step = "probe" /\ Len(completion[h].checks) = Len(Expected)
  /\ OwnObjection(h) = "valid"
  /\ hosted' = [hosted EXCEPT ![h] = [hosted[h] EXCEPT !.state = "completed",
       !.retentionUntil = RetainedUntil(h), !.evidence = Evidence(h)]]
  /\ Step(h, Idle)
  /\ UNCHANGED <<auditClock, releaseVars, deployed>>

RefuseEvidence(h) ==
  /\ completion[h].step = "probe" /\ Len(completion[h].checks) = Len(Expected)
  /\ OwnObjection(h) # "valid"
  /\ Fail(h)
  /\ UNCHANGED <<auditClock, releaseVars, deployed>>

-----------------------------------------------------------------------------

\* A deployment changes what would be executed.
Redeploy(plan) ==
  /\ plan # deployed
  /\ deployed' = plan
  /\ UNCHANGED <<auditClock, releaseVars, hosted, completion>>

EvidenceNext ==
  \/ AuditTick /\ UNCHANGED <<releaseVars, evidenceVars>>
  \/ \E plan \in Plan : Redeploy(plan)
  \/ \E h \in Hosted :
       \/ CreateHosted(h) \/ ApproveHosted(h) \/ InvokeHosted(h)
       \/ PrepareCompletion(h) \/ ApproveCompletion(h) \/ ProbeRelease(h) \/ ProbeReturns(h) \/ ProbeThrows(h)
       \/ StoreEvidence(h) \/ RefuseEvidence(h)

EvidenceSpec == EvidenceInit /\ [][EvidenceNext]_<<auditClock, releaseVars, evidenceVars>>

-----------------------------------------------------------------------------
(* Properties *)

Completed == {h \in Hosted : hosted[h].state = "completed"}

\* Evidence is stored only for what happened: the plan that was reviewed and approved is
\* the one that was executed, once, after the approval and before its deadline; the runs
\* that should have been denied were, without using up the authorisation; and the evidence
\* is retained for thirty days from then.
EvidenceIsEarned ==
  \A h \in Completed :
    LET e == hosted[h].evidence IN
    /\ runs[h] = 1 /\ release[h].state = "completed"
    /\ e.boundary.plan = hosted[h].review /\ hosted[h].approval.reviewed = e.boundary.plan
    /\ SubSeq(e.checks, 1, 4) = SubSeq(Expected, 1, 4)
    /\ hosted[h].approval.approvedAt <= e.generatedAt /\ e.generatedAt <= hosted[h].approvalExpiresAt
    /\ hosted[h].retentionUntil - e.generatedAt = Retention30
    /\ e.verdict = release[h].verdict

\* Evidence that was earned is never lost to the arena's own verifier: a completion fails
\* only if the deployment has changed, the measurement threw, the review window was over,
\* or the clock of the completing isolate was behind that of the approving one.
FailureHasCause ==
  \A h \in Hosted :
    (completion[h].step = "probe" /\ Len(completion[h].checks) = Len(Expected)) =>
      \/ OwnObjection(h) = "valid"
      \/ completion[h].now > hosted[h].approvalExpiresAt
      \/ completion[h].now < hosted[h].approval.approvedAt

\* Evidence with one statement changed for another that is plausible by itself.
Altered(e) ==
  {[e EXCEPT !.review = p] : p \in Plan \ {e.review}}
  \cup {[e EXCEPT !.verdict = v] : v \in Verdict \ {e.verdict}}
  \cup {[e EXCEPT !.receipt.result = v] : v \in Verdict \ {e.receipt.result}}
  \cup {[e EXCEPT !.receipt.audit = h] : h \in Release \ {e.audit}}
  \cup {[e EXCEPT !.checks[6] = "execute"]}

\* A completed record verifies as it is stored and as a portable proof, also after other
\* deployments, exactly as long as the current one has the target, agent and principal it
\* was made with: a deployment that renames one rejects all retained evidence until it is
\* taken back.  A proof with one statement changed never verifies, whatever is deployed and
\* even if the arena itself signs it.
ProofsVerify ==
  \A h \in Completed :
    LET p == Portable(h)
        own == OwnProfile(p.evidence, deployed) IN
    /\ RecordVerifies(h) <=> own
    /\ ProofVerifies(p) <=> own
    /\ \A e \in Altered(p.evidence) : ~ProofVerifies([p EXCEPT !.evidence = e, !.signed = e])
    /\ \A other \in Release \ {h} : ~ProofVerifies([p EXCEPT !.audit = other])
=============================================================================
