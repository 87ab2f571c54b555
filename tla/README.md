# Models and proofs of WebMCP Arena

WebMCP Arena audits what an agent may do through a page's WebMCP tools: an agent
asks for one consequential action, a human approves it, the action runs once, and
signed evidence says what happened.  This directory holds TLA+ models of the parts
that decide *whether* and *how often* something runs, *what is recorded* of it and *who can
verify* it, the TLC configurations that check them on small instances, and TLAPS proofs.

Run a model with `tlc -config X.cfg M` (`M` is the MC module of the run), check proofs with
`tlapm P.tla` for each module `P` whose name ends in `Proofs`.
`PROJECT.json` lists runs, hazards, findings, theorems and, for each definition, the source lines it models.
Source paths below are relative to the root of the repository.

## 1. Inventory

| Component | State | Operations | What is hard |
|---|---|---|---|
| **Trust gateway** `src/trust.js`, `src/state-store.js` | one row of SQLite (approvals, idempotency, revoked, budgets, receipts); per process: tool bindings, calls in flight | issue, request, resolve, revoke, snapshot | several processes on one file; execution outside the transaction; crashes; expiry |
| **Hosted audit store** `src/audit-store-core.js`, `app/api/audits/*`, `src/hosted-audit.js` | table `audits` in D1 | create or rotate, approve, invoke, save, prune | no transactions: read, compute, conditional UPDATE; one `now` per request; lost replies |
| **Hosted evidence** `src/hosted-audit.js`, `src/webmcp-invocation.js`, `lib/portable-proof.ts` | the audit record and its result | complete (four wrong runs, the exact one, a replay), verify, prove, verify a proof | clocks of three isolates; a deployment between review and invocation |
| **Generated release auditor** `src/generated-release-audit.js` | audits with a capability | prepare, approve, run | the capability is consumed once, by the exact intent only; runs arrive during the execution |
| **Start limiter** `src/audit-capability.js`, `src/audit-store-core.js` | table `audit_start_limits` | admit, prune | three buckets in sequence; upsert and select apart; stale `now` |
| **D1 initialisation** `db/runtime.ts` | schema; per isolate a memoised promise | get database | racing ALTER, failures of any statement, retry |
| **Evidence signing** `lib/evidence-signing.ts` | active key, archived keys; caches of verifiers | sign, publish, verify | two-phase rotation against caches, lagging isolates and retention |
| **Measured audit service** `src/measured-audit-service.js`, wired in `scripts/arena-server.js` | records in the shared repository; per worker: promises and decision callbacks | start, poll, decide, execute, recover | awaits between transactions; restart recovery; a second worker |
| **Effect settlement** `src/effect-settlement.js`, `src/checkout-fixture.js`, `src/checkout-audit-adapter.js` | virtual clock and task list; trials with ledger and watermark; leases | provision, run a route, observe, release | concurrent sleeps on one clock; snapshot judged after an await; deadline boundary |
| **Boundary auditor** `src/boundary-audit.js` | map of plans; per call, leased trials and observations | prepare, run, verify | single use and expiry of a plan; release in `finally`; order of verdicts; a verifier that repeats them |
| **Passkey approval** `src/passkey-authenticator.js`, `src/approval-envelope.js` | nonces, signature counters | verify, issue | two processes between `has` and `consume`; clock read twice; restarts |
| **Proof chain** `src/arena-proof.js`, `scripts/arena-server.js` | keys, head of a hash chain, runs and contracts in the repository | load keys, attest, save, verify chain | nested transactions, rollback, records written after their attestation |
| **Identity** `src/identity.js` | cached key set | verify | concurrent fetches, answers out of order, withdrawn keys |
| **Gym fixture and adapter** `src/gym-fixture.js`, `src/gym-audit-adapter.js` | trials and their event streams; leases | provision, book, read evidence, release | lost requests and answers, other pages on the trial, restarts |
| **Browser runner** `src/webmcp-runner.js` | one visit: known tools, requests in flight | load, find a tool, invoke, wait, capture | the page changes between two awaits; events late or out of time |
| **Evals** `src/webmcp-evals.js` | a report being imported | group, order, match, judge | rows in any order; matches that leave different rests |
| **Checkout page** `app/checkout/page.tsx`, `simulation.ts` | React state, timers, registration, `window.__arenaState` | switch mode, replay, tool call, render | timers and tool calls between the parts of a switch |
| **Command line** `src/arena-cli.js` | the contract artifact on disk | test: prepare, review, approve, run; also scan, report, gate | edits and overlapping invocations between review and run |
| Behavioral verifier, scanner and safe fetch, release and CI reports, incident lab, skills, MCP, web pages | none between calls | parsing, comparison, rendering, I/O | see section 8 |

How they interact.  `scripts/arena-server.js` gives one repository to the gateway, the
measured audit service and the proof chain; the service's `prepare` and `run` call
the boundary auditor, which provisions two trials (checkout or gym), runs the human and the
agent route in them, by itself or through the browser runner, and waits for their effects through the
settlement observer.  The gateway issues its receipts through the proof chain inside its own
transaction.  The hosted routes (`app/api/audits`) are a second deployment: the database is initialised,
the limiter admits the start, the audit store serialises approval and invocation, and the invocation
completes the evidence over the generated release auditor, which holds a plan of the boundary auditor, and signs it
with the current key.  The command line is a third: it prepares and runs boundary audits from a reviewed file.

Correctness, per component: *gateway* - a key runs a tool at most once, budgets hold,
answers to retries are true, withdrawn delegations start nothing; *hosted store* - one
execution per audit, on its own capability and lease, settled rows stay, evidence
outlives its retention promise; *hosted evidence* - it says what happened and is not lost; *release* - a capability
executes once; *limiter* - it throttles, contains a flood and refuses
justly; *initialisation* - nobody gets a half-migrated database; *keys* - every retained proof verifies throughout a
rotation; *measured audits* - one preparation and one run per start, terminal records are
final, nothing is left behind, approved audits settle; *settlement* - a conclusive
observation shows every effect and every observation ends; *boundary auditor* - a plan runs once,
every lease is given back, a pass means that the agent did what was reviewed, a signature is earned
and the verifier agrees; *passkeys* - one envelope per nonce, and nonces are not wasted; *proof chain* - no forks, and
records are attested; *identity* - withdrawn keys soon count for nothing; *gym* - evidence is its trial's own and trials
are released; *runner* - a substituted tool shows, a complete trace is the whole effect, visits end; *evals* - a pass has
a trajectory that the author described; *page* - evidence is of the mode that is shown; *command line* - what runs was reviewed.
The hazards behind these are listed in `PROJECT.json`, each at its line, with the properties that cover it; every one is covered.

## 2. Modules

**`OneShot`** is the abstract specification shared by the authorities: an action is
submitted, refused or authorised, performed at most once between authorisation and
closing.  `TrustGateway`, `HostedAudit`, `MeasuredAudits`, `BoundaryAudit` and `GeneratedRelease` each instantiate it
with a refinement mapping (`ImplementsOneShot`, `ReleaseImplementsOneShot`).

### What authorises and performs

**`TrustGateway`** (`TrustGatewayMC`, `TrustGatewayProofs`).  An operation is one action
because `withWriteLock` runs it between BEGIN IMMEDIATE and COMMIT; what follows an await
(`CallTool`, `Finish...`) is an action of its own.  The COMMIT itself comes after the tool call was queued: when it fails,
the row is rolled back and the tool runs all the same (`RequestDirectUndone`, `ApproveUndone`; `undone` remembers the job).
A transaction that fails before anything is executed only drops bindings in memory (`RolledBack`).  `approval`, `reply`, `reserved`,
`committed`, `revoked`, `receipts` are the row; `bindings`, `starting`, `executing` a process's
memory.  A request first sweeps expired approvals, as the code does, in the same action.
Sums of reservations are a constant function `Total`, characterised by `TotalAssumption`,
so that the proofs of the steps need no induction; `TrustGatewayMC` defines it as the real sum, TLC
evaluates the assumption, and `TotalIsTheSum` and `TotalExists` prove that the assumption means the sum.

**`HostedAudit`** (`HostedAuditMC`, `HostedAuditProofs`).  An action is one statement, or the code between two;
a handler carries its snapshot (`seen`) and its `now`, which may be `MaxDelay` old when it
first reads, and older when it writes.  Guards of the UPDATEs are operators
(`Approvable`, `Claimable`, `Saveable`, `StillLapsed`).  A statement may fail, or succeed
and lose its reply.

**`GeneratedRelease`** (`AuthorizationMC`, `HostedEvidenceProofs`).  `release[r]` is the record of an audit, `plans` the boundary plans that
are still unused, `running` the executions the boundary auditor has not answered.  A run up to its first
await is denied without consequence (`RunDenied`) or takes the capability (`RunExecutes`, `RunFindsNoPlan`).  The boundary auditor reads the
clock again, so a plan may have expired between approval and run; the audit then ends with an unknown outcome.

**`HostedEvidence`** (`AuthorizationMC`, `HostedEvidenceProofs`) EXTENDS `GeneratedRelease` and is composed with it: a completion prepares a release,
approves it, puts four wrong runs, the exact one and a replay to it (the actions of `GeneratedRelease`), and verifies what
it assembled.  Approval, invocation and completion each read the clock of their isolate, up to `MaxSkew` behind.
`deployed` may change at any time, and with it the profile (target, agent, principal) that the verifier compares
evidence with (`ProfileOf`).  The verifiers are operators over the record, asked of it and of its
forged neighbours.

**`MeasuredAudits`** (`LocalAuditsMC`, `MeasuredAuditsMC`, `LocalAuditsProofs`).  An action is one `withLock`, or the code between
two.  JavaScript runs a worker's code to its next await without interruption, so each worker
has at most one `turn`; transactions of other workers and crashes fall between the steps of
a turn.  `chain` says which external promise an async function awaits.  `prepare` and `run`
are external: they return or throw at any time.

**`BoundaryVerdict`** (`BoundaryAuditProofs`) has no state: it is what the auditor concludes from
evidence.  `RouteParity` is the chain of questions of `run` and of `deriveBundleSemantics`, in
their order; `CompareEffects`, `BaselineSafety`, `Combined` and `AttestationEligible` are the functions
of the code, and `Verifies` is `verifyAuditBundle` without its cryptography.  A payload is a
function of its field names with resource, before and after flattened; findings are the set of
their codes; an amount stands for an amount and its currency.  Sequences are compared through the places of
their effects (`Paired`), so that no definition is recursive.

**`BoundaryAudit`** (`BoundaryAuditMC`, `BoundaryAuditProofs`).  `prepare[p]` and `call[r]` are the
awaits at which calls of `prepare` and `run` stand, `plans` is the map, `live` what the harness
has leased out.  The harness, the route runner and the attestor are external and may fail at each of
their calls; a route returns any observation.  `Consume` deletes the plan before the first await,
`ReleaseTargets` is the `finally` block with both releases.  A plan is identified with the call that prepared
it; in the code its id is a digest of its content, so that two identical preparations within one millisecond
share an id, and with it one plan.  The expiry of a plan is checked when it is consumed, not later.

**`ContractReview`** (`AuthorizationMC`, `AuthorizationProofs`) is the `test` command: invocations write the artifact or read and approve
it, a human reads and approves in place, the target changes.  `cli[i]` is where an invocation stands.  The auditor's plan has its
own deadline, which runs from the preparation of the invocation that consumes it.

**`ApprovalCeremony`** (`AuthorizationMC`, `AuthorizationProofs`).  An assertion is what a credential signed and what it is presented with; it may
reach any process several times.  `has` and `consume` of the nonce store are two actions, since the store may be shared by
processes (`shared`); each reading of the clock is its own.  `spoiled` is a history of the ceremonies that spent a nonce
without an envelope, with their two readings.

### What is recorded, and who can verify it

**`CheckoutSettlement`** (`LocalAuditsMC`, `LocalAuditsProofs`).  One clock and one task list for all
trials; `observer[t]` is where the observation of `t` stands.  `SleepOn` runs one due task per
turn of the sleep's loop, since the loop awaits each task.  `lanes`, chosen at the start, is how many observations overlap.

**`ProofChain`** (`AuthorizationMC`, `AuthorizationProofs`).  `db` is the file, `lock` the writer, `before` what a rollback restores.  A server
attests inside the gateway's transaction (which may still be rolled back) or in one of its own, and saves a record with the attestation
later, from a copy it read before.  `log` is the history of what was issued and not rolled back.

**`AgentIdentity`** (`AuthorizationMC`, `AuthorizationProofs`).  `calls[c]` is a verification, `cached` the module's cache entry; the answer to a
fetch has the keys that the issuer published at some moment of its transit, and answers overtake each other.

**`EvidenceKeys`** (`HostedEdgeMC`, `HostedEdgeProofs`).  `config` is what the operator deployed last, `runs[i]` what isolate
`i` runs with, `cached[v]` a verifier's copy.  The operator follows the two phases of the repository's README
(publish the next key, wait for the caches, switch, keep the old key while its proofs are retained); everything else, lagging
isolates and configurations that the code rejects included, happens at any time.

**`DatabaseInit`** (`HostedEdgeMC`, `HostedEdgeProofs`).  `statement[i]` is the statement that isolate `i`'s initialisation executes next,
`promise[i]` what its requests share.  Each statement may throw before or after it took effect; the loser of a racing
ALTER looks again at the columns.

**`StartLimiter`** (`HostedEdgeMC`, `HostedEdgeProofs`).  `Consume` is the upsert, `ReadBack` the select after
it, `Prune` the cleanup of an admitted start.  `spent` is a history of what each bucket counted when.

### Where evidence comes from

They are checked with `EvidenceSourcesMC` and proved about in `EvidenceSourcesProofs`.

**`GymAudit`**: trials with their event streams on the fixture's side, leases on the adapter's.  A route books any
number of times within its bound, or not at all: the adapter accepts an empty stream.  A deletion is sent,
served and answered in steps of its own; its request or the answer may be lost, several may overlap, and the page of a route that
failed may still book.  **`BrowserRecorder`**: the runner's phases against a page whose
tools and requests change at any time; `wire` holds what the browser has reported and the runner has not yet heard.
The reaction times of the page (`FirstDelay`, `PageDelay`) are assumed to be shorter than the runner's quiet
waits: that is what those waits are for, and no waiting could see an effect that comes later.
**`CheckoutPage`**: a state of React, its refs, timers and registrations; a render with its effects is an action, and
comes some time after the state it renders was set.  **`EvalBridge`**: rows arrive one by one in any order;
`Matching` and its companions are the code's matcher, and `Words` is the independent definition of what a trajectory describes.
`Node` is the nodes an author may write: the members of a group are nodes again, and `Nesting` decreases towards the leaves,
because the parser reads a finite document.  Recursion is by recursive functions over positions, masks and nodes.

### How the MC modules are composed

`HostedEvidence` and `GeneratedRelease` interact and are checked together.  The other modules that share an MC module
have no variable in common and, in the code, no call between them but the one the models leave open on purpose.  Their
specification is a *sum*: `part` says which component a behaviour is of, and only that one takes steps.  Interleaving
them would multiply the states and add no behaviour that a property could tell apart.

Mutated forms of definitions (`... \* Mutant:`) are not part of any specification; each is a
plausible mistake that the property named for it in `PROJECT.json` detects.

## 3. Runs

| Run | Shows | States |
|---|---|---|
| `trust_gateway` | two processes, two delegations (one limited), keyed and unkeyed requests, three jobs: a failing COMMIT: all gateway properties | 1.1 million |
| `hosted_audit` | two concurrent requests, two audits under one key, three capabilities, two leases: rows are earned, one-shot | 843 thousand |
| `hosted_audit_retention` | two keys and a clock that outlasts retention: settled rows stay as long as promised | 1.6 million |
| `hosted_audit_stored` | *violation*, finding 1 | |
| `local_audits` | one server with crashes and restarts, two audits, two scopes; three trials observed at once or one by one, charge delays 1 to 5 around a timeout of 3 polled every 2; liveness of both | 35 thousand |
| `measured_audits_restored` | *violation*, finding 2 | |
| `hosted_edge` | two concurrent starts of two sessions of one network; two isolates and three requests that initialise, with two faults; a rotation of two keys over two isolates and a cache | 635 thousand |
| `boundary_audit` | one plan, two runs that compete for it, twenty observations on each of three routes, four policies | 826 thousand |
| `boundary_audit_verifier` | *violation*, finding 3 | |
| `boundary_audit_exact` | *violation*, finding 4 | |
| `authorization` | two releases, one of them hosted with its evidence; three approvals over two nonces in two processes; three invocations of the command line over two contracts; three servers on one chain; three verifications of identity | 4.5 million |
| `evidence_sources` | a gym lease with strays, overlapping deletions and a restart; a browser visit in both modes of two kinds; the page under two switches and two plays; reports of three rows against 130 trajectories | 1.8 million |

Bounds.  *Gateway*: two `pay` requests do not fit the limit of the one delegation and a `pay` with a `buy` do, so budget
races occur; the other has no limit, and `pay` is out of its scope; one COMMIT fails (`MaxUndone` 1), of a direct
execution or of an approval; three jobs let a request, its retry and a competitor coexist.  Two processes
are enough for every pairwise race, and the theorems cover any number.  *Hosted*:
`Window` 2, `LeaseTime` 1 and `Retention` 3 within `MaxTime` 4 let windows and leases pass
between any two statements and a second audit follow a first; the retention run trades capabilities
for a second key, because only an insertion prunes.  *Limiter*: limits 1, 2 and 3; a session's window
opens, fills, ends and is pruned within `MaxTime`, and `Patience` 1 makes every clock stale once;
the global bucket does not fill within these bounds, its code is that of the others.
*Initialisation*: two requests share an isolate and a third has another; two faults let an initialisation
fail, be retried and fail again.  *Keys*: a full rotation with its waits fits in `MaxKeyTime` 5.
*Measured*: a crash may follow every step; two audits of different scopes show that
recovery and turns do not mix them.  *Settlement*: delays before, at and after the timeout and the
poll interval (1 to 5 against 2 and 3); two charging trials and one that does not charge; one lane for the exact boundary of
conclusive and inconclusive, three for interleaving.  *Boundary*: one plan suffices, since runs of different plans share
nothing but the harness, and the theorems cover any number; two runs race for it.  The twenty observations are those of the
repository's tests and neighbours that differ in one respect: owner, amount, prior amount, order
of approval and effect, binding, watermark, execution proof, recorder instead of server.  Every
combination of prepared, human and agent observation with the four policies occurs.  `Ttl` 1 lets a plan
be used at its last moment and one later.  *Release and evidence*: plans expire within the bound of the clock, a
deployment may change between any two steps, to another plan of the same profile or to one of another, and a clock `MaxSkew` behind puts an invocation before its approval; two
releases by themselves go to time 3, the hosted one to 5, past its window and its lease.
*Ceremony*: two approvals on one nonce with overlapping windows and a third that begins later, two reviewers, a credential that counts
and one that does not, one restart.  The clock goes to 2: with a skew of 1 a ceremony begins before its window and one ends after it.  *Review*: three invocations are a preparation, a run and one that interferes.
*Chain*: two servers with one secret and one with another; four attestations in which transactions nest, roll back and resume
on another server; one kept run, so a second evicts it.  *Identity*: two keys, three calls that overtake each other.
*Gym*: one lease, since leases share nothing but the restarts of the fixture, and the theorems cover any number; two bookings
of its route, two strays before, between and after them, two deletions that overlap.  *Visit*: two definitions, two requests, two changes; the longest wait for
effects has room for two quiet windows.  *Page*: two switches return to the first mode.  *Evals*: trajectories nest three levels, with
optional and overlapping leaves, and their absence.

Symmetry is used for sets of model values, in runs without liveness.  `CHECK_DEADLOCK FALSE`
appears where the system stops for good (every trial released, a plan or a release spent, a visit ended, a report judged).

## 4. Fairness

`TrustGateway`, `HostedAudit`, `BoundaryAudit`, and everything in `authorization` and `hosted_edge` promise safety only: their code waits
for users, clients, adapters and retries, and nothing obliges them to act.

`MeasuredAudits!Fairness`: a turn goes on (weak fairness of `GoOn`) because synchronous code is not
interrupted, and an async function resumes (strong fairness of `Resume`) because the event loop
serves settled promises in order, whatever turns come between.  That `run` settles is what
`ObservationEnds` of the settlement model shows for the checkout adapter.  Nobody is
obliged to start, poll, decide or restart.  `Settles` therefore excepts a crash that nobody
follows up and a failed transaction (`dropped`), and says that even then a restart would attend to the record.

`CheckoutSettlement!SettlementFairness`: weak fairness of each observation's steps; all of them follow an
await of a promise that has resolved.  Time advances only in their sleeps.

`BrowserRecorder!RecorderFairness`: weak fairness of the runner's steps taken together, which include its timers and the delivery of what
the browser reported, while it does not wait for the page.  Nothing is assumed of the page, the tool, servers, or of whoever changes the
page: the runner asks the page for its own `getTools` and for its state without a timeout, and in compatibility mode for the tool and
its answer as well, so a page that never settles one of these promises hangs the visit.  `AwaitsPage` names these
states, and `VisitEnds` promises an end to a visit that does not stay in them; `EveryVisitEnds` asks it of the visits in the sum.

## 5. What is proved

Every theorem is for all values of the constants that satisfy the module's named assumptions, hence for any number of processes,
requests, audits, isolates, trials or messages and for any durations.  Every safety property that a passing run checks has a
theorem.

**`TrustGatewayProofs`** (`ConstantsAssumption`, `TotalAssumption`): `TypeCorrect`, `AtMostOnce` (OncePerKey),
`RepliesTruthful`, `BudgetSafe`, `ReservationsAccountedFor`, `CommittedAccountedFor` (CommittedIsStarted), `WithdrawalFinal`,
`Refinement` (ImplementsOneShot), `TotalIsTheSum` and `TotalExists`.

`OncePerKey` is not inductive.  Its strengthening `JobInv` has five parts:
`ApprovalInv` (the map holds exactly the accepted requests of gated tools), `KeyInv` (used requests
with a key differ in it, except those that a failed COMMIT made the row forget), `BindingInv` (at most one process holds the
binding of an approval, and nobody that of an approval whose execution was undone: this is why an approval that is pending again is not granted a
second time), `RunInv` (at most one process runs a job, first without and then with
its one call) and `ReplyInv` (the remembered reply follows the job's life; this is what keeps
a second request of the same key out after any crash).  One lemma per action shows that it
preserves each part; what several actions do (refusing a set of approvals, accepting a
request) is a lemma of its own.  On top of it `BudgetInv` (`ReservationsMatchPending` and
`BudgetWithinLimit`) is preserved, by the facts of `TotalAssumption` and because two pending
approvals of one delegation never hold the same reservation (`HoldUnique`).  For `CommittedIsStarted` the sum over a history
needs no induction either: a step starts at most one job, which had not started before, and charges what the job charges - on approval,
what it had reserved - so that `Spend` changes at one place, and `Total` changes by that much.  `TotalAssumption`, which
characterises a function by laws, is itself proved about: whatever satisfies them is the sum of all amounts, in
whatever order they are added up (`TotalIsTheSum`), and for any finite number of keys and jobs there is such a function
(`TotalExists`).  The refinement and
`WithdrawnStartsNothing`, which judge an undone execution by what its process does, follow from how each action moves the phase of a job (`StepPhase`).
`IInv` collects the invariant in `TrustGateway`.

**`HostedAuditProofs`** (`RowAssumption`): `TypeCorrect`, `RowsEarned` (RowsAreEarned), `SettledFinal` (SettledStays) and
`Refinement` (ImplementsOneShot).

What a row says is earned only because of what the requests under way remember, so `IInv` ties both together.
`RowInv` and `AuditInv` relate a row to the history of its audit (its claims, runs and proof); `LeaseInv`: no two rows
hold the same lease; `RequestInv`: what each request carried away from its read is still true, or the guard of its UPDATE will fail;
`OwnerInv`: two requests never own the execution of one audit, though an owner's saves may fail and be retried.  With these,
each of the conditional UPDATEs either finds the row its request read or changes nothing, which is the whole of the store's
concurrency control.  `SettledStays` and the refinement follow per action.

**`LocalAuditsProofs`** proves about what a local audit waits for.

*Audits* (`MeasuredAssumption`: the absent value is no other one).  For any
number of workers on one repository: `TypeCorrect`, `RunsAtMostOnce` (RunsOnce) and `OnePreparation` (OneAuditPerKey).

Neither is inductive.  `KnownInv` says that workers only remember audits that have a record, so a fresh
id is unknown to everybody; with it `StartInv` counts one preparation per record.  `DecisionInv` says
that an audit that awaits a decision has none: a late `prepare`, or a second server's recovery, may
change the state of a record but never makes a decided one decidable.  `RunInv` then gives the
one worker that claimed an audit, before it calls `run`, an audit that never ran.  Most steps
neither start, approve, deny nor run anything; one lemma (`QuietSteps`) says what they leave
alone and another (`QuietKeeps`) that this is enough, and the six other actions have a lemma each.

For one worker, however often it crashes and restarts (the hypothesis `Sole` of the theorems): `OutcomesFinal` (TerminalIsFinal), `Refinement`
(ImplementsOneShot) and `RecordsAreAttended` (Attended, the safety part of `Settles`).  The hypothesis cannot be dropped: the run
`measured_audits_restored` breaks both properties with two workers (finding 2).  The arena server makes one service for its repository, but nothing keeps a second server from opening the same file.  The
invariant is `SoleInv`: a worker's promises and turns say in which state the record is (`WorkFits`), a state says whether a human approved
(`ApprovalFits`), and a record that is not terminal has a turn, a promise or a decision to come (`AttendedBy`), or lost a transaction.
A continuation therefore finds the record as it left it.

*Settlement* (`SettlementAssumption`): `SettlementTypeCorrect`, `EvidenceComplete` (EffectsSeen), `TimeoutExact` (InTimeIsConclusive)
and `LedgerAgrees`, the assertions of fixture and adapter.  A trial that runs the charging route has exactly one task until it is charged, and
none before or after: with this the ledger, the events and the scheduler agree at every await, whosever sleep ran the task.  A snapshot without pending
effects stays true because a trial runs one route.  The exact boundary adds what holds with one lane only: nobody else
moves the clock, so the task falls due when its delay says.

**`BoundaryAuditProofs`** (`BoundaryAssumption`: the absent value is no other one, and
observations hold evidence): `TypeCorrect`, `LeasesReturned` (LeasesAccountedFor), `PassFaithful` (PassIsFaithful), `SignedEarned`
(SignedIsEarned), `VerifierAgrees` (DecisiveBundlesVerify) and `Refinement` (ImplementsOneShot).

Its lemmas about the verdict hold for any evidence that has positions and
kinds (`IsEvidence`): a comparison without a finding pairs the effects of both routes with equal kinds,
resources and amounts (`NothingFound`), and puts every consequence after an approval of the plan
(`ApprovedBefore`, from the first approval only); only an unchanged baseline is ever compared
(`DecisiveIsCompared`); the auditor and the verifier, who ask different evidence about approvals, cannot differ when
the comparison was decisive (`EitherHumanAsked`).

The invariant `IInv` has seven parts beside the type.  `PlanInv` and `ConsumedInv`: a plan is in the map
under its own id or worked on by one run, never both.  `ActedInv`: only that run started its agent route.
`StuckInv` and `LeaseInv`: a lease that is out belongs to a call under way, or its release failed and
its call threw; not even the type is inductive without them, because a lease given back must not be a
stuck one.  `ObservedInv`: routes ran on the approved seed only, and what is judged then was observed.  `BundleInv`:
a bundle is the result of what its run observed, which is what ties the lemmas about verdicts to states.  The
lemmas named `...Moves` say what an action does to the record of its call, once for all parts.

**`HostedEdgeProofs`** proves about what surrounds a hosted audit.

*Limiter* (`LimiterAssumption`: a request's clock is stale by less than half a window): `StartsAreThrottled` (Throttled) and
`RefusalsAreJust` (RefusalIsJust), for any limits, windows, sessions and networks.  `WindowsFit` says of each bucket that a window opens
only when all before it are over and that the rows it left count from one to its limit without a gap or a repetition; so no stretch of the shortest
window meets three of them, and the start that opened the later of two is not in it, which leaves less than twice the
limit.  `StartsFit` sends each start to one row of each bucket it passed, not long before, so that what an early bucket bounds, the later ones
do; `RequestFits` is what a request under way may rely on, between its upsert and its select and over the
pruning by others.  Counting is by injections into intervals of numbers (`FiniteSetTheorems`), not by induction.

*Initialisation* (`DatabaseAssumption`): `DatabaseTypeCorrect` and `ServedMigrated` (ServesMigrated).  No statement undoes what
another initialisation did, so what an isolate has reached in its own sequence stays true whatever the others execute or
fail to (`Reached`); a refusal is justified (`Justified`) because a request that arrives after a failure gets a new promise.

*Keys* (`KeysAssumption`): `RotationIsSafe` (RetainedProofsVerify).  Whatever anybody may sign with, now or once
the deployment has reached it, is trusted by every isolate and in every copy that is still fresh (`SignersTrusted`).  Only
a prepublication or a removal changes the trusted set; once every isolate publishes the deployment's set, waiting for one
lifetime of a copy leaves no fresh copy without the next key.

**`HostedEvidenceProofs`** (`ReleaseAssumption`, `EvidenceAssumption`: retention is longer than the review window and the skew of
the clocks together, thirty days against minutes): `ReleaseKeepsPromise` and `EvidenceKeepsPromise` (ReleaseImplementsOneShot, of
releases by themselves and under the hosted completion), `EvidenceEarned` (EvidenceIsEarned), `FailuresHaveCause`
(FailureHasCause) and `PortableProofsVerify` (ProofsVerify: retained evidence verifies exactly while the deployment
describes target, agent and principal as it did at the review, and altered evidence never does).  Only the run that a release is executing changes what the
release has come to, so its state, its secret and its number of runs go together (`ReleaseInv`).  A completion acts on
what it read before several awaits; `HostedInv` says that this stays true of the record and of the release, that its first four probes left the
capability unused, and that the fifth alone used it.  The chronology that the arena's own verifier demands then follows from the clock the
completion read, except in the cases that `FailureHasCause` names.

**`AuthorizationProofs`** proves about four parts that share no state.

*Ceremony* (`CeremonyAssumption`): `NonceBuysOneEnvelope` (OneEnvelopePerNonce) and `NoncesSpentForCause` (SpentForCause).  Who passed `has` may find
the nonce spent; who is about to sign spent it, so that two signers, or a signer and an envelope, of one store and life differ in nonces
and in counts (`SignersApart`, `SignerApart`, `EnvelopesApart`).  A ceremony about to sign was timely when it was checked, within the skew, so that a
refusal puts an edge of the window between its own two readings.

*Review* (`ReviewAssumption`): `OnlyReviewedRuns` (RunsWhatWasReviewed).  What was read is what the file still says, or its hash gives the edit away
(`ReadingFits`), and what an invocation holds as approved was read (`CliFits`), whoever replaces the file afterwards.

*Chain* (`ChainAssumption`): `ChainIsUnbroken` (ChainUnbroken) and `StoredRecordsAreBacked` (RecordsAreBacked).  `Linked`: the chain ends at the
stored head, and a transaction has added one receipt to what a rollback would restore.  A rollback takes back receipts only, hence
never the attestation of a record that a server is about to store (`Prepared`).

*Identity* (`IdentityAssumption`): `TrustStaysRecent` (TrustIsRecent).  What is cached was published at a moment from which its lifetime and one
transit have not passed (`CacheFits`), whichever answer came last.

**`EvidenceSourcesProofs`** proves about where evidence comes from.

*Gym* (`GymAssumption`): `GymEvidenceIsOwn` (EvidenceIsOwn) and `NoTrialIsLeft` (TrialsAreReleased).  A trial numbers its events (`TrialFits`), so
consecutive numbers from one are its whole stream up to there; if all of it is the run's own, it explains the reservations.  A route's bookings are
counted apart from the stream, and each decided event of its run is one of them.  A trial whose lease has an answer to a deletion is gone, and no step makes it
again; one that still stands and is held by nobody has a deletion on its way or a loss on record.

*Page* (`PageAssumption`): `PageEvidenceIsOfItsMode` (EvidenceIsOfItsMode).  From the moment a switch begins until the effects of the next mode have run,
nothing is registered or published (`ModesFit`); timers and results that are late belong to a play that is no longer the latest
(`TimelinesFit`), and at most one registration is not aborted (`RegistrationsFit`).

*Runner* (`RecorderAssumption`: the page acts on the operation and on an answer sooner than the runner's waits for quiet end): `TraceIsWhole`
(WholeEffect) and `SubstitutionShows` (SubstitutionIsVisible).  Reports travel on one wire in their order.  A request of the page is recorded or
announced on the wire, and an unanswered one is in flight or announced (`RequestsFit`); what the page has still to do falls due before the wait can be over
(`DelaysFit`).  A wait that ends by being quiet therefore leaves nothing behind.  For substitution, the known tool followed by what the
wire tells leads to the registered one (`Stands`); if another tool than the found one was executed and not changed back, no
message after the call tells the found one (`NoneBack`), so that the tool known at the end is another.

*Evals* (`NodeAssumption`, `TrajectoryAssumption`, `EvalAssumption`): `MatchingIsExact` and, from it, `ImportedVerdictsAgree` (TrajectoryAgrees), for
trajectories of any width and nesting, any number of calls, rows and runs.  The prover has no induction over data, but for one
property at a time the naturals that have it are a set: `NatSetInduction` gets induction in that form from the
well-foundedness of finite subsets.  With it, `RecursionExists` shows that a function defined by values of smaller rank
exists, so that each recursive function of the model satisfies its definition; the rank is the number of nodes done, the size of the mask, or `Nesting`.  A `Path` goes
through spans, one per node.  `matchOrdered` computes the ends of paths (`OrderedIsPath`); `matchUnordered`, whose memo has an entry
per mask and position, the ends of paths in any order of the members (`UnorderedIsPath`, by the size of the mask).  A path through pieces of the calls is a
concatenation of the nodes' languages (`PathIsConcatenation`), and by nesting every node finds exactly its own pieces (`NodesFound`).  For the
verdict, rows with distinct steps can be sorted in one way only (`ListingExists`, `ListingUnique`), so that the calls the code collects are those of every
increasing order (`ActualIsListing`), and no row comes after the verdict (`EvalInv`).

## 6. What is only model-checked

* All liveness (`Settles`, `ObservationEnds`, `VisitEnds`): liveness under fairness and ENABLED are beyond the prover.
  `RecordsAreAttended` is as far as invariants go: an audit is never abandoned.

## 7. Findings

1. **A failed save leaves a failed row with a signed result** (`StoredResultIsCompleted`, run
   `hosted_audit_stored`).  The invoke route stores `result` and `completed` in its record before it
   saves; if that save fails, the catch saves the same record as `failed` and keeps the result,
   and `publicHostedAudit` then refuses to show the audit at all.
2. **A second server revives an expired audit** (`RestoredFailsClosed`, run `measured_audits_restored`).
   Recovery by one server expires an audit that another is still preparing; `transition`
   does not look at the current state, so the first server takes it back to
   `awaiting_approval` and it can be approved and run.  `TerminalIsFinal` and `ImplementsOneShot` hold for
   one server and its restarts, not for two, for the same reason.  `RunsOnce` and
   `OneAuditPerKey` are proved for any number.
3. **The verifier rejects an untouched inconclusive bundle** (`InconclusiveBundlesVerify`, run
   `boundary_audit_verifier`).  `run` asks the prepared evidence whether an approval is needed, the
   verifier the evidence of the second human run, and both ask before they compare the two.  When the human
   recorded an approval in one of the runs only, they name different reasons.
   `DecisiveBundlesVerify` says where they agree, and is proved.
4. **The amount before an effect is compared by nobody** (`StateComparedExactly`, run
   `boundary_audit_exact`).  `stateValues` leaves amounts to `effectAmount`, which reads the effect
   and its `after`, and `removeComparedValues` takes out both `before` and `after`.  `PassIsFaithful`
   says what a pass does mean.

Not findings, but worth knowing, because the properties have to except them:
a failing baseline makes a bundle signable even when parity is
inconclusive, since their combination fails (the second case of `SignedIsEarned`);
a COMMIT of the gateway that fails comes too late to stop the tool it has queued (`src/state-store.js:43`): the row knows no key of a direct
execution then, so that a retry runs it again, it is not charged, and an approval may be answered "denied" although its tool ran.  `OncePerKey` and
`ReplyIsTruthful` except exactly these jobs (without the exception TLC finds the second call within a few steps), and what
remains promised of them is one call for each request, never two for one approval;
a nonce is lost without an envelope when an edge of its window lies between the two readings of the clock (`SpentForCause`), and buys
one envelope per process when the deployment shares no nonce store (`OneEnvelopePerNonce`);
an isolate whose clock is behind the approving one's fails an audit that it has executed (`FailureHasCause`);
retained evidence stops to verify when a deployment renames its target, agent or principal (`ProofsVerify`);
an exchange with the fixture that fails, at the provisioning or at a deletion, may leave a gym trial behind, and nobody asks again for one
whose description was refused (`TrialsAreReleased`); an audit of the gym may pass on no event at all (`EvidenceIsOwn`);
a page that does not settle its `getTools` keeps a visit and its browser open (`VisitEnds`);
a page that swaps a tool and swaps it back between two captures leaves no sign of it in the trace (`SubstitutionIsVisible`).

## 8. Not modelled

*Within modelled components*: cryptography, hashing, canonical JSON, redaction and validation of documents appear as the
distinctions they make (a capability is a value, a request hash tells operations apart).  Timelines, texts and the
sharing of a promise among retries of one process are left out where no guard reads them.

*Partly modelled*: of the browser runner, the contents of a trace (redaction, console, storage, opened pages); of the evals,
the syntax of suites and argument constraints and how the guidance and behaviour layers reach their verdicts; of the command
line, the scan, report and gate commands, which run once over their arguments and keep no state.

*Not modelled*:
* the behavioral verifier (`src/behavioral-verifier.js`): a pure comparison of two recorded traces for the incident lab; audits use
  the boundary auditor's comparison, which is modelled and proved about;
* scanner and safe fetch: heuristics over HTML and JavaScript text, and a fetch that follows redirects one by one.  What
  could be said of them is parsing, and a model would only repeat it;
* release tooling, proof gate, agent regression and CI reports: sequential functions over files;
* incident lab, skills, MCP glue and arena pages, and the web interface: lookups and presentation without shared state.

## 9. What could come next

1. `BoundaryAudit` put in the place of the `prepare` and `run` that `MeasuredAudits` leaves open, with the plan that
   expires between approval and run (`GeneratedRelease` has this composition for releases), and a proof that the composition
   still keeps `ImplementsOneShot`.
2. A proof of what `MeasuredAudits` keeps with several servers when at most one of them recovers records that another works on.
3. A tool binding for `GymAudit` and `BrowserRecorder` together: the evidence that the adapter validates against the trace of its visit.
