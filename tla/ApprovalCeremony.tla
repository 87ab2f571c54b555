--------------------------- MODULE ApprovalCeremony ---------------------------
(***************************************************************************)
(* A human approves with a passkey: src/passkey-authenticator.js verifies  *)
(* the assertion, src/approval-envelope.js signs an envelope over what it  *)
(* committed to.                                                           *)
(*                                                                         *)
(* An authenticator signs commitments; the assertion can reach any process *)
(* of the arena, late, several times, and with commitments it was not made *)
(* for.  A verification is synchronous, but the nonce store may be shared  *)
(* by processes, so another one can run between has() and consume().  The  *)
(* clock is read once for the verification and again for the envelope.     *)
(*                                                                         *)
(* Not represented: encodings, key types, and the checks of the client and *)
(* authenticator data that look at one value, which "sound" stands for     *)
(* (type, origin, relying party, user present and verified, signature).    *)
(***************************************************************************)
EXTENDS Naturals, FiniteSets

CONSTANTS
  Approval,            \* commitments
  Nonce, NonceOf,      \* [Approval -> Nonce]
  IssuedAt, ExpiresAt, \* [Approval -> Nat]
  Credential,
  Counts,              \* the credentials whose authenticator counts signatures
  OwnerOf,             \* [Credential -> reviewer]
  ReviewerOf,          \* [Approval -> reviewer]
  Process,
  Skew,                \* clockSkewMs
  MaxLifetime,         \* maxApprovalLifetimeMs
  MaxSignatures, MaxRestarts, MaxCeremonyTime   \* bounds

ASSUME CeremonyAssumption ==
  /\ NonceOf \in [Approval -> Nonce] /\ IssuedAt \in [Approval -> Nat] /\ ExpiresAt \in [Approval -> Nat]
  /\ \A a \in Approval : IssuedAt[a] < ExpiresAt[a]     \* createApprovalCommitments
  /\ {Skew, MaxLifetime, MaxSignatures, MaxRestarts, MaxCeremonyTime} \subseteq Nat

VARIABLES
  ceremonyClock,
  shared,              \* the deployment gave its processes a nonceStore
  counter,             \* [Credential -> signatures its authenticator has made]
  assertions,          \* what was signed
  registry,            \* [Process -> [Credential -> signCount]]
  nonces,              \* [Process -> consumed nonces]; all the same if shared
  checking,            \* [Process -> the verification that has passed has()]
  lives,               \* [Process -> restarts]
  envelopes,           \* history: what was signed,
  spoiled              \* and the ceremonies that spent their nonce for nothing

ceremonyVars == <<ceremonyClock, shared, counter, assertions, registry, nonces, checking, lives, envelopes, spoiled>>

NoCheck == [step |-> "none"]
Assertion == [approval : Approval, credential : Credential, count : Nat, sound : BOOLEAN]

CeremonyTypeOK ==
  /\ ceremonyClock \in 0 .. MaxCeremonyTime /\ shared \in BOOLEAN
  /\ counter \in [Credential -> Nat] /\ assertions \subseteq Assertion
  /\ registry \in [Process -> [Credential -> Nat]] /\ nonces \in [Process -> SUBSET Nonce]
  /\ lives \in [Process -> Nat]

CeremonyInit ==
  /\ ceremonyClock = 0
  /\ shared \in BOOLEAN
  /\ counter = [c \in Credential |-> 0]
  /\ assertions = {}
  /\ registry = [p \in Process |-> [c \in Credential |-> 0]]
  /\ nonces = [p \in Process |-> {}]
  /\ checking = [p \in Process |-> NoCheck]
  /\ lives = [p \in Process |-> 0]
  /\ envelopes = {} /\ spoiled = {}

-----------------------------------------------------------------------------

\* The human confirms; an authenticator that does not count always says zero.
Confirm(a, c) ==
  /\ Cardinality(assertions) < MaxSignatures
  /\ counter' = [counter EXCEPT ![c] = IF c \in Counts THEN @ + 1 ELSE @]
  /\ \E sound \in BOOLEAN :
       assertions' = assertions \cup {[approval |-> a, credential |-> c, count |-> counter'[c], sound |-> sound]}
  /\ UNCHANGED <<ceremonyClock, shared, registry, nonces, checking, lives, envelopes, spoiled>>

\* validateApprovalTime
Timely(a, now) ==
  /\ ExpiresAt[a] - IssuedAt[a] <= MaxLifetime
  /\ IssuedAt[a] <= now + Skew
  /\ ExpiresAt[a] + Skew > now

Advances(p, s) == (registry[p][s.credential] = 0 /\ s.count = 0) \/ s.count > registry[p][s.credential]

\* All that verify() looks at before it touches the nonce store and the counter.
Acceptable(p, a, s) ==
  /\ Timely(a, ceremonyClock)
  /\ OwnerOf[s.credential] = ReviewerOf[a] /\ s.approval = a /\ s.sound
  /\ Advances(p, s)
  /\ NonceOf[a] \notin nonces[p]

Check(p, a, s) ==
  /\ checking[p] = NoCheck
  /\ Acceptable(p, a, s)
  /\ checking' = [checking EXCEPT ![p] = [step |-> "consume", approval |-> a, assertion |-> s, at |-> ceremonyClock]]
  /\ UNCHANGED <<ceremonyClock, shared, counter, assertions, registry, nonces, lives, envelopes, spoiled>>

\* A store is the process's own or the shared one.
Spend(p, n) == [q \in Process |-> IF q = p \/ shared THEN nonces[q] \cup {n} ELSE nonces[q]]

\* Mutant: what has() said is still true.
StillFree(p, a) == TRUE
Consumes(p, a) == NonceOf[a] \notin nonces[p]

Consume(p) ==
  LET v == checking[p] IN
  /\ v.step = "consume" /\ Consumes(p, v.approval)
  /\ nonces' = Spend(p, NonceOf[v.approval])
  /\ registry' = [registry EXCEPT ![p][v.assertion.credential] = v.assertion.count]
  /\ checking' = [checking EXCEPT ![p].step = "sign"]
  /\ UNCHANGED <<ceremonyClock, shared, counter, assertions, lives, envelopes, spoiled>>

\* Another process was faster: nonce_replayed.
ConsumeRefused(p) ==
  /\ checking[p].step = "consume" /\ ~Consumes(p, checking[p].approval)
  /\ checking' = [checking EXCEPT ![p] = NoCheck]
  /\ UNCHANGED <<ceremonyClock, shared, counter, assertions, registry, nonces, lives, envelopes, spoiled>>

\* The ends of a ceremony without the envelope that its nonce was spent for.
Outside(v) == [approval |-> v.approval, cause |-> "refused", checkedAt |-> v.at, endedAt |-> ceremonyClock]
CutOff(v) == [approval |-> v.approval, cause |-> "restarted"]

\* Mutant: the first instant of the window is outside of it.
StrictlyWithin(a, now) == IssuedAt[a] < now /\ now < ExpiresAt[a]
\* The window as the envelope sees it: no skew.
Within(a, now) == IssuedAt[a] <= now /\ now < ExpiresAt[a]

SignEnvelope(p) ==
  LET v == checking[p] IN
  /\ v.step = "sign" /\ Within(v.approval, ceremonyClock)
  /\ envelopes' = envelopes \cup {[approval |-> v.approval, signedAt |-> ceremonyClock, assertion |-> v.assertion,
                                   process |-> p, life |-> lives[p]]}
  /\ checking' = [checking EXCEPT ![p] = NoCheck]
  /\ UNCHANGED <<ceremonyClock, shared, counter, assertions, registry, nonces, lives, spoiled>>

\* approval_outside_valid_window: the nonce is gone and there is no envelope.
EnvelopeRefused(p) ==
  /\ checking[p].step = "sign" /\ ~Within(checking[p].approval, ceremonyClock)
  /\ spoiled' = spoiled \cup {Outside(checking[p])}
  /\ checking' = [checking EXCEPT ![p] = NoCheck]
  /\ UNCHANGED <<ceremonyClock, shared, counter, assertions, registry, nonces, lives, envelopes>>

\* A process forgets its counters, and the nonces it kept itself.
Restart(p) ==
  /\ lives[p] < MaxRestarts
  /\ lives' = [lives EXCEPT ![p] = @ + 1]
  /\ registry' = [registry EXCEPT ![p] = [c \in Credential |-> 0]]
  /\ nonces' = IF shared THEN nonces ELSE [nonces EXCEPT ![p] = {}]
  /\ spoiled' = IF checking[p].step = "sign" THEN spoiled \cup {CutOff(checking[p])} ELSE spoiled
  /\ checking' = [checking EXCEPT ![p] = NoCheck]
  /\ UNCHANGED <<ceremonyClock, shared, counter, assertions, envelopes>>

CeremonyTick ==
  /\ ceremonyClock < MaxCeremonyTime
  /\ ceremonyClock' = ceremonyClock + 1
  /\ UNCHANGED <<shared, counter, assertions, registry, nonces, checking, lives, envelopes, spoiled>>

CeremonyNext ==
  \/ CeremonyTick
  \/ \E a \in Approval, c \in Credential : Confirm(a, c)
  \/ \E p \in Process, a \in Approval, s \in assertions : Check(p, a, s)
  \/ \E p \in Process : Consume(p) \/ ConsumeRefused(p) \/ SignEnvelope(p) \/ EnvelopeRefused(p) \/ Restart(p)

CeremonySpec == CeremonyInit /\ [][CeremonyNext]_ceremonyVars

-----------------------------------------------------------------------------
(* Properties *)

SameStore(e, f) == shared \/ (e.process = f.process /\ e.life = f.life)

\* A nonce buys one envelope, from whichever process; without a shared store, one from each
\* process and life.  The envelope is the reviewer's own: over exactly the commitments that
\* the reviewer's credential signed, and dated within their window.  In the life of a
\* process a counting authenticator gives no count twice, so a copy of it is noticed.
OneEnvelopePerNonce ==
  /\ \A e, f \in envelopes : e # f =>
       /\ SameStore(e, f) => NonceOf[e.approval] # NonceOf[f.approval]
       /\ (/\ e.process = f.process /\ e.life = f.life
           /\ e.assertion.credential = f.assertion.credential /\ e.assertion.credential \in Counts)
            => e.assertion.count # f.assertion.count
  /\ \A e \in envelopes :
       /\ e.assertion \in assertions /\ e.assertion.approval = e.approval
       /\ OwnerOf[e.assertion.credential] = ReviewerOf[e.approval]
       /\ IssuedAt[e.approval] <= e.signedAt /\ e.signedAt < ExpiresAt[e.approval]

\* The ceremony met an edge of its window between two readings of the clock: the allowed
\* skew let it begin early or late, or its end came in between.
MetAnEdge(s) ==
  \/ s.endedAt < IssuedAt[s.approval] /\ IssuedAt[s.approval] <= s.checkedAt + Skew
  \/ s.endedAt >= ExpiresAt[s.approval] /\ s.checkedAt < ExpiresAt[s.approval] + Skew

\* A nonce that was spent bought an envelope or is about to, or its ceremony was spoiled;
\* and a ceremony is spoiled only by a restart of its process between the two, or by an
\* edge of its window that it met at its own two readings of the clock.
SpentForCause ==
  /\ \A p \in Process : \A n \in nonces[p] :
       \/ \E e \in envelopes : NonceOf[e.approval] = n
       \/ \E q \in Process : checking[q].step = "sign" /\ NonceOf[checking[q].approval] = n
       \/ \E s \in spoiled : NonceOf[s.approval] = n
  /\ \A s \in spoiled : s.cause = "restarted" \/ MetAnEdge(s)
=============================================================================
