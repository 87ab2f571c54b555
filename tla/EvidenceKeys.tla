---------------------------- MODULE EvidenceKeys ----------------------------
(***************************************************************************)
(* The signing keys of hosted evidence: lib/evidence-signing.ts as the     *)
(* invoke, verify and signing-keys routes use it, under a rotation in the  *)
(* two phases that README.md:191 prescribes.                               *)
(*                                                                         *)
(* A deployment is a configuration that reaches the isolates one by one.   *)
(* An isolate signs with the pair it runs with and publishes the set it    *)
(* trusts; verifiers keep that set for as long as its cache-control says.  *)
(*                                                                         *)
(* Not represented: encodings and hashes (a key stands for its keyId), and *)
(* the ephemeral keys of local development, which no cache may keep.       *)
(***************************************************************************)
EXTENDS Naturals, FiniteSets

CONSTANTS
  Key, Isolate, Verifier,
  FirstKey,            \* the pair of the first deployment
  CacheTTL,            \* max-age of the published set, in clock ticks
  ProofRetention,      \* how long a proof is retained
  MaxArchivedKeys,     \* MAX_ARCHIVED_PUBLIC_KEYS
  MaxKeyTime           \* bound of the clock

ASSUME KeysAssumption ==
  /\ FirstKey \in Key /\ Isolate # {}
  /\ CacheTTL \in Nat \ {0} /\ ProofRetention \in Nat /\ MaxKeyTime \in Nat
  /\ MaxArchivedKeys \in Nat

VARIABLES
  keyClock,
  config,              \* the environment that the operator deployed last
  runs,                \* [Isolate -> the environment it runs with]
  rolledAt,            \* when the last isolate took up a deployment
  cached,              \* [Verifier -> the set it keeps and when it was fetched]
  proof                \* the signed proofs that are still retained

keysVars == <<keyClock, config, runs, rolledAt, cached, proof>>

KeyTime == 0 .. MaxKeyTime

\* ARENA_SIGNING_PRIVATE_JWK, ..._PUBLIC_JWK and ..._ARCHIVED_PUBLIC_JWKS.
Environment == [private : Key, public : Key, archived : SUBSET Key]
Proof == [signer : Key, keyId : Key, retentionUntil : Nat]

KeysTypeOK ==
  /\ keyClock \in KeyTime
  /\ config \in Environment
  /\ runs \in [Isolate -> Environment]
  /\ rolledAt \in KeyTime
  /\ cached \in [Verifier -> [keys : SUBSET Key, at : KeyTime]]
  /\ proof \in SUBSET Proof

FirstEnvironment == [private |-> FirstKey, public |-> FirstKey, archived |-> {}]

KeysInit ==
  /\ keyClock = 0
  /\ config = FirstEnvironment
  /\ runs = [i \in Isolate |-> FirstEnvironment]
  /\ rolledAt = 0
  /\ cached = [v \in Verifier |-> [keys |-> {FirstKey}, at |-> 0]]
  /\ proof = {}

-----------------------------------------------------------------------------
(* lib/evidence-signing.ts *)

\* Mutant: whatever pair is configured signs.
AnyPair(env) == TRUE
\* A trial signature of the private key must verify under the public one.
PairMatches(env) == env.private = env.public

Trusted(env) == {env.public} \cup env.archived

\* getEvidenceSigningKeySet throws (503) for a pair that does not match and for an
\* archive above its limit.
Publishes(env) == PairMatches(env) /\ Cardinality(env.archived) <= MaxArchivedKeys

\* resolveEvidenceSigningKey and verifyEvidenceAttestation against a set of trusted keys.
Verifies(p, keys) == p.keyId \in keys /\ p.signer = p.keyId

FreshCopy(v) == keyClock - cached[v].at < CacheTTL

-----------------------------------------------------------------------------
(* The routes *)

\* POST /api/audits/invoke signs and stores; a pair that does not match throws, and the
\* audit fails without a proof.
Sign(i) ==
  /\ PairMatches(runs[i])
  /\ proof' = proof \cup {[signer |-> runs[i].private, keyId |-> runs[i].public,
                           retentionUntil |-> keyClock + ProofRetention]}
  /\ UNCHANGED <<keyClock, config, runs, rolledAt, cached>>

\* GET /.well-known/arena-signing-keys.json, at whichever isolate answers.
FetchKeys(v, i) ==
  /\ Publishes(runs[i])
  /\ cached' = [cached EXCEPT ![v] = [keys |-> Trusted(runs[i]), at |-> keyClock]]
  /\ UNCHANGED <<keyClock, config, runs, rolledAt, proof>>

-----------------------------------------------------------------------------
(* The operator, as README.md:191 instructs *)

Rolled == \A i \in Isolate : runs[i] = config

Deploy(env) ==
  /\ config' = env
  /\ UNCHANGED <<keyClock, runs, rolledAt, cached, proof>>

InUse(k) == \E p \in proof : p.keyId = k

Prepublish(k) ==
  /\ Rolled
  /\ k \notin Trusted(config)
  /\ Cardinality(config.archived \cup {k}) <= MaxArchivedKeys
  /\ Deploy([config EXCEPT !.archived = @ \cup {k}])

Waited == keyClock - rolledAt >= CacheTTL

\* The next key becomes the active pair and the previous one replaces it in the list.
\* The operator may get the private half wrong.
Activate(k, private) ==
  /\ Rolled
  /\ PairMatches(config)
  /\ Waited
  /\ k \in config.archived
  /\ Deploy([private |-> private, public |-> k,
             archived |-> (config.archived \ {k}) \cup {config.public}])

\* A wrong pair is noticed, because nothing signs and no set is published, and put right.
CorrectPair ==
  /\ ~PairMatches(config)
  /\ Deploy([config EXCEPT !.private = config.public])

Removable(k) == Rolled /\ PairMatches(config) /\ k \in config.archived /\ ~InUse(k)

Retire(k) ==
  /\ Removable(k)
  /\ Deploy([config EXCEPT !.archived = @ \ {k}])

\* An isolate takes up the deployment.
Roll(i) ==
  /\ runs[i] # config
  /\ runs' = [runs EXCEPT ![i] = config]
  /\ rolledAt' = keyClock
  /\ UNCHANGED <<keyClock, config, cached, proof>>

KeyTick ==
  /\ keyClock < MaxKeyTime
  /\ keyClock' = keyClock + 1
  /\ proof' = {p \in proof : keyClock < p.retentionUntil}
  /\ UNCHANGED <<config, runs, rolledAt, cached>>

KeysNext ==
  \/ KeyTick
  \/ CorrectPair
  \/ \E i \in Isolate : Sign(i) \/ Roll(i) \/ \E v \in Verifier : FetchKeys(v, i)
  \/ \E k \in Key : Prepublish(k) \/ Retire(k) \/ \E private \in {k, config.private} : Activate(k, private)

KeysSpec == KeysInit /\ [][KeysNext]_keysVars

-----------------------------------------------------------------------------
(* Properties *)

\* Throughout a rotation in two phases, wrong pairs and isolates that lag behind included,
\* whoever holds a set of trusted keys that its cache-control still allows, or asks an
\* isolate that publishes one, verifies every proof that is still retained.
RetainedProofsVerify ==
  \A p \in proof :
    /\ \A v \in Verifier : FreshCopy(v) => Verifies(p, cached[v].keys)
    /\ \A i \in Isolate : Publishes(runs[i]) => Verifies(p, Trusted(runs[i]))
=============================================================================
