---------------------------- MODULE AgentIdentity ----------------------------
(***************************************************************************)
(* The verification of agent identity tokens against a trusted issuer's    *)
(* published keys: src/identity.js.                                        *)
(*                                                                         *)
(* Claims are checked first, then the keys are taken from a cache or are   *)
(* fetched; while one request waits for the issuer's answer others are     *)
(* served, and answers come in any order.  The issuer replaces its keys.   *)
(*                                                                         *)
(* Not represented: encodings, algorithms and the claims that are compared *)
(* with configuration; one issuer.                                         *)
(***************************************************************************)
EXTENDS Naturals

CONSTANTS
  Call,                \* verifications
  JwksKey, FirstJwk,   \* the issuer's keys
  Lifetime,            \* of the tokens the issuer gives out
  TokenSkew, MaxTokenAge, JwksTTL,   \* clockSkewSeconds, maxTokenAgeSeconds, jwksCacheSeconds
  MaxTransit,          \* bound: how long an answer takes
  MaxTokenTime         \* bound of the clock

ASSUME IdentityAssumption ==
  /\ FirstJwk \in JwksKey
  /\ {Lifetime, TokenSkew, MaxTokenAge, JwksTTL, MaxTransit, MaxTokenTime} \subseteq Nat

VARIABLES
  tokenClock,
  publishedAt,         \* history: [time -> keys that the issuer published at some moment of it]
  current,             \* the keys it publishes now
  cached,              \* the cache entry
  calls                \* [Call -> where its verification is]

identityVars == <<tokenClock, publishedAt, current, cached, calls>>

IdentityInit ==
  /\ tokenClock = 0
  /\ current = {FirstJwk}
  /\ publishedAt = [t \in 0 .. MaxTokenTime |-> IF t = 0 THEN {FirstJwk} ELSE {}]
  /\ cached = [keys |-> {}, expiresAt |-> 0]
  /\ calls = [c \in Call |-> [step |-> "new"]]

-----------------------------------------------------------------------------

\* The issuer adds, replaces or withdraws keys.
IssuerPublishes(keys) ==
  /\ keys # current
  /\ current' = keys
  /\ publishedAt' = [publishedAt EXCEPT ![tokenClock] = @ \cup keys]
  /\ UNCHANGED <<tokenClock, cached, calls>>

\* validateClaims
ClaimsValid(iat, exp) ==
  /\ iat <= tokenClock + TokenSkew
  /\ exp + TokenSkew > tokenClock
  /\ exp - iat <= MaxTokenAge

\* Mutant: an entry does not expire.
NeverStale(entry) == entry.keys # {}
Fresh(entry) == entry.expiresAt > tokenClock

Refused == [step |-> "refused"]
Answer(key, keys) == IF key \in keys THEN [step |-> "verified", key |-> key, at |-> tokenClock] ELSE Refused

\* A token signed with some key arrives.  The claims, and a fresh entry of the cache, are
\* looked at in one turn; without one the keys are fetched.
Present(c, key, iat) ==
  /\ calls[c].step = "new"
  /\ calls' = [calls EXCEPT ![c] =
       IF ~ClaimsValid(iat, iat + Lifetime) THEN Refused
       ELSE IF Fresh(cached) THEN Answer(key, cached.keys)
       ELSE [step |-> "fetching", key |-> key]]
  /\ UNCHANGED <<tokenClock, publishedAt, current, cached>>

\* The issuer answers with what it publishes, ...
IssuerAnswers(c) ==
  /\ calls[c].step = "fetching"
  /\ calls' = [calls EXCEPT ![c] = [step |-> "answered", key |-> @.key, keys |-> current, at |-> tokenClock]]
  /\ UNCHANGED <<tokenClock, publishedAt, current, cached>>

\* ... or not at all, or with something that is no key set.
FetchFails(c) ==
  /\ calls[c].step = "fetching"
  /\ calls' = [calls EXCEPT ![c] = Refused]
  /\ UNCHANGED <<tokenClock, publishedAt, current, cached>>

\* The answer arrives: it replaces the entry, whatever arrived since it was asked for.
Receive(c) ==
  /\ calls[c].step = "answered"
  /\ cached' = [keys |-> calls[c].keys, expiresAt |-> tokenClock + JwksTTL]
  /\ calls' = [calls EXCEPT ![c] = Answer(@.key, @.keys)]
  /\ UNCHANGED <<tokenClock, publishedAt, current>>

\* The bound on transit: an answer does not take longer.
TokenTick ==
  /\ tokenClock < MaxTokenTime
  /\ \A c \in Call : calls[c].step = "answered" => tokenClock < calls[c].at + MaxTransit
  /\ tokenClock' = tokenClock + 1
  /\ publishedAt' = [publishedAt EXCEPT ![tokenClock + 1] = current]
  /\ UNCHANGED <<current, cached, calls>>

IdentityNext ==
  \/ TokenTick
  \/ \E keys \in SUBSET JwksKey \ {{}} : IssuerPublishes(keys)
  \/ \E c \in Call :
       \/ \E key \in JwksKey, iat \in 0 .. MaxTokenTime : Present(c, key, iat)
       \/ IssuerAnswers(c) \/ FetchFails(c) \/ Receive(c)

IdentitySpec == IdentityInit /\ [][IdentityNext]_identityVars

-----------------------------------------------------------------------------
(* Property *)

\* A key that the issuer withdraws soon counts for nothing: whoever is verified is so with
\* a key that the issuer still published at most the cache's time and one transit before,
\* in whatever order answers arrive and although an old one replaces a newer entry.
TrustIsRecent ==
  \A c \in Call : calls[c].step = "verified" =>
    \E t \in 0 .. calls[c].at :
      calls[c].key \in publishedAt[t] /\ calls[c].at <= t + JwksTTL + MaxTransit
=============================================================================
