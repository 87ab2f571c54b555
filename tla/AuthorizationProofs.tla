------------------------- MODULE AuthorizationProofs -------------------------
(***************************************************************************)
(* For any processes, keys and times, what authorises an action and stays  *)
(* of it: the passkey ceremony, the review of contracts on the command     *)
(* line, the chain of attestations and the identity of agents.  They share *)
(* no state and are proved one by one.                                     *)
(***************************************************************************)
EXTENDS ApprovalCeremony, ContractReview, ProofChain, AgentIdentity, SequenceTheorems, TLAPS

-----------------------------------------------------------------------------
(* The passkey ceremony: what may sign has spent its nonce, each its own *)

\* A verification that has passed has() is about an approval and an assertion that fit one
\* another; until it consumes, the counter has not moved on; after that, the nonce is spent.
CheckFits(p) ==
  LET v == checking[p] IN
  /\ v = NoCheck \/ v \in [step : {"consume", "sign"}, approval : Approval, assertion : assertions, at : Nat]
  /\ v.step \in {"consume", "sign"} =>
       /\ v.assertion.approval = v.approval /\ OwnerOf[v.assertion.credential] = ReviewerOf[v.approval]
       /\ v.at <= ceremonyClock /\ IssuedAt[v.approval] <= v.at + Skew /\ v.at < ExpiresAt[v.approval] + Skew
  /\ v.step = "consume" =>
       (v.assertion.credential \in Counts => registry[p][v.assertion.credential] < v.assertion.count)
  /\ v.step = "sign" =>
       /\ NonceOf[v.approval] \in nonces[p]
       /\ v.assertion.credential \in Counts => v.assertion.count <= registry[p][v.assertion.credential]

\* An envelope is the reviewer's own, and its nonce is spent where it was signed.
EnvelopeFits(e) ==
  /\ e.process \in Process /\ e.life \in 0 .. lives[e.process] /\ e.approval \in Approval
  /\ e.assertion \in assertions /\ e.assertion.approval = e.approval
  /\ OwnerOf[e.assertion.credential] = ReviewerOf[e.approval]
  /\ IssuedAt[e.approval] <= e.signedAt /\ e.signedAt < ExpiresAt[e.approval]
  /\ (shared \/ e.life = lives[e.process]) => NonceOf[e.approval] \in nonces[e.process]
  /\ (e.life = lives[e.process] /\ e.assertion.credential \in Counts)
       => e.assertion.count <= registry[e.process][e.assertion.credential]

\* Of two that may sign or have signed, each has a nonce and a count of its own.
SignerApart(p, e) ==
  LET v == checking[p] IN
  v.step = "sign" =>
    /\ (shared \/ (e.process = p /\ e.life = lives[p])) => NonceOf[e.approval] # NonceOf[v.approval]
    /\ (/\ e.process = p /\ e.life = lives[p]
        /\ e.assertion.credential = v.assertion.credential /\ v.assertion.credential \in Counts)
         => e.assertion.count # v.assertion.count

SignersApart(p, q) ==
  (p # q /\ shared /\ checking[p].step = "sign" /\ checking[q].step = "sign")
    => NonceOf[checking[p].approval] # NonceOf[checking[q].approval]

EnvelopesApart(e, f) ==
  e # f =>
    /\ SameStore(e, f) => NonceOf[e.approval] # NonceOf[f.approval]
    /\ (/\ e.process = f.process /\ e.life = f.life
        /\ e.assertion.credential = f.assertion.credential /\ e.assertion.credential \in Counts)
         => e.assertion.count # f.assertion.count

\* An authenticator that counts never says zero.
CountsUp == \A s \in assertions : s.credential \in Counts => s.count > 0

CeremonyInv ==
  /\ CeremonyTypeOK /\ CountsUp
  /\ checking = [p \in Process |-> checking[p]]
  /\ shared => \A p, q \in Process : nonces[p] = nonces[q]
  /\ \A p \in Process : CheckFits(p)
  /\ \A e \in envelopes : EnvelopeFits(e)
  /\ \A p \in Process : \A e \in envelopes : SignerApart(p, e)
  /\ \A p, q \in Process : SignersApart(p, q)
  /\ \A e, f \in envelopes : EnvelopesApart(e, f)
  /\ SpentForCause

\* What the ceremony keeps, field by field.
LEMMA CeremonyTyped ==
  CeremonyTypeOK =>
    /\ ceremonyClock \in Nat /\ Skew \in Nat
    /\ \A a \in Approval : NonceOf[a] \in Nonce /\ IssuedAt[a] \in Nat /\ ExpiresAt[a] \in Nat
    /\ \A s \in assertions : s.approval \in Approval /\ s.credential \in Credential /\ s.count \in Nat
    /\ \A p \in Process : lives[p] \in Nat /\ \A c \in Credential : registry[p][c] \in Nat
BY CeremonyAssumption DEF CeremonyTypeOK, Assertion

\* Time passes, or something is signed: what is known stays known.
LEMMA MoreKnown ==
  ASSUME CeremonyInv, CeremonyTypeOK', CountsUp', UNCHANGED <<shared, registry, nonces, checking, lives, envelopes, spoiled>>,
         assertions \subseteq assertions', ceremonyClock <= ceremonyClock'
  PROVE  CeremonyInv'
<1>0. ceremonyClock \in Nat /\ ceremonyClock' \in Nat /\ Skew \in Nat
  BY CeremonyTyped, CeremonyAssumption DEF CeremonyInv, CeremonyTypeOK
<1>1. ASSUME NEW p \in Process PROVE CheckFits(p)'
  <2>1. CheckFits(p)
    BY DEF CeremonyInv
  <2>2. CASE checking[p] = NoCheck
    BY <2>2 DEF CheckFits, NoCheck
  <2>3. CASE checking[p] \in [step : {"consume", "sign"}, approval : Approval, assertion : assertions, at : Nat]
    <3>1. checking[p] \in [step : {"consume", "sign"}, approval : Approval, assertion : assertions', at : Nat]
      BY <2>3
    <3>2. checking[p].at <= ceremonyClock'
      BY <1>0, <2>1, <2>3 DEF CheckFits
    <3> QED
      BY <2>1, <3>1, <3>2 DEF CheckFits
  <2> QED
    BY <2>1, <2>2, <2>3 DEF CheckFits
<1>2. ASSUME NEW e \in envelopes PROVE EnvelopeFits(e)'
  BY DEF CeremonyInv, EnvelopeFits
<1>3. /\ \A p \in Process : \A e \in envelopes : SignerApart(p, e)'
      /\ \A p, q \in Process : SignersApart(p, q)'
      /\ \A e, f \in envelopes : EnvelopesApart(e, f)'
  BY DEF CeremonyInv, SignerApart, SignersApart, EnvelopesApart, SameStore
<1>4. SpentForCause'
  BY DEF CeremonyInv, SpentForCause, MetAnEdge
<1> QED
  BY <1>1, <1>2, <1>3, <1>4 DEF CeremonyInv

\* A verification starts or ends without signing.
LEMMA OneCheck ==
  ASSUME CeremonyInv, NEW p \in Process, NEW y, checking' = [checking EXCEPT ![p] = y], y.step # "sign", CheckFits(p)',
         UNCHANGED <<ceremonyClock, shared, counter, assertions, registry, nonces, lives, envelopes>>, SpentForCause'
  PROVE  CeremonyInv'
<1>1. checking' = [q \in Process |-> checking'[q]] /\ checking'[p] = y /\ \A q \in Process \ {p} : checking'[q] = checking[q]
  BY DEF CeremonyInv
<1>2. CeremonyTypeOK' /\ CountsUp'
  BY DEF CeremonyInv, CeremonyTypeOK, CountsUp
<1>3. ASSUME NEW q \in Process \ {p} PROVE CheckFits(q)'
  BY <1>1 DEF CeremonyInv, CheckFits
<1>4. ASSUME NEW e \in envelopes PROVE EnvelopeFits(e)'
  BY DEF CeremonyInv, EnvelopeFits
<1>5. ASSUME NEW q \in Process PROVE /\ \A e \in envelopes : SignerApart(q, e)'
                                     /\ \A r \in Process : SignersApart(q, r)'
  BY <1>1 DEF CeremonyInv, SignerApart, SignersApart
<1>6. \A e, f \in envelopes : EnvelopesApart(e, f)'
  BY DEF CeremonyInv, EnvelopesApart, SameStore
<1>7. shared' => \A q, r \in Process : nonces'[q] = nonces'[r]
  BY DEF CeremonyInv
<1> QED
  BY <1>1, <1>2, <1>3, <1>4, <1>5, <1>6, <1>7 DEF CeremonyInv

\* The checks before the nonce change nothing but what the process remembers.
LEMMA CheckKeeps ==
  ASSUME CeremonyInv, NEW p \in Process, NEW a \in Approval, NEW s \in assertions, Check(p, a, s) PROVE CeremonyInv'
<1> DEFINE y == [step |-> "consume", approval |-> a, assertion |-> s, at |-> ceremonyClock]
<1>1. /\ checking' = [checking EXCEPT ![p] = y] /\ Acceptable(p, a, s) /\ checking[p] = NoCheck
      /\ UNCHANGED <<ceremonyClock, shared, counter, assertions, registry, nonces, lives, envelopes, spoiled>>
  BY DEF Check
<1>2. /\ checking'[p] = y /\ \A q \in Process \ {p} : checking'[q] = checking[q]
      /\ CeremonyTypeOK
  BY <1>1 DEF CeremonyInv
<1>3. s.credential \in Counts => registry[p][s.credential] < s.count
  <2>1. s.credential \in Counts => s.count > 0
    BY DEF CeremonyInv, CountsUp
  <2>2. s.count \in Nat /\ registry[p][s.credential] \in Nat
    BY <1>2, CeremonyTyped
  <2> QED
    BY <1>1, <2>1, <2>2 DEF Acceptable, Advances
<1>4. CheckFits(p)'
  <2>1. ceremonyClock \in Nat /\ IssuedAt[a] <= ceremonyClock + Skew /\ ceremonyClock < ExpiresAt[a] + Skew
    BY <1>1, <1>2, CeremonyTyped DEF Acceptable, Timely
  <2> QED
    BY <1>1, <1>2, <1>3, <2>1 DEF CheckFits, Acceptable
<1>5. SpentForCause'
  <2>1. \A q \in Process : checking[q].step = "sign" => checking'[q] = checking[q]
    BY <1>1, <1>2 DEF NoCheck
  <2> QED
    <3>1. \A q \in Process : \A n \in nonces[q] :
            \/ \E e \in envelopes : NonceOf[e.approval] = n
            \/ \E r \in Process : checking'[r].step = "sign" /\ NonceOf[checking'[r].approval] = n
            \/ \E t \in spoiled : NonceOf[t.approval] = n
      BY <2>1 DEF CeremonyInv, SpentForCause
    <3>2. \A t \in spoiled : t.cause = "restarted" \/ MetAnEdge(t)'
      BY DEF CeremonyInv, SpentForCause, MetAnEdge
    <3> QED
      BY <1>1, <3>1, <3>2 DEF SpentForCause
<1>6. y.step # "sign"
  OBVIOUS
<1> HIDE DEF y
<1> QED
  BY <1>1, <1>4, <1>5, <1>6, OneCheck

\* A check that ends without an envelope is forgotten.
LEMMA EndKeeps ==
  ASSUME CeremonyInv, NEW p \in Process, ConsumeRefused(p) \/ EnvelopeRefused(p) PROVE CeremonyInv'
<1>1. /\ checking' = [checking EXCEPT ![p] = NoCheck]
      /\ UNCHANGED <<ceremonyClock, shared, counter, assertions, registry, nonces, lives, envelopes>>
  BY DEF ConsumeRefused, EnvelopeRefused
<1>2. /\ checking'[p] = NoCheck /\ \A q \in Process \ {p} : checking'[q] = checking[q]
      /\ CeremonyTypeOK /\ CheckFits(p)
  BY <1>1 DEF CeremonyInv
<1>3. CheckFits(p)'
  BY <1>2 DEF CheckFits, NoCheck
<1>4. SpentForCause'
  <2>1. CASE ConsumeRefused(p)
    <3>1. checking[p].step # "sign"
      BY <2>1 DEF ConsumeRefused
    <3> QED
      BY <1>1, <1>2, <2>1, <3>1 DEF CeremonyInv, SpentForCause, MetAnEdge, ConsumeRefused
  <2>2. CASE EnvelopeRefused(p)
    <3> DEFINE a == checking[p].approval
    <3>1. checking[p].step = "sign" /\ ~Within(a, ceremonyClock)
      BY <2>2 DEF EnvelopeRefused
    <3> DEFINE new == Outside(checking[p])
    <3>2. /\ a \in Approval /\ checking[p].at \in Nat
          /\ IssuedAt[a] <= checking[p].at + Skew /\ checking[p].at < ExpiresAt[a] + Skew
      BY <1>2, <3>1 DEF CheckFits, NoCheck
    <3>3. ceremonyClock \in Nat /\ Skew \in Nat /\ IssuedAt[a] \in Nat /\ ExpiresAt[a] \in Nat
      BY <1>2, <3>2, CeremonyTyped
    <3>4. MetAnEdge(new)
      BY <3>1, <3>2, <3>3 DEF Within, MetAnEdge, Outside
    <3>5. spoiled' = spoiled \cup {new}
      BY <2>2, <3>1 DEF EnvelopeRefused
    <3>6. new.approval = a
      BY DEF Outside
    <3> HIDE DEF new
    <3>7. \A s \in spoiled' : s.cause = "restarted" \/ MetAnEdge(s)'
      BY <3>4, <3>5 DEF CeremonyInv, SpentForCause, MetAnEdge
    <3>8. ASSUME NEW q \in Process, NEW n \in nonces[q]
          PROVE  \/ \E e \in envelopes : NonceOf[e.approval] = n
                 \/ \E r \in Process : checking'[r].step = "sign" /\ NonceOf[checking'[r].approval] = n
                 \/ \E s \in spoiled' : NonceOf[s.approval] = n
      <4>1. CASE n = NonceOf[a]
        BY <3>5, <3>6, <4>1
      <4>2. CASE n # NonceOf[a]
        BY <1>2, <3>5, <4>2 DEF CeremonyInv, SpentForCause
      <4> QED
        BY <4>1, <4>2
    <3> QED
      BY <1>1, <3>7, <3>8 DEF SpentForCause
  <2> QED
    BY <2>1, <2>2
<1>5. NoCheck.step # "sign"
  BY DEF NoCheck
<1> QED
  BY <1>1, <1>3, <1>4, <1>5, OneCheck

\* The nonce is spent and the counter goes up: no other check has spent it in this life of the
\* store.
LEMMA ConsumeKeeps == ASSUME CeremonyInv, NEW p \in Process, Consume(p) PROVE CeremonyInv'
<1> DEFINE v == checking[p]
           n == NonceOf[v.approval]
           c == v.assertion.credential
<1>1. /\ v.step = "consume" /\ n \notin nonces[p] /\ nonces' = Spend(p, n)
      /\ registry' = [registry EXCEPT ![p][c] = v.assertion.count]
      /\ checking' = [checking EXCEPT ![p].step = "sign"]
      /\ UNCHANGED <<ceremonyClock, shared, counter, assertions, lives, envelopes, spoiled>>
  BY DEF Consume, Consumes
<1>2. /\ CeremonyTypeOK /\ CheckFits(p) /\ checking = [q \in Process |-> checking[q]]
      /\ shared => \A q, r \in Process : nonces[q] = nonces[r]
  BY DEF CeremonyInv
<1>3. /\ v \in [step : {"consume", "sign"}, approval : Approval, assertion : assertions, at : Nat]
      /\ v.assertion.approval = v.approval /\ OwnerOf[c] = ReviewerOf[v.approval]
      /\ v.at <= ceremonyClock /\ IssuedAt[v.approval] <= v.at + Skew /\ v.at < ExpiresAt[v.approval] + Skew
      /\ c \in Counts => registry[p][c] < v.assertion.count
  BY <1>1, <1>2 DEF CheckFits, NoCheck
<1>4. v.approval \in Approval /\ v.assertion \in assertions /\ c \in Credential /\ v.assertion.count \in Nat /\ n \in Nonce
  <2>1. v.approval \in Approval /\ v.assertion \in assertions
    BY <1>3
  <2> QED
    BY <1>2, <2>1, CeremonyTyped
<1>5. /\ checking'[p] = [v EXCEPT !.step = "sign"] /\ \A q \in Process \ {p} : checking'[q] = checking[q]
      /\ checking' = [q \in Process |-> checking'[q]]
  BY <1>1, <1>2
<1>6. /\ checking'[p].step = "sign" /\ checking'[p].approval = v.approval /\ checking'[p].assertion = v.assertion
      /\ checking'[p].at = v.at
      /\ checking'[p] \in [step : {"consume", "sign"}, approval : Approval, assertion : assertions, at : Nat]
  BY <1>3, <1>5
<1>7. /\ n \in nonces'[p] /\ \A q \in Process : nonces[q] \subseteq nonces'[q] /\ nonces'[q] \subseteq nonces[q] \cup {n}
      /\ nonces' \in [Process -> SUBSET Nonce]
      /\ shared => \A q, r \in Process : nonces'[q] = nonces'[r]
  BY <1>1, <1>2, <1>4 DEF Spend, CeremonyTypeOK
<1>8. /\ registry' \in [Process -> [Credential -> Nat]] /\ registry'[p][c] = v.assertion.count
      /\ \A q \in Process \ {p} : registry'[q] = registry[q]
      /\ \A d \in Credential \ {c} : registry'[p][d] = registry[p][d]
  BY <1>1, <1>2, <1>4 DEF CeremonyTypeOK
<1> HIDE DEF v, n, c
<1>9. CeremonyTypeOK' /\ CountsUp'
  BY <1>1, <1>2, <1>7, <1>8 DEF CeremonyTypeOK, CountsUp, CeremonyInv
<1>10. ASSUME NEW q \in Process PROVE CheckFits(q)'
  <2>1. CASE q = p
    <3>1. v.assertion.count <= registry'[p][c]
      BY <1>4, <1>8
    <3> QED
      BY <2>1, <3>1, <1>1, <1>3, <1>6, <1>7 DEF CheckFits, v, n, c
  <2>2. CASE q # p
    <3>1. checking'[q] = checking[q] /\ registry'[q] = registry[q] /\ nonces[q] \subseteq nonces'[q] /\ CheckFits(q)
      BY <2>2, <1>5, <1>7, <1>8 DEF CeremonyInv
    <3> QED
      BY <3>1, <1>1 DEF CheckFits
  <2> QED
    BY <2>1, <2>2
<1>11. ASSUME NEW e \in envelopes PROVE EnvelopeFits(e)'
  <2>1. EnvelopeFits(e)
    BY DEF CeremonyInv
  <2>2. e.process \in Process /\ e.assertion.credential \in Credential /\ e.assertion.count \in Nat
    BY <1>2, <2>1, CeremonyTyped DEF EnvelopeFits
  <2>3. \A d \in Credential \cap Counts : e.assertion.count <= registry[e.process][d] => e.assertion.count <= registry'[e.process][d]
    <3>1. \A d \in Credential : registry[e.process][d] \in Nat
      BY <1>2, <2>2, CeremonyTyped
    <3> QED
      BY <1>3, <1>4, <1>8, <2>2, <3>1
  <2> QED
    BY <1>1, <1>7, <2>1, <2>2, <2>3 DEF EnvelopeFits
<1>12. ASSUME NEW q \in Process, NEW e \in envelopes PROVE SignerApart(q, e)'
  <2>1. CASE q # p
    BY <2>1, <1>1, <1>5 DEF CeremonyInv, SignerApart
  <2>2. CASE q = p
    <3>1. EnvelopeFits(e)
      BY DEF CeremonyInv
    <3>2. (shared \/ (e.process = p /\ e.life = lives[p])) => NonceOf[e.approval] # n
      BY <1>1, <1>2, <3>1 DEF EnvelopeFits, n
    <3>3. ASSUME e.process = p /\ e.life = lives[p] /\ e.assertion.credential = c /\ c \in Counts
          PROVE  e.assertion.count # v.assertion.count
      <4>1. e.assertion.count <= registry[p][c] /\ registry[p][c] < v.assertion.count
        BY <1>3, <3>1, <3>3 DEF EnvelopeFits
      <4>2. e.assertion.count \in Nat /\ registry[p][c] \in Nat
        BY <1>2, <1>4, <3>1, CeremonyTyped DEF EnvelopeFits
      <4> QED
        BY <1>4, <4>1, <4>2
    <3> QED
      BY <2>2, <3>2, <3>3, <1>1, <1>6 DEF SignerApart, n, c
  <2> QED
    BY <2>1, <2>2
<1>13. ASSUME NEW q \in Process, NEW r \in Process PROVE SignersApart(q, r)'
  <2>1. ASSUME NEW s \in Process, s # p, shared, checking[s].step = "sign" PROVE NonceOf[checking[s].approval] # n
    <3>1. CheckFits(s) /\ nonces[s] = nonces[p]
      BY <1>2, <2>1 DEF CeremonyInv
    <3> QED
      BY <2>1, <3>1, <1>1 DEF CheckFits
  <2> QED
    BY <2>1, <1>1, <1>5, <1>6 DEF CeremonyInv, SignersApart, n
<1>14. \A e, f \in envelopes : EnvelopesApart(e, f)'
  BY <1>1 DEF CeremonyInv, EnvelopesApart, SameStore
<1>15. SpentForCause'
  <2> SUFFICES ASSUME NEW q \in Process, NEW m \in nonces'[q],
                      ~\E e \in envelopes : NonceOf[e.approval] = m,
                      ~\E r \in Process : checking'[r].step = "sign" /\ NonceOf[checking'[r].approval] = m
               PROVE  \E s \in spoiled : NonceOf[s.approval] = m
    BY <1>1 DEF CeremonyInv, SpentForCause, MetAnEdge
  <2>1. m # n
    BY <1>6 DEF n
  <2>2. m \in nonces[q]
    BY <1>7, <2>1
  <2>3. ~\E r \in Process : checking[r].step = "sign" /\ NonceOf[checking[r].approval] = m
    BY <1>1, <1>5 DEF v
  <2> QED
    BY <2>2, <2>3 DEF CeremonyInv, SpentForCause
<1> QED
  BY <1>1, <1>5, <1>7, <1>9, <1>10, <1>11, <1>12, <1>13, <1>14, <1>15 DEF CeremonyInv

\* An envelope is signed by a process that has spent its nonce.
LEMMA SignKeeps == ASSUME CeremonyInv, NEW p \in Process, SignEnvelope(p) PROVE CeremonyInv'
<1> DEFINE v == checking[p]
           new == [approval |-> v.approval, signedAt |-> ceremonyClock, assertion |-> v.assertion,
                   process |-> p, life |-> lives[p]]
<1>1. /\ v.step = "sign" /\ Within(v.approval, ceremonyClock)
      /\ envelopes' = envelopes \cup {new} /\ checking' = [checking EXCEPT ![p] = NoCheck]
      /\ UNCHANGED <<ceremonyClock, shared, counter, assertions, registry, nonces, lives, spoiled>>
  BY DEF SignEnvelope
<1>2. /\ CeremonyTypeOK /\ CheckFits(p) /\ lives[p] \in Nat
      /\ checking'[p] = NoCheck /\ \A q \in Process \ {p} : checking'[q] = checking[q]
      /\ checking' = [q \in Process |-> checking'[q]]
  BY <1>1, CeremonyTyped DEF CeremonyInv
<1>3. ASSUME NEW e, e = new PROVE EnvelopeFits(e)'
  <2>1. /\ v.approval \in Approval /\ v.assertion \in assertions /\ v.assertion.approval = v.approval
        /\ OwnerOf[v.assertion.credential] = ReviewerOf[v.approval] /\ NonceOf[v.approval] \in nonces[p]
        /\ v.assertion.credential \in Counts => v.assertion.count <= registry[p][v.assertion.credential]
        /\ IssuedAt[v.approval] <= ceremonyClock /\ ceremonyClock < ExpiresAt[v.approval]
    BY <1>1, <1>2 DEF CheckFits, Within, NoCheck
  <2>2. lives[p] \in 0 .. lives[p]
    BY <1>2
  <2> HIDE DEF v
  <2>3. /\ e.approval = v.approval /\ e.assertion = v.assertion /\ e.process = p /\ e.life = lives[p]
        /\ e.signedAt = ceremonyClock
    BY <1>3
  <2> HIDE DEF new
  <2> QED
    BY <1>1, <2>1, <2>2, <2>3 DEF EnvelopeFits
<1>4. \A e \in envelopes : EnvelopeFits(e)'
  BY <1>1 DEF CeremonyInv, EnvelopeFits
<1>5. CeremonyTypeOK' /\ CountsUp' /\ (shared' => \A q, r \in Process : nonces'[q] = nonces'[r])
  BY <1>1 DEF CeremonyInv, CeremonyTypeOK, CountsUp
<1>6. ASSUME NEW q \in Process PROVE CheckFits(q)'
  <2>1. checking'[q] \in {NoCheck, checking[q]} /\ CheckFits(q)
    BY <1>2 DEF CeremonyInv
  <2> QED
    BY <1>1, <2>1 DEF CheckFits, NoCheck
<1>7. ASSUME NEW q \in Process, checking'[q].step = "sign" PROVE q # p /\ checking'[q] = checking[q]
  BY <1>2, <1>7 DEF NoCheck
<1>8. \A q, r \in Process : SignersApart(q, r)'
  BY <1>1, <1>7 DEF CeremonyInv, SignersApart
<1>9. ASSUME NEW q \in Process, NEW e \in envelopes' PROVE SignerApart(q, e)'
  <2>1. CASE e \in envelopes
    BY <1>1, <1>7, <2>1 DEF CeremonyInv, SignerApart
  <2>2. CASE e = new
    BY <1>1, <1>7, <2>2 DEF CeremonyInv, SignerApart, SignersApart
  <2> QED
    BY <1>1, <2>1, <2>2
<1>10. ASSUME NEW e \in envelopes', NEW f \in envelopes' PROVE EnvelopesApart(e, f)'
  <2>1. CASE e \in envelopes /\ f \in envelopes
    BY <1>1, <2>1 DEF CeremonyInv, EnvelopesApart, SameStore
  <2>2. CASE e = new /\ f \in envelopes
    BY <1>1, <2>2 DEF CeremonyInv, EnvelopesApart, SameStore, SignerApart
  <2>3. CASE e \in envelopes /\ f = new
    BY <1>1, <2>3 DEF CeremonyInv, EnvelopesApart, SameStore, SignerApart
  <2>4. CASE e = new /\ f = new
    BY <2>4 DEF EnvelopesApart
  <2> QED
    BY <1>1, <2>1, <2>2, <2>3, <2>4
<1>11. SpentForCause'
  <2> SUFFICES ASSUME NEW q \in Process, NEW m \in nonces[q],
                      ~\E e \in envelopes' : NonceOf[e.approval] = m,
                      ~\E r \in Process : checking'[r].step = "sign" /\ NonceOf[checking'[r].approval] = m
               PROVE  \E s \in spoiled : NonceOf[s.approval] = m
    BY <1>1 DEF CeremonyInv, SpentForCause, MetAnEdge
  <2>1. ~\E e \in envelopes : NonceOf[e.approval] = m
    BY <1>1
  <2>2. NonceOf[v.approval] # m
    <3>1. new \in envelopes' /\ new.approval = v.approval
      BY <1>1
    <3> QED
      BY <3>1
  <2>3. ~\E r \in Process : checking[r].step = "sign" /\ NonceOf[checking[r].approval] = m
    BY <1>2, <2>2
  <2> QED
    BY <2>1, <2>3 DEF CeremonyInv, SpentForCause
<1> HIDE DEF new, v
<1>12. \A e \in envelopes' : EnvelopeFits(e)'
  BY <1>1, <1>3, <1>4
<1> QED
  BY <1>1, <1>2, <1>3, <1>4, <1>5, <1>6, <1>8, <1>9, <1>10, <1>11, <1>12 DEF CeremonyInv

\* A process that restarts forgets its counters, and its nonces unless they are shared.
LEMMA RestartKeeps == ASSUME CeremonyInv, NEW p \in Process, Restart(p) PROVE CeremonyInv'
<1>1. /\ lives' = [lives EXCEPT ![p] = @ + 1] /\ registry' = [registry EXCEPT ![p] = [c \in Credential |-> 0]]
      /\ nonces' = IF shared THEN nonces ELSE [nonces EXCEPT ![p] = {}]
      /\ checking' = [checking EXCEPT ![p] = NoCheck]
      /\ UNCHANGED <<ceremonyClock, shared, counter, assertions, envelopes>>
  BY DEF Restart
<1>2. /\ CeremonyTypeOK /\ lives[p] \in Nat
      /\ checking'[p] = NoCheck /\ \A q \in Process \ {p} : checking'[q] = checking[q]
      /\ checking' = [q \in Process |-> checking'[q]]
  BY <1>1, CeremonyTyped DEF CeremonyInv
<1>3. /\ lives' \in [Process -> Nat] /\ lives'[p] = lives[p] + 1
      /\ \A q \in Process \ {p} : lives'[q] = lives[q] /\ registry'[q] = registry[q]
      /\ registry' \in [Process -> [Credential -> Nat]]
  BY <1>1, <1>2 DEF CeremonyTypeOK
<1>4. /\ nonces' \in [Process -> SUBSET Nonce] /\ \A q \in Process : nonces'[q] \subseteq nonces[q]
      /\ \A q \in Process : (q # p \/ shared) => nonces'[q] = nonces[q]
  BY <1>1, <1>2 DEF CeremonyTypeOK
<1>5. CeremonyTypeOK' /\ CountsUp' /\ (shared' => \A q, r \in Process : nonces'[q] = nonces'[r])
  BY <1>1, <1>3, <1>4 DEF CeremonyInv, CeremonyTypeOK, CountsUp
<1>6. ASSUME NEW q \in Process PROVE CheckFits(q)'
  <2>1. CASE q = p
    BY <1>2, <2>1 DEF CheckFits, NoCheck
  <2>2. CASE q # p
    BY <1>1, <1>2, <1>3, <1>4, <2>2 DEF CeremonyInv, CheckFits
  <2> QED
    BY <2>1, <2>2
<1>7. ASSUME NEW e \in envelopes PROVE EnvelopeFits(e)'
  <2>1. EnvelopeFits(e)
    BY DEF CeremonyInv
  <2>2. CASE e.process = p
    <3>1. e.life \in 0 .. lives'[p] /\ e.life # lives'[p]
      BY <1>2, <1>3, <2>1, <2>2 DEF EnvelopeFits
    <3> QED
      BY <1>1, <1>4, <2>1, <2>2, <3>1 DEF EnvelopeFits
  <2>3. CASE e.process # p
    <3>1. e.process \in Process \ {p}
      BY <2>1, <2>3 DEF EnvelopeFits
    <3> QED
      BY <1>1, <1>3, <1>4, <2>1, <3>1 DEF EnvelopeFits
  <2> QED
    BY <2>2, <2>3
<1>8. ASSUME NEW q \in Process, checking'[q].step = "sign" PROVE q # p /\ checking'[q] = checking[q] /\ lives'[q] = lives[q]
  BY <1>2, <1>3, <1>8 DEF NoCheck
<1>9. \A q \in Process : \A e \in envelopes : SignerApart(q, e)'
  BY <1>1, <1>8 DEF CeremonyInv, SignerApart
<1>10. \A q, r \in Process : SignersApart(q, r)'
  BY <1>1, <1>8 DEF CeremonyInv, SignersApart
<1>11. \A e, f \in envelopes : EnvelopesApart(e, f)'
  BY <1>1 DEF CeremonyInv, EnvelopesApart, SameStore
<1>12. SpentForCause'
  <2> DEFINE end == CutOff(checking[p])
  <2>5. /\ spoiled' = IF checking[p].step = "sign" THEN spoiled \cup {end} ELSE spoiled
        /\ end.cause = "restarted" /\ end.approval = checking[p].approval
    BY DEF Restart, CutOff
  <2> HIDE DEF end
  <2>1. \A s \in spoiled' : s \in spoiled \/ s.cause = "restarted"
    BY <2>5
  <2>2. \A s \in spoiled' : s.cause = "restarted" \/ MetAnEdge(s)'
    BY <2>1 DEF CeremonyInv, SpentForCause, MetAnEdge
  <2>3. /\ spoiled \subseteq spoiled'
        /\ checking[p].step = "sign" => \E s \in spoiled' : s.approval = checking[p].approval
    BY <2>5
  <2>4. ASSUME NEW q \in Process, NEW n \in nonces'[q]
        PROVE  \/ \E e \in envelopes : NonceOf[e.approval] = n
               \/ \E r \in Process : checking'[r].step = "sign" /\ NonceOf[checking'[r].approval] = n
               \/ \E s \in spoiled' : NonceOf[s.approval] = n
    <3>1. n \in nonces[q]
      BY <1>4
    <3>2. CASE \E e \in envelopes : NonceOf[e.approval] = n
      BY <3>2
    <3>3. CASE \E r \in Process : checking[r].step = "sign" /\ NonceOf[checking[r].approval] = n
      BY <1>2, <2>3, <3>3
    <3>4. CASE \E s \in spoiled : NonceOf[s.approval] = n
      BY <2>3, <3>4
    <3> QED
      BY <3>1, <3>2, <3>3, <3>4 DEF CeremonyInv, SpentForCause
  <2> QED
    BY <1>1, <2>2, <2>4 DEF SpentForCause
<1> QED
  BY <1>1, <1>2, <1>5, <1>6, <1>7, <1>9, <1>10, <1>11, <1>12 DEF CeremonyInv

\* The authenticator counts up with each assertion.
LEMMA ConfirmKeeps == ASSUME CeremonyInv, NEW a \in Approval, NEW c \in Credential, Confirm(a, c) PROVE CeremonyInv'
<1>1. CeremonyTypeOK /\ CountsUp /\ counter \in [Credential -> Nat]
  BY DEF CeremonyInv, CeremonyTypeOK
<1>2. /\ counter' \in [Credential -> Nat] /\ (c \in Counts => counter'[c] > 0)
      /\ UNCHANGED <<ceremonyClock, shared, registry, nonces, checking, lives, envelopes, spoiled>>
  BY <1>1 DEF Confirm
<1>3. PICK sound \in BOOLEAN :
        assertions' = assertions \cup {[approval |-> a, credential |-> c, count |-> counter'[c], sound |-> sound]}
  BY DEF Confirm
<1>4. CeremonyTypeOK' /\ CountsUp'
  BY <1>1, <1>2, <1>3 DEF CeremonyTypeOK, CountsUp, Assertion
<1>5. ceremonyClock <= ceremonyClock'
  BY <1>1, <1>2 DEF CeremonyTypeOK
<1> QED
  BY <1>2, <1>3, <1>4, <1>5, MoreKnown

\* Time passes, or nothing happens.
LEMMA CeremonyTickKeeps == ASSUME CeremonyInv, CeremonyTick \/ UNCHANGED ceremonyVars PROVE CeremonyInv'
<1>1. /\ UNCHANGED <<shared, counter, assertions, registry, nonces, checking, lives, envelopes, spoiled>>
      /\ ceremonyClock' = ceremonyClock \/ (ceremonyClock < MaxCeremonyTime /\ ceremonyClock' = ceremonyClock + 1)
  BY DEF CeremonyTick, ceremonyVars
<1>2. CeremonyTypeOK /\ CountsUp /\ MaxCeremonyTime \in Nat
  BY CeremonyAssumption DEF CeremonyInv
<1>3. ceremonyClock' \in 0 .. MaxCeremonyTime /\ ceremonyClock <= ceremonyClock'
  BY <1>1, <1>2 DEF CeremonyTypeOK
<1>4. CeremonyTypeOK' /\ CountsUp'
  BY <1>1, <1>2, <1>3 DEF CeremonyTypeOK, CountsUp
<1> QED
  BY <1>1, <1>3, <1>4, MoreKnown

\* Nothing has been asserted or spent at first.
LEMMA CeremonyStarts == CeremonyInit => CeremonyInv
<1> SUFFICES ASSUME CeremonyInit PROVE CeremonyInv
  OBVIOUS
<1>1. CeremonyTypeOK /\ CountsUp
  BY CeremonyAssumption DEF CeremonyInit, CeremonyTypeOK, CountsUp
<1>2. \A p \in Process : checking[p] = NoCheck /\ nonces[p] = {}
  BY DEF CeremonyInit
<1>3. \A p \in Process : CheckFits(p)
  BY <1>2 DEF CheckFits, NoCheck
<1>4. envelopes = {} /\ spoiled = {} /\ checking = [p \in Process |-> checking[p]]
  BY DEF CeremonyInit
<1>5. \A p, q \in Process : SignersApart(p, q)
  BY <1>2 DEF SignersApart, NoCheck
<1> QED
  BY <1>1, <1>2, <1>3, <1>4, <1>5 DEF CeremonyInv, SpentForCause

\* The invariant of the ceremony holds in every behaviour.
LEMMA CeremonyStays == CeremonySpec => []CeremonyInv
<1>1. CeremonyInv /\ [CeremonyNext]_ceremonyVars => CeremonyInv'
  BY CeremonyTickKeeps, ConfirmKeeps, CheckKeeps, ConsumeKeeps, EndKeeps, SignKeeps, RestartKeeps DEF CeremonyNext
<1> QED
  BY <1>1, CeremonyStarts, PTL DEF CeremonySpec

\* A nonce buys one envelope, the reviewer's own and within its window, whichever process
\* verifies and however has() and consume() of several interleave.
THEOREM NonceBuysOneEnvelope == CeremonySpec => []OneEnvelopePerNonce
<1>1. CeremonyInv => OneEnvelopePerNonce
  BY DEF CeremonyInv, OneEnvelopePerNonce, EnvelopesApart, EnvelopeFits
<1> QED
  BY <1>1, CeremonyStays, PTL

\* A nonce is spent for an envelope, or for a named reason.
THEOREM NoncesSpentForCause == CeremonySpec => []SpentForCause
<1>1. CeremonyInv => SpentForCause
  BY DEF CeremonyInv
<1> QED
  BY <1>1, CeremonyStays, PTL

-----------------------------------------------------------------------------
(* The review of contracts: the file is what was read, or shows that it was edited *)

CliRecord == [step : {"idle", "preparing", "prepared", "linking", "ran", "ended"},
            option : {"plain", "write", "hash", "artifact", "none"}, approved : Offer \cup {Absent},
            contract : Offer \cup {Absent}, created : Nat \cup {Absent}, expires : Nat \cup {Absent}]

ReviewTypeOK ==
  /\ file \in Artifact \cup {Absent} /\ cli \in [Invocation -> CliRecord]
  /\ offer \in Offer /\ reading \in Offer \cup {Absent}
  /\ reported \subseteq Offer /\ reviewed \subseteq Offer /\ reviewTime \in Nat

\* What was read is what the file still says, unless its hashes show that it was edited;
\* so what is approved was read.
ReadingFits == reading # Absent => (file # Absent /\ (file.contract = file.sealed => reading = file.contract))
ApprovalFits ==
  (file # Absent /\ file.approvedAt # Absent /\ file.contract = file.sealed) => file.contract \in reviewed

\* What an invocation takes as approved was read, and it ran on nothing else.
CliFits(i) ==
  /\ cli[i].option \in {"hash", "artifact"} => cli[i].approved \in reviewed
  /\ cli[i].step \in {"prepared", "linking", "ran"} => cli[i].contract \in Offer /\ cli[i].expires \in Nat
  /\ cli[i].step = "linking" => cli[i].created \in Nat
  /\ cli[i].step = "ran" => cli[i].option \in {"hash", "artifact"} /\ cli[i].approved = cli[i].contract

ReviewInv == ReviewTypeOK /\ ReadingFits /\ ApprovalFits /\ \A i \in Invocation : CliFits(i)

\* A step of one invocation, from what it has come to to x.
LEMMA OneCli ==
  ASSUME ReviewInv, NEW i \in Invocation, NEW x \in CliRecord, cli' = [cli EXCEPT ![i] = x],
         UNCHANGED <<file, offer, reading, reviewTime>>, reported' \subseteq Offer,
         reviewed \subseteq reviewed', reviewed' \subseteq Offer,
         CliFits(i)'
  PROVE  ReviewInv'
<1>1. ReviewTypeOK'
  BY DEF ReviewInv, ReviewTypeOK
<1>2. ReadingFits' /\ ApprovalFits'
  BY DEF ReviewInv, ReadingFits, ApprovalFits
<1>3. ASSUME NEW j \in Invocation \ {i} PROVE CliFits(j)'
  <2>1. cli'[j] = cli[j]
    BY DEF ReviewInv, ReviewTypeOK
  <2> QED
    BY <2>1 DEF ReviewInv, CliFits
<1> QED
  BY <1>1, <1>2, <1>3 DEF ReviewInv

\* A command that ends reports at most what it was offered.
LEMMA EndsFit ==
  ASSUME ReviewInv, NEW i \in Invocation, CliEnds(i), UNCHANGED <<file, offer, reading, reviewed, reviewTime>>, reported' \subseteq Offer
  PROVE  ReviewInv'
<1>1. At("ended") \in CliRecord
  BY DEF At, CliRecord
<1>2. reviewed \subseteq Offer /\ cli' = [cli EXCEPT ![i] = At("ended")]
  BY DEF ReviewInv, ReviewTypeOK, CliEnds
<1>3. cli'[i] = At("ended")
  BY <1>2 DEF ReviewInv, ReviewTypeOK
<1>4. CliFits(i)'
  BY <1>3 DEF CliFits, At
<1> QED
  BY <1>1, <1>2, <1>4, OneCli

\* A command begins with a proposal, a hash or the artifact.
LEMMA BeginKeeps ==
  ASSUME ReviewInv, NEW i \in Invocation,
         \/ \E option \in {"plain", "write"} : Propose(i, option)
         \/ \E contract \in Offer : StartWithHash(i, contract)
         \/ StartWithArtifact(i)
  PROVE  ReviewInv'
<1>1. cli[i] \in CliRecord /\ reviewed \subseteq Offer /\ reported \subseteq Offer /\ cli \in [Invocation -> CliRecord]
  BY DEF ReviewInv, ReviewTypeOK
<1>2. ASSUME NEW option \in {"plain", "write"}, Propose(i, option) PROVE ReviewInv'
  <2> DEFINE x == [cli[i] EXCEPT !.step = "preparing", !.option = option]
  <2>1. cli' = [cli EXCEPT ![i] = x] /\ UNCHANGED <<file, offer, reading, reported, reviewed, reviewTime>>
    BY <1>2 DEF Propose
  <2>2. x \in CliRecord /\ x.step = "preparing" /\ x.option = option
    BY <1>1 DEF CliRecord
  <2> HIDE DEF x
  <2>3. CliFits(i)'
    BY <1>1, <2>1, <2>2 DEF CliFits
  <2> QED
    BY <1>1, <2>1, <2>2, <2>3, OneCli
<1>3. ASSUME NEW contract \in Offer, StartWithHash(i, contract) PROVE ReviewInv'
  <2> DEFINE x == [cli[i] EXCEPT !.step = "preparing", !.option = "hash", !.approved = contract]
  <2>1. /\ cli' = [cli EXCEPT ![i] = x] /\ UNCHANGED <<file, offer, reading, reported, reviewTime>>
        /\ reviewed' = reviewed \cup {contract}
    BY <1>3 DEF StartWithHash
  <2>2. x \in CliRecord /\ x.step = "preparing" /\ x.option = "hash" /\ x.approved = contract
    BY <1>1 DEF CliRecord
  <2> HIDE DEF x
  <2>3. CliFits(i)'
    BY <1>1, <2>1, <2>2 DEF CliFits
  <2> QED
    BY <1>1, <2>1, <2>2, <2>3, OneCli
<1>4. ASSUME StartWithArtifact(i), ValidArtifact(file, reviewTime) PROVE ReviewInv'
  <2> DEFINE x == [cli[i] EXCEPT !.step = "preparing", !.option = "artifact", !.approved = file.contract]
  <2>1. /\ cli' = [cli EXCEPT ![i] = x] /\ UNCHANGED <<file, offer, reading, reported, reviewed, reviewTime>>
    BY <1>4 DEF StartWithArtifact
  <2>2. file.contract \in Offer /\ file.contract \in reviewed
    BY <1>4 DEF ValidArtifact, ReviewInv, ReviewTypeOK, ApprovalFits, Artifact
  <2>3. x \in CliRecord /\ x.step = "preparing" /\ x.option = "artifact" /\ x.approved = file.contract
    BY <1>1, <2>2 DEF CliRecord
  <2> HIDE DEF x
  <2>4. CliFits(i)'
    BY <1>1, <2>1, <2>2, <2>3 DEF CliFits
  <2> QED
    BY <1>1, <2>1, <2>3, <2>4, OneCli
<1>5. ASSUME StartWithArtifact(i), ~ValidArtifact(file, reviewTime) PROVE ReviewInv'
  BY <1>1, <1>5, EndsFit DEF StartWithArtifact
<1> QED
  BY <1>2, <1>3, <1>4, <1>5

\* A command prepares, reports, builds or runs, or is killed.
LEMMA WorkKeeps ==
  ASSUME ReviewInv, NEW i \in Invocation,
         PrepareContract(i) \/ PrepareFails(i) \/ Report(i) \/ BuildArtifact(i) \/ RunAgent(i) \/ Kill(i)
  PROVE  ReviewInv'
<1>1. /\ cli[i] \in CliRecord /\ reviewed \subseteq Offer /\ reported \subseteq Offer /\ cli \in [Invocation -> CliRecord]
      /\ CliFits(i) /\ reviewTime \in Nat /\ offer \in Offer /\ PlanTtl \in Nat
  BY ReviewAssumption DEF ReviewInv, ReviewTypeOK
<1>2. CASE PrepareContract(i)
  <2> DEFINE x == [cli[i] EXCEPT !.step = "prepared", !.contract = offer, !.expires = reviewTime + PlanTtl]
  <2>1. cli' = [cli EXCEPT ![i] = x] /\ UNCHANGED <<file, offer, reading, reported, reviewed, reviewTime>>
    BY <1>2 DEF PrepareContract
  <2>0. reviewTime + PlanTtl \in Nat
    BY <1>1
  <2>2. /\ x \in CliRecord /\ x.step = "prepared" /\ x.contract = offer /\ x.expires = reviewTime + PlanTtl
        /\ x.option = cli[i].option /\ x.approved = cli[i].approved
    BY <1>1, <2>0 DEF CliRecord
  <2> HIDE DEF x
  <2>3. CliFits(i)'
    BY <1>1, <2>0, <2>1, <2>2 DEF CliFits
  <2> QED
    BY <1>1, <2>1, <2>2, <2>3, OneCli
<1>3. CASE BuildArtifact(i) /\ ~(cli[i].expires <= reviewTime)
  <2> DEFINE x == [cli[i] EXCEPT !.step = "linking", !.created = reviewTime]
  <2>1. /\ cli' = [cli EXCEPT ![i] = x] /\ UNCHANGED <<file, offer, reading, reported, reviewed, reviewTime>>
        /\ cli[i].step = "prepared"
    BY <1>3 DEF BuildArtifact
  <2>2. /\ x \in CliRecord /\ x.step = "linking" /\ x.contract = cli[i].contract /\ x.expires = cli[i].expires
        /\ x.created = reviewTime /\ x.option = cli[i].option /\ x.approved = cli[i].approved
    BY <1>1 DEF CliRecord
  <2> HIDE DEF x
  <2>3. CliFits(i)'
    BY <1>1, <2>1, <2>2 DEF CliFits
  <2> QED
    BY <1>1, <2>1, <2>2, <2>3, OneCli
<1>4. CASE RunAgent(i) /\ MatchesPreparation(i) /\ reviewTime <= cli[i].expires
  <2> DEFINE x == [cli[i] EXCEPT !.step = "ran"]
  <2>1. /\ cli' = [cli EXCEPT ![i] = x] /\ UNCHANGED <<file, offer, reading, reported, reviewed, reviewTime>>
        /\ cli[i].step = "prepared" /\ cli[i].option \in {"hash", "artifact"} /\ cli[i].approved = cli[i].contract
    BY <1>4 DEF RunAgent, MatchesPreparation
  <2>2. /\ x \in CliRecord /\ x.step = "ran" /\ x.contract = cli[i].contract /\ x.expires = cli[i].expires
        /\ x.option = cli[i].option /\ x.approved = cli[i].approved
    BY <1>1 DEF CliRecord
  <2> HIDE DEF x
  <2>3. CliFits(i)'
    BY <1>1, <2>1, <2>2 DEF CliFits
  <2> QED
    BY <1>1, <2>1, <2>2, <2>3, OneCli
<1>5. CASE Report(i)
  <2>1. CliEnds(i) /\ UNCHANGED <<file, offer, reading, reviewed, reviewTime>> /\ reported' = reported \cup {cli[i].contract}
    BY <1>5 DEF Report
  <2>2. cli[i].contract \in Offer
    BY <1>1, <1>5 DEF Report, CliFits
  <2> QED
    BY <1>1, <2>1, <2>2, EndsFit
<1>6. CASE PrepareFails(i) \/ Kill(i)
  BY <1>1, <1>6, EndsFit DEF PrepareFails, Kill
<1>7. CASE BuildArtifact(i) /\ cli[i].expires <= reviewTime
  BY <1>1, <1>7, EndsFit DEF BuildArtifact
<1>8. CASE RunAgent(i) /\ ~(MatchesPreparation(i) /\ reviewTime <= cli[i].expires)
  BY <1>1, <1>8, EndsFit DEF RunAgent
<1> QED
  BY <1>2, <1>3, <1>4, <1>5, <1>6, <1>7, <1>8

\* The artifact is linked into place if there is none.
LEMMA LinkKeeps == ASSUME ReviewInv, NEW i \in Invocation, LinkArtifact(i) PROVE ReviewInv'
<1>1. /\ cli[i] \in CliRecord /\ reviewed \subseteq Offer /\ reported \subseteq Offer /\ cli \in [Invocation -> CliRecord]
      /\ CliFits(i) /\ ReviewTypeOK
  BY DEF ReviewInv, ReviewTypeOK
<1>2. CASE PathIsFree
  <2>1. /\ file = Absent /\ CliEnds(i) /\ reported' = reported \cup {cli[i].contract}
        /\ file' = [contract |-> cli[i].contract, sealed |-> cli[i].contract, created |-> cli[i].created,
                    expires |-> cli[i].expires, approvedAt |-> Absent]
        /\ UNCHANGED <<offer, reading, reviewed, reviewTime>> /\ cli[i].step = "linking"
    BY <1>2 DEF LinkArtifact, PathIsFree
  <2>2. cli[i].contract \in Offer /\ cli[i].expires \in Nat /\ cli[i].created \in Nat
    BY <1>1, <2>1 DEF CliFits
  <2>3. file' \in Artifact /\ file'.approvedAt = Absent
    BY <2>1, <2>2 DEF Artifact
  <2>4. At("ended") \in CliRecord /\ cli' \in [Invocation -> CliRecord]
    BY <1>1, <2>1 DEF At, CliRecord, CliEnds
  <2>5. ReviewTypeOK'
    BY <1>1, <2>1, <2>2, <2>3, <2>4 DEF ReviewTypeOK
  <2>6. ReadingFits' /\ ApprovalFits'
    <3>1. reading' = Absent
      BY <2>1 DEF ReviewInv, ReadingFits
    <3> QED
      BY <2>3, <3>1 DEF ReadingFits, ApprovalFits
  <2>7. ASSUME NEW j \in Invocation PROVE CliFits(j)'
    <3>1. CASE j = i
      <4>1. cli'[j] = At("ended")
        BY <1>1, <2>1, <3>1 DEF CliEnds
      <4> QED
        BY <4>1 DEF CliFits, At
    <3>2. CASE j # i
      <4>1. cli'[j] = cli[j]
        BY <1>1, <2>1, <3>2 DEF CliEnds
      <4> QED
        BY <2>1, <4>1 DEF ReviewInv, CliFits
    <3> QED
      BY <3>1, <3>2
  <2> QED
    BY <2>5, <2>6, <2>7 DEF ReviewInv
<1>3. CASE ~PathIsFree
  BY <1>1, <1>3, EndsFit DEF LinkArtifact
<1> QED
  BY <1>2, <1>3

\* What happens outside of the invocations: they keep what they have.
LEMMA OthersKeep ==
  ASSUME ReviewInv, ReviewTypeOK', ReadingFits', ApprovalFits', cli' = cli, reviewed \subseteq reviewed' PROVE ReviewInv'
BY DEF ReviewInv, CliFits

\* The reviewer reads, approves or edits the file, the target changes, or time passes.
LEMMA HumanKeeps ==
  ASSUME ReviewInv,
         \/ ReadArtifact \/ \E date \in 0 .. ReviewEnd : ApproveArtifact(date)
         \/ \E contract \in Offer : AmendArtifact(contract) \/ TargetChanges(contract)
         \/ ReviewTick \/ UNCHANGED reviewVars
  PROVE  ReviewInv'
<1>1. ReviewTypeOK /\ ReadingFits /\ ApprovalFits /\ Absent \notin Offer
  BY ReviewAssumption DEF ReviewInv
<1>2. CASE ReadArtifact
  <2>1. ReviewTypeOK'
    BY <1>1, <1>2 DEF ReadArtifact, ReviewTypeOK, Artifact
  <2>2. ReadingFits' /\ ApprovalFits' /\ cli' = cli /\ reviewed' = reviewed
    BY <1>1, <1>2 DEF ReadArtifact, ReadingFits, ApprovalFits
  <2> QED
    BY <2>1, <2>2, OthersKeep
<1>3. ASSUME NEW date \in 0 .. ReviewEnd, ApproveArtifact(date) PROVE ReviewInv'
  <2>1. /\ reading # Absent /\ file # Absent /\ file \in Artifact /\ date \in Nat /\ reading \in Offer
        /\ file' = [file EXCEPT !.approvedAt = date]
        /\ reviewed' = reviewed \cup {reading} /\ reading' = Absent /\ UNCHANGED <<cli, offer, reported, reviewTime>>
        /\ file.contract = file.sealed => reading = file.contract
    BY <1>1, <1>3, ReviewAssumption DEF ApproveArtifact, ReadingFits, ReviewTypeOK
  <2>2. file' \in Artifact /\ file'.contract = file.contract /\ file'.sealed = file.sealed
    BY <2>1 DEF Artifact
  <2>3. ReviewTypeOK'
    BY <1>1, <2>1, <2>2 DEF ReviewTypeOK
  <2>4. ReadingFits' /\ ApprovalFits'
    BY <2>1, <2>2 DEF ReadingFits, ApprovalFits
  <2> QED
    BY <2>1, <2>3, <2>4, OthersKeep
<1>4. ASSUME NEW contract \in Offer, AmendArtifact(contract) PROVE ReviewInv'
  <2>1. /\ file # Absent /\ file \in Artifact /\ file.contract = file.sealed
        /\ file' = [file EXCEPT !.contract = contract] /\ UNCHANGED <<cli, offer, reading, reported, reviewed, reviewTime>>
    BY <1>1, <1>4 DEF AmendArtifact, ReviewTypeOK
  <2>2. file' \in Artifact /\ file'.contract = contract /\ file'.sealed = file.sealed /\ file'.approvedAt = file.approvedAt
    BY <2>1 DEF Artifact
  <2>3. ReviewTypeOK'
    BY <1>1, <2>1, <2>2 DEF ReviewTypeOK
  <2>4. ReadingFits' /\ ApprovalFits'
    BY <1>1, <2>1, <2>2, ReviewAssumption DEF ReadingFits, ApprovalFits
  <2> QED
    BY <2>1, <2>3, <2>4, OthersKeep
<1>5. ASSUME NEW contract \in Offer, TargetChanges(contract) PROVE ReviewInv'
  <2>1. ReviewTypeOK' /\ ReadingFits' /\ ApprovalFits' /\ cli' = cli /\ reviewed' = reviewed
    BY <1>1, <1>5 DEF TargetChanges, ReviewTypeOK, ReadingFits, ApprovalFits
  <2> QED
    BY <2>1, OthersKeep
<1>6. CASE ReviewTick \/ UNCHANGED reviewVars
  <2>1. ReviewTypeOK' /\ ReadingFits' /\ ApprovalFits' /\ cli' = cli /\ reviewed' = reviewed
    BY <1>1, <1>6 DEF ReviewTick, reviewVars, ReviewTypeOK, ReadingFits, ApprovalFits
  <2> QED
    BY <2>1, OthersKeep
<1> QED
  BY <1>2, <1>3, <1>4, <1>5, <1>6

\* Nothing has been proposed or read at first.
LEMMA ReviewStarts == ReviewInit => ReviewInv
<1> SUFFICES ASSUME ReviewInit PROVE ReviewInv
  OBVIOUS
<1>1. At("idle") \in CliRecord
  BY DEF At, CliRecord
<1>2. ReviewTypeOK /\ ReadingFits /\ ApprovalFits
  BY <1>1, ReviewAssumption DEF ReviewInit, ReviewTypeOK, ReadingFits, ApprovalFits
<1>3. ASSUME NEW i \in Invocation PROVE CliFits(i)
  BY <1>1 DEF ReviewInit, CliFits, At
<1> QED
  BY <1>2, <1>3 DEF ReviewInv

\* The agent route runs on nothing but a contract that a human read and that this very
\* invocation prepared again, whatever other invocations, the target and edits do meanwhile.
THEOREM OnlyReviewedRuns == ReviewSpec => []RunsWhatWasReviewed
<1>1. ReviewInv /\ [ReviewNext]_reviewVars => ReviewInv'
  BY BeginKeeps, WorkKeeps, LinkKeeps, HumanKeeps DEF ReviewNext
<1>2. ReviewInv => RunsWhatWasReviewed
  BY DEF ReviewInv, CliFits, RunsWhatWasReviewed
<1> QED
  BY <1>1, <1>2, ReviewStarts, PTL DEF ReviewSpec

-----------------------------------------------------------------------------
(* The chain of attestations: its end is the stored head, whoever holds the lock *)

Kind == {"run", "review", "receipt"}
Attestation == [id : Nat, previous : Nat, key : SigningKey, by : Server, kind : Kind, about : Nat]
KeyRecord == {NoKeys} \cup {Plain(k) : k \in SigningKey} \cup {Sealed(k, SecretOf[p]) : k \in SigningKey, p \in Server}
StoredContract == [run : Nat, attestation : Nat]

ServerRecord == [step : {"down", "ready", "read", "write", "transaction"}, key : SigningKey \cup {NoKey}, kind : Kind,
                 about : Nat, attestation : Nat, runs : Seq(Nat), contracts : SUBSET StoredContract]

HeadOf(l) == IF l = <<>> THEN NoHead ELSE l[Len(l)].id

\* The chain ends at the stored head; a transaction has added one receipt to what it restores.
Linked ==
  /\ \A i \in 1 .. Len(log) : /\ log[i].previous = IF i = 1 THEN NoHead ELSE log[i - 1].id
                             /\ log[i].id <= issued
  /\ db.head = HeadOf(log)
  /\ lock # Free => /\ before.head = HeadOf(before.log)
                    /\ Len(log) = Len(before.log) + 1
                    /\ \A i \in 1 .. Len(before.log) : log[i] = before.log[i]
                    /\ log[Len(log)].kind = "receipt"

RunsBacked(runs) == \A i \in 1 .. Len(runs) : Attested(runs[i], "run", NoHead)
ContractsBacked(contracts) ==
  \A c \in contracts : /\ Attested(c.attestation, "review", c.run)
                       /\ Attested(c.run, "run", NoHead) /\ c.run < c.attestation

\* What is known of the file and of each server, apart from the log.
ServerFits(p) ==
  /\ server[p] \in ServerRecord
  /\ (server[p].step = "down" <=> server[p] = Down) /\ (server[p].step # "down" => server[p].key \in SigningKey)
  /\ server[p].step # "down" => db.keys.form = "sealed" /\ server[p].key = db.keys.key
  /\ server[p].step = "transaction" <=> lock = p

\* What a server is about to store is attested.
Prepared(p) ==
  LET s == server[p] IN
  /\ s.step \in {"read", "write"} =>
       /\ s.kind \in {"run", "review"} /\ Attested(s.attestation, s.kind, s.about)
       /\ s.kind = "run" => s.about = NoHead
       /\ s.kind = "review" => Attested(s.about, "run", NoHead) /\ s.about < s.attestation
  /\ s.step = "write" => RunsBacked(s.runs) /\ ContractsBacked(s.contracts)

FileTypes ==
  /\ db \in [keys : KeyRecord, head : Nat, runs : Seq(Nat), contracts : SUBSET StoredContract]
  /\ log \in Seq(Attestation) /\ issued \in Nat
  /\ lock \in Server \cup {Free}
  /\ before \in [head : Nat, log : Seq(Attestation)]
  /\ server = [p \in Server |-> server[p]]
  /\ \A i \in 1 .. Len(log) : db.keys.form = "sealed" /\ log[i].key = db.keys.key

ChainInv ==
  /\ FileTypes /\ Linked /\ RunsBacked(db.runs) /\ ContractsBacked(db.contracts)
  /\ \A p \in Server : ServerFits(p) /\ Prepared(p)

\* What is kept of a sequence was in it.
LEMMA LastOfIs ==
  ASSUME NEW s \in Seq(Nat), NEW n \in Nat \ {0}
  PROVE  /\ LastOf(s, n) \in Seq(Nat)
         /\ \A i \in 1 .. Len(LastOf(s, n)) : \E j \in 1 .. Len(s) : LastOf(s, n)[i] = s[j]
<1> DEFINE m == IF Len(s) > n THEN Len(s) - n + 1 ELSE 1
<1>1. LastOf(s, n) = SubSeq(s, m, Len(s))
  BY DEF LastOf
<1>2. m \in 1 .. Len(s) + 1 /\ Len(s) \in Nat
  OBVIOUS
<1> HIDE DEF m
<1>3. Len(s) \in m - 1 .. Len(s)
  BY <1>2
<1>4. /\ SubSeq(s, m, Len(s)) \in Seq(Nat)
      /\ Len(SubSeq(s, m, Len(s))) = IF m <= Len(s) THEN Len(s) - m + 1 ELSE 0
      /\ \A i \in 1 .. Len(s) - m + 1 : SubSeq(s, m, Len(s))[i] = s[m + i - 1]
  BY <1>2, <1>3, SubSeqProperties
<1>5. ASSUME NEW i \in 1 .. Len(SubSeq(s, m, Len(s)))
      PROVE  \E j \in 1 .. Len(s) : SubSeq(s, m, Len(s))[i] = s[j]
  <2>1. m + i - 1 \in 1 .. Len(s) /\ i \in 1 .. Len(s) - m + 1
    BY <1>2, <1>4
  <2> QED
    BY <1>4, <2>1
<1> QED
  BY <1>1, <1>4, <1>5

\* An attestation is added at the end of the log.
LEMMA Appended ==
  ASSUME NEW l \in Seq(Attestation), NEW a \in Attestation
  PROVE  /\ Append(l, a) \in Seq(Attestation) /\ Len(Append(l, a)) = Len(l) + 1 /\ Len(l) \in Nat
         /\ \A i \in 1 .. Len(l) : Append(l, a)[i] = l[i]
         /\ Append(l, a)[Len(l) + 1] = a
         /\ \A i \in 1 .. Len(l) + 1 : i \in 1 .. Len(l) \/ i = Len(l) + 1
         /\ HeadOf(Append(l, a)) = a.id
<1>1. /\ Append(l, a) \in Seq(Attestation) /\ Len(Append(l, a)) = Len(l) + 1 /\ Len(l) \in Nat
      /\ \A i \in 1 .. Len(l) : Append(l, a)[i] = l[i]
      /\ Append(l, a)[Len(l) + 1] = a
      /\ \A i \in 1 .. Len(l) + 1 : i \in 1 .. Len(l) \/ i = Len(l) + 1
  OBVIOUS
<1>2. Append(l, a) # <<>>
  BY <1>1
<1> QED
  BY <1>1, <1>2 DEF HeadOf

\* An attestation that is not a receipt's outlives what the log goes through: it grows, and
\* a transaction that is undone takes its own receipt along.
LogGoesOn ==
  \/ log' = log
  \/ /\ \A i \in 1 .. Len(log) : i \in 1 .. Len(log') /\ log'[i] = log[i]
  \/ /\ Len(log) = Len(log') + 1 /\ log[Len(log)].kind = "receipt" /\ Len(log') \in Nat
     /\ \A i \in 1 .. Len(log') : log[i] = log'[i]

\* What was attested stays attested: the log only grows.
LEMMA AttestedStays ==
  ASSUME LogGoesOn, NEW id, NEW kind \in {"run", "review"}, NEW about, Attested(id, kind, about)
  PROVE  Attested(id, kind, about)'
<1>1. PICK i \in 1 .. Len(log) : log[i].id = id /\ log[i].kind = kind /\ log[i].about = about
  BY DEF Attested
<1>2. CASE log' = log
  BY <1>1, <1>2 DEF Attested
<1>3. CASE \A j \in 1 .. Len(log) : j \in 1 .. Len(log') /\ log'[j] = log[j]
  BY <1>1, <1>3 DEF Attested
<1>4. CASE /\ Len(log) = Len(log') + 1 /\ log[Len(log)].kind = "receipt" /\ Len(log') \in Nat
           /\ \A j \in 1 .. Len(log') : log[j] = log'[j]
  <2>1. i # Len(log)
    BY <1>1, <1>4
  <2>2. i \in 1 .. Len(log')
    BY <1>1, <1>4, <2>1
  <2> QED
    BY <1>1, <1>4, <2>2 DEF Attested
<1> QED
  BY <1>2, <1>3, <1>4 DEF LogGoesOn

\* What was backed by an attestation stays backed.
LEMMA BackedStays ==
  ASSUME LogGoesOn
  PROVE  /\ \A runs : RunsBacked(runs) => RunsBacked(runs)'
         /\ \A contracts : ContractsBacked(contracts) => ContractsBacked(contracts)'
BY AttestedStays DEF RunsBacked, ContractsBacked

\* A server that is down, and one that is ready, hold nothing in hand.
LEMMA DownReady ==
  /\ Down \in ServerRecord /\ Down.step = "down"
  /\ \A k \in SigningKey : /\ Ready(k) \in ServerRecord /\ Ready(k).step = "ready" /\ Ready(k).key = k
<1>1. Down \in ServerRecord /\ Down.step = "down"
  <2>1. <<>> \in Seq(Nat)
    OBVIOUS
  <2> QED
    BY <2>1 DEF Down, ServerRecord, NoHead, Kind
<1>2. ASSUME NEW k \in SigningKey PROVE Ready(k) \in ServerRecord /\ Ready(k).step = "ready" /\ Ready(k).key = k
  BY <1>1 DEF Ready, ServerRecord
<1> QED
  BY <1>1, <1>2

\* A step of one server: what it leaves of the others.
LEMMA OthersFit ==
  ASSUME ChainInv, NEW p \in Server, NEW q \in Server \ {p}, server'[q] = server[q], LogGoesOn,
         (lock' = q) <=> (lock = q), server[q].step # "down" => db'.keys = db.keys
  PROVE  ServerFits(q)' /\ Prepared(q)'
<1>1. ServerFits(q) /\ Prepared(q)
  BY DEF ChainInv
<1>2. ServerFits(q)'
  BY <1>1 DEF ServerFits
<1>3. Prepared(q)'
  BY <1>1, AttestedStays, BackedStays DEF Prepared
<1> QED
  BY <1>2, <1>3

\* The stored key is absent, plain or sealed.
LEMMA KeyForms ==
  /\ NoKeys.form # "sealed" /\ \A k : Plain(k).form # "sealed"
  /\ \A k, s : Sealed(k, s).form = "sealed" /\ Sealed(k, s).key = k
  /\ \A k \in SigningKey, p \in Server : Sealed(k, SecretOf[p]) \in KeyRecord
BY DEF NoKeys, Plain, Sealed, KeyRecord

\* A server starts: it reads, migrates or makes the key.
LEMMA StartKeeps == ASSUME ChainInv, NEW p \in Server, ServerStart(p) PROVE ChainInv'
<1> PICK k \in SigningKey :
      /\ \/ db.keys = NoKeys
         \/ db.keys = Plain(k)
         \/ db.keys = Sealed(k, SecretOf[p])
      /\ db' = [db EXCEPT !.keys = Sealed(k, SecretOf[p])]
      /\ server' = [server EXCEPT ![p] = Ready(k)]
  BY DEF ServerStart
<1>1. /\ FileTypes /\ Linked /\ RunsBacked(db.runs) /\ ContractsBacked(db.contracts)
      /\ \A q \in Server : ServerFits(q) /\ Prepared(q)
  BY DEF ChainInv
<1>2. server[p] = Down /\ lock = Free /\ UNCHANGED <<log, lock, before, issued>> /\ LogGoesOn /\ lock # p
  BY ChainAssumption DEF ServerStart, LogGoesOn
<1> DEFINE keys == Sealed(k, SecretOf[p])
<1>3. /\ db' = [db EXCEPT !.keys = keys] /\ keys \in KeyRecord /\ keys.form = "sealed" /\ keys.key = k
      /\ db.keys.form = "sealed" => db.keys = keys
  BY KeyForms
<1> HIDE DEF keys
<1>4. /\ db' \in [keys : KeyRecord, head : Nat, runs : Seq(Nat), contracts : SUBSET StoredContract]
      /\ db'.keys = keys /\ db'.head = db.head /\ db'.runs = db.runs /\ db'.contracts = db.contracts
  BY <1>1, <1>3 DEF FileTypes
<1>5. /\ server'[p] = Ready(k) /\ server' = [q \in Server |-> server'[q]] 
      /\ \A q \in Server \ {p} : server'[q] = server[q]
  BY <1>1 DEF FileTypes
<1>6. ASSUME NEW q \in Server \ {p} PROVE ServerFits(q)' /\ Prepared(q)'
  <2>1. server[q].step # "down" => db'.keys = db.keys
    BY <1>1, <1>3, <1>4 DEF ServerFits
  <2> QED
    BY <1>2, <1>5, <2>1, OthersFit
<1>7. ServerFits(p)' /\ Prepared(p)'
  BY <1>2, <1>3, <1>4, <1>5, DownReady DEF ServerFits, Prepared
<1>8. FileTypes'
  BY <1>1, <1>2, <1>3, <1>4, <1>5 DEF FileTypes
<1>9. Linked' /\ RunsBacked(db.runs)' /\ ContractsBacked(db.contracts)'
  BY <1>1, <1>2, <1>4, BackedStays DEF Linked
<1> QED
  BY <1>6, <1>7, <1>8, <1>9 DEF ChainInv

\* The chain, whoever holds the lock.
Chained ==
  /\ \A i \in 1 .. Len(log) : /\ log[i].previous = IF i = 1 THEN NoHead ELSE log[i - 1].id
                             /\ log[i].id <= issued
  /\ db.head = HeadOf(log)

\* Issuing extends the chain.
LEMMA IssueExtends ==
  ASSUME ChainInv, NEW p \in Server, server[p].step = "ready", NEW kind \in Kind, NEW about \in Nat,
         Issue(p, kind, about), db' = [db EXCEPT !.head = issued + 1]
  PROVE  /\ LogGoesOn /\ log' \in Seq(Attestation) /\ issued' = issued + 1 /\ issued' \in Nat
         /\ Len(log) \in Nat /\ Len(log') = Len(log) + 1
         /\ \A i \in 1 .. Len(log) : log'[i] = log[i]
         /\ log'[Len(log')].kind = kind
         /\ \A i \in 1 .. Len(log') : db'.keys.form = "sealed" /\ log'[i].key = db'.keys.key
         /\ Chained'
         /\ db' \in [keys : KeyRecord, head : Nat, runs : Seq(Nat), contracts : SUBSET StoredContract]
         /\ db'.keys = db.keys /\ db'.runs = db.runs /\ db'.contracts = db.contracts
         /\ Attested(issued, kind, about)' /\ \A i \in 1 .. Len(log) : log[i].id < issued + 1
<1> DEFINE a == [id |-> issued + 1, previous |-> db.head, key |-> server[p].key, by |-> p,
                 kind |-> kind, about |-> about]
<1>1. FileTypes /\ ServerFits(p) /\ Linked /\ issued \in Nat /\ log \in Seq(Attestation)
  BY DEF ChainInv, FileTypes
<1>2. /\ a \in Attestation /\ a.id = issued + 1 /\ a.previous = db.head /\ a.key = server[p].key /\ a.kind = kind
      /\ a.about = about
  BY <1>1 DEF Attestation, FileTypes, ServerFits
<1>3. log' = Append(log, a) /\ issued' = issued + 1
  BY DEF Issue, HeadFor
<1> HIDE DEF a
<1>4. /\ log' \in Seq(Attestation) /\ Len(log') = Len(log) + 1 /\ Len(log) \in Nat
      /\ \A i \in 1 .. Len(log) : log'[i] = log[i]
      /\ log'[Len(log) + 1] = a
      /\ \A i \in 1 .. Len(log) + 1 : i \in 1 .. Len(log) \/ i = Len(log) + 1
      /\ HeadOf(log') = issued + 1
  BY <1>1, <1>2, <1>3, Appended
<1>5. /\ db' \in [keys : KeyRecord, head : Nat, runs : Seq(Nat), contracts : SUBSET StoredContract]
      /\ db'.keys = db.keys /\ db'.runs = db.runs /\ db'.contracts = db.contracts /\ db'.head = issued + 1
  <2>1. db \in [keys : KeyRecord, head : Nat, runs : Seq(Nat), contracts : SUBSET StoredContract]
    BY <1>1 DEF FileTypes
  <2> QED
    BY <1>1, <2>1, SMTT(30)
<1>6. \A i \in 1 .. Len(log') : db'.keys.form = "sealed" /\ log'[i].key = db'.keys.key
  BY <1>1, <1>2, <1>4, <1>5 DEF FileTypes, ServerFits
<1>7. LogGoesOn
  BY <1>4 DEF LogGoesOn
<1>8. \A i \in 1 .. Len(log) : log[i].id \in Nat /\ log[i].id <= issued
  <2>1. \A i \in 1 .. Len(log) : log[i] \in Attestation
    BY <1>1
  <2> QED
    BY <1>1, <2>1 DEF Linked, Attestation
<1>9. Chained'
  <2>1. ASSUME NEW i \in 1 .. Len(log')
        PROVE  log'[i].previous = (IF i = 1 THEN NoHead ELSE log'[i - 1].id) /\ log'[i].id <= issued'
    <3>1. CASE i \in 1 .. Len(log)
      <4>1. i # 1 => i - 1 \in 1 .. Len(log)
        BY <1>4, <3>1
      <4> QED
        BY <1>1, <1>3, <1>4, <1>8, <3>1, <4>1 DEF Linked
    <3>2. CASE i = Len(log) + 1
      <4>1. log'[i] = a /\ log'[i].id <= issued'
        BY <1>1, <1>2, <1>3, <1>4, <3>2
      <4>2. CASE Len(log) = 0
        <5>1. log = <<>>
          BY <1>1, <4>2
        <5> QED
          BY <1>1, <1>2, <3>2, <4>1, <4>2, <5>1 DEF Linked, HeadOf
      <4>3. CASE Len(log) # 0
        <5>1. log # <<>> /\ i # 1 /\ i - 1 = Len(log) /\ Len(log) \in 1 .. Len(log)
          BY <1>4, <3>2, <4>3
        <5> QED
          BY <1>1, <1>2, <1>4, <4>1, <5>1 DEF Linked, HeadOf
      <4> QED
        BY <4>2, <4>3
    <3> QED
      BY <1>4, <2>1, <3>1, <3>2
  <2> QED
    BY <1>4, <1>5, <2>1 DEF Chained
<1>10. Attested(issued, kind, about)'
  <2>1. Len(log) + 1 \in 1 .. Len(log')
    BY <1>4
  <2> QED
    BY <1>2, <1>3, <1>4, <2>1 DEF Attested
<1>11. log'[Len(log')].kind = kind
  BY <1>2, <1>4
<1>12. \A i \in 1 .. Len(log) : log[i].id < issued + 1
  BY <1>1, <1>8
<1> QED
  BY <1>1, <1>3, <1>4, <1>5, <1>6, <1>7, <1>9, <1>10, <1>11, <1>12

\* An attestation that is issued outside of a transaction.
LEMMA AloneKeeps ==
  ASSUME ChainInv, NEW p \in Server, NEW kind \in {"run", "review"}, NEW about \in Nat, IssueAlone(p, kind, about),
         kind = "run" => about = NoHead,
         kind = "review" => Attested(about, "run", NoHead)
  PROVE  ChainInv'
<1> DEFINE new == [server[p] EXCEPT !.step = "read", !.kind = kind, !.about = about, !.attestation = issued + 1]
<1>0. FileTypes /\ Linked /\ ServerFits(p) /\ RunsBacked(db.runs) /\ ContractsBacked(db.contracts)
      /\ lock = Free /\ lock # p /\ kind \in Kind /\ issued \in Nat /\ issued + 1 \in Nat
  BY ChainAssumption DEF ChainInv, IssueAlone, FileTypes, Kind
<1>1. /\ Issue(p, kind, about) /\ server[p].step = "ready" /\ db' = [db EXCEPT !.head = issued + 1]
      /\ UNCHANGED <<lock, before>> /\ server' = [server EXCEPT ![p] = new]
  BY DEF IssueAlone
<1>2. /\ LogGoesOn /\ log' \in Seq(Attestation) /\ issued' = issued + 1 /\ issued' \in Nat
      /\ \A i \in 1 .. Len(log') : db'.keys.form = "sealed" /\ log'[i].key = db'.keys.key
      /\ Chained'
      /\ db' \in [keys : KeyRecord, head : Nat, runs : Seq(Nat), contracts : SUBSET StoredContract]
      /\ db'.keys = db.keys /\ db'.runs = db.runs /\ db'.contracts = db.contracts
      /\ Attested(issued, kind, about)' /\ \A i \in 1 .. Len(log) : log[i].id < issued + 1
  BY <1>0, <1>1, IssueExtends
<1>3. /\ new \in ServerRecord /\ new.step = "read" /\ new.kind = kind /\ new.about = about
      /\ new.attestation = issued + 1 /\ new.key = server[p].key
  BY <1>0 DEF ServerFits, ServerRecord
<1> HIDE DEF new
<1>4. /\ server'[p] = new /\ server' = [q \in Server |-> server'[q]]
      /\ \A q \in Server \ {p} : server'[q] = server[q]
  BY <1>0, <1>1 DEF FileTypes
<1>5. FileTypes'
  BY <1>0, <1>1, <1>2, <1>4 DEF FileTypes
<1>6. Linked' /\ RunsBacked(db.runs)' /\ ContractsBacked(db.contracts)'
  BY <1>0, <1>1, <1>2, BackedStays DEF Linked, Chained
<1>7. ASSUME NEW q \in Server \ {p} PROVE ServerFits(q)' /\ Prepared(q)'
  BY <1>1, <1>2, <1>4, OthersFit
<1>8. ServerFits(p)'
  BY <1>0, <1>1, <1>2, <1>3, <1>4, DownReady DEF ServerFits
<1>9. Prepared(p)'
  <2>1. Attested(server[p].attestation, server[p].kind, server[p].about)'
    BY <1>2, <1>3, <1>4 DEF Attested
  <2>2. CASE kind = "run"
    BY <1>2, <1>3, <1>4, <2>1, <2>2 DEF Prepared
  <2>3. CASE kind = "review"
    <3>1. Attested(about, "run", NoHead)' /\ about < issued + 1
      <4>1. Attested(about, "run", NoHead)
        BY <2>3
      <4>2. about < issued + 1
        BY <1>2, <4>1 DEF Attested
      <4> QED
        BY <1>2, <4>1, <4>2, AttestedStays
    <3> QED
      BY <1>2, <1>3, <1>4, <2>1, <2>3, <3>1 DEF Prepared
  <2> QED
    BY <2>2, <2>3
<1> QED
  BY <1>5, <1>6, <1>7, <1>8, <1>9 DEF ChainInv

\* A server reads the records that it will extend.
LEMMA ReadKeeps == ASSUME ChainInv, NEW p \in Server, ReadRecords(p) PROVE ChainInv'
<1> DEFINE new == [server[p] EXCEPT !.step = "write", !.runs = db.runs, !.contracts = db.contracts]
<1>0. /\ FileTypes /\ Linked /\ ServerFits(p) /\ Prepared(p) /\ RunsBacked(db.runs) /\ ContractsBacked(db.contracts)
      /\ db \in [keys : KeyRecord, head : Nat, runs : Seq(Nat), contracts : SUBSET StoredContract]
  BY DEF ChainInv, FileTypes
<1>1. /\ server[p].step = "read" /\ UNCHANGED <<db, log, lock, before, issued>> /\ LogGoesOn
      /\ server' = [server EXCEPT ![p] = new]
  BY DEF ReadRecords, LogGoesOn
<1>2. /\ new \in ServerRecord /\ new.step = "write" /\ new.kind = server[p].kind /\ new.about = server[p].about
      /\ new.attestation = server[p].attestation /\ new.key = server[p].key
      /\ new.runs = db.runs /\ new.contracts = db.contracts
  BY <1>0 DEF ServerFits, ServerRecord
<1> HIDE DEF new
<1>3. /\ server'[p] = new /\ server' = [q \in Server |-> server'[q]]
      /\ \A q \in Server \ {p} : server'[q] = server[q]
  BY <1>0, <1>1 DEF FileTypes
<1>4. FileTypes' /\ Linked' /\ RunsBacked(db.runs)' /\ ContractsBacked(db.contracts)'
  BY <1>0, <1>1, <1>3 DEF FileTypes, Linked, RunsBacked, ContractsBacked, Attested
<1>5. ASSUME NEW q \in Server \ {p} PROVE ServerFits(q)' /\ Prepared(q)'
  BY <1>1, <1>3, <1>5, OthersFit
<1>6. ServerFits(p)'
  BY <1>0, <1>1, <1>2, <1>3, DownReady DEF ServerFits
<1>7. Prepared(p)'
  <2>1. server'[p].runs = db'.runs /\ server'[p].contracts = db'.contracts /\ log' = log
    BY <1>1, <1>2, <1>3
  <2>2. RunsBacked(server[p].runs)' /\ ContractsBacked(server[p].contracts)'
    BY <1>4, <2>1 DEF RunsBacked, ContractsBacked
  <2> QED
    BY <1>0, <1>1, <1>2, <1>3, <2>1, <2>2 DEF Prepared, Attested
<1> QED
  BY <1>4, <1>5, <1>6, <1>7 DEF ChainInv

\* A receipt is issued within its transaction, under the lock.
LEMMA ReceiptKeeps == ASSUME ChainInv, NEW p \in Server, IssueReceipt(p) PROVE ChainInv'
<1> DEFINE new == [server[p] EXCEPT !.step = "transaction"]
<1>0. /\ FileTypes /\ Linked /\ ServerFits(p) /\ RunsBacked(db.runs) /\ ContractsBacked(db.contracts)
      /\ lock = Free /\ lock # p /\ "receipt" \in Kind /\ NoHead \in Nat
      /\ db \in [keys : KeyRecord, head : Nat, runs : Seq(Nat), contracts : SUBSET StoredContract]
      /\ log \in Seq(Attestation)
  BY ChainAssumption DEF ChainInv, IssueReceipt, Kind, NoHead, FileTypes
<1>1. /\ Issue(p, "receipt", NoHead) /\ server[p].step = "ready" /\ db' = [db EXCEPT !.head = issued + 1]
      /\ before' = [head |-> db.head, log |-> log] /\ lock' = p
      /\ server' = [server EXCEPT ![p] = new]
  <2>1. server' = [server EXCEPT ![p].step = "transaction"]
    BY DEF IssueReceipt
  <2> QED
    BY <2>1 DEF IssueReceipt
<1>2. /\ LogGoesOn /\ log' \in Seq(Attestation) /\ issued' = issued + 1 /\ issued' \in Nat
      /\ Len(log') = Len(log) + 1 /\ Len(log) \in Nat
      /\ \A i \in 1 .. Len(log) : log'[i] = log[i]
      /\ log'[Len(log')].kind = "receipt"
      /\ \A i \in 1 .. Len(log') : db'.keys.form = "sealed" /\ log'[i].key = db'.keys.key
      /\ Chained'
      /\ db' \in [keys : KeyRecord, head : Nat, runs : Seq(Nat), contracts : SUBSET StoredContract]
      /\ db'.keys = db.keys /\ db'.runs = db.runs /\ db'.contracts = db.contracts
  BY <1>0, <1>1, IssueExtends
<1>3. new \in ServerRecord /\ new.step = "transaction" /\ new.key = server[p].key
  BY <1>0 DEF ServerFits, ServerRecord
<1> HIDE DEF new
<1>4. /\ server'[p] = new /\ server' = [q \in Server |-> server'[q]]
      /\ \A q \in Server \ {p} : server'[q] = server[q]
  BY <1>0, <1>1 DEF FileTypes
<1>5. FileTypes'
  BY <1>0, <1>1, <1>2, <1>4 DEF FileTypes
<1>6. RunsBacked(db.runs)' /\ ContractsBacked(db.contracts)'
  BY <1>0, <1>2, BackedStays
<1>7. Linked'
  <2>1. before'.head = HeadOf(before'.log) /\ before'.log = log
    BY <1>0, <1>1 DEF Linked
  <2> QED
    BY <1>2, <2>1 DEF Linked, Chained
<1>8. ASSUME NEW q \in Server \ {p} PROVE ServerFits(q)' /\ Prepared(q)'
  <2>1. lock # q
    BY <1>0, ChainAssumption
  <2> QED
    BY <1>1, <1>2, <1>4, <2>1, OthersFit
<1>9. ServerFits(p)' /\ Prepared(p)'
  BY <1>0, <1>1, <1>2, <1>3, <1>4, DownReady DEF ServerFits, Prepared
<1> QED
  BY <1>5, <1>6, <1>7, <1>8, <1>9 DEF ChainInv

\* The transaction of a receipt commits: the head moves to it.
LEMMA CommitKeeps == ASSUME ChainInv, NEW p \in Server, CommitReceipt(p) PROVE ChainInv'
<1> DEFINE new == [server[p] EXCEPT !.step = "ready"]
<1>0. FileTypes /\ Linked /\ ServerFits(p) /\ RunsBacked(db.runs) /\ ContractsBacked(db.contracts)
  BY DEF ChainInv
<1>1. /\ lock = p /\ lock' = Free /\ UNCHANGED <<db, log, before, issued>> /\ LogGoesOn
      /\ server' = [server EXCEPT ![p] = new]
  BY DEF CommitReceipt, LogGoesOn
<1>2. new \in ServerRecord /\ new.step = "ready" /\ new.key = server[p].key /\ server[p].step = "transaction"
  BY <1>0, <1>1 DEF ServerFits, ServerRecord
<1> HIDE DEF new
<1>3. /\ server'[p] = new /\ server' = [q \in Server |-> server'[q]]
      /\ \A q \in Server \ {p} : server'[q] = server[q]
  BY <1>0, <1>1 DEF FileTypes
<1>4. FileTypes' /\ Linked' /\ RunsBacked(db.runs)' /\ ContractsBacked(db.contracts)'
  BY <1>0, <1>1, <1>3 DEF FileTypes, Linked, RunsBacked, ContractsBacked, Attested
<1>5. ASSUME NEW q \in Server \ {p} PROVE ServerFits(q)' /\ Prepared(q)'
  BY <1>1, <1>3, <1>5, OthersFit, ChainAssumption
<1>6. ServerFits(p)' /\ Prepared(p)'
  BY <1>0, <1>1, <1>2, <1>3, DownReady, ChainAssumption DEF ServerFits, Prepared
<1> QED
  BY <1>4, <1>5, <1>6 DEF ChainInv

\* A server writes the records back, with the new one.
LEMMA WriteKeeps == ASSUME ChainInv, NEW p \in Server, WriteRecords(p) PROVE ChainInv'
<1> DEFINE s == server[p]
           runs == LastOf(Append(s.runs, s.attestation), KeptRuns)
           contracts == {c \in s.contracts : c.run # s.about} \cup {[run |-> s.about, attestation |-> s.attestation]}
<1>0. /\ FileTypes /\ Linked /\ ServerFits(p) /\ Prepared(p) /\ RunsBacked(db.runs) /\ ContractsBacked(db.contracts)
      /\ db \in [keys : KeyRecord, head : Nat, runs : Seq(Nat), contracts : SUBSET StoredContract]
      /\ s \in ServerRecord /\ s.step = "write"
  BY DEF ChainInv, FileTypes, ServerFits, WriteRecords
<1>1. /\ UNCHANGED <<log, lock, before, issued>> /\ LogGoesOn
      /\ db' = IF s.kind = "run" THEN [db EXCEPT !.runs = runs] ELSE [db EXCEPT !.contracts = contracts]
      /\ server' = [server EXCEPT ![p] = Ready(s.key)]
  BY DEF WriteRecords, LogGoesOn
<1>2. /\ s.key \in SigningKey /\ s.runs \in Seq(Nat) /\ s.attestation \in Nat /\ s.about \in Nat
      /\ s.contracts \subseteq StoredContract
  BY <1>0 DEF ServerFits, ServerRecord
<1>3. /\ s.kind \in {"run", "review"} /\ Attested(s.attestation, s.kind, s.about)
      /\ s.kind = "run" => s.about = NoHead
      /\ s.kind = "review" => Attested(s.about, "run", NoHead) /\ s.about < s.attestation
      /\ RunsBacked(s.runs) /\ ContractsBacked(s.contracts)
  BY <1>0 DEF Prepared
<1>4. s.kind = "run" => runs \in Seq(Nat) /\ RunsBacked(runs)
  <2> DEFINE t == Append(s.runs, s.attestation)
  <2>1. /\ t \in Seq(Nat)
        /\ \A j \in 1 .. Len(t) : (\E i \in 1 .. Len(s.runs) : t[j] = s.runs[i]) \/ t[j] = s.attestation
    BY <1>2
  <2> HIDE DEF t
  <2>2. /\ LastOf(t, KeptRuns) \in Seq(Nat)
        /\ \A i \in 1 .. Len(LastOf(t, KeptRuns)) : \E j \in 1 .. Len(t) : LastOf(t, KeptRuns)[i] = t[j]
    BY <2>1, LastOfIs, ChainAssumption
  <2>3. s.kind = "run" => \A j \in 1 .. Len(t) : Attested(t[j], "run", NoHead)
    BY <1>3, <2>1 DEF RunsBacked
  <2> QED
    BY <2>2, <2>3 DEF RunsBacked, t
<1>5. contracts \subseteq StoredContract /\ (s.kind = "review" => ContractsBacked(contracts))
  <2> DEFINE c == [run |-> s.about, attestation |-> s.attestation]
  <2>1. c \in StoredContract /\ c.run = s.about /\ c.attestation = s.attestation
    BY <1>2 DEF StoredContract
  <2> HIDE DEF c
  <2>2. contracts = {d \in s.contracts : d.run # s.about} \cup {c}
    BY DEF c
  <2> QED
    BY <1>2, <1>3, <2>1, <2>2 DEF ContractsBacked
<1> HIDE DEF runs, contracts
<1>6. /\ db' \in [keys : KeyRecord, head : Nat, runs : Seq(Nat), contracts : SUBSET StoredContract]
      /\ db'.keys = db.keys /\ db'.head = db.head
      /\ db'.runs = IF s.kind = "run" THEN runs ELSE db.runs
      /\ db'.contracts = IF s.kind = "run" THEN db.contracts ELSE contracts
  BY <1>0, <1>1, <1>4, <1>5
<1>7. /\ server'[p] = Ready(s.key) /\ server' = [q \in Server |-> server'[q]]
      /\ \A q \in Server \ {p} : server'[q] = server[q]
  BY <1>0, <1>1 DEF FileTypes
<1>8. FileTypes' /\ Linked'
  BY <1>0, <1>1, <1>6, <1>7 DEF FileTypes, Linked
<1>9. RunsBacked(db.runs)' /\ ContractsBacked(db.contracts)'
  <2>1. RunsBacked(db'.runs) /\ ContractsBacked(db'.contracts)
    BY <1>0, <1>3, <1>4, <1>5, <1>6
  <2> QED
    BY <1>1, <2>1 DEF RunsBacked, ContractsBacked, Attested
<1>10. ASSUME NEW q \in Server \ {p} PROVE ServerFits(q)' /\ Prepared(q)'
  BY <1>1, <1>6, <1>7, <1>10, OthersFit
<1>11. ServerFits(p)' /\ Prepared(p)'
  BY <1>0, <1>1, <1>2, <1>6, <1>7, DownReady DEF ServerFits, Prepared
<1> QED
  BY <1>8, <1>9, <1>10, <1>11 DEF ChainInv

\* A transaction that is undone leaves the chain as it was before it.
LEMMA UndoKeeps ==
  ASSUME ChainInv, NEW p \in Server, lock = p, Undo, UNCHANGED <<before, issued>>,
         NEW new \in ServerRecord, server' = [server EXCEPT ![p] = new],
         new = Down \/ (new.step = "ready" /\ new.key = server[p].key)
  PROVE  ChainInv'
<1>0. /\ FileTypes /\ Linked /\ ServerFits(p) /\ RunsBacked(db.runs) /\ ContractsBacked(db.contracts)
      /\ db \in [keys : KeyRecord, head : Nat, runs : Seq(Nat), contracts : SUBSET StoredContract]
      /\ before \in [head : Nat, log : Seq(Attestation)] /\ lock # Free /\ log \in Seq(Attestation)
  BY ChainAssumption DEF ChainInv, FileTypes
<1>1. db' = [db EXCEPT !.head = before.head] /\ log' = before.log /\ lock' = Free
  BY DEF Undo
<1>2. /\ before.head = HeadOf(before.log) /\ Len(log) = Len(before.log) + 1 /\ log[Len(log)].kind = "receipt"
      /\ \A i \in 1 .. Len(before.log) : log[i] = before.log[i]
      /\ before.log \in Seq(Attestation) /\ Len(before.log) \in Nat
  <2>1. before.log \in Seq(Attestation)
    BY <1>0
  <2>2. Len(before.log) \in Nat
    BY <2>1
  <2> QED
    BY <1>0, <2>1, <2>2 DEF Linked
<1>3. LogGoesOn
  BY <1>1, <1>2 DEF LogGoesOn
<1>4. /\ db' \in [keys : KeyRecord, head : Nat, runs : Seq(Nat), contracts : SUBSET StoredContract]
      /\ db'.keys = db.keys /\ db'.runs = db.runs /\ db'.contracts = db.contracts /\ db'.head = before.head
  BY <1>0, <1>1
<1>5. /\ server'[p] = new /\ server' = [q \in Server |-> server'[q]]
      /\ \A q \in Server \ {p} : server'[q] = server[q]
  BY <1>0 DEF FileTypes
<1>6. \A i \in 1 .. Len(log') : i \in 1 .. Len(log) /\ log'[i] = log[i] /\ (i # 1 => i - 1 \in 1 .. Len(log'))
  BY <1>1, <1>2
<1>7. FileTypes'
  BY <1>0, <1>1, <1>2, <1>4, <1>5, <1>6, ZenonT(40) DEF FileTypes
<1>8. Linked'
  BY <1>0, <1>1, <1>2, <1>4, <1>6 DEF Linked
<1>9. RunsBacked(db.runs)' /\ ContractsBacked(db.contracts)'
  BY <1>0, <1>3, <1>4, BackedStays
<1>10. ASSUME NEW q \in Server \ {p} PROVE ServerFits(q)' /\ Prepared(q)'
  BY <1>1, <1>3, <1>4, <1>5, <1>10, OthersFit, ChainAssumption
<1>11. ServerFits(p)' /\ Prepared(p)'
  BY <1>0, <1>1, <1>4, <1>5, DownReady, ChainAssumption DEF ServerFits, Prepared
<1> QED
  BY <1>7, <1>8, <1>9, <1>10, <1>11 DEF ChainInv

\* The transaction of a receipt is rolled back: its attestation never happened.
LEMMA RollBackKeeps == ASSUME ChainInv, NEW p \in Server, RollBackReceipt(p) PROVE ChainInv'
<1> DEFINE new == [server[p] EXCEPT !.step = "ready"]
<1>1. new \in ServerRecord /\ new.step = "ready" /\ new.key = server[p].key
  BY DEF ChainInv, ServerFits, ServerRecord
<1>2. server' = [server EXCEPT ![p] = new] /\ lock = p /\ Undo /\ UNCHANGED <<before, issued>>
  BY DEF RollBackReceipt
<1> HIDE DEF new
<1> QED
  BY <1>1, <1>2, UndoKeeps

\* A server crashes, and the database rolls back what it had not committed.
LEMMA CrashKeeps == ASSUME ChainInv, NEW p \in Server, CrashServer(p) PROVE ChainInv'
<1>1. CASE lock = p
  BY <1>1, DownReady, UndoKeeps DEF CrashServer
<1>2. CASE lock # p
  <2>0. FileTypes /\ Linked /\ ServerFits(p) /\ RunsBacked(db.runs) /\ ContractsBacked(db.contracts)
    BY DEF ChainInv
  <2>1. UNCHANGED <<db, log, lock, before, issued>> /\ LogGoesOn /\ server' = [server EXCEPT ![p] = Down]
    BY <1>2 DEF CrashServer, LogGoesOn
  <2>2. /\ server'[p] = Down /\ server' = [q \in Server |-> server'[q]]
        /\ \A q \in Server \ {p} : server'[q] = server[q]
    BY <2>0, <2>1 DEF FileTypes
  <2>3. FileTypes' /\ Linked' /\ RunsBacked(db.runs)' /\ ContractsBacked(db.contracts)'
    BY <2>0, <2>1, <2>2 DEF FileTypes, Linked, RunsBacked, ContractsBacked, Attested
  <2>4. ASSUME NEW q \in Server \ {p} PROVE ServerFits(q)' /\ Prepared(q)'
    BY <2>1, <2>2, <2>4, OthersFit
  <2>5. ServerFits(p)' /\ Prepared(p)'
    BY <1>2, <2>0, <2>1, <2>2, DownReady DEF ServerFits, Prepared
  <2> QED
    BY <2>3, <2>4, <2>5 DEF ChainInv
<1> QED
  BY <1>1, <1>2

\* Every step keeps the invariant of the chain.
LEMMA ChainSteps == ASSUME ChainInv, [ChainNext]_chainVars PROVE ChainInv'
<1>1. CASE UNCHANGED chainVars
  BY <1>1 DEF chainVars, ChainInv, FileTypes, Linked, RunsBacked, ContractsBacked, Attested, ServerFits, Prepared
<1>2. ASSUME NEW p \in Server, RunScenario(p) PROVE ChainInv'
  BY <1>2, AloneKeeps DEF RunScenario, NoHead
<1>3. ASSUME NEW p \in Server, NEW run \in 1 .. MaxIssued, ReviewContract(p, run) PROVE ChainInv'
  <2>1. run \in Nat /\ Attested(run, "run", NoHead)
    BY <1>3 DEF ReviewContract, Registered, ChainInv, RunsBacked
  <2> QED
    BY <1>3, <2>1, AloneKeeps DEF ReviewContract
<1> QED
  BY <1>1, <1>2, <1>3, StartKeeps, CrashKeeps, ReadKeeps, WriteKeeps, ReceiptKeeps, CommitKeeps, RollBackKeeps DEF ChainNext

\* Nothing has been issued at first.
LEMMA ChainInitial == ChainInit => ChainInv
<1> SUFFICES ASSUME ChainInit PROVE ChainInv
  OBVIOUS
<1>1. /\ <<>> \in Seq(Attestation) /\ <<>> \in Seq(Nat) /\ Len(<<>>) = 0 /\ NoHead \in Nat
      /\ db \in [keys : KeyRecord, head : Nat, runs : Seq(Nat), contracts : SUBSET StoredContract]
      /\ db.head = NoHead /\ db.runs = <<>> /\ db.contracts = {}
  <2>1. PICK keys \in {NoKeys} \cup {Plain(k) : k \in SigningKey} :
          db = [keys |-> keys, head |-> NoHead, runs |-> <<>>, contracts |-> {}]
    BY DEF ChainInit
  <2>2. <<>> \in Seq(Attestation) /\ <<>> \in Seq(Nat) /\ Len(<<>>) = 0 /\ NoHead \in Nat
    BY DEF NoHead
  <2> QED
    BY <2>1, <2>2 DEF KeyRecord
<1>2. /\ log = <<>> /\ lock = Free /\ before = [head |-> NoHead, log |-> <<>>] /\ server = [p \in Server |-> Down]
      /\ issued = 0
  BY DEF ChainInit
<1>3. FileTypes
  BY <1>1, <1>2 DEF FileTypes
<1>4. Linked /\ RunsBacked(db.runs) /\ ContractsBacked(db.contracts)
  BY <1>1, <1>2 DEF Linked, HeadOf, RunsBacked, ContractsBacked
<1>5. \A p \in Server : ServerFits(p) /\ Prepared(p)
  BY <1>2, DownReady, ChainAssumption DEF ServerFits, Prepared
<1> QED
  BY <1>3, <1>4, <1>5 DEF ChainInv

\* The invariant of the chain holds in every behaviour.
LEMMA ChainAlways == ChainSpec => []ChainInv
BY ChainInitial, ChainSteps, PTL DEF ChainSpec

\* The servers that share the file, whenever they start, crash or roll back, extend one
\* chain with one key, and the stored head is its end.
THEOREM ChainIsUnbroken == ChainSpec => []ChainUnbroken
<1>1. ChainInv => ChainUnbroken
  BY DEF ChainInv, ChainUnbroken, FileTypes, Linked, ServerFits, HeadOf
<1> QED
  BY <1>1, ChainAlways, PTL

\* A stored record carries an attestation of the chain that says what it is, although it is
\* written after the attestation, from a copy that may be old, and other servers roll back.
THEOREM StoredRecordsAreBacked == ChainSpec => []RecordsAreBacked
<1>1. ChainInv => RecordsAreBacked
  BY DEF ChainInv, RecordsAreBacked, RunsBacked, ContractsBacked
<1> QED
  BY <1>1, ChainAlways, PTL

-----------------------------------------------------------------------------
(* The identity of agents: what is known was published not long before *)

\* What a verification or the cache knows, and since when it may be outdated.
CallFits(c) ==
  LET x == calls[c] IN
  \/ x.step \in {"new", "refused", "fetching"}
  \/ /\ x.step = "answered" /\ x.at \in 0 .. tokenClock
     /\ x.keys \subseteq publishedAt[x.at] /\ tokenClock <= x.at + MaxTransit
  \/ /\ x.step = "verified" /\ x.at \in 0 .. tokenClock
     /\ \E t \in 0 .. x.at : x.key \in publishedAt[t] /\ x.at <= t + JwksTTL + MaxTransit

CacheFits ==
  /\ cached.expiresAt \in Nat
  /\ cached.keys # {} =>
       \E t \in 0 .. tokenClock : cached.keys \subseteq publishedAt[t] /\ cached.expiresAt <= t + JwksTTL + MaxTransit

IdentityInv ==
  /\ tokenClock \in 0 .. MaxTokenTime
  /\ DOMAIN publishedAt = 0 .. MaxTokenTime /\ publishedAt = [t \in 0 .. MaxTokenTime |-> publishedAt[t]]
  /\ current \subseteq publishedAt[tokenClock]
  /\ calls = [c \in Call |-> calls[c]]
  /\ CacheFits /\ \A c \in Call : CallFits(c)

\* The durations of tokens and keys are numbers.
LEMMA Bounds == /\ JwksTTL \in Nat /\ MaxTransit \in Nat /\ MaxTokenTime \in Nat /\ Lifetime \in Nat
BY IdentityAssumption

\* What was published is not forgotten.
LEMMA CallKept ==
  ASSUME NEW c \in Call, CallFits(c), calls'[c] = calls[c], tokenClock \in Nat, tokenClock' \in Nat, tokenClock <= tokenClock',
         \A t \in 0 .. tokenClock : publishedAt[t] \subseteq publishedAt'[t],
         calls[c].step = "answered" => tokenClock' <= calls[c].at + MaxTransit
  PROVE  CallFits(c)'
<1>1. CASE calls[c].step \in {"new", "refused", "fetching"}
  BY <1>1 DEF CallFits
<1>2. CASE calls[c].step = "answered"
  BY <1>2 DEF CallFits
<1>3. CASE calls[c].step = "verified"
  <2>1. PICK t \in 0 .. calls[c].at : calls[c].key \in publishedAt[t] /\ calls[c].at <= t + JwksTTL + MaxTransit
    BY <1>3 DEF CallFits
  <2>2. calls[c].at \in 0 .. tokenClock
    BY <1>3 DEF CallFits
  <2>3. t \in 0 .. tokenClock /\ calls[c].at \in 0 .. tokenClock'
    BY <2>2
  <2> QED
    BY <1>3, <2>1, <2>3 DEF CallFits
<1> QED
  BY <1>1, <1>2, <1>3 DEF CallFits

\* The cache stays true as time passes, as long as nothing published is unsaid.
LEMMA CacheKept ==
  ASSUME CacheFits, cached' = cached, tokenClock \in Nat, tokenClock' \in Nat, tokenClock <= tokenClock',
         \A t \in 0 .. tokenClock : publishedAt[t] \subseteq publishedAt'[t]
  PROVE  CacheFits'
<1>1. CASE cached.keys = {}
  BY <1>1 DEF CacheFits
<1>2. CASE cached.keys # {}
  <2>1. PICK t \in 0 .. tokenClock : cached.keys \subseteq publishedAt[t] /\ cached.expiresAt <= t + JwksTTL + MaxTransit
    BY <1>2 DEF CacheFits
  <2>2. t \in 0 .. tokenClock' /\ cached.keys \subseteq publishedAt'[t]
    BY <2>1
  <2> QED
    BY <2>1, <2>2 DEF CacheFits
<1> QED
  BY <1>1, <1>2

\* Time passes, not beyond the transit of a call.
LEMMA TickKeeps == ASSUME IdentityInv, TokenTick PROVE IdentityInv'
<1>1. /\ tokenClock \in Nat /\ tokenClock' = tokenClock + 1 /\ tokenClock' \in 0 .. MaxTokenTime
      /\ UNCHANGED <<current, cached, calls>>
      /\ publishedAt' = [publishedAt EXCEPT ![tokenClock + 1] = current]
      /\ \A c \in Call : calls[c].step = "answered" => tokenClock < calls[c].at + MaxTransit
  BY Bounds DEF TokenTick, IdentityInv
<1>2. /\ \A t \in 0 .. tokenClock : publishedAt'[t] = publishedAt[t]
      /\ publishedAt'[tokenClock + 1] = current
      /\ DOMAIN publishedAt' = 0 .. MaxTokenTime /\ publishedAt' = [t \in 0 .. MaxTokenTime |-> publishedAt'[t]]
  <2>1. DOMAIN publishedAt = 0 .. MaxTokenTime
    BY DEF IdentityInv
  <2>2. /\ DOMAIN publishedAt' = 0 .. MaxTokenTime /\ publishedAt'[tokenClock + 1] = current
        /\ \A t \in 0 .. MaxTokenTime : t # tokenClock + 1 => publishedAt'[t] = publishedAt[t]
    BY <1>1, <2>1
  <2>3. publishedAt' = [t \in 0 .. MaxTokenTime |-> publishedAt'[t]]
    BY <1>1, <2>1
  <2>4. \A t \in 0 .. tokenClock : t \in 0 .. MaxTokenTime /\ t # tokenClock + 1
    BY <1>1, Bounds
  <2> QED
    BY <2>2, <2>3, <2>4
<1>3. ASSUME NEW c \in Call PROVE CallFits(c)'
  <2>1. CallFits(c)
    BY DEF IdentityInv
  <2>2. calls[c].step = "answered" => tokenClock' <= calls[c].at + MaxTransit
    BY <1>1, <2>1, Bounds DEF CallFits
  <2> QED
    BY <1>1, <1>2, <2>1, <2>2, CallKept
<1>4. CacheFits'
  BY <1>1, <1>2, CacheKept DEF IdentityInv
<1> QED
  BY <1>1, <1>2, <1>3, <1>4 DEF IdentityInv

\* The issuer publishes other keys.
LEMMA PublishKeeps == ASSUME IdentityInv, NEW keys, IssuerPublishes(keys) PROVE IdentityInv'
<1>1. /\ UNCHANGED <<tokenClock, cached, calls>> /\ current' = keys /\ tokenClock \in 0 .. MaxTokenTime /\ tokenClock \in Nat
      /\ publishedAt' = [publishedAt EXCEPT ![tokenClock] = publishedAt[tokenClock] \cup keys]
  BY Bounds DEF IssuerPublishes, IdentityInv
<1>2. /\ \A t \in 0 .. tokenClock : publishedAt[t] \subseteq publishedAt'[t]
      /\ keys \subseteq publishedAt'[tokenClock]
      /\ DOMAIN publishedAt' = 0 .. MaxTokenTime /\ publishedAt' = [t \in 0 .. MaxTokenTime |-> publishedAt'[t]]
  <2>1. DOMAIN publishedAt = 0 .. MaxTokenTime
    BY DEF IdentityInv
  <2>2. /\ DOMAIN publishedAt' = 0 .. MaxTokenTime /\ publishedAt'[tokenClock] = publishedAt[tokenClock] \cup keys
        /\ \A t \in 0 .. MaxTokenTime : t # tokenClock => publishedAt'[t] = publishedAt[t]
    BY <1>1, <2>1
  <2>3. publishedAt' = [t \in 0 .. MaxTokenTime |-> publishedAt'[t]]
    BY <1>1, <2>1
  <2>4. \A t \in 0 .. tokenClock : t \in 0 .. MaxTokenTime
    BY <1>1, Bounds
  <2> QED
    BY <2>2, <2>3, <2>4
<1>3. ASSUME NEW c \in Call PROVE CallFits(c)'
  <2>1. CallFits(c)
    BY DEF IdentityInv
  <2>2. calls[c].step = "answered" => tokenClock' <= calls[c].at + MaxTransit
    BY <1>1, <2>1 DEF CallFits
  <2> QED
    BY <1>1, <1>2, <2>1, <2>2, CallKept
<1>4. CacheFits'
  BY <1>1, <1>2, CacheKept DEF IdentityInv
<1> QED
  BY <1>1, <1>2, <1>3, <1>4 DEF IdentityInv

\* A step of one verification: it must fit.
LEMMA OneCall ==
  ASSUME IdentityInv, NEW c \in Call, NEW x, calls' = [calls EXCEPT ![c] = x],
         UNCHANGED <<tokenClock, publishedAt, current>>, CallFits(c)', CacheFits'
  PROVE  IdentityInv'
<1>1. tokenClock \in Nat /\ calls' = [d \in Call |-> calls'[d]] /\ \A d \in Call \ {c} : calls'[d] = calls[d]
  BY Bounds DEF IdentityInv
<1>2. ASSUME NEW d \in Call \ {c} PROVE CallFits(d)'
  <2>1. CallFits(d)
    BY DEF IdentityInv
  <2>2. calls[d].step = "answered" => tokenClock' <= calls[d].at + MaxTransit
    BY <2>1 DEF CallFits
  <2> QED
    BY <1>1, <1>2, <2>1, <2>2, CallKept
<1> QED
  BY <1>1, <1>2 DEF IdentityInv

\* What a key set that is recent enough answers.
LEMMA AnswerFits ==
  ASSUME NEW c \in Call, NEW key, NEW keys, calls'[c] = Answer(key, keys), tokenClock' = tokenClock, tokenClock \in Nat,
         publishedAt' = publishedAt,
         keys = {} \/ \E t \in 0 .. tokenClock : keys \subseteq publishedAt[t] /\ tokenClock <= t + JwksTTL + MaxTransit
  PROVE  CallFits(c)'
<1>1. CASE key \in keys
  <2>1. calls'[c].step = "verified" /\ calls'[c].key = key /\ calls'[c].at = tokenClock
    BY <1>1 DEF Answer
  <2>2. PICK t \in 0 .. tokenClock : keys \subseteq publishedAt[t] /\ tokenClock <= t + JwksTTL + MaxTransit
    BY <1>1
  <2> QED
    BY <1>1, <2>1, <2>2 DEF CallFits
<1>2. CASE key \notin keys
  BY <1>2 DEF Answer, Refused, CallFits
<1> QED
  BY <1>1, <1>2

\* A token is presented, and refused, answered from the cache or the reason for a fetch.
LEMMA PresentKeeps ==
  ASSUME IdentityInv, NEW c \in Call, NEW key, NEW iat, Present(c, key, iat) PROVE IdentityInv'
<1> DEFINE x == IF ~ClaimsValid(iat, iat + Lifetime) THEN Refused
                ELSE IF Fresh(cached) THEN Answer(key, cached.keys)
                ELSE [step |-> "fetching", key |-> key]
<1>1. calls' = [calls EXCEPT ![c] = x] /\ UNCHANGED <<tokenClock, publishedAt, current, cached>>
  BY DEF Present
<1>2. calls'[c] = x /\ CacheFits /\ tokenClock \in Nat
  BY <1>1, Bounds DEF IdentityInv
<1>3. CacheFits'
  BY <1>1, <1>2 DEF CacheFits
<1>4. CallFits(c)'
  <2>1. CASE x = Answer(key, cached.keys) /\ Fresh(cached)
    <3>1. \/ cached.keys = {}
          \/ \E t \in 0 .. tokenClock : cached.keys \subseteq publishedAt[t] /\ tokenClock <= t + JwksTTL + MaxTransit
      BY <1>2, <2>1, Bounds DEF CacheFits, Fresh
    <3> QED
      BY <1>1, <1>2, <2>1, <3>1, AnswerFits
  <2>2. CASE x \in {Refused, [step |-> "fetching", key |-> key]}
    BY <1>2, <2>2 DEF CallFits, Refused
  <2> QED
    BY <2>1, <2>2
<1> HIDE DEF x
<1> QED
  BY <1>1, <1>3, <1>4, OneCall

\* The fetched keys arrive, and answer the call.
LEMMA ReceiveKeeps == ASSUME IdentityInv, NEW c \in Call, Receive(c) PROVE IdentityInv'
<1> DEFINE x == Answer(calls[c].key, calls[c].keys)
<1>1. /\ calls' = [calls EXCEPT ![c] = x] /\ UNCHANGED <<tokenClock, publishedAt, current>>
      /\ cached' = [keys |-> calls[c].keys, expiresAt |-> tokenClock + JwksTTL] /\ calls[c].step = "answered"
  BY DEF Receive
<1>2. calls'[c] = x /\ tokenClock \in Nat
  BY <1>1, Bounds DEF IdentityInv
<1>3. CallFits(c)
  BY DEF IdentityInv
<1>4. /\ calls[c].at \in 0 .. tokenClock /\ calls[c].keys \subseteq publishedAt[calls[c].at]
      /\ tokenClock <= calls[c].at + MaxTransit
  BY <1>1, <1>3 DEF CallFits
<1>5. CacheFits'
  <2>1. cached'.keys = calls[c].keys /\ cached'.expiresAt = tokenClock + JwksTTL
    BY <1>1
  <2>2. cached'.expiresAt <= calls[c].at + JwksTTL + MaxTransit /\ cached'.expiresAt \in Nat
    BY <1>2, <1>4, <2>1, Bounds
  <2> QED
    BY <1>1, <1>4, <2>1, <2>2 DEF CacheFits
<1>6. CallFits(c)'
  <2>1. tokenClock <= calls[c].at + JwksTTL + MaxTransit
    BY <1>2, <1>4, Bounds
  <2> QED
    BY <1>1, <1>2, <1>4, <2>1, AnswerFits
<1> HIDE DEF x
<1> QED
  BY <1>1, <1>5, <1>6, OneCall

\* The issuer answers, or does not.
LEMMA FetchKeeps == ASSUME IdentityInv, NEW c \in Call, IssuerAnswers(c) \/ FetchFails(c) PROVE IdentityInv'
<1>0. CacheFits' /\ tokenClock \in Nat /\ calls = [d \in Call |-> calls[d]] /\ current \subseteq publishedAt[tokenClock]
  <2>1. tokenClock \in Nat /\ calls = [d \in Call |-> calls[d]] /\ current \subseteq publishedAt[tokenClock] /\ CacheFits
    BY Bounds DEF IdentityInv
  <2>2. UNCHANGED <<tokenClock, publishedAt, cached>>
    BY DEF IssuerAnswers, FetchFails
  <2>3. CacheFits'
    BY <2>1, <2>2, CacheKept
  <2> QED
    BY <2>1, <2>3
<1>1. CASE IssuerAnswers(c)
  <2> DEFINE x == [step |-> "answered", key |-> calls[c].key, keys |-> current, at |-> tokenClock]
  <2>1. calls' = [calls EXCEPT ![c] = x] /\ UNCHANGED <<tokenClock, publishedAt, current, cached>>
    BY <1>1 DEF IssuerAnswers
  <2>2. calls'[c] = x
    BY <1>0, <2>1
  <2>3. CallFits(c)'
    BY <1>0, <2>1, <2>2, Bounds DEF CallFits
  <2> HIDE DEF x
  <2> QED
    BY <1>0, <2>1, <2>3, OneCall
<1>2. CASE FetchFails(c)
  <2>1. calls' = [calls EXCEPT ![c] = Refused] /\ UNCHANGED <<tokenClock, publishedAt, current, cached>>
    BY <1>2 DEF FetchFails
  <2>2. CallFits(c)'
    BY <1>0, <2>1 DEF CallFits, Refused
  <2> QED
    BY <1>0, <2>1, <2>2, OneCall
<1> QED
  BY <1>1, <1>2

\* A key that the issuer withdraws soon counts for nothing, in whatever order answers arrive
\* and although an old one replaces a newer entry of the cache.
THEOREM TrustStaysRecent == IdentitySpec => []TrustIsRecent
<1>1. IdentityInit => IdentityInv
  <2> SUFFICES ASSUME IdentityInit PROVE IdentityInv
    OBVIOUS
  <2>1. tokenClock \in 0 .. MaxTokenTime /\ publishedAt[0] = {FirstJwk}
    BY Bounds DEF IdentityInit
  <2> QED
    BY <2>1 DEF IdentityInit, IdentityInv, CacheFits, CallFits
<1>2. IdentityInv /\ [IdentityNext]_identityVars => IdentityInv'
  <2> SUFFICES ASSUME IdentityInv, [IdentityNext]_identityVars PROVE IdentityInv'
    OBVIOUS
  <2>1. CASE UNCHANGED identityVars
    BY <2>1 DEF identityVars, IdentityInv, CacheFits, CallFits
  <2> QED
    BY <2>1, TickKeeps, PublishKeeps, PresentKeeps, FetchKeeps, ReceiveKeeps DEF IdentityNext
<1>3. IdentityInv => TrustIsRecent
  BY DEF IdentityInv, TrustIsRecent, CallFits
<1> QED
  BY <1>1, <1>2, <1>3, PTL DEF IdentitySpec
=============================================================================
