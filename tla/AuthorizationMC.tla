--------------------------- MODULE AuthorizationMC ---------------------------
(***************************************************************************)
(* Small instances for TLC of what authorises an action and what is proved *)
(* of it afterwards: the one-use authorisation of a release by itself,     *)
(* hosted evidence on top of it, the passkey ceremony, the review of       *)
(* contracts on the command line, the chain of attestations and the        *)
(* identity of agents.  Apart from the first two they share no state: a    *)
(* behaviour is one of one part.                                           *)
(***************************************************************************)
EXTENDS HostedEvidence, ApprovalCeremony, ContractReview, ProofChain, AgentIdentity, TLC

CONSTANTS r1, r2, x1, x2, a1, a2, a3, n1, n2, c1, c2, m1, m2, h1, h2,
          p1, p2, p3, s1, s2, k1, k2, v1, v2, v3, i1, i2, i3, o1, o2,
          MaxReleaseTime       \* bound of the clock when releases run by themselves

VARIABLE part

MCNonceOf == (a1 :> n1) @@ (a2 :> n1) @@ (a3 :> n2)
MCIssuedAt == (a1 :> 0) @@ (a2 :> 0) @@ (a3 :> 1)
MCExpiresAt == (a1 :> 2) @@ (a2 :> 1) @@ (a3 :> 2)
MCOwnerOf == (c1 :> h1) @@ (c2 :> h2)
MCReviewerOf == (a1 :> h1) @@ (a2 :> h2) @@ (a3 :> h1)
MCProfileOf == [plan \in Plan |-> IF plan = "renamed" THEN "renamed profile" ELSE "profile"]
MCSecretOf == (p1 :> s1) @@ (p2 :> s1) @@ (p3 :> s2)

AuthorizationInit ==
  /\ part \in {"release", "evidence", "ceremony", "review", "chain", "identity"}
  /\ EvidenceInit /\ CeremonyInit /\ ReviewInit /\ ChainInit /\ IdentityInit
  /\ part # "evidence" => deployed = CHOOSE plan \in Plan : TRUE
  /\ part # "ceremony" => shared
  /\ part # "review" => offer = o1
  /\ part # "chain" => db.keys = NoKeys

AuthorizationNext ==
  /\ UNCHANGED part
  /\ \/ /\ part = "release"
        /\ ReleaseNext /\ auditClock' <= MaxReleaseTime
        /\ UNCHANGED <<evidenceVars, ceremonyVars, reviewVars, chainVars, identityVars>>
     \/ part = "evidence" /\ EvidenceNext /\ UNCHANGED <<ceremonyVars, reviewVars, chainVars, identityVars>>
     \/ part = "ceremony" /\ CeremonyNext /\ UNCHANGED <<auditClock, releaseVars, evidenceVars, reviewVars, chainVars, identityVars>>
     \/ part = "review" /\ ReviewNext /\ UNCHANGED <<auditClock, releaseVars, evidenceVars, ceremonyVars, chainVars, identityVars>>
     \/ part = "chain" /\ ChainNext /\ UNCHANGED <<auditClock, releaseVars, evidenceVars, ceremonyVars, reviewVars, identityVars>>
     \/ part = "identity" /\ IdentityNext /\ UNCHANGED <<auditClock, releaseVars, evidenceVars, ceremonyVars, reviewVars, chainVars>>

AuthorizationSpec ==
  AuthorizationInit
    /\ [][AuthorizationNext]_<<part, auditClock, releaseVars, evidenceVars, ceremonyVars, reviewVars, chainVars, identityVars>>
=============================================================================
