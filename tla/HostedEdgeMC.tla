---------------------------- MODULE HostedEdgeMC ----------------------------
(***************************************************************************)
(* Small instances for TLC of what every hosted request meets before and   *)
(* after its audit: the start limiter, the initialisation of the database  *)
(* and the signing keys.  They share no state, so a behaviour is one of    *)
(* one of them: interleaving them would add states and no behaviour.       *)
(***************************************************************************)
EXTENDS StartLimiter, DatabaseInit, EvidenceKeys, TLC

CONSTANTS q1, q2, s1, s2, n1, d1, d2, u1, u2, u3, k1, k2, i1, i2, v1

VARIABLE part

MCRequest == {q1, q2}
MCSession == {s1, s2}
MCNetwork == {n1}
MCNetworkOf == [s \in MCSession |-> n1]
MCLimit == [session |-> 1, network |-> 2, global |-> 3]
MCDbIsolate == {d1, d2}
MCVisitor == {u1, u2, u3}
MCServedBy == [v \in MCVisitor |-> IF v = u3 THEN d2 ELSE d1]
MCKey == {k1, k2}
MCIsolate == {i1, i2}
MCVerifier == {v1}

Symmetry == Permutations(MCRequest) \cup Permutations(MCSession)
            \cup Permutations({u1, u2}) \cup Permutations(MCIsolate)

EdgeInit ==
  /\ part \in {"limiter", "database", "keys"}
  /\ Init
  /\ KeysInit
  /\ DatabaseInit
  /\ part # "database" => schema = "absent"

EdgeNext ==
  /\ UNCHANGED part
  /\ \/ part = "limiter" /\ Next /\ UNCHANGED <<dbVars, keysVars>>
     \/ part = "database" /\ DatabaseNext /\ UNCHANGED <<vars, keysVars>>
     \/ part = "keys" /\ KeysNext /\ UNCHANGED <<vars, dbVars>>

EdgeSpec == EdgeInit /\ [][EdgeNext]_<<part, vars, dbVars, keysVars>>
=============================================================================
