--------------------------- MODULE TrustGatewayMC ---------------------------
(* Small instances of TrustGateway for TLC. *)
EXTENDS TrustGateway, FiniteSetsExt, TLC

CONSTANTS p1, p2, d1, d2, k1, j1, j2, j3, pay, buy

MCProc == {p1, p2}
MCDelegation == {d1, d2}
MCLimited == {d1}                     \* d2 was issued without max_amount
MCKey == {k1}
MCJob == {j1, j2, j3}
MCOp == {pay, buy}                    \* pay asks a human, buy does not
MCNeedsApproval == {pay}
MCPermitted == {<<d1, pay>>, <<d1, buy>>, <<d2, buy>>}   \* pay is out of the scope of d2
MCAmount == (pay :> 2 @@ buy :> 1)
MCLimit == [d \in MCDelegation |-> 3]  \* two pays do not fit, a pay and a buy do

MCReservation == MCKey \cup MCJob
MCTotal == [f \in [MCReservation -> {0, 1, 2}] |-> MapThenSumSet(LAMBDA r : f[r], MCReservation)]

Symmetry == Permutations(MCProc) \cup Permutations(MCJob)
=============================================================================
