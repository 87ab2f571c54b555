----------------------------- MODULE LocalAuditsMC -----------------------------
(***************************************************************************)
(* Small instances for TLC of what a local audit waits for: a human's      *)
(* decision and its one run (MeasuredAudits), and, in the run of a         *)
(* checkout, the delayed effects of each route (CheckoutSettlement).  The  *)
(* two share no state: a behaviour is one of one of them.                  *)
(***************************************************************************)
EXTENDS MeasuredAudits, CheckoutSettlement

CONSTANTS human, agent1, agent2

VARIABLE part

MCCharging == {agent1, agent2}
MCDelays == 1 .. 5                    \* around PollInterval, and around Timeout

LocalInit ==
  /\ part \in {"audits", "settlement"}
  /\ Init /\ SettlementInit
  /\ part # "settlement" => lanes = 1 /\ delay = 1

LocalNext ==
  /\ UNCHANGED part
  /\ \/ part = "audits" /\ Next /\ UNCHANGED settlementVars
     \/ part = "settlement" /\ SettlementNext /\ UNCHANGED vars

LocalSpec ==
  LocalInit /\ [][LocalNext]_<<part, vars, settlementVars>> /\ Fairness /\ SettlementFairness
=============================================================================
