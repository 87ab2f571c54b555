--------------------------- MODULE MeasuredAuditsMC ---------------------------
(* Small instances of MeasuredAudits for TLC.  No symmetry where liveness is     *)
(* checked.                                                                      *)
EXTENDS MeasuredAudits, TLC

Symmetry == Permutations(Worker) \cup Permutations(Audit) \cup Permutations(Key)
=============================================================================
