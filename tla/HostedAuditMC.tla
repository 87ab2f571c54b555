---------------------------- MODULE HostedAuditMC ----------------------------
(* Small instances of HostedAudit for TLC. *)
EXTENDS HostedAudit, TLC

Symmetry == Permutations(Handler) \cup Permutations(Audit) \cup Permutations(IdemKey)
            \cup Permutations(Capability) \cup Permutations(Lease)
=============================================================================
