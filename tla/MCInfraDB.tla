------------------------------ MODULE MCInfraDB ------------------------------
(* Small instances of InfraDB for TLC.                                       *)
EXTENDS InfraDB, TLC

\* Objects of a kind, VNIs and addresses are interchangeable.
Symmetric == Permutations(Vrf) \cup Permutations(Lb) \cup Permutations(Svi)
             \cup Permutations(Bp) \cup Permutations(Vni) \cup Permutations(Mac)
=============================================================================
