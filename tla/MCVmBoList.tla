----------------------------- MODULE MCVmBoList -----------------------------
(* Model-checking instance of VmBoList.  The memory of the vm_bos, the     *)
(* walkers and the clients are interchangeable.                            *)
EXTENDS VmBoList, TLC

Symmetry == Permutations(VmBos) \cup Permutations(Walkers) \cup Permutations(Clients)
=============================================================================
