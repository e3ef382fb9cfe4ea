----------------------------- MODULE MCGpuVmOps -----------------------------
(* Model-checking instance of GpuVmOps.  Callers are interchangeable.      *)
EXTENDS GpuVmOps

Symmetry == Permutations(Callers)
=============================================================================
