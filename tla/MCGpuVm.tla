------------------------------ MODULE MCGpuVm ------------------------------
EXTENDS GpuVm, TLC

BinderSymmetry == Permutations(Binders) \cup Permutations(Objects)
=============================================================================
