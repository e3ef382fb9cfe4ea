---------------------------- MODULE MCRenderSlots ----------------------------
EXTENDS RenderSlots, TLC
Symmetry == Permutations(Resources) \cup Permutations(Sizes) \cup Permutations(Entries)
=============================================================================
