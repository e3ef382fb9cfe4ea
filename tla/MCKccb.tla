------------------------------- MODULE MCKccb -------------------------------
(* Model-checking instance of Kccb: the clients are model values.          *)
EXTENDS Kccb, TLC

ClientSymmetry == Permutations(Senders) \cup Permutations(Jobs)
=============================================================================
