---------------------------- MODULE MCFragQueue ----------------------------
(* Model-checking instance of FragQueue.                                   *)
EXTENDS FragQueue

\* Bound: submissions with native dependencies come after, and among, full
\* submissions whose partial render is not combined.
DependenciesOfFull ==
    \/ \A j \in DOMAIN deps : deps[j] = 0
    \/ \A n \in DOMAIN sub : sub[n].kind = "full" /\ ~sub[n].same
=============================================================================
