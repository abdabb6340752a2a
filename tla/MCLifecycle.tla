---------------------------- MODULE MCLifecycle -----------------------------
(* Instances of Lifecycle for TLC.                                         *)
EXTENDS Lifecycle, TLC

CONSTANTS m, n, c

MCWanted == (m :> {c}) @@ (n :> {})
Symmetry == Permutations(Job)
=============================================================================
