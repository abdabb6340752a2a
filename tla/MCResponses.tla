---------------------------- MODULE MCResponses ----------------------------
(* Instances of Responses for TLC.                                         *)
EXTENDS Responses, TLC

CONSTANTS r1, r2, r3, r4, h1, h2, h3

\* The nodes choose h1 or h2 on their own; the hub counted h3 up for r4.
MixedHandles ==
    [r \in Request |-> IF r = r4 THEN {h3} ELSE {h1, h2}]

Symmetry == Permutations(Request \ {r4}) \cup Permutations(Node)
=============================================================================
