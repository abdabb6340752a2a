------------------------------ MODULE MCFanout ------------------------------
(* Instances of Fanout for TLC: m announces mx and n announces nx.         *)
(* `careful' writes full names and waits for its answers, and may have one *)
(* of the topics only; `hasty' writes the bare name, and its requests      *)
(* overlap.                                                                *)
EXTENDS Fanout, TLC

CONSTANTS m, n, careful, hasty, mx, nx, x

MCEnds == (mx :> {mx, x}) @@ (nx :> {nx, x}) @@ (x :> {x})
MCKeysOf == [f \in Name |-> MCEnds[f]]
MCTopic == (m :> mx) @@ (n :> nx)
MCShort == (mx :> x) @@ (nx :> x)
MCUses == (careful :> {mx, nx}) @@ (hasty :> {x})
MCGrants == (careful :> {mx}) @@ (hasty :> {x})
Symmetry == Permutations(Job)
=============================================================================
