----------------------------- MODULE MCRouting ------------------------------
(* Instances of Routing for TLC: SPORE, a node a and a node b, each with a *)
(* command x, so that the bare suffix x is contested; SPORE has two more   *)
(* that share a suffix g (permission.grant and security.keyring.grant do); *)
(* a is a developer node, whose manifest may gain and lose a command y;    *)
(* and b has a command bax whose name ends in the full name ax.            *)
EXTENDS Routing, TLC

CONSTANTS S, a, b,                   \* nodes
          Sx, Sp, Sk, ax, ay, bx, bax,   \* full names
          x, y, g                    \* bare suffixes

MCKeysOf == (Sx :> {Sx, x}) @@ (Sp :> {Sp, g}) @@ (Sk :> {Sk, g})
            @@ (ax :> {ax, x}) @@ (ay :> {ay, y}) @@ (bx :> {bx, x}) @@ (bax :> {bax, ax, x})
MCManifests == (S :> {{Sx, Sp, Sk}}) @@ (a :> {{ax}, {ax, ay}}) @@ (b :> {{bx, bax}})
=============================================================================
