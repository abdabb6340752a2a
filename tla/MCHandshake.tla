---------------------------- MODULE MCHandshake ----------------------------
(* Instances of Handshake for TLC.                                         *)
EXTENDS Handshake, TLC

CONSTANTS id, trust, more, good, added, trusting, garbage

\* A manifest, one with a key more, a developer's, and one that breaks off.
Keys ==
    good :> {id} @@ added :> {id, more} @@ trusting :> {id, trust}
        @@ garbage :> {id}

Symmetry == Permutations(Conn)
=============================================================================
