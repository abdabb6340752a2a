------------------------------- MODULE MCAsks -------------------------------
(* Instances of Asks for TLC.                                              *)
EXTENDS Asks, TLC

CONSTANTS own, pipe, other, hyphae, h1, h2, h3, h4, l1

\* A pipe with handles of its own, two whose callers chose one handle (one of
\* them with timeout=false), and a call to HYPHAE.
PipesAndCalls ==
    own :> <<"ask", "ask", "last">> @@ pipe :> <<"ask", "local">>
        @@ other :> <<"ask">> @@ hyphae :> <<"ask">>
PipesAndCallsHandles ==
    own :> <<{h1}, {h2}, {}>> @@ pipe :> <<{h3}, {}>>
        @@ other :> <<{h3}>> @@ hyphae :> <<{h4}>>

\* Targets may answer the first pipe twice.
TwiceForOwn == [p \in Client |-> IF p = own THEN 2 ELSE 1]

\* HYPHAE's own listener makes the call to HYPHAE.
OnListener == [p \in Client |-> IF p = hyphae THEN l1 ELSE None]
ServedBy == [p \in Client |-> IF p \in {hyphae, own} THEN l1 ELSE None]
=============================================================================
