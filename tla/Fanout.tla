------------------------------- MODULE Fanout -------------------------------
(***************************************************************************)
(* What one message of the hub does to many nodes: publications that go to *)
(* subscribers (Topics.tla), and messages that go to witnesses             *)
(* (Witness.tla).  The two share no state (Send never waits, and the       *)
(* channel is read by one goroutine), so a step of one commutes with every *)
(* step of the other, and each is followed from the initial state of the   *)
(* other only.                                                             *)
(***************************************************************************)
EXTENDS Topics, Witness

vars == <<topicsVars, witnessVars>>

Init == TopicsInit /\ WitnessInit

Next ==
    \/ WitnessInit /\ TopicsNext /\ UNCHANGED witnessVars
    \/ TopicsInit /\ WitnessNext /\ UNCHANGED topicsVars

Spec == Init /\ [][Next]_vars
=============================================================================
