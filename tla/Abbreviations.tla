--------------------------- MODULE Abbreviations ---------------------------
(***************************************************************************)
(* The index of abbreviations of bus/abbreviation.go, of which the bus has *)
(* one for commands (Routing.tla) and one for topics.                      *)
(*                                                                         *)
(* A fully qualified name is a member of Name and a key that a caller may  *)
(* write a member of Key; KeysOf[f] is suffixesOf(f).  The list of         *)
(* contenders of a key is kept as the number of times each name occurs in  *)
(* it: its order shows in one error text only.                             *)
(***************************************************************************)
EXTENDS Naturals, FiniteSets

CONSTANTS
    Name,    \* fully qualified names
    Key,     \* what a caller may write
    KeysOf,  \* the dot-suffixes of each name
    None

VARIABLES
    abbreviations,  \* idx.abbreviations: key -> name
    collisions      \* idx.collisions: key -> occurrences of each contender

Nobody == [f \in Name |-> 0]
Contested(k) == collisions[k] # Nobody

\* len(remaining) == 1, and f is the one that remains.
OnlyOccurrence(claims, f) == claims = [Nobody EXCEPT ![f] = 1]

\* (A slip: bind forgets who contends for a key.)
BoundToNobody(k, f) == Nobody

\* bind: what a key holds once f has claimed it.
BoundAbbreviation(k, f) ==
    IF Contested(k) \/ abbreviations[k] \notin {None, f} THEN None ELSE f
BoundCollisions(k, f) ==
    IF Contested(k) THEN [collisions[k] EXCEPT ![f] = @ + 1]
    ELSE IF abbreviations[k] \notin {None, f}
         THEN [Nobody EXCEPT ![abbreviations[k]] = 1, ![f] = 1]
         ELSE Nobody

\* (A slip: unbind removes one occurrence of the name instead of all.)
RemainingButOne(k, f) == [collisions[k] EXCEPT ![f] = @ - 1]

\* unbind: what a key holds once f has given it up.
Remaining(k, f) == [collisions[k] EXCEPT ![f] = 0]
UnboundAbbreviation(k, f) ==
    IF Contested(k)
    THEN IF \E g \in Name : OnlyOccurrence(Remaining(k, f), g)
         THEN CHOOSE g \in Name : OnlyOccurrence(Remaining(k, f), g)
         ELSE abbreviations[k]
    ELSE IF abbreviations[k] = f THEN None ELSE abbreviations[k]
UnboundCollisions(k, f) ==
    IF \E g \in Name : OnlyOccurrence(Remaining(k, f), g)
    THEN Nobody ELSE Remaining(k, f)

\* add and remove do so for every suffix of the name.
Add(f) ==
    /\ abbreviations' = [k \in Key |-> IF k \in KeysOf[f]
                            THEN BoundAbbreviation(k, f) ELSE abbreviations[k]]
    /\ collisions' = [k \in Key |-> IF k \in KeysOf[f]
                            THEN BoundCollisions(k, f) ELSE collisions[k]]
Remove(f) ==
    /\ abbreviations' = [k \in Key |-> IF k \in KeysOf[f]
                            THEN UnboundAbbreviation(k, f) ELSE abbreviations[k]]
    /\ collisions' = [k \in Key |-> IF k \in KeysOf[f]
                            THEN UnboundCollisions(k, f) ELSE collisions[k]]

\* resolve: the name a key stands for, or None if it is free or ambiguous.
Resolve(k) == IF Contested(k) THEN None ELSE abbreviations[k]

(* The names that lay claim to a key, as the index has them.               *)
Claimants(k) ==
    IF Contested(k) THEN {f \in Name : collisions[k][f] > 0}
    ELSE {abbreviations[k]} \ {None}
=============================================================================
