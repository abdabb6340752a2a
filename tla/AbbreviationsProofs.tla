------------------------ MODULE AbbreviationsProofs -------------------------
(***************************************************************************)
(* What add, remove and resolve of the index of abbreviations do, in terms *)
(* of the names that lay claim to each key: lemmas for the commands        *)
(* (RoutingProofs.tla) and the topics (FanoutProofs.tla) of the bus.       *)
(***************************************************************************)
EXTENDS Abbreviations, TLAPS

IndexTypeOK ==
    /\ abbreviations \in [Key -> Name \cup {None}]
    /\ collisions \in [Key -> [Name -> Nat]]

(* What the index holds for one key after bind and unbind.                 *)

\* The names that a pair of table entries gives a claim to.
ClaimsOf(abbreviation, claims) ==
    IF claims # Nobody THEN {f \in Name : claims[f] > 0}
    ELSE {abbreviation} \ {None}

\* A contested key has no abbreviation and at least two occurrences.
KeyInv(abbreviation, claims) ==
    claims # Nobody =>
        /\ abbreviation = None
        /\ \A g \in Name : ~ OnlyOccurrence(claims, g)

\* bind adds a name to the claimants of a key, whatever its list of contenders.
LEMMA BindAdds ==
    ASSUME IndexTypeOK, None \notin Name, NEW k \in Key, NEW f \in Name,
           KeyInv(abbreviations[k], collisions[k])
    PROVE  /\ BoundAbbreviation(k, f) \in Name \cup {None}
           /\ BoundCollisions(k, f) \in [Name -> Nat]
           /\ KeyInv(BoundAbbreviation(k, f), BoundCollisions(k, f))
           /\ ClaimsOf(BoundAbbreviation(k, f), BoundCollisions(k, f))
              = Claimants(k) \cup {f}
<1> DEFINE A == abbreviations[k]
           C == collisions[k]
<1>0. /\ A \in Name \cup {None} /\ C \in [Name -> Nat] /\ None \notin Name
      /\ Nobody \in [Name -> Nat] /\ \A g \in Name : Nobody[g] = 0
  BY DEF IndexTypeOK, Nobody
<1>1. CASE Contested(k)
  <2>1. /\ BoundAbbreviation(k, f) = None
        /\ BoundCollisions(k, f) = [C EXCEPT ![f] = @ + 1]
    BY <1>1 DEF BoundAbbreviation, BoundCollisions
  <2> DEFINE D == [C EXCEPT ![f] = @ + 1]
  <2>2. D \in [Name -> Nat] /\ D[f] = C[f] + 1 /\ \A g \in Name \ {f} : D[g] = C[g]
    BY <1>0
  <2>3. D # Nobody
    BY <1>0, <2>2
  <2>4. PICK h \in Name : C[h] # 0
    BY <1>0, <1>1 DEF Contested
  <2>5. \A g \in Name : ~ OnlyOccurrence(D, g)
    <3> SUFFICES ASSUME NEW g \in Name, D = [Nobody EXCEPT ![g] = 1]
                 PROVE  FALSE
      BY DEF OnlyOccurrence
    <3>1. D[g] = 1 /\ \A i \in Name \ {g} : D[i] = 0
      BY <1>0
    <3>2. f = g
      BY <1>0, <2>2, <3>1
    <3>3. C[f] = 0 /\ \A i \in Name \ {f} : C[i] = 0
      BY <1>0, <2>2, <3>1, <3>2
    <3>4. QED
      BY <2>4, <3>3
  <2>6. {g \in Name : D[g] > 0} = {g \in Name : C[g] > 0} \cup {f}
    BY <1>0, <2>2
  <2>7. QED
    BY <1>0, <1>1, <2>1, <2>2, <2>3, <2>5, <2>6
       DEF KeyInv, ClaimsOf, Claimants
<1>2. CASE ~ Contested(k) /\ A \notin {None, f}
  <2> DEFINE D == [Nobody EXCEPT ![A] = 1, ![f] = 1]
  <2>1. BoundAbbreviation(k, f) = None /\ BoundCollisions(k, f) = D
    BY <1>2 DEF BoundAbbreviation, BoundCollisions
  <2>2. /\ D \in [Name -> Nat] /\ D[A] = 1 /\ D[f] = 1
        /\ \A g \in Name \ {A, f} : D[g] = 0
    BY <1>0, <1>2
  <2>3. D # Nobody
    BY <1>0, <2>2
  <2>4. \A g \in Name : ~ OnlyOccurrence(D, g)
    <3> SUFFICES ASSUME NEW g \in Name, D = [Nobody EXCEPT ![g] = 1]
                 PROVE  FALSE
      BY DEF OnlyOccurrence
    <3>1. \A i \in Name \ {g} : D[i] = 0
      BY <1>0
    <3>2. QED
      BY <1>0, <1>2, <2>2, <3>1
  <2>5. {g \in Name : D[g] > 0} = {A, f}
    BY <1>0, <1>2, <2>2
  <2>6. Claimants(k) = {A}
    BY <1>0, <1>2 DEF Claimants
  <2>7. ClaimsOf(None, D) = Claimants(k) \cup {f}
    BY <2>3, <2>5, <2>6 DEF ClaimsOf
  <2>8. KeyInv(None, D)
    BY <2>4 DEF KeyInv
  <2>9. QED
    BY <2>1, <2>2, <2>7, <2>8
<1>3. CASE ~ Contested(k) /\ A \in {None, f}
  <2>1. BoundAbbreviation(k, f) = f /\ BoundCollisions(k, f) = Nobody
    BY <1>3 DEF BoundAbbreviation, BoundCollisions
  <2>2. QED
    BY <1>0, <1>3, <2>1 DEF KeyInv, ClaimsOf, Claimants
<1>4. QED
  BY <1>1, <1>2, <1>3

\* unbind removes it, all its occurrences.
LEMMA UnbindRemoves ==
    ASSUME IndexTypeOK, None \notin Name, NEW k \in Key, NEW f \in Name,
           KeyInv(abbreviations[k], collisions[k])
    PROVE  /\ UnboundAbbreviation(k, f) \in Name \cup {None}
           /\ UnboundCollisions(k, f) \in [Name -> Nat]
           /\ KeyInv(UnboundAbbreviation(k, f), UnboundCollisions(k, f))
           /\ ClaimsOf(UnboundAbbreviation(k, f), UnboundCollisions(k, f))
              = Claimants(k) \ {f}
<1> DEFINE A == abbreviations[k]
           C == collisions[k]
           R == Remaining(k, f)
<1>0. /\ A \in Name \cup {None} /\ C \in [Name -> Nat] /\ None \notin Name
      /\ Nobody \in [Name -> Nat] /\ \A g \in Name : Nobody[g] = 0
      /\ R \in [Name -> Nat] /\ R[f] = 0 /\ \A g \in Name \ {f} : R[g] = C[g]
  BY DEF IndexTypeOK, Nobody, Remaining
<1>1. {g \in Name : R[g] > 0} = {g \in Name : C[g] > 0} \ {f}
  BY <1>0
<1>2. CASE ~ Contested(k)
  <2>1. C = Nobody /\ R = Nobody
    BY <1>0, <1>2 DEF Contested
  <2>2. \A g \in Name : ~ OnlyOccurrence(R, g)
    <3> SUFFICES ASSUME NEW g \in Name, R = [Nobody EXCEPT ![g] = 1]
                 PROVE  FALSE
      BY DEF OnlyOccurrence
    <3>1. R[g] = 1
      BY <1>0
    <3>2. QED
      BY <1>0, <2>1, <3>1
  <2>3. /\ UnboundCollisions(k, f) = Nobody
        /\ UnboundAbbreviation(k, f) = IF A = f THEN None ELSE A
    BY <1>2, <2>1, <2>2 DEF UnboundCollisions, UnboundAbbreviation
  <2>4. QED
    BY <1>0, <1>2, <2>3 DEF KeyInv, ClaimsOf, Claimants
<1>3. CASE Contested(k) /\ \E g \in Name : OnlyOccurrence(R, g)
  <2>1. PICK g \in Name : OnlyOccurrence(R, g)
    BY <1>3
  <2>2. R[g] = 1 /\ \A h \in Name \ {g} : R[h] = 0
    BY <1>0, <2>1 DEF OnlyOccurrence
  <2>3. \A h \in Name : OnlyOccurrence(R, h) => h = g
    <3> SUFFICES ASSUME NEW h \in Name, R = [Nobody EXCEPT ![h] = 1]
                 PROVE  h = g
      BY DEF OnlyOccurrence
    <3>1. R[h] = 1
      BY <1>0
    <3>2. QED
      BY <2>2, <3>1
  <2>4. UnboundCollisions(k, f) = Nobody /\ UnboundAbbreviation(k, f) = g
    BY <1>3, <2>1, <2>3 DEF UnboundCollisions, UnboundAbbreviation
  <2>5. {h \in Name : R[h] > 0} = {g}
    BY <1>0, <2>2
  <2>6. QED
    BY <1>0, <1>1, <1>3, <2>4, <2>5 DEF KeyInv, ClaimsOf, Claimants
<1>4. CASE Contested(k) /\ ~ \E g \in Name : OnlyOccurrence(R, g)
  <2>1. UnboundCollisions(k, f) = R /\ UnboundAbbreviation(k, f) = A /\ A = None
    BY <1>4 DEF UnboundCollisions, UnboundAbbreviation, KeyInv, Contested
  <2>2. CASE R # Nobody
    BY <1>0, <1>1, <1>4, <2>1, <2>2 DEF KeyInv, ClaimsOf, Claimants
  <2>3. CASE R = Nobody
    <3>1. {g \in Name : R[g] > 0} = {}
      BY <1>0, <2>3
    <3>2. QED
      BY <1>0, <1>1, <1>4, <2>1, <2>3, <3>1 DEF KeyInv, ClaimsOf, Claimants
  <2>4. QED
    BY <2>2, <2>3
<1>5. QED
  BY <1>2, <1>3, <1>4

-----------------------------------------------------------------------------
(* The index as a whole.                                                   *)

IndexSound ==
    /\ IndexTypeOK
    /\ \A k \in Key : KeyInv(abbreviations[k], collisions[k])

\* add gives every suffix of a name to it, beside those that claim it already.
LEMMA AddClaims ==
    ASSUME IndexSound, None \notin Name, NEW f \in Name, Add(f)
    PROVE  /\ IndexSound'
           /\ \A k \in Key : Claimants(k)' =
                 IF k \in KeysOf[f] THEN Claimants(k) \cup {f} ELSE Claimants(k)
<1>1. ASSUME NEW k \in Key
      PROVE  /\ abbreviations'[k] \in Name \cup {None}
             /\ collisions'[k] \in [Name -> Nat]
             /\ KeyInv(abbreviations'[k], collisions'[k])
             /\ ClaimsOf(abbreviations'[k], collisions'[k])
                = IF k \in KeysOf[f] THEN Claimants(k) \cup {f} ELSE Claimants(k)
  <2>1. CASE k \in KeysOf[f]
    <3>1. /\ abbreviations'[k] = BoundAbbreviation(k, f)
          /\ collisions'[k] = BoundCollisions(k, f)
      BY <2>1 DEF Add
    <3>2. QED
      BY <2>1, <3>1, BindAdds DEF IndexSound
  <2>2. CASE k \notin KeysOf[f]
    <3>1. abbreviations'[k] = abbreviations[k] /\ collisions'[k] = collisions[k]
      BY <2>2 DEF Add
    <3>2. QED
      BY <2>2, <3>1 DEF IndexSound, IndexTypeOK, ClaimsOf, Claimants, Contested
  <2>3. QED
    BY <2>1, <2>2
<1>2. \A k \in Key : Claimants(k)' = ClaimsOf(abbreviations'[k], collisions'[k])
  BY DEF Claimants, ClaimsOf, Contested
<1>3. abbreviations' \in [Key -> Name \cup {None}]
  BY <1>1 DEF Add
<1>4. collisions' \in [Key -> [Name -> Nat]]
  BY <1>1 DEF Add
<1>5. QED
  BY <1>1, <1>2, <1>3, <1>4 DEF IndexSound, IndexTypeOK

\* remove takes a name from all its suffixes.
LEMMA RemoveClaims ==
    ASSUME IndexSound, None \notin Name, NEW f \in Name, Remove(f)
    PROVE  /\ IndexSound'
           /\ \A k \in Key : Claimants(k)' =
                 IF k \in KeysOf[f] THEN Claimants(k) \ {f} ELSE Claimants(k)
<1>1. ASSUME NEW k \in Key
      PROVE  /\ abbreviations'[k] \in Name \cup {None}
             /\ collisions'[k] \in [Name -> Nat]
             /\ KeyInv(abbreviations'[k], collisions'[k])
             /\ ClaimsOf(abbreviations'[k], collisions'[k])
                = IF k \in KeysOf[f] THEN Claimants(k) \ {f} ELSE Claimants(k)
  <2>1. CASE k \in KeysOf[f]
    <3>1. /\ abbreviations'[k] = UnboundAbbreviation(k, f)
          /\ collisions'[k] = UnboundCollisions(k, f)
      BY <2>1 DEF Remove
    <3>2. QED
      BY <2>1, <3>1, UnbindRemoves DEF IndexSound
  <2>2. CASE k \notin KeysOf[f]
    <3>1. abbreviations'[k] = abbreviations[k] /\ collisions'[k] = collisions[k]
      BY <2>2 DEF Remove
    <3>2. QED
      BY <2>2, <3>1 DEF IndexSound, IndexTypeOK, ClaimsOf, Claimants, Contested
  <2>3. QED
    BY <2>1, <2>2
<1>2. \A k \in Key : Claimants(k)' = ClaimsOf(abbreviations'[k], collisions'[k])
  BY DEF Claimants, ClaimsOf, Contested
<1>3. abbreviations' \in [Key -> Name \cup {None}]
  BY <1>1 DEF Remove
<1>4. collisions' \in [Key -> [Name -> Nat]]
  BY <1>1 DEF Remove
<1>5. QED
  BY <1>1, <1>2, <1>3, <1>4 DEF IndexSound, IndexTypeOK

\* The name that a key resolves to is the only one with a claim to it.
LEMMA ResolvesToClaimant ==
    ASSUME IndexSound, NEW k \in Key, Resolve(k) # None
    PROVE  Resolve(k) \in Name /\ Claimants(k) = {Resolve(k)}
BY DEF IndexSound, IndexTypeOK, Resolve, Claimants

\* An index that nothing was added to.
LEMMA EmptyIndex ==
    ASSUME abbreviations = [k \in Key |-> None],
           collisions = [k \in Key |-> Nobody]
    PROVE  IndexSound /\ \A k \in Key : Claimants(k) = {}
<1>1. Nobody \in [Name -> Nat]
  BY DEF Nobody
<1>2. \A k \in Key : ~ Contested(k)
  BY DEF Contested
<1>3. QED
  BY <1>1, <1>2 DEF IndexSound, IndexTypeOK, KeyInv, Claimants, Contested
=============================================================================
