--------------------------- MODULE RoutingProofs ----------------------------
(***************************************************************************)
(* Proofs about the routing of commands, for every set of nodes, names and *)
(* suffixes, and any number of repeated registrations.                     *)
(***************************************************************************)
EXTENDS Routing, AbbreviationsProofs

(* The typed state, the loaded manifests and the exact index together.     *)

\* A loop over a manifest works on commands that the manifest declares, and
\* SPORE's is never unregistered.
WriterInv ==
    writer.op # "none" =>
        /\ writer.node \in Node
        /\ \E S \in Manifests[writer.node] : writer.todo \subseteq S
        /\ writer.op = "unregister" => writer.node # Spore

IndexInv ==
    /\ TypeOK
    /\ \A n \in Node : manifest[n] \in Manifests[n]
    /\ WriterInv
    /\ \A k \in Key : KeyInv(abbreviations[k], collisions[k])
    /\ IndexExact

\* Actions that leave the tables alone keep what is said of them.
LEMMA TablesUnchanged ==
    ASSUME IndexInv, UNCHANGED <<commands, abbreviations, collisions>>, TypeOK',
           WriterInv', \A n \in Node : manifest'[n] \in Manifests[n]
    PROVE  IndexInv'
BY DEF IndexInv, IndexExact, Claimants, Contested

\* One command bound: every key of its name gains it.
LEMMA AddKeepsIndex ==
    ASSUME IndexInv, NEW f \in Name, NEW n \in Node, Add(f),
           commands' = [commands EXCEPT ![f] = n]
    PROVE  /\ abbreviations' \in [Key -> Name \cup {None}]
           /\ collisions' \in [Key -> [Name -> Nat]]
           /\ \A k \in Key : KeyInv(abbreviations[k], collisions[k])'
           /\ IndexExact'
<1>1. IndexSound' /\ \A k \in Key : Claimants(k)' =
         IF k \in KeysOf[f] THEN Claimants(k) \cup {f} ELSE Claimants(k)
  BY RoutingAssumption, AddClaims DEF IndexInv, TypeOK, IndexSound, IndexTypeOK
<1>2. \A g \in Name : commands'[g] # None <=> commands[g] # None \/ g = f
  BY RoutingAssumption DEF IndexInv, TypeOK
<1>3. ASSUME NEW k \in Key
      PROVE  Claimants(k)' = {g \in Name : commands'[g] # None /\ k \in KeysOf[g]}
  <2>1. Claimants(k) = {g \in Name : commands[g] # None /\ k \in KeysOf[g]}
    BY DEF IndexInv, IndexExact
  <2>2. CASE k \in KeysOf[f]
    BY <1>1, <1>2, <2>1, <2>2
  <2>3. CASE k \notin KeysOf[f]
    BY <1>1, <1>2, <2>1, <2>3
  <2>4. QED
    BY <2>2, <2>3
<1>4. QED
  BY <1>1, <1>3 DEF IndexSound, IndexTypeOK, IndexExact

\* One command unbound: every key of its name loses it.
LEMMA RemoveKeepsIndex ==
    ASSUME IndexInv, NEW f \in Name, Remove(f),
           commands' = [commands EXCEPT ![f] = None]
    PROVE  /\ abbreviations' \in [Key -> Name \cup {None}]
           /\ collisions' \in [Key -> [Name -> Nat]]
           /\ \A k \in Key : KeyInv(abbreviations[k], collisions[k])'
           /\ IndexExact'
<1>1. IndexSound' /\ \A k \in Key : Claimants(k)' =
         IF k \in KeysOf[f] THEN Claimants(k) \ {f} ELSE Claimants(k)
  BY RoutingAssumption, RemoveClaims DEF IndexInv, TypeOK, IndexSound, IndexTypeOK
<1>2. \A g \in Name : commands'[g] # None <=> commands[g] # None /\ g # f
  BY RoutingAssumption DEF IndexInv, TypeOK
<1>3. ASSUME NEW k \in Key
      PROVE  Claimants(k)' = {g \in Name : commands'[g] # None /\ k \in KeysOf[g]}
  <2>1. Claimants(k) = {g \in Name : commands[g] # None /\ k \in KeysOf[g]}
    BY DEF IndexInv, IndexExact
  <2>2. CASE k \in KeysOf[f]
    BY <1>1, <1>2, <2>1, <2>2
  <2>3. CASE k \notin KeysOf[f]
    BY <1>1, <1>2, <2>1, <2>3
  <2>4. QED
    BY <2>2, <2>3
<1>4. QED
  BY <1>1, <1>3 DEF IndexSound, IndexTypeOK, IndexExact

\* Every step keeps the index exact, in the middle of a loop as well.
LEMMA IndexInductive ==
    ASSUME IndexInv, [Next]_vars
    PROVE  IndexInv'
<1> USE RoutingAssumption
<1> DEFINE Loaded == \A m \in Node : manifest[m] \in Manifests[m]
<1>1. ASSUME NEW n \in Node, Load(n) PROVE IndexInv'
  <2>1. TypeOK' /\ Loaded' /\ WriterInv'
    BY <1>1 DEF Load, IndexInv, TypeOK, WriterInv
  <2>2. QED
    BY <1>1, <2>1, TablesUnchanged DEF Load
<1>2. ASSUME NEW n \in Node, BeginRegister(n) \/ BeginUnregister(n)
      PROVE  IndexInv'
  <2>1. TypeOK' /\ Loaded' /\ WriterInv'
    BY <1>2 DEF BeginRegister, BeginUnregister, IndexInv, TypeOK, WriterInv
  <2>2. QED
    BY <1>2, <2>1, TablesUnchanged DEF BeginRegister, BeginUnregister
<1>3. ASSUME NEW f \in Name, RegisterCommand(f) PROVE IndexInv'
  <2>1. /\ commands' = [commands EXCEPT ![f] = writer.node] /\ Add(f)
        /\ writer.node \in Node
    BY <1>3 DEF RegisterCommand, IndexInv, WriterInv
  <2>2. /\ abbreviations' \in [Key -> Name \cup {None}]
        /\ collisions' \in [Key -> [Name -> Nat]]
        /\ \A k \in Key : KeyInv(abbreviations[k], collisions[k])'
        /\ IndexExact'
    BY <2>1, AddKeepsIndex
  <2>3. TypeOK' /\ Loaded' /\ WriterInv'
    BY <1>3, <2>1, <2>2 DEF RegisterCommand, IndexInv, TypeOK, WriterInv
  <2>4. QED
    BY <2>2, <2>3 DEF IndexInv
<1>4. ASSUME NEW f \in Name, UnregisterCommand(f) PROVE IndexInv'
  <2>1. commands' = [commands EXCEPT ![f] = None] /\ Remove(f)
    BY <1>4 DEF UnregisterCommand
  <2>2. /\ abbreviations' \in [Key -> Name \cup {None}]
        /\ collisions' \in [Key -> [Name -> Nat]]
        /\ \A k \in Key : KeyInv(abbreviations[k], collisions[k])'
        /\ IndexExact'
    BY <2>1, RemoveKeepsIndex
  <2>3. TypeOK' /\ Loaded' /\ WriterInv'
    BY <1>4, <2>2 DEF UnregisterCommand, IndexInv, TypeOK, WriterInv
  <2>4. QED
    BY <2>2, <2>3 DEF IndexInv
<1>5. ASSUME EndWrite PROVE IndexInv'
  <2>1. TypeOK' /\ Loaded' /\ WriterInv'
    BY <1>5 DEF EndWrite, IndexInv, TypeOK, WriterInv, Idle
  <2>2. QED
    BY <1>5, <2>1, TablesUnchanged DEF EndWrite
<1>6. ASSUME NEW c \in Caller, NEW k \in Key, Lookup(c, k) PROVE IndexInv'
  <2>1. Resolve(k) \in Name
    BY <1>6 DEF Lookup, Resolve, IndexInv, TypeOK
  <2>2. TypeOK' /\ Loaded' /\ WriterInv'
    BY <1>6, <2>1 DEF Lookup, IndexInv, TypeOK, WriterInv
  <2>3. QED
    BY <1>6, <2>2, TablesUnchanged DEF Lookup
<1>7. ASSUME NEW c \in Caller,
             Deny(c) \/ Permit(c) \/ Serve(c) \/ SporeRuns(c) \/ Return(c)
      PROVE  IndexInv'
  <2>1. UNCHANGED <<manifest, nodes, commands, abbreviations, collisions, writer>>
    BY <1>7 DEF Deny, Permit, Serve, SporeRuns, Return
  <2>2. call' \in [Caller -> [at : {"idle", "asking", "sent", "ran"},
                             key : Key \cup {None}, name : Name \cup {None},
                             ran : Name \cup {None}]]
    <3>1. CASE Deny(c) \/ Serve(c) \/ Return(c)
      BY <3>1 DEF Deny, Serve, Return, NoCall, IndexInv, TypeOK
    <3> DEFINE Record == [at : {"idle", "asking", "sent", "ran"},
                          key : Key \cup {None}, name : Name \cup {None},
                          ran : Name \cup {None}]
    <3>0. call \in [Caller -> Record] /\ call[c] \in Record
      BY DEF IndexInv, TypeOK
    <3>2. CASE Permit(c)
      <4>1. [call[c] EXCEPT !.at = "sent"] \in Record
        BY <3>0
      <4>2. call' = [call EXCEPT ![c] = [call[c] EXCEPT !.at = "sent"]]
        BY <3>2 DEF Permit
      <4>3. QED
        BY <3>0, <4>1, <4>2
    <3>3. CASE SporeRuns(c)
      <4>1. PICK f : call' = IF f \in manifest[Spore]
                             THEN [call EXCEPT ![c].at = "ran", ![c].ran = f]
                             ELSE [call EXCEPT ![c] = NoCall]
        BY <3>3 DEF SporeRuns
      <4>2. CASE f \in manifest[Spore]
        <5>1. f \in Name
          BY <4>2, RoutingAssumption DEF IndexInv, TypeOK
        <5>2. [call[c] EXCEPT !.at = "ran", !.ran = f] \in Record
          BY <3>0, <5>1
        <5>3. call' = [call EXCEPT ![c] =
                          [call[c] EXCEPT !.at = "ran", !.ran = f]]
          BY <3>0, <4>1, <4>2
        <5>4. QED
          BY <3>0, <5>2, <5>3
      <4>3. CASE f \notin manifest[Spore]
        BY <3>0, <4>1, <4>3 DEF NoCall
      <4>4. QED
        BY <4>2, <4>3
    <3>4. QED
      BY <1>7, <3>1, <3>2, <3>3
  <2>3. TypeOK' /\ Loaded' /\ WriterInv'
    BY <2>1, <2>2 DEF IndexInv, TypeOK, WriterInv
  <2>4. QED
    BY <2>1, <2>3, TablesUnchanged
<1>8. ASSUME UNCHANGED vars PROVE IndexInv'
  <2>1. TypeOK' /\ Loaded' /\ WriterInv'
    BY <1>8 DEF vars, IndexInv, TypeOK, WriterInv
  <2>2. QED
    BY <1>8, <2>1, TablesUnchanged DEF vars
<1>9. QED
  BY <1>1, <1>2, <1>3, <1>4, <1>5, <1>6, <1>7, <1>8 DEF Next

\* Initially nothing is bound.
LEMMA IndexInitially == Init => IndexInv
<1> SUFFICES ASSUME Init PROVE IndexInv
  OBVIOUS
<1> USE RoutingAssumption
<1>1. TypeOK /\ \A m \in Node : manifest[m] \in Manifests[m]
  BY DEF Init, TypeOK, Nobody, Idle, NoCall
<1>2. WriterInv
  BY DEF Init, WriterInv, Idle
<1>3. (\A k \in Key : KeyInv(abbreviations[k], collisions[k])) /\ IndexExact
  BY DEF Init, KeyInv, IndexExact, Claimants, Contested
<1>4. QED
  BY <1>1, <1>2, <1>3 DEF IndexInv

\* The index is exact in every state.
THEOREM IndexInvariant == Spec => []IndexInv
BY IndexInitially, IndexInductive, PTL DEF Spec

(* The tables of api.go and abbreviation.go stay well-typed.               *)
THEOREM TypeCorrect == Spec => []TypeOK
BY IndexInvariant, PTL DEF IndexInv

(* The index agrees with the table of commands through any order of        *)
(* registrations, repeated registrations and removals (bind, unbind).      *)
THEOREM IndexExactCorrect == Spec => []IndexExact
BY IndexInvariant, PTL DEF IndexInv

(* A key that resolves belongs to exactly one bound command.               *)
LEMMA ResolvesToOnlyClaimant ==
    ASSUME IndexInv, NEW k \in Key, Resolve(k) # None
    PROVE  {f \in Name : commands[f] # None /\ k \in KeysOf[f]} = {Resolve(k)}
BY RoutingAssumption DEF IndexInv, IndexExact, Claimants, Resolve

-----------------------------------------------------------------------------
(* SPORE's commands are registered under names that no other node declares *)
(* and none of them ends in another.                                       *)

SporeCommands == UNION Manifests[Spore]

SporeNamesApart ==
    /\ \A n \in Node \ {Spore} : \A S \in Manifests[n] : S \cap SporeCommands = {}
    /\ \A f, g \in SporeCommands : f \in KeysOf[g] => f = g

\* SPORE's manifest declares SPORE's commands.
LEMMA SporeManifest ==
    ASSUME IndexInv
    PROVE  manifest[Spore] = SporeCommands /\ SporeCommands \subseteq Name
BY RoutingAssumption DEF IndexInv, TypeOK, SporeCommands

\* A request found to be for SPORE stays bound to its name.
SporeInv ==
    /\ \A c \in Caller :
          call[c].at \in {"asking", "sent"} /\ call[c].name \in SporeCommands =>
             /\ commands[call[c].name] # None
             /\ call[c].key \in KeysOf[call[c].name]
    /\ SporeRunsWhatWasPermitted

\* What a caller was permitted is what its key means to SPORE, after every step.
LEMMA SporeInductive ==
    ASSUME SporeNamesApart, IndexInv, SporeInv, [Next]_vars
    PROVE  SporeInv'
<1> USE RoutingAssumption
<1>0. /\ manifest[Spore] = SporeCommands /\ SporeCommands \subseteq Name
      /\ commands \in [Name -> Node \cup {None}]
      /\ DOMAIN call = Caller
  BY SporeManifest DEF IndexInv, TypeOK
<1>1. ASSUME UNCHANGED call,
             \A f \in SporeCommands : commands[f] # None => commands'[f] # None
      PROVE  SporeInv'
  BY <1>1 DEF SporeInv, SporeRunsWhatWasPermitted
<1>2. ASSUME NEW n \in Node, Load(n) \/ BeginRegister(n) \/ BeginUnregister(n)
      PROVE  SporeInv'
  BY <1>1, <1>2 DEF Load, BeginRegister, BeginUnregister
<1>3. ASSUME NEW f \in Name, RegisterCommand(f) PROVE SporeInv'
  <2>1. writer.node # None
    BY <1>3 DEF RegisterCommand, IndexInv, WriterInv
  <2>2. QED
    BY <1>0, <1>1, <1>3, <2>1 DEF RegisterCommand
<1>4. ASSUME NEW f \in Name, UnregisterCommand(f) PROVE SporeInv'
  <2>1. f \notin SporeCommands
    BY <1>4 DEF UnregisterCommand, IndexInv, WriterInv, SporeNamesApart
  <2>2. QED
    BY <1>0, <1>1, <1>4, <2>1 DEF UnregisterCommand
<1>5. ASSUME EndWrite \/ UNCHANGED vars PROVE SporeInv'
  BY <1>1, <1>5 DEF EndWrite, vars
<1>6. ASSUME NEW c \in Caller, NEW k \in Key, Lookup(c, k) PROVE SporeInv'
  <2>1. k \in KeysOf[Resolve(k)] /\ commands[Resolve(k)] # None
    BY <1>6, ResolvesToOnlyClaimant DEF Lookup
  <2>2. QED
    BY <1>0, <1>6, <2>1 DEF Lookup, SporeInv, SporeRunsWhatWasPermitted
<1>7. ASSUME NEW c \in Caller, Deny(c) \/ Serve(c) \/ Return(c) PROVE SporeInv'
  BY <1>0, <1>7 DEF Deny, Serve, Return, NoCall, SporeInv,
                    SporeRunsWhatWasPermitted
<1>8. ASSUME NEW c \in Caller, Permit(c) PROVE SporeInv'
  <2>1. /\ call'[c].at = "sent" /\ call'[c].name = call[c].name
        /\ call'[c].key = call[c].key /\ call[c].at = "asking"
        /\ \A d \in Caller \ {c} : call'[d] = call[d]
        /\ commands' = commands
    BY <1>0, <1>8 DEF Permit, IndexInv, TypeOK
  <2>2. QED
    BY <2>1 DEF SporeInv, SporeRunsWhatWasPermitted
<1>9. ASSUME NEW c \in Caller, SporeRuns(c) PROVE SporeInv'
  <2> DEFINE k == call[c].key
             g == call[c].name
             f == IF Resolve(k) # None THEN Resolve(k) ELSE k
  <2>1. g \in SporeCommands /\ commands[g] # None /\ k \in KeysOf[g]
        /\ k \in Key
    BY <1>0, <1>9 DEF SporeRuns, SporeInv
  <2>2. f \in SporeCommands => f = g
    <3>1. CASE Resolve(k) # None
      <4>1. g \in {h \in Name : commands[h] # None /\ k \in KeysOf[h]}
        BY <1>0, <2>1
      <4>2. QED
        BY <2>1, <3>1, <4>1, ResolvesToOnlyClaimant
    <3>2. CASE Resolve(k) = None
      BY <2>1, <3>2 DEF SporeNamesApart
    <3>3. QED
      BY <3>1, <3>2
  <2>3. CASE f \in SporeCommands
    <3>1. call' = [call EXCEPT ![c] = [call[c] EXCEPT !.at = "ran", !.ran = f]]
      BY <1>0, <1>9, <2>3 DEF SporeRuns
    <3>2. call'[c].at = "ran" /\ call'[c].ran = f /\ call'[c].name = g
      BY <1>0, <3>1 DEF IndexInv, TypeOK
    <3>3. (\A d \in Caller \ {c} : call'[d] = call[d]) /\ commands' = commands
      BY <1>0, <1>9, <3>1 DEF SporeRuns
    <3>4. QED
      BY <2>2, <2>3, <3>2, <3>3 DEF SporeInv, SporeRunsWhatWasPermitted
  <2>4. CASE f \notin SporeCommands
    <3>1. call' = [call EXCEPT ![c] = NoCall] /\ commands' = commands
      BY <1>0, <1>9, <2>4 DEF SporeRuns
    <3>2. QED
      BY <1>0, <3>1 DEF NoCall, SporeInv, SporeRunsWhatWasPermitted
  <2>5. QED
    BY <2>3, <2>4
<1>10. QED
  BY <1>2, <1>3, <1>4, <1>5, <1>6, <1>7, <1>8, <1>9 DEF Next

(* SPORE runs exactly the command that permission was checked for, however *)
(* registrations interleave with the two resolutions of the caller's key.  *)
THEOREM SporeRunsWhatWasPermittedCorrect ==
    ASSUME SporeNamesApart
    PROVE  Spec => []SporeRunsWhatWasPermitted
<1>1. Init => SporeInv
  BY DEF Init, NoCall, SporeInv, SporeRunsWhatWasPermitted
<1>2. IndexInv /\ SporeInv /\ [Next]_vars => SporeInv'
  BY SporeInductive
<1>3. SporeInv => SporeRunsWhatWasPermitted
  BY DEF SporeInv
<1>4. QED
  BY <1>1, <1>2, <1>3, IndexInvariant, PTL DEF Spec

-----------------------------------------------------------------------------
(* The commands of different nodes have different names, each with the id  *)
(* of its node, and a name is a suffix of itself.                          *)

NamesApart ==
    /\ \A m, n \in Node : m # n =>
          (UNION Manifests[m]) \cap (UNION Manifests[n]) = {}
    /\ \A f \in Name : f \in Key /\ f \in KeysOf[f]

\* A name is bound to the node that declares it; what is bound is of a
\* registered node, and what that declares is bound, but for what the writer
\* has still to do.
BoundInv ==
    /\ \A f \in Name : commands[f] # None => f \in UNION Manifests[commands[f]]
    /\ \A f \in Name : commands[f] # None /\ Pinned(commands[f]) =>
          \/ commands[f] \in nodes
          \/ writer.op = "unregister" /\ writer.node = commands[f] /\ f \in writer.todo
    /\ \A n \in nodes : \A f \in manifest[n] : Pinned(n) =>
          \/ commands[f] = n
          \/ writer.op = "register" /\ writer.node = n /\ f \in writer.todo
    /\ writer.op = "register" => writer.node \in nodes
    /\ writer.op = "unregister" => writer.node \notin nodes

\* A key that one name only ends with is contested by nobody.
AloneInv ==
    \A f \in Name : (\A g \in Name \ {f} : f \notin KeysOf[g]) => ~ Contested(f)

\* Steps of callers, and others that leave tables and writer alone.
LEMMA BoundUnchanged ==
    ASSUME BoundInv, AloneInv,
           UNCHANGED <<manifest, nodes, commands, abbreviations, collisions, writer>>
    PROVE  BoundInv' /\ AloneInv'
BY DEF BoundInv, AloneInv, Pinned, Contested

\* Another name's claims are no contest, nor are its own.
LEMMA AloneKeeps ==
    ASSUME NamesApart, IndexInv, AloneInv, NEW g \in Name, Add(g) \/ Remove(g)
    PROVE  AloneInv'
<1> USE RoutingAssumption
<1> SUFFICES ASSUME NEW f \in Name, \A h \in Name \ {f} : f \notin KeysOf[h]
             PROVE  collisions'[f] = Nobody
  BY DEF AloneInv, Contested
<1>1. f \in Key /\ collisions[f] = Nobody /\ abbreviations[f] \in Name \cup {None}
  BY DEF NamesApart, AloneInv, Contested, IndexInv, TypeOK
<1>2. CASE f \notin KeysOf[g]
  BY <1>1, <1>2 DEF Add, Remove
<1>3. CASE f \in KeysOf[g]
  <2>1. abbreviations[f] \in {None, f} /\ g = f
    <3>1. Claimants(f) \subseteq {f}
      BY <1>1 DEF IndexInv, IndexExact
    <3>2. Claimants(f) = {abbreviations[f]} \ {None}
      BY <1>1 DEF Claimants, Contested
    <3>3. QED
      BY <1>3, <3>1, <3>2
  <2>2. CASE Add(g)
    BY <1>1, <1>3, <2>1, <2>2 DEF Add, BoundCollisions, Contested
  <2>3. CASE Remove(g)
    <3>1. Remaining(f, g) = Nobody
      BY <1>1 DEF Remaining, Nobody
    <3>2. UnboundCollisions(f, g) = Nobody
      BY <3>1 DEF UnboundCollisions
    <3>3. QED
      BY <1>1, <1>3, <2>3, <3>2 DEF Remove
  <2>4. QED
    BY <2>2, <2>3
<1>4. QED
  BY <1>2, <1>3

\* Every step of a loop binds or unbinds one command of its node.
LEMMA BoundInductive ==
    ASSUME NamesApart, IndexInv, BoundInv, AloneInv, [Next]_vars
    PROVE  BoundInv' /\ AloneInv'
<1> USE RoutingAssumption
<1>0. /\ manifest \in [Node -> SUBSET Name] /\ nodes \subseteq Node
      /\ commands \in [Name -> Node \cup {None}]
      /\ \A n \in Node : manifest[n] \in Manifests[n]
      /\ \A n \in Node : manifest[n] \subseteq UNION Manifests[n]
  BY DEF IndexInv, TypeOK
<1>1. ASSUME NEW n \in Node, Load(n) PROVE BoundInv' /\ AloneInv'
  <2>1. /\ UNCHANGED <<nodes, commands, abbreviations, collisions, writer>>
        /\ \E S \in Manifests[n] : manifest' = [manifest EXCEPT ![n] = S]
    BY <1>1 DEF Load
  <2>2. \A m \in Node : Pinned(m)' => Pinned(m) /\ manifest'[m] = manifest[m]
    BY <1>0, <2>1 DEF Pinned
  <2>3. AloneInv'
    BY <2>1 DEF AloneInv, Contested
  <2>4. \A f \in Name : commands[f] # None => commands[f] \in Node
    BY <1>0
  <2>5. BoundInv'
    BY <1>0, <2>1, <2>2, <2>4 DEF BoundInv
  <2>6. QED
    BY <2>3, <2>5
<1>2. ASSUME NEW n \in Node, BeginRegister(n) PROVE BoundInv' /\ AloneInv'
  <2>1. /\ UNCHANGED <<manifest, commands, abbreviations, collisions>>
        /\ nodes' = nodes \cup {n} /\ writer = Idle
        /\ writer' = [op |-> "register", node |-> n, todo |-> manifest[n]]
    BY <1>2 DEF BeginRegister
  <2>2. AloneInv' /\ \A m : Pinned(m)' <=> Pinned(m)
    BY <2>1 DEF AloneInv, Contested, Pinned
  <2>3. BoundInv'
    BY <1>0, <2>1, <2>2 DEF BoundInv, Idle
  <2>4. QED
    BY <2>2, <2>3
<1>3. ASSUME NEW n \in Node, BeginUnregister(n) PROVE BoundInv' /\ AloneInv'
  <2>1. /\ UNCHANGED <<manifest, commands, abbreviations, collisions>>
        /\ nodes' = nodes \ {n} /\ writer = Idle
        /\ writer' = [op |-> "unregister", node |-> n, todo |-> manifest[n]]
    BY <1>3 DEF BeginUnregister
  <2>2. AloneInv' /\ \A m : Pinned(m)' <=> Pinned(m)
    BY <2>1 DEF AloneInv, Contested, Pinned
  <2>3. \A f \in Name : commands[f] = n /\ Pinned(n) => f \in manifest[n]
    BY <1>0 DEF BoundInv, Pinned
  <2>4. \A f \in Name : commands[f] # None /\ Pinned(commands[f]) =>
           commands[f] \in nodes' \/ (commands[f] = n /\ f \in manifest[n])
    BY <2>1, <2>3 DEF BoundInv, Idle
  <2>5. BoundInv'
    BY <1>0, <2>1, <2>2, <2>4 DEF BoundInv, Idle
  <2>6. QED
    BY <2>2, <2>5
<1>4. ASSUME NEW f \in Name, RegisterCommand(f) \/ UnregisterCommand(f)
      PROVE  BoundInv' /\ AloneInv'
  <2>1. /\ UNCHANGED <<manifest, nodes>> /\ writer.op # "none" /\ f \in writer.todo
        /\ writer'.op = writer.op /\ writer'.node = writer.node
        /\ writer'.todo = writer.todo \ {f}
    BY <1>4 DEF RegisterCommand, UnregisterCommand, IndexInv, TypeOK
  <2>2. writer.node \in Node /\ f \in UNION Manifests[writer.node]
    BY <2>1 DEF IndexInv, WriterInv
  <2>3. AloneInv'
    BY <1>4, AloneKeeps DEF RegisterCommand, UnregisterCommand
  <2>4. \A m : Pinned(m)' <=> Pinned(m)
    BY <2>1 DEF Pinned
  <2>5. \A n \in Node : f \in manifest[n] => n = writer.node
    BY <1>0, <2>2 DEF NamesApart
  <2>6. CASE RegisterCommand(f)
    <3>1. /\ writer.op = "register"
          /\ \A g \in Name : commands'[g] = IF g = f THEN writer.node ELSE commands[g]
      BY <1>0, <2>6 DEF RegisterCommand
    <3>2. QED
      BY <1>0, <2>1, <2>2, <2>3, <2>4, <2>5, <3>1 DEF BoundInv
  <2>7. CASE UnregisterCommand(f)
    <3>1. /\ writer.op = "unregister"
          /\ \A g \in Name : commands'[g] = IF g = f THEN None ELSE commands[g]
      BY <1>0, <2>7 DEF UnregisterCommand
    <3>2. QED
      BY <1>0, <2>1, <2>2, <2>3, <2>4, <2>5, <3>1 DEF BoundInv
  <2>8. QED
    BY <1>4, <2>6, <2>7
<1>5. ASSUME EndWrite PROVE BoundInv' /\ AloneInv'
  <2>1. /\ UNCHANGED <<manifest, nodes, commands, abbreviations, collisions>>
        /\ writer.todo = {} /\ writer' = Idle
    BY <1>5 DEF EndWrite
  <2>2. AloneInv' /\ \A m : Pinned(m)' <=> Pinned(m)
    BY <2>1 DEF AloneInv, Contested, Pinned
  <2>3. BoundInv'
    BY <2>1, <2>2 DEF BoundInv, Idle
  <2>4. QED
    BY <2>2, <2>3
<1>6. ASSUME \/ \E c \in Caller :
                   \/ \E k \in Key : Lookup(c, k)
                   \/ Deny(c) \/ Permit(c) \/ Serve(c) \/ SporeRuns(c) \/ Return(c)
             \/ UNCHANGED vars
      PROVE  BoundInv' /\ AloneInv'
  BY <1>6, BoundUnchanged
     DEF Lookup, Deny, Permit, Serve, SporeRuns, Return, vars
<1>7. QED
  BY <1>1, <1>2, <1>3, <1>4, <1>5, <1>6 DEF Next

\* Outside of a loop, nothing is left to do.
LEMMA InvBoundAsRegistered ==
    ASSUME NamesApart, IndexInv, BoundInv, AloneInv
    PROVE  BoundAsRegistered
<1> USE RoutingAssumption
<1> SUFFICES ASSUME writer = Idle PROVE BoundAsRegistered
  BY DEF BoundAsRegistered
<1>1. \A f \in Name : commands[f] # None /\ Pinned(commands[f]) => commands[f] \in nodes
  BY DEF BoundInv, Idle
<1>2. ASSUME NEW n \in nodes, NEW f \in manifest[n], Pinned(n),
             \A g \in Name \ {f} : f \notin KeysOf[g]
      PROVE  Resolve(f) = f /\ commands[f] = n
  <2>1. f \in Name /\ f \in Key /\ f \in KeysOf[f] /\ n \in Node
    BY DEF IndexInv, TypeOK, NamesApart
  <2>2. commands[f] = n
    BY <1>2 DEF BoundInv, Idle
  <2>3. Claimants(f) = {f}
    BY <1>2, <2>1, <2>2 DEF IndexInv, IndexExact
  <2>4. ~ Contested(f)
    BY <1>2, <2>1 DEF AloneInv
  <2>5. QED
    BY <2>1, <2>2, <2>3, <2>4 DEF Claimants, Resolve
<1>3. QED
  BY <1>1, <1>2 DEF BoundAsRegistered

(* Nodes with pinned manifests have their commands bound while they are    *)
(* registered, and none afterwards (api.register, api.unregister).         *)
THEOREM BoundAsRegisteredCorrect ==
    ASSUME NamesApart
    PROVE  Spec => []BoundAsRegistered
<1>1. Init => BoundInv /\ AloneInv
  BY DEF Init, BoundInv, AloneInv, Contested, Idle, NamesApart
<1>2. IndexInv /\ BoundInv /\ AloneInv /\ [Next]_vars => BoundInv' /\ AloneInv'
  BY BoundInductive
<1>3. IndexInv /\ BoundInv /\ AloneInv => BoundAsRegistered
  BY InvBoundAsRegistered
<1>4. QED
  BY <1>1, <1>2, <1>3, IndexInvariant, PTL DEF Spec
=============================================================================
