------------------------------ MODULE Routing ------------------------------
(***************************************************************************)
(* How the bus finds the node that serves a command: bus/api.go with its   *)
(* index of abbreviations (Abbreviations.tla), and the second lookup that  *)
(* SPORE makes of the commands it receives (spore/spore.go).               *)
(*                                                                         *)
(* api.register and api.unregister hold a.mu for a loop over the manifest; *)
(* `writer' is the goroutine in that loop, and one command is bound or     *)
(* unbound per step.                                                       *)
(***************************************************************************)
EXTENDS Abbreviations

CONSTANTS
    Node,       \* nodes with a manifest
    Spore,      \* the hub's own node
    Manifests,  \* the command sets that the manifest of a node may declare
    Caller,     \* goroutines in api.request
    MaxClaims   \* bound: occurrences of a name in a list of contenders

ASSUME RoutingAssumption ==
    /\ Spore \in Node
    /\ None \notin Name /\ None \notin Node
    /\ KeysOf \in [Name -> SUBSET Key]
    /\ Manifests \in [Node -> SUBSET SUBSET Name]
    /\ \A n \in Node : Manifests[n] # {}
    /\ \E S \in SUBSET Name : Manifests[Spore] = {S}

VARIABLES
    manifest,       \* the commands that the loaded manifest of a node declares
    nodes,          \* a.nodes
    commands,       \* a.commands: name -> node
    writer,         \* who holds a.mu, and the commands it has still to do
    call            \* the request each caller carries

vars == <<manifest, nodes, commands, abbreviations, collisions, writer, call>>

Idle == [op |-> "none", node |-> None, todo |-> {}]
NoCall == [at |-> "idle", key |-> None, name |-> None, ran |-> None]

TypeOK ==
    /\ manifest \in [Node -> SUBSET Name]
    /\ nodes \in SUBSET Node
    /\ commands \in [Name -> Node \cup {None}]
    /\ abbreviations \in [Key -> Name \cup {None}]
    /\ collisions \in [Key -> [Name -> Nat]]
    /\ writer \in [op : {"none", "register", "unregister"},
                   node : Node \cup {None}, todo : SUBSET Name]
    /\ call \in [Caller -> [at : {"idle", "asking", "sent", "ran"},
                            key : Key \cup {None}, name : Name \cup {None},
                            ran : Name \cup {None}]]

-----------------------------------------------------------------------------
Init ==
    /\ manifest \in {m \in [Node -> SUBSET Name] :
                        \A n \in Node : m[n] \in Manifests[n]}
    /\ nodes = {}
    /\ commands = [f \in Name |-> None]
    /\ abbreviations = [k \in Key |-> None]
    /\ collisions = [k \in Key |-> Nobody]
    /\ writer = Idle
    /\ call = [c \in Caller |-> NoCall]

\* manifest.Load when a node connects.  A checksum pins what it reads, except
\* for developer-trust nodes: their Manifests hold more than one set.
Load(n) ==
    /\ writer.node # n
    /\ \E S \in Manifests[n] : manifest' = [manifest EXCEPT ![n] = S]
    /\ UNCHANGED <<nodes, commands, abbreviations, collisions, writer, call>>

\* api.register takes a.mu; it runs at installation, at start-up and again
\* whenever the node connects; for SPORE at start-up only.
BeginRegister(n) ==
    /\ writer = Idle
    /\ n = Spore => Spore \notin nodes
    /\ \A k \in Key, f \in Name : collisions[k][f] < MaxClaims
    /\ nodes' = nodes \cup {n}
    /\ writer' = [op |-> "register", node |-> n, todo |-> manifest[n]]
    /\ UNCHANGED <<manifest, commands, abbreviations, collisions, call>>

RegisterCommand(f) ==
    /\ writer.op = "register"
    /\ f \in writer.todo
    /\ commands' = [commands EXCEPT ![f] = writer.node]
    /\ Add(f)
    /\ writer' = [writer EXCEPT !.todo = @ \ {f}]
    /\ UNCHANGED <<manifest, nodes, call>>

\* api.unregister, of a node that is uninstalled: SPORE never is.
BeginUnregister(n) ==
    /\ writer = Idle
    /\ n \in nodes \ {Spore}
    /\ nodes' = nodes \ {n}
    /\ writer' = [op |-> "unregister", node |-> n, todo |-> manifest[n]]
    /\ UNCHANGED <<manifest, commands, abbreviations, collisions, call>>

\* (A slip: unregister removes the abbreviations only.)
UnregisterAbbreviations(f) ==
    /\ writer.op = "unregister"
    /\ f \in writer.todo
    /\ Remove(f)
    /\ writer' = [writer EXCEPT !.todo = @ \ {f}]
    /\ UNCHANGED <<manifest, nodes, commands, call>>

UnregisterCommand(f) ==
    /\ writer.op = "unregister"
    /\ f \in writer.todo
    /\ commands' = [commands EXCEPT ![f] = None]
    /\ Remove(f)
    /\ writer' = [writer EXCEPT !.todo = @ \ {f}]
    /\ UNCHANGED <<manifest, nodes, call>>

EndWrite ==
    /\ writer.op # "none" /\ writer.todo = {}
    /\ writer' = Idle
    /\ UNCHANGED <<manifest, nodes, commands, abbreviations, collisions, call>>

-----------------------------------------------------------------------------
(* api.request: look up under the read lock, ask the permission manager    *)
(* about the name found, then hand the message, key and all, to the node.  *)

Lookup(c, k) ==
    LET f == Resolve(k)
    IN  /\ call[c].at = "idle"
        /\ writer = Idle
        /\ f # None
        /\ commands[f] # None
        /\ commands[f] \in nodes
        /\ call' = [call EXCEPT ![c] =
                      [at |-> "asking", key |-> k, name |-> f, ran |-> None]]
        /\ UNCHANGED <<manifest, nodes, commands, abbreviations, collisions,
                       writer>>

\* Can refuses, or fails.
Deny(c) ==
    /\ call[c].at = "asking"
    /\ call' = [call EXCEPT ![c] = NoCall]
    /\ UNCHANGED <<manifest, nodes, commands, abbreviations, collisions, writer>>

\* Can allows, and node.Receive gets the message.
Permit(c) ==
    /\ call[c].at = "asking"
    /\ call' = [call EXCEPT ![c].at = "sent"]
    /\ UNCHANGED <<manifest, nodes, commands, abbreviations, collisions, writer>>

\* A node other than SPORE serves the message: the hub has no part in it.
Serve(c) ==
    /\ call[c].at = "sent"
    /\ call[c].name \notin manifest[Spore]
    /\ call' = [call EXCEPT ![c] = NoCall]
    /\ UNCHANGED <<manifest, nodes, commands, abbreviations, collisions, writer>>

\* (A slip: SPORE picks the handler by what the caller's name ends in.)
SporeRunsSuffix(c) ==
    LET f == CHOOSE g \in manifest[Spore] :
                KeysOf[g] \cap KeysOf[call[c].name] # {}
    IN  /\ call[c].at = "sent"
        /\ call[c].name \in manifest[Spore]
        /\ writer = Idle
        /\ call' = [call EXCEPT ![c].at = "ran", ![c].ran = f]
        /\ UNCHANGED <<manifest, nodes, commands, abbreviations, collisions,
                       writer>>

\* Spore.Receive resolves the message's key once more and runs the handler of
\* what it finds; a key it cannot resolve is "spore command unhandled", unless
\* the key is itself the full name (fullyQualifiedRequest returns it as it is).
SporeRuns(c) ==
    LET f == IF Resolve(call[c].key) # None THEN Resolve(call[c].key)
             ELSE call[c].key
    IN  /\ call[c].at = "sent"
        /\ call[c].name \in manifest[Spore]
        /\ writer = Idle
        /\ call' = IF f \in manifest[Spore]
                   THEN [call EXCEPT ![c].at = "ran", ![c].ran = f]
                   ELSE [call EXCEPT ![c] = NoCall]
        /\ UNCHANGED <<manifest, nodes, commands, abbreviations, collisions,
                       writer>>

Return(c) ==
    /\ call[c].at = "ran"
    /\ call' = [call EXCEPT ![c] = NoCall]
    /\ UNCHANGED <<manifest, nodes, commands, abbreviations, collisions, writer>>

Next ==
    \/ \E n \in Node : Load(n) \/ BeginRegister(n) \/ BeginUnregister(n)
    \/ \E f \in Name : RegisterCommand(f) \/ UnregisterCommand(f)
    \/ EndWrite
    \/ \E c \in Caller :
          \/ \E k \in Key : Lookup(c, k)
          \/ Deny(c)
          \/ Permit(c)
          \/ Serve(c)
          \/ SporeRuns(c)
          \/ Return(c)

Spec == Init /\ [][Next]_vars

-----------------------------------------------------------------------------
(* The index never disagrees with the table of commands: the contenders of *)
(* a key are exactly the bound commands that end in it, through any order  *)
(* of registrations, repeated registrations and removals.  Hence a key     *)
(* that resolves belongs to one bound command and to no other.             *)
IndexExact ==
    \A k \in Key :
        Claimants(k) = {f \in Name : commands[f] # None /\ k \in KeysOf[f]}

(* The command that SPORE runs is the one the caller's permission was      *)
(* checked for, although SPORE resolves the caller's abbreviation a second *)
(* time and other nodes come and go in between.                            *)
SporeRunsWhatWasPermitted ==
    \A c \in Caller : call[c].at = "ran" => call[c].ran = call[c].name

\* The manifest of n is pinned by its checksum: it always reads the same.
Pinned(n) == Manifests[n] = {manifest[n]}

(* With manifests that are pinned, the commands that are bound are those   *)
(* of the registered nodes: an uninstalled node leaves none of its names   *)
(* behind, and every command of a registered node can be called by its     *)
(* full name, unless that is itself a suffix of another node's command.    *)
BoundAsRegistered ==
    writer = Idle =>
        /\ \A f \in Name :
              commands[f] # None /\ Pinned(commands[f]) => commands[f] \in nodes
        /\ \A n \in nodes : \A f \in manifest[n] :
              Pinned(n) /\ (\A g \in Name \ {f} : f \notin KeysOf[g])
                  => Resolve(f) = f /\ commands[f] = n

-----------------------------------------------------------------------------
(* What the comment of unbind says (bus/abbreviation.go, lines 94-95):     *)
(* "promoting a collision back to a plain abbreviation once it is down to  *)
(* a single remaining candidate".                                          *)
PromotedWhenAlone ==
    \A k \in Key : Contested(k) => Cardinality(Claimants(k)) > 1
=============================================================================
