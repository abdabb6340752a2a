----------------------------- MODULE Lifecycle ------------------------------
(***************************************************************************)
(* Installing, uninstalling and reinstalling nodes: nodes/nodes.go with    *)
(* the registry file (registry/registry.go) and the grants that            *)
(* permissions/manager.go keeps for the node; and the queries of SPORE      *)
(* (spore/meta.go), which read the nodes' manifests meanwhile.             *)
(*                                                                         *)
(* Every command of SPORE runs in a goroutine of its own, so two jobs may  *)
(* work on one node.  Uninstall holds n.mu from its lookup to its end      *)
(* (`lock'); completeInstallation writes n.nodes without it, and waits for *)
(* the user between its steps.  The registry and the permission manager    *)
(* have locks of their own: each of their methods, with its save, is one   *)
(* step.  A save may fail (Faults), and the hub may be killed and started  *)
(* again at any moment (Faults); a write of a file is taken to be whole.   *)
(***************************************************************************)
EXTENDS Naturals, FiniteSets

CONSTANTS
    Id,           \* node ids
    UserSpace,    \* those whose manifest only HYPHAE can read
    Wanted,       \* the capabilities the manifest of each node asks for
    Job,          \* goroutines serving node.install, ..., help, list, ...
    MaxElements,  \* bound: registry elements of one id
    Faults,       \* saves may fail, and the hub may be restarted
    None

ASSUME LifecycleAssumption ==
    /\ None \notin Id /\ None \notin Job
    /\ IsFiniteSet(Job)
    /\ UserSpace \subseteq Id
    /\ DOMAIN Wanted = Id
    /\ MaxElements \in Nat
    /\ Faults \in BOOLEAN

VARIABLES
    nodes,       \* n.nodes
    blank,       \* those whose manifest was not read yet (manifest.ID == "")
    bus,         \* the nodes registered on the bus
    elements,    \* registry.Elements: how many each id has
    saved,       \* the registry file, likewise
    grants,      \* allowances of each id
    savedGrants, \* the permissions file
    lock,        \* the job that holds n.mu for writing
    job,         \* where each goroutine is
    halfway,     \* ids that an uninstall began to remove, and did not finish
    overlapped,  \* ids that a job worked on while another changed them
    panic        \* the id whose manifest a query missed: the hub is gone

vars == <<nodes, blank, bus, elements, saved, grants, savedGrants, lock, job,
          halfway, overlapped, panic>>
world == <<halfway, overlapped, panic>>
registry == <<elements, saved>>
permissions == <<grants, savedGrants>>

Caps == UNION {Wanted[id] : id \in Id}
Ops == {"none", "install", "uninstall", "reinstall", "query"}
Lookups == {"match", "every", "complete"}
Places == Lookups \cup
    {"idle", "authorize", "forget", "delete", "remove", "revoke", "add",
     "register", "insert", "prompt"}
Idle == [op |-> "none", id |-> None, at |-> "idle", ask |-> {}]

TypeOK ==
    /\ nodes \in SUBSET Id /\ blank \in SUBSET Id /\ bus \in SUBSET Id
    /\ elements \in [Id -> Nat] /\ saved \in [Id -> Nat]
    /\ grants \in [Id -> SUBSET Caps] /\ savedGrants \in [Id -> SUBSET Caps]
    /\ lock \in Job \cup {None}
    /\ job \in [Job -> [op : Ops, id : Id \cup {None}, at : Places,
                        ask : SUBSET (Caps \cup Id)]]
    /\ halfway \in SUBSET Id /\ overlapped \in SUBSET Id
    /\ panic \in Id \cup {None}

-----------------------------------------------------------------------------
Go(j, place) == job' = [job EXCEPT ![j].at = place]
End(j) == job' = [job EXCEPT ![j] = Idle]
At(j, place) == job[j].at = place

\* What job k works on; a query, on the ids that it has still to look up.
WorksOn(k) ==
    {job[k].id} \cup (IF job[k].op = "query" THEN job[k].ask ELSE {})

\* Job j begins to change id, or to look the ids up.
Begin(j, op, id, place) ==
    /\ At(j, "idle")
    /\ job' = [job EXCEPT ![j] = [op |-> op, id |-> id, at |-> place, ask |-> {}]]
    /\ overlapped' = overlapped \cup {i \in {id} : \E k \in Job : i \in WorksOn(k)}
LooksUp(j, lookup, ids) ==
    /\ job' = [job EXCEPT ![j] =
                   [op |-> "query", id |-> None, at |-> lookup, ask |-> ids]]
    /\ overlapped' = overlapped \cup
          {i \in ids : \E k \in Job : job[k].op # "query" /\ job[k].id = i}

\* The jobs that may yet add an element of id.
Adding(id) ==
    {j \in Job : job[j].id = id /\ job[j].op \in {"install", "reinstall"}}

\* Read under n.mu.
Unlocked == lock = None

\* The hub starts with what the files say.
Init ==
    /\ elements = [id \in Id |-> 0] /\ saved = elements
    /\ grants = [id \in Id |-> {}] /\ savedGrants = grants
    /\ nodes = {} /\ blank = {} /\ bus = {}
    /\ lock = None
    /\ job = [j \in Job |-> Idle]
    /\ halfway = {} /\ overlapped = {}
    /\ panic = None

-----------------------------------------------------------------------------
(* Install and Reinstall up to the user's decision.                        *)

BeginInstall(j, id) ==
    /\ elements[id] + Cardinality(Adding(id)) < MaxElements
    /\ Begin(j, "install", id, "authorize")
    /\ UNCHANGED <<nodes, blank, bus, registry, permissions, lock, halfway, panic>>

BeginReinstall(j, id) ==
    /\ Unlocked
    /\ id \in nodes
    /\ Begin(j, "reinstall", id, "authorize")
    /\ UNCHANGED <<nodes, blank, bus, registry, permissions, lock, halfway, panic>>

Authorized(j) ==
    /\ At(j, "authorize")
    /\ Go(j, IF job[j].op = "install" THEN "add" ELSE "forget")
    /\ UNCHANGED <<nodes, blank, bus, registry, permissions, lock, world>>

\* prepareInstallation fails, or the user refuses.
Refused(j) ==
    /\ At(j, "authorize")
    /\ End(j)
    /\ UNCHANGED <<nodes, blank, bus, registry, permissions, lock, world>>

-----------------------------------------------------------------------------
(* Uninstall.                                                              *)

\* Kill only logs its failure, and touches no state of this module.
BeginUninstall(j, id) ==
    /\ Begin(j, "uninstall", id, "forget")
    /\ UNCHANGED <<nodes, blank, bus, registry, permissions, lock, halfway, panic>>

NotInstalled(j) ==
    /\ At(j, "forget")
    /\ Unlocked
    /\ job[j].id \notin nodes
    /\ End(j)
    /\ UNCHANGED <<nodes, blank, bus, registry, permissions, lock, world>>

\* (A slip: node.close does not leave the bus.)
ForgetOnly(j) ==
    /\ At(j, "forget")
    /\ Unlocked
    /\ job[j].id \in nodes
    /\ lock' = j
    /\ halfway' = halfway \cup {job[j].id}
    /\ Go(j, "delete")
    /\ UNCHANGED <<nodes, blank, bus, registry, permissions, overlapped, panic>>

\* n.mu.Lock, and node.close leaves the bus.
Forget(j) ==
    /\ At(j, "forget")
    /\ Unlocked
    /\ job[j].id \in nodes
    /\ lock' = j
    /\ bus' = bus \ {job[j].id}
    /\ halfway' = halfway \cup {job[j].id}
    /\ Go(j, "delete")
    /\ UNCHANGED <<nodes, blank, registry, permissions, overlapped, panic>>

Delete(j) ==
    /\ At(j, "delete")
    /\ nodes' = nodes \ {job[j].id}
    /\ blank' = blank \ {job[j].id}
    /\ Go(j, "remove")
    /\ UNCHANGED <<bus, registry, permissions, lock, world>>

\* (A slip: Remove does not stop at the first element of the id.)
RemoveEvery(j) ==
    LET left == [elements EXCEPT ![job[j].id] = 0]
    IN  /\ At(j, "remove")
        /\ elements' = left
        /\ saved' = left
        /\ Go(j, "revoke")
        /\ UNCHANGED <<nodes, blank, bus, permissions, lock, world>>

\* registry.Remove takes the first element of that id out.
Remove(j) ==
    LET left == [elements EXCEPT ![job[j].id] = @ - 1]
    IN  /\ At(j, "remove")
        /\ elements[job[j].id] > 0
        /\ elements' = left
        /\ saved' = left
        /\ Go(j, "revoke")
        /\ UNCHANGED <<nodes, blank, bus, permissions, lock, world>>

\* There is no element of that id, or the save fails.
RemoveFails(j) ==
    LET id == job[j].id
    IN  /\ At(j, "remove")
        /\ Faults \/ elements[id] = 0
        /\ elements' = [elements EXCEPT ![id] = IF @ > 0 THEN @ - 1 ELSE 0]
        /\ lock' = None
        /\ End(j)
        /\ UNCHANGED <<nodes, blank, bus, saved, permissions, world>>

\* (A slip: RemoveNode does not save.)
RevokeInMemory(j) ==
    /\ At(j, "revoke")
    /\ grants' = [grants EXCEPT ![job[j].id] = {}]
    /\ lock' = None
    /\ IF job[j].op = "reinstall" THEN Go(j, "add") ELSE End(j)
    /\ halfway' = halfway \ {job[j].id}
    /\ UNCHANGED <<nodes, blank, bus, registry, savedGrants, overlapped, panic>>

\* permissions.RemoveNode, and n.mu.Unlock.
RevokeAll(j) ==
    LET left == [grants EXCEPT ![job[j].id] = {}]
    IN  /\ At(j, "revoke")
        /\ grants' = left
        /\ savedGrants' = left
        /\ lock' = None
        /\ IF job[j].op = "reinstall" THEN Go(j, "add") ELSE End(j)
        /\ halfway' = halfway \ {job[j].id}
        /\ UNCHANGED <<nodes, blank, bus, registry, overlapped, panic>>

RevokeAllFails(j) ==
    /\ Faults
    /\ At(j, "revoke")
    /\ grants' = [grants EXCEPT ![job[j].id] = {}]
    /\ lock' = None
    /\ End(j)
    /\ UNCHANGED <<nodes, blank, bus, registry, savedGrants, world>>

-----------------------------------------------------------------------------
(* completeInstallation: no step of it holds n.mu.                         *)

\* registry.Add appends, whether or not the id has an element.
Add(j) ==
    LET more == [elements EXCEPT ![job[j].id] = @ + 1]
    IN  /\ At(j, "add")
        /\ elements' = more
        /\ saved' = more
        /\ Go(j, "register")
        /\ UNCHANGED <<nodes, blank, bus, permissions, lock, world>>

AddFails(j) ==
    /\ Faults
    /\ At(j, "add")
    /\ elements' = [elements EXCEPT ![job[j].id] = @ + 1]
    /\ End(j)
    /\ UNCHANGED <<nodes, blank, bus, saved, permissions, lock, world>>

\* node.set
Register(j) ==
    /\ At(j, "register")
    /\ bus' = bus \cup {job[j].id}
    /\ Go(j, "insert")
    /\ UNCHANGED <<nodes, blank, registry, permissions, lock, world>>

Insert(j) ==
    /\ At(j, "insert")
    /\ nodes' = nodes \cup {job[j].id}
    /\ blank' = blank \ {job[j].id}
    /\ job' = [job EXCEPT ![j].at = "prompt", ![j].ask = Wanted[job[j].id]]
    /\ UNCHANGED <<bus, registry, permissions, lock, world>>

\* permissions.Request: the user said yes, and Grant saves, unless the grant
\* is there already.
Grant(j, c) ==
    LET more == [grants EXCEPT ![job[j].id] = @ \cup {c}]
    IN  /\ At(j, "prompt") /\ c \in job[j].ask
        /\ grants' = more
        /\ savedGrants' = IF c \in grants[job[j].id] THEN savedGrants ELSE more
        /\ job' = [job EXCEPT ![j].ask = @ \ {c}]
        /\ UNCHANGED <<nodes, blank, bus, registry, lock, world>>

GrantFails(j, c) ==
    /\ Faults
    /\ At(j, "prompt") /\ c \in job[j].ask
    /\ c \notin grants[job[j].id]
    /\ grants' = [grants EXCEPT ![job[j].id] = @ \cup {c}]
    /\ job' = [job EXCEPT ![j].ask = @ \ {c}]
    /\ UNCHANGED <<nodes, blank, bus, registry, savedGrants, lock, world>>

Deny(j, c) ==
    /\ At(j, "prompt") /\ c \in job[j].ask
    /\ job' = [job EXCEPT ![j].ask = @ \ {c}]
    /\ UNCHANGED <<nodes, blank, bus, registry, permissions, lock, world>>

EndInstall(j) ==
    /\ At(j, "prompt") /\ job[j].ask = {}
    /\ End(j)
    /\ UNCHANGED <<nodes, blank, bus, registry, permissions, lock, world>>

-----------------------------------------------------------------------------
(* Help, state, list, complete and hint: each takes the ids (GetNodes) and *)
(* then calls GetManifest of each id that it looks up, `ask'.  matchNode   *)
(* looks one id up at most; matchCommand, matchTopic and the reports of    *)
(* collisions look up all; only getComplete expects that one is gone.      *)

\* (A slip: GetNodes lists the registry's elements.)
GetNodesOfRegistry(j, lookup) ==
    /\ Unlocked
    /\ LooksUp(j, lookup, {id \in Id : elements[id] > 0})
    /\ UNCHANGED <<nodes, blank, bus, registry, permissions, lock, halfway, panic>>

GetNodes(j, lookup) ==
    /\ Unlocked
    /\ IF lookup = "match"
       THEN \E ids \in SUBSET nodes : Cardinality(ids) <= 1 /\ LooksUp(j, lookup, ids)
       ELSE LooksUp(j, lookup, nodes)
    /\ UNCHANGED <<nodes, blank, bus, registry, permissions, lock, halfway, panic>>

BeginQuery(j) ==
    /\ At(j, "idle")
    /\ \E lookup \in {"match", "complete"} : GetNodes(j, lookup)

LookedUp(j) == job[j].op = "query" /\ job[j].ask = {} /\ job[j].id = None

\* getHelp goes on to the commands and topics of all nodes if the text is not
\* one node's id; hint calls getHelp, getState, getList and getComplete.
GoOn(j) ==
    /\ LookedUp(j)
    /\ \E lookup \in CASE At(j, "match") -> Lookups
                       [] At(j, "every") -> {"every", "match"}
                       [] OTHER -> {} : GetNodes(j, lookup)

EndQuery(j) ==
    /\ LookedUp(j)
    /\ End(j)
    /\ UNCHANGED <<nodes, blank, bus, registry, permissions, lock, world>>

\* GetManifest looks the node up under n.mu.  If the hub could not read the
\* manifest itself, it now asks HYPHAE, without the lock.
GetManifest(j, id) ==
    /\ job[j].op = "query" /\ id \in job[j].ask /\ job[j].id = None
    /\ Unlocked
    /\ id \in nodes
    /\ job' = [job EXCEPT ![j].ask = @ \ {id},
                          ![j].id = IF id \in blank THEN id ELSE None]
    /\ UNCHANGED <<nodes, blank, bus, registry, permissions, lock, world>>

\* It returns nil for a node that is not there any more.
ManifestGone(j, id) ==
    /\ job[j].op = "query" /\ id \in job[j].ask /\ job[j].id = None
    /\ Unlocked
    /\ id \notin nodes
    /\ IF At(j, "complete")
       THEN /\ job' = [job EXCEPT ![j].ask = @ \ {id}]
            /\ UNCHANGED panic
       ELSE /\ job' = [k \in Job |-> Idle]
            /\ panic' = id
    /\ lock' = None
    /\ UNCHANGED <<nodes, blank, bus, registry, permissions, halfway, overlapped>>

\* LoadContent, and the node registers on the bus.
Describe(j) ==
    /\ job[j].op = "query" /\ job[j].id # None
    /\ bus' = bus \cup {job[j].id}
    /\ blank' = blank \ {job[j].id}
    /\ job' = [job EXCEPT ![j].id = None]
    /\ UNCHANGED <<nodes, registry, permissions, lock, world>>

\* HYPHAE does not answer.
DescribeFails(j) ==
    /\ job[j].op = "query" /\ job[j].id # None
    /\ job' = [job EXCEPT ![j].id = None]
    /\ UNCHANGED <<nodes, blank, bus, registry, permissions, lock, world>>

-----------------------------------------------------------------------------
\* The hub dies and starts again: New, Set, Load.
Restart ==
    /\ Faults
    /\ elements' = saved
    /\ grants' = savedGrants
    /\ nodes' = {id \in Id : saved[id] > 0}
    /\ bus' = nodes'
    /\ blank' = nodes' \cap UserSpace
    /\ lock' = None
    /\ job' = [j \in Job |-> Idle]
    /\ UNCHANGED <<saved, savedGrants, world>>

Next ==
    \/ panic = None /\ \E j \in Job, id \in Id :
          \/ BeginInstall(j, id)
          \/ BeginReinstall(j, id)
          \/ BeginUninstall(j, id)
          \/ GetManifest(j, id)
          \/ ManifestGone(j, id)
    \/ panic = None /\ \E j \in Job :
          \/ Authorized(j) \/ Refused(j)
          \/ NotInstalled(j) \/ Forget(j) \/ Delete(j)
          \/ Remove(j) \/ RemoveFails(j) \/ RevokeAll(j) \/ RevokeAllFails(j)
          \/ Add(j) \/ AddFails(j) \/ Register(j) \/ Insert(j)
          \/ \E c \in Caps : Grant(j, c) \/ GrantFails(j, c) \/ Deny(j, c)
          \/ EndInstall(j)
          \/ BeginQuery(j) \/ GoOn(j) \/ EndQuery(j)
          \/ Describe(j) \/ DescribeFails(j)
    \/ Restart

Spec == Init /\ [][Next]_vars

-----------------------------------------------------------------------------
(* The hub runs, and no job is at work on id, or was while another changed *)
(* it.                                                                     *)
Settled(id) ==
    panic = None /\ id \notin overlapped /\ \A j \in Job : job[j].id # id

(* An installed node is still installed after a restart, although installs *)
(* and uninstalls of the same node interleave, saves fail and the registry *)
(* may hold several elements of it: Remove takes one element out for each  *)
(* node that leaves n.nodes, and Add put one in for each that entered.     *)
InstalledSurvivesRestart ==
    /\ TypeOK
    /\ \A id \in nodes : saved[id] > 0

(* As long as one job at a time works on a node, the bus routes to a node  *)
(* exactly when it is installed, whatever fails in between, through every  *)
(* restart, and although queries register nodes they had to ask HYPHAE of. *)
BusRoutesToInstalled ==
    \A id \in Id : Settled(id) => (id \in bus <=> id \in nodes)

(* What permissions/manager.go line 168 says, "RemoveNode removes every    *)
(* persisted capability grant for an uninstalled node", as long as one job *)
(* at a time works on a node: only installed nodes have grants in the      *)
(* file, and those whose uninstall failed or was cut short by the end of   *)
(* the hub (Uninstall saves the registry first, then the grants).          *)
UninstalledHasNoGrants ==
    \A id \in Id \ (nodes \cup halfway \cup overlapped) : savedGrants[id] = {}

(* A query of SPORE does not end the hub, unless a job changes a node that *)
(* the query has yet to look up: the manifest is then nil (which only      *)
(* getComplete expects), and using it is a panic.                          *)
QueriesSurvive == panic # None => panic \in overlapped

=============================================================================
