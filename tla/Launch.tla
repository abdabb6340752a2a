------------------------------- MODULE Launch -------------------------------
(***************************************************************************)
(* Launching a lazy node when a message comes for it: node.Receive (nodes/ *)
(* node.go) with its Pending, Nodes.Spawn and Nodes.HandleConnection under *)
(* the read lock of n.mu, and Nodes.Uninstall, which waits for the write   *)
(* lock (nodes/nodes.go).                                                  *)
(*                                                                         *)
(* n.mu is a sync.RWMutex: a writer that waits keeps new readers out, and  *)
(* when it is done all readers that wait get the lock.  A goroutine that   *)
(* asked for the read lock again while it has it would wait for a writer   *)
(* that waits for it; so would one that called HYPHAE under the read lock  *)
(* if HYPHAE itself were launched lazily, which is not modelled.           *)
(* The listener of a connection starts when the handshake activates it     *)
(* (activateConnection), so the connection may be lost before its          *)
(* handshake is over.                                                      *)
(*                                                                         *)
(* Who has n.mu calls out of the module under it, and not all of these     *)
(* calls have a limit: Register (handshake) and Unregister (Uninstall)     *)
(* wait for the mutex of the witnesses, which a write to a witness that    *)
(* does not read may hold; the activation waits for the mutex of the node, *)
(* which the write of a Receive may hold; what a handshake asks HYPHAE,    *)
(* and the line that says it is denied, are writes, too.                   *)
(***************************************************************************)
EXTENDS FiniteSets

CONSTANTS
    Sender,   \* goroutines with messages for the lazy node, in Receive
    Process,  \* processes of the lazy node, and their handshakes
    Remover,  \* goroutines in Uninstall
    None

ASSUME LaunchAssumption ==
    /\ None \notin Sender
    /\ Sender \cap Process = {}

Reader == Sender \cup Process

VARIABLES
    sender,     \* where each sender is
    process,    \* where each process is
    remover,    \* where each remover is
    listening,  \* processes whose connection has a listener
    lock,       \* what each reader has of n.mu
    installed,  \* the lazy node is in n.nodes
    up,         \* n.writer # nil
    waiter,     \* p.channels["lazy"]
    told,       \* senders with a signal in their channel
    missed      \* those for whom the node was lost again meanwhile

launchVars == <<sender, process, remover, listening, lock, installed, up, waiter, told,
                missed>>

LaunchTypeOK ==
    /\ sender \in [Sender -> {"idle", "await", "resolve", "lock", "start",
                              "undo", "wait", "write"}]
    /\ process \in [Process -> {"away", "lock", "verify", "hash", "activate",
                                "signal", "accepted", "denied"}]
    /\ remover \in [Remover -> {"idle", "waiting", "holding"}]
    /\ listening \in SUBSET Process
    /\ lock \in [Reader -> {"none", "waiting", "held"}]
    /\ installed \in BOOLEAN /\ up \in BOOLEAN
    /\ waiter \in Sender \cup {None}
    /\ told \in SUBSET Sender /\ missed \in SUBSET Sender

-----------------------------------------------------------------------------
LaunchInit ==
    /\ sender = [s \in Sender |-> "idle"]
    /\ process = [p \in Process |-> "away"]
    /\ remover = [u \in Remover |-> "idle"]
    /\ listening = {}
    /\ lock = [g \in Reader |-> "none"]
    /\ installed = TRUE /\ up = FALSE
    /\ waiter = None /\ told = {} /\ missed = {}

(* n.mu                                                                    *)

NoWriter == \A u \in Remover : remover[u] = "idle"

\* RLock, when g has got there.
RLock(g) ==
    /\ lock[g] = "none"
    /\ lock' = [lock EXCEPT ![g] = IF NoWriter THEN "held" ELSE "waiting"]
RUnlock(g) == lock' = [lock EXCEPT ![g] = "none"]
Reads(g) == lock[g] = "held"

AsksLock(g) ==
    \/ g \in Sender /\ sender[g] \in {"resolve", "lock"}
    \/ g \in Process /\ process[g] = "lock"

GetLock(g) ==
    /\ AsksLock(g)
    /\ RLock(g)
    /\ UNCHANGED <<sender, process, remover, listening, installed, up, waiter,
                   told, missed>>

-----------------------------------------------------------------------------
(* node.Receive                                                            *)

SenderAt(s, place) == sender' = [sender EXCEPT ![s] = place]

\* The node is connected, or is being launched already, or must be.
Receive(s) ==
    /\ sender[s] = "idle"
    /\ up \/ waiter = None
    /\ SenderAt(s, IF up THEN "write" ELSE "await")
    /\ UNCHANGED <<process, remover, listening, lock, installed, up, waiter,
                   told, missed>>

\* Another sender may have seen that nobody waits, too.
Await(s) ==
    /\ sender[s] = "await"
    /\ SenderAt(s, "resolve")
    /\ waiter' = s
    /\ told' = told \ {s}
    /\ UNCHANGED <<process, remover, listening, lock, installed, up, missed>>

\* Spawn: resolveId takes the read lock and returns it ...
ResolveId(s) ==
    /\ sender[s] = "resolve" /\ Reads(s)
    /\ SenderAt(s, "lock")
    /\ RUnlock(s)
    /\ UNCHANGED <<process, remover, listening, installed, up, waiter, told,
                   missed>>

\* ... and Spawn takes it again, for as long as the spawning takes.
EnterSpawn(s) ==
    /\ sender[s] = "lock" /\ Reads(s)
    /\ SenderAt(s, "start")
    /\ UNCHANGED <<process, remover, listening, lock, installed, up, waiter,
                   told, missed>>

\* The process is on its way (see Connect).
Spawn(s) ==
    /\ sender[s] = "start"
    /\ installed
    /\ SenderAt(s, "wait")
    /\ RUnlock(s)
    /\ UNCHANGED <<process, remover, listening, installed, up, waiter, told,
                   missed>>

SpawnFails(s) ==
    /\ sender[s] = "start"
    /\ SenderAt(s, "undo")
    /\ RUnlock(s)
    /\ UNCHANGED <<process, remover, listening, installed, up, waiter, told,
                   missed>>

\* (A slip: a launch that failed is left in the table.)
ForgetUndo(s) ==
    /\ sender[s] = "undo"
    /\ SenderAt(s, "idle")
    /\ UNCHANGED <<process, remover, listening, lock, installed, up, waiter,
                   told, missed>>

\* pending.Delete("lazy"), whose channel that may be.
Undo(s) ==
    /\ sender[s] = "undo"
    /\ SenderAt(s, "idle")
    /\ waiter' = None
    /\ UNCHANGED <<process, remover, listening, lock, installed, up, told,
                   missed>>

Wake(s) ==
    /\ sender[s] = "wait" /\ s \in told
    /\ SenderAt(s, "write")
    /\ told' = told \ {s}
    /\ missed' = missed \ {s}
    /\ UNCHANGED <<process, remover, listening, lock, installed, up, waiter>>

\* The time limit of the wait deletes the channel, whose it may be.
Expire(s) ==
    /\ sender[s] = "wait"
    /\ SenderAt(s, "idle")
    /\ waiter' = None
    /\ told' = told \ {s}
    /\ missed' = missed \ {s}
    /\ UNCHANGED <<process, remover, listening, lock, installed, up>>

\* (With the node lost again this fails as in Connection!WriteCrashes.)
Write(s) ==
    /\ sender[s] = "write"
    /\ SenderAt(s, "idle")
    /\ UNCHANGED <<process, remover, listening, lock, installed, up, waiter,
                   told, missed>>

-----------------------------------------------------------------------------
(* HandleConnection                                                        *)

P(p, place) == process' = [process EXCEPT ![p] = place]

\* Whoever started it.
Connect(p) ==
    /\ process[p] = "away" /\ p \notin listening
    /\ P(p, "lock")
    /\ UNCHANGED <<sender, remover, listening, lock, installed, up, waiter, told, missed>>

EnterHandshake(p) ==
    /\ process[p] = "lock" /\ Reads(p)
    /\ P(p, IF installed THEN "verify" ELSE "denied")
    /\ UNCHANGED <<sender, remover, listening, lock, installed, up, waiter, told, missed>>

\* (A slip: the waiter is told before the connection is current.)
VerifySignals(p) ==
    /\ process[p] = "verify"
    /\ P(p, "activate")
    /\ told' = told \cup ({waiter} \ {None})
    /\ waiter' = None
    /\ UNCHANGED <<sender, remover, listening, lock, installed, up, missed>>

\* The manifest passes, and the binary without a question to HYPHAE ...
Verify(p) ==
    /\ process[p] = "verify"
    /\ P(p, "activate")
    /\ UNCHANGED <<sender, remover, listening, lock, installed, up, waiter, told, missed>>

\* ... or with one.
Hash(p) ==
    /\ process[p] = "hash"
    /\ P(p, "signal")
    /\ UNCHANGED <<sender, remover, listening, lock, installed, up, waiter, told, missed>>

Deny(p) ==
    /\ process[p] \in {"verify", "hash"}
    /\ P(p, "denied")
    /\ UNCHANGED <<sender, remover, listening, lock, installed, up, waiter, told, missed>>

\* activateConnection, when all is verified or provisionally.
Activate(p) ==
    /\ \/ process[p] = "activate" /\ P(p, "signal")
       \/ process[p] = "verify" /\ P(p, "hash")
    /\ up' = TRUE
    /\ listening' = listening \cup {p}
    /\ UNCHANGED <<sender, remover, lock, installed, waiter, told, missed>>

\* pending.Resolve("lazy")
Signal(p) ==
    /\ process[p] = "signal"
    /\ P(p, "accepted")
    /\ told' = told \cup ({waiter} \ {None})
    /\ missed' = IF up THEN missed ELSE missed \cup ({waiter} \ {None})
    /\ waiter' = None
    /\ UNCHANGED <<sender, remover, listening, lock, installed, up>>


\* The deferred RUnlock.
LeaveHandshake(p) ==
    /\ process[p] \in {"accepted", "denied"}
    /\ P(p, "away")
    /\ RUnlock(p)
    /\ UNCHANGED <<sender, remover, listening, installed, up, waiter, told, missed>>

\* The process ends, or was denied, and its listener ends with it.
Disconnect(p) ==
    /\ p \in listening
    /\ listening' = listening \ {p}
    /\ up' = FALSE
    /\ missed' = missed \cup told
    /\ UNCHANGED <<sender, process, remover, lock, installed, waiter, told>>

-----------------------------------------------------------------------------
(* Uninstall, of this node or another.                                     *)

AwaitLock(u) ==
    /\ NoWriter
    /\ remover' = [remover EXCEPT ![u] = "waiting"]
    /\ UNCHANGED <<sender, process, listening, lock, installed, up, waiter,
                   told, missed>>

Uninstall(u) ==
    /\ remover[u] = "waiting"
    /\ \A g \in Reader : lock[g] # "held"
    /\ remover' = [remover EXCEPT ![u] = "holding"]
    /\ installed' \in {installed, FALSE}
    /\ UNCHANGED <<sender, process, listening, lock, up, waiter, told, missed>>

\* Unlock lets all waiting readers in.  (A node that is installed again is
\* another node object, with a Pending of its own.)
Unlock(u) ==
    /\ remover[u] = "holding"
    /\ remover' = [remover EXCEPT ![u] = "idle"]
    /\ lock' = [g \in Reader |-> IF lock[g] = "waiting" THEN "held" ELSE lock[g]]
    /\ UNCHANGED <<sender, process, listening, installed, up, waiter, told,
                   missed>>

-----------------------------------------------------------------------------
Sends(s) ==
    \/ Await(s) \/ ResolveId(s) \/ EnterSpawn(s) \/ Spawn(s)
    \/ SpawnFails(s) \/ Undo(s) \/ Wake(s) \/ Expire(s) \/ Write(s)
    \/ GetLock(s)

Shakes(p) ==
    \/ EnterHandshake(p) \/ Verify(p) \/ Hash(p) \/ Deny(p) \/ Activate(p)
    \/ Signal(p) \/ LeaveHandshake(p) \/ GetLock(p)

Removes(u) == Uninstall(u) \/ Unlock(u)

LaunchNext ==
    \/ \E s \in Sender : Receive(s) \/ Sends(s)
    \/ \E p \in Process : Connect(p) \/ Shakes(p) \/ Disconnect(p)
    \/ \E u \in Remover : AwaitLock(u) \/ Removes(u)

LaunchSpec == LaunchInit /\ [][LaunchNext]_launchVars

\* The calls that nothing limits: of Spawn and the last write of a sender, of
\* a handshake, and of Uninstall.
InSpawn(s) == sender[s] = "start"
InHandshake(p) == process[p] \in {"verify", "hash", "activate", "denied"}
InUninstall(u) == remover[u] = "holding"

\* Goroutines run, n.mu is handed on as it promises, and timers fire.  Nobody
\* has to send a message, connect or uninstall, and no call has to return.
LaunchFairness ==
    /\ \A s \in Sender :
          WF_launchVars(~ InSpawn(s) /\ sender[s] # "write" /\ Sends(s))
    /\ \A p \in Process : WF_launchVars(~ InHandshake(p) /\ Shakes(p))
    /\ \A u \in Remover : WF_launchVars(~ InUninstall(u) /\ Removes(u))

FairLaunchSpec == LaunchSpec /\ LaunchFairness

-----------------------------------------------------------------------------
(* A launch never blocks the next one for good: the entry in the table     *)
(* belongs to a sender that is still launching or waiting, and will take   *)
(* it out, although senders overwrite and delete each other's entries.     *)
LaunchableAgain ==
    waiter # None =>
        sender[waiter] \in {"resolve", "lock", "start", "undo", "wait"}

(* A sender that is told to go on has a node to write to, unless the node  *)
(* was lost again after the handshake made it current.                     *)
SignalMeansUp == LaunchTypeOK /\ (told \subseteq missed \/ up)

\* Whoever has n.mu gets back from the calls it makes under it.
HoldersReturn ==
    /\ \A s \in Sender : []<>(~ InSpawn(s))
    /\ \A p \in Process : []<>(~ InHandshake(p))
    /\ \A u \in Remover : []<>(~ InUninstall(u))

=============================================================================
