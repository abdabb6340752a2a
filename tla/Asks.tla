-------------------------------- MODULE Asks --------------------------------
(***************************************************************************)
(* The requests that the hub makes and waits for: the stages of a pipe     *)
(* (bus/pipe.go), the calls to HYPHAE (hyphae/hyphae.go) and the prompts   *)
(* of the permission manager, all through an await.Pending                 *)
(* (utilities/await/await.go).                                             *)
(*                                                                         *)
(* A client is one goroutine in pipe.pipe or in one of those calls; its    *)
(* stages are "local" (a witness or publish stage), "ask" (a request whose *)
(* answer the client waits for) and "last" (the final request of a pipe,   *)
(* whose answer goes to the caller).  The pipes, Hyphae and the manager    *)
(* have a Pending each; the model has one, and only pipes share handles,   *)
(* which their stages may bring along.                                     *)
(*                                                                         *)
(* The bus is reduced to its table of responses (Responses.tla): `entry'.  *)
(* Whether an entry has expired is left open.  A node's answer is read by  *)
(* the listener of that node, which may itself be in a call to HYPHAE      *)
(* (api.request asks for a confirmation on the caller's listener).  That   *)
(* only the target of a request answers it is an assumption: the hub does  *)
(* not check from where an answer comes.                                   *)
(*                                                                         *)
(* The time limit is that of the wait: a call into the bus (a request, or  *)
(* a publication) has none, and may last as long as its target does not    *)
(* read.                                                                   *)
(***************************************************************************)
EXTENDS Naturals, Sequences, FiniteSets

CONSTANTS
    Client,      \* goroutines that make requests of the hub
    Stages,      \* the stages of each: a sequence of "local", "ask", "last"
    Handle,
    HandlesOf,   \* the handles that each stage of a client may carry
    Careful,     \* clients that delete their channel when a request fails
    Patient,     \* clients that wait without a time limit
    Listener,    \* nodes' listeners
    RunsOn,      \* the listener that a client runs on, or None
    Server,      \* the listener that reads the answers for a client, or None
    MaxAnswers,  \* bound: answers to one request of a client
    None

Asking == UNION {{p} \X {i \in DOMAIN Stages[p] : Stages[p][i] = "ask"} :
                    p \in Client}

\* Nobody else may carry the handle of this stage.
OwnStage(p, i) ==
    \A a \in Asking \ {<<p, i>>} :
        HandlesOf[p][i] \cap HandlesOf[a[1]][a[2]] = {}
Own == {p \in Client : \A i \in DOMAIN Stages[p] : OwnStage(p, i)}

ASSUME AsksAssumption ==
    /\ None \notin Client /\ None \notin Handle /\ None \notin Listener
    /\ None \notin Client \X Nat
    /\ Stages \in [Client -> Seq({"local", "ask", "last"})]
    /\ \A p \in Client : Stages[p] # <<>>
    /\ \A p \in Client : HandlesOf[p] \in [DOMAIN Stages[p] -> SUBSET Handle]
    /\ RunsOn \in [Client -> Listener \cup {None}]
    /\ Server \in [Client -> Listener \cup {None}]
    /\ Careful \subseteq Own
    /\ \A p \in Patient : RunsOn[p] = None
    /\ MaxAnswers \in [Client -> Nat]

VARIABLES
    client,    \* where each client is: at, and in which stage
    handle,    \* the handle that each stage was sent with
    channels,  \* p.channels: the client that waits for a handle
    buffer,    \* the channel of each client: the stage that is answered in it
    entry,     \* the table of responses: the stage that wrote the entry
    owed,      \* the answers that the target of a stage may still send
    transit,   \* answers that have left the table, on their way to a Pending
    used       \* the stages whose answers a client has gone on with

vars == <<client, handle, channels, buffer, entry, owed, transit, used>>

Here(p) == <<p, client[p].stage>>
At(p, place) == client[p].at = place
Ended(p) == client[p].at \in {"done", "failed", "unsent"}
Active(p) == client[p].at \notin {"idle", "done", "failed", "unsent"}

Place == {"idle", "ready", "asking", "routing", "sent", "waiting",
          "done", "failed", "unsent"}

TypeOK ==
    /\ client \in [Client -> [at : Place, stage : Nat]]
    /\ \A p \in Client : Active(p) => client[p].stage \in DOMAIN Stages[p]
    /\ handle \in [Asking -> Handle \cup {None}]
    /\ channels \in [Handle -> Client \cup {None}]
    /\ buffer \in [Client -> Asking \cup {None}]
    /\ entry \in [Handle -> Asking \cup {None}]
    /\ owed \in [Asking -> Nat]
    /\ \A a \in Asking : owed[a] <= MaxAnswers[a[1]]
    /\ transit \in SUBSET [handle : Handle, for : Asking]
    /\ used \in [Client -> SUBSET Asking]

-----------------------------------------------------------------------------
Init ==
    /\ client = [p \in Client |-> [at |-> "idle", stage |-> 1]]
    /\ handle = [a \in Asking |-> None]
    /\ channels = [h \in Handle |-> None]
    /\ buffer = [p \in Client |-> None]
    /\ entry = [h \in Handle |-> None]
    /\ owed = [a \in Asking |-> 0]
    /\ transit = {}
    /\ used = [p \in Client |-> {}]

Go(p, place) == client' = [client EXCEPT ![p].at = place]

GoOn(p) ==
    client' = [client EXCEPT
        ![p] = IF @.stage = Len(Stages[p]) THEN [@ EXCEPT !.at = "done"]
               ELSE [at |-> "ready", stage |-> @.stage + 1]]

\* A listener does one thing at a time.
Busy(l) == \E p \in Client : RunsOn[p] = l /\ Active(p)

Start(p) ==
    /\ At(p, "idle")
    /\ RunsOn[p] # None => ~ Busy(RunsOn[p])
    /\ Go(p, "ready")
    /\ UNCHANGED <<handle, channels, buffer, entry, owed, transit, used>>

-----------------------------------------------------------------------------
(* The stages of a pipe that wait for nothing.                             *)

\* The stage cannot be parsed, published or sent; the caller gets an error.
Malformed(p) ==
    /\ At(p, "ready")
    /\ Go(p, "failed")
    /\ UNCHANGED <<handle, channels, buffer, entry, owed, transit, used>>

Local(p) ==
    /\ At(p, "ready")
    /\ Stages[p][client[p].stage] = "local"
    /\ GoOn(p)
    /\ UNCHANGED <<handle, channels, buffer, entry, owed, transit, used>>

\* The answer, or the error, goes to the caller.
Last(p) ==
    /\ At(p, "ready")
    /\ Stages[p][client[p].stage] = "last"
    /\ Go(p, "done")
    /\ UNCHANGED <<handle, channels, buffer, entry, owed, transit, used>>

-----------------------------------------------------------------------------
(* A request that the client waits for.                                    *)

\* (A slip: every stage of a pipe takes the handle of the first.)
AwaitFirst(p) ==
    /\ At(p, "ready")
    /\ Stages[p][client[p].stage] = "ask"
    /\ \E h \in HandlesOf[p][1] :
          /\ handle' = [handle EXCEPT ![Here(p)] = h]
          /\ channels' = [channels EXCEPT ![h] = p]
    /\ Go(p, "asking")
    /\ UNCHANGED <<buffer, entry, owed, transit, used>>

\* Await makes a new channel and overwrites the handle's last one.
Await(p) ==
    /\ At(p, "ready")
    /\ Stages[p][client[p].stage] = "ask"
    /\ \E h \in HandlesOf[p][client[p].stage] :
          /\ handle' = [handle EXCEPT ![Here(p)] = h]
          /\ channels' = [channels EXCEPT ![h] = p]
    /\ Go(p, "asking")
    /\ UNCHANGED <<buffer, entry, owed, transit, used>>

\* bus.Request reserves the handle, which may have an entry that has expired ...
Accept(p) ==
    /\ At(p, "asking")
    /\ entry' = [entry EXCEPT ![handle[Here(p)]] = Here(p)]
    /\ Go(p, "routing")
    /\ UNCHANGED <<handle, channels, buffer, owed, transit, used>>

\* ... and routes the message: the answer may be there before WaitFor is.
Sent(p) ==
    /\ At(p, "routing")
    /\ owed' = [owed EXCEPT ![Here(p)] = MaxAnswers[p]]
    /\ Go(p, "sent")
    /\ UNCHANGED <<handle, channels, buffer, entry, transit, used>>

\* A request failed.  Pipes leave their channel in the Pending.
GivesUp(p) ==
    /\ channels' = IF p \in Careful
                   THEN [channels EXCEPT ![handle[Here(p)]] = None]
                   ELSE channels
    /\ Go(p, "unsent")
    /\ UNCHANGED <<handle, buffer, owed, transit, used>>

\* The handle is in use.
InUse(p) ==
    /\ At(p, "asking")
    /\ entry[handle[Here(p)]] # None
    /\ GivesUp(p)
    /\ UNCHANGED entry

\* (A slip: the channel stays with a client that should delete it.)
NotSentKeeping(p) ==
    /\ At(p, "routing")
    /\ entry' = [entry EXCEPT ![handle[Here(p)]] = None]
    /\ Go(p, "unsent")
    /\ UNCHANGED <<handle, channels, buffer, owed, transit, used>>

\* No such command or node, no permission, or no connection: the entry of the
\* handle is cancelled, whoever wrote it.
NotSent(p) ==
    /\ At(p, "routing")
    /\ entry' = [entry EXCEPT ![handle[Here(p)]] = None]
    /\ GivesUp(p)

Waits(p) ==
    /\ At(p, "sent")
    /\ Go(p, "waiting")
    /\ UNCHANGED <<handle, channels, buffer, entry, owed, transit, used>>

\* The answer was an answer, and a pipe takes over its arguments ...
Get(p) ==
    /\ At(p, "waiting")
    /\ buffer[p] # None
    /\ buffer' = [buffer EXCEPT ![p] = None]
    /\ used' = [used EXCEPT ![p] = @ \cup {buffer[p]}]
    /\ GoOn(p)
    /\ UNCHANGED <<handle, channels, entry, owed, transit>>

\* ... or it was flagged as an error.
GetError(p) ==
    /\ At(p, "waiting")
    /\ buffer[p] # None
    /\ buffer' = [buffer EXCEPT ![p] = None]
    /\ used' = [used EXCEPT ![p] = @ \cup {buffer[p]}]
    /\ Go(p, "failed")
    /\ UNCHANGED <<handle, channels, entry, owed, transit>>

\* (A slip: only the first stage has a time limit.)
ExpireFirst(p) ==
    /\ At(p, "waiting")
    /\ p \notin Patient /\ client[p].stage = 1
    /\ channels' = [channels EXCEPT ![handle[Here(p)]] = None]
    /\ Go(p, "failed")
    /\ UNCHANGED <<handle, buffer, entry, owed, transit, used>>

\* The timer fires, and select may take it though an answer is there, too.
\* It deletes whatever channel the handle has by then.
Expire(p) ==
    /\ At(p, "waiting")
    /\ p \notin Patient
    /\ channels' = [channels EXCEPT ![handle[Here(p)]] = None]
    /\ Go(p, "failed")
    /\ UNCHANGED <<handle, buffer, entry, owed, transit, used>>

-----------------------------------------------------------------------------
(* The answers.                                                            *)

\* The listener of the target can read what the target sends for stage a.
CanAnswer(a) ==
    /\ owed[a] > 0
    /\ Server[a[1]] # None => ~ Busy(Server[a[1]])

\* responses.response: the entry goes, and its client's Pending is next.
Answer(a) ==
    LET h == handle[a]
    IN  /\ CanAnswer(a)
        /\ entry[h] # None
        /\ owed' = [owed EXCEPT ![a] = @ - 1]
        /\ entry' = [entry EXCEPT ![h] = None]
        /\ transit' = transit \cup {[handle |-> h, for |-> a]}
        /\ UNCHANGED <<client, handle, channels, buffer, used>>

\* "handle not mapped"
AnswerUnmapped(a) ==
    /\ CanAnswer(a)
    /\ entry[handle[a]] = None
    /\ owed' = [owed EXCEPT ![a] = @ - 1]
    /\ UNCHANGED <<client, handle, channels, buffer, entry, transit, used>>

\* (A slip: the channel stays in the table.)
ReceiveKeeping(m) ==
    LET p == channels[m.handle]
    IN  /\ p # None
        /\ buffer[p] = None
        /\ buffer' = [buffer EXCEPT ![p] = m.for]
        /\ transit' = transit \ {m}
        /\ UNCHANGED <<client, handle, channels, entry, owed, used>>

\* Pending.Receive: the channel leaves the table and takes the answer.  With a
\* full channel the send would block for ever, and p.mu with it (NeverBlocks).
Receive(m) ==
    LET p == channels[m.handle]
    IN  /\ p # None
        /\ buffer[p] = None
        /\ channels' = [channels EXCEPT ![m.handle] = None]
        /\ buffer' = [buffer EXCEPT ![p] = m.for]
        /\ transit' = transit \ {m}
        /\ UNCHANGED <<client, handle, entry, owed, used>>

\* Nobody waits any more: the answer is dropped, and witnessed.
Drop(m) ==
    /\ channels[m.handle] = None
    /\ transit' = transit \ {m}
    /\ UNCHANGED <<client, handle, channels, buffer, entry, owed, used>>

-----------------------------------------------------------------------------
Steps(p) ==
    \/ Malformed(p) \/ Local(p) \/ Last(p)
    \/ Await(p) \/ Accept(p) \/ InUse(p) \/ Sent(p) \/ NotSent(p)
    \/ Waits(p) \/ Get(p) \/ GetError(p) \/ Expire(p)

Next ==
    \/ \E p \in Client : Start(p) \/ Steps(p)
    \/ \E a \in Asking : Answer(a) \/ AnswerUnmapped(a)
    \/ \E m \in transit : Receive(m) \/ Drop(m)

Spec == Init /\ [][Next]_vars

\* The goroutines run, and timers fire; but nothing makes a call into the bus
\* return, and targets owe no answer.
Fairness ==
    \A p \in Client :
        WF_vars(Await(p) \/ Waits(p) \/ Get(p) \/ GetError(p) \/ Expire(p))
FairSpec == Spec /\ Fairness

-----------------------------------------------------------------------------
(* Receive sends on the channel while it holds the lock of the Pending: a  *)
(* channel that is in the table is empty, so the send never blocks, though *)
(* targets answer twice and pipes share handles.                           *)
NeverBlocks ==
    /\ TypeOK
    /\ \A h \in Handle : channels[h] # None => buffer[channels[h]] = None

(* A client whose handles are its own goes on with the answers to its own  *)
(* stages only, and with none before it got there: an answer that comes    *)
(* late, or twice, is never taken for the answer to its next stage.  And   *)
(* while it waits, an answer will reach it: its channel is in the table,   *)
(* or has been filled.                                                     *)
StageByStage ==
    \A p \in Own :
        /\ used[p] \subseteq {<<p, i>> : i \in 1 .. client[p].stage}
        /\ At(p, "waiting") /\ buffer[p] # None => buffer[p] = Here(p)
        /\ client[p].at \in {"sent", "waiting"} =>
              channels[handle[Here(p)]] = p \/ buffer[p] # None

(* A Pending holds no channel of a client that has ended, but for those of *)
(* pipes whose request could not be sent; and a request that could not be  *)
(* sent has no entry in the table of responses, by which the answer to     *)
(* another with the same handle would be taken for its answer.             *)
NobodyLeftBehind ==
    /\ \A h \in Handle :
          LET p == channels[h]
          IN  p # None =>
                 \/ Active(p) /\ handle[Here(p)] = h
                 \/ p \notin Careful /\ At(p, "unsent")
    /\ \A p \in Client : At(p, "unsent") =>
          \A h \in Handle : entry[h] # Here(p)

\* A client in a call of bus.Request, bus.Broadcast or the witness.
InCall(p) ==
    \/ client[p].at \in {"asking", "routing"}
    \/ At(p, "ready") /\ Stages[p][client[p].stage] # "ask"

(* Every client with a time limit ends if its calls into the bus return,   *)
(* although listeners wait for answers that other blocked listeners would  *)
(* have to read: a wait is over in time, whatever the handle has become.   *)
EveryAskEnds ==
    \A p \in Client \ Patient :
        []<>(~ InCall(p)) => (Active(p) ~> Ended(p))
=============================================================================
