---------------------------- MODULE Connection ------------------------------
(***************************************************************************)
(* The connections of one installed node: nodes/node.go, from the          *)
(* handshake to the end of the listener that it starts.                    *)
(*                                                                         *)
(* The node object has one conn, reader and writer (`current': they are    *)
(* set and cleared together, under n.mu), and one verification gate, for   *)
(* however many connections its process opens.  HandleConnection runs in a *)
(* goroutine per connection and holds Nodes.mu for reading only, so two    *)
(* handshakes of a node may overlap; each starts a listener, which reads   *)
(* whatever reader the node has when it comes round its loop.              *)
(*                                                                         *)
(* A line is exempt from the gate if it starts with "~" (an answer, or a   *)
(* pipe whose first stage does) or has ".binary.hash" in its first word;   *)
(* any other is gated.  Which it is shows when the line is read.           *)
(*                                                                         *)
(* The local checks of manifest and binary deny the connection, accept it, *)
(* or leave it to HYPHAE (status.RequiresUserSpace).                       *)
(*                                                                         *)
(* Two kinds of call may never return: one into the bus, which may write   *)
(* to another process that does not read, or wait for a mutex that is      *)
(* never released; and a write to the node's own process, during which     *)
(* node.Receive holds n.mu for reading: the deadline of writer.go covers   *)
(* the flush, and not what overflows the buffer before it.                 *)
(***************************************************************************)
EXTENDS Node, Naturals, FiniteSets

CONSTANTS
    Sender,       \* goroutines that hand a message to the node
    MaxMessages   \* bound: lines of a connection that are sent and not read

\* Connections are numbered in the order in which they are opened.
ASSUME ConnectionAssumption ==
    Conn \subseteq Nat /\ None \notin Conn /\ MaxMessages \in Nat

VARIABLES
    current,     \* n.conn, n.reader, n.writer: the connection they belong to
    done,        \* n.verificationDone: the handshake that made the channel
    passed,      \* n.verificationPassed
    closed,      \* the channels that were closed
    peer,        \* connections that are open on both sides
    open,        \* connections the hub's side has open
    inbox,       \* lines sent and not read yet
    handshake,   \* where the goroutine in handleConnection is
    listener,    \* where the goroutine in listen is
    early,       \* history: connections a gated line of which went to the bus
                 \* while HYPHAE was verifying them
    sender,      \* where each goroutine in Receive is
    overlapped,  \* a process connected before the last listener had ended
    crash        \* who used a nil conn, reader or writer: the hub is gone

gate == <<done, passed, closed>>
net == <<peer, open, inbox>>
world == <<overlapped, crash>>
vars == <<current, gate, net, handshake, listener, early,
          sender, overlapped, crash>>

TypeOK ==
    /\ current \in Conn \cup {None}
    /\ done \in Conn \cup {None} /\ passed \in BOOLEAN
    /\ closed \in SUBSET Conn
    /\ peer \in SUBSET Conn /\ open \in SUBSET Conn
    /\ inbox \in [Conn -> 0 .. MaxMessages]
    /\ handshake \in [Conn -> {"idle", "checks", "hash", "return", "done",
                                "close", "failed"}]
    /\ listener \in [Conn ->
          [at : {"none", "loop", "blocked", "taken", "waiting", "dispatch",
                 "write", "stalled", "teardown", "gone"},
           from : Conn \cup {None}, waits : Conn \cup {None}]]
    /\ early \in SUBSET Conn
    /\ sender \in [Sender -> {"idle", "write", "stalled"}]
    /\ overlapped \in BOOLEAN
    /\ crash \in {"none", "listener", "sender"}

-----------------------------------------------------------------------------
Alive == crash = "none"
NoListener == [at |-> "none", from |-> None, waits |-> None]
At(place) == [NoListener EXCEPT !.at = place]

\* Nothing of connection d is under way any more.
Over(d) ==
    /\ handshake[d] \in {"idle", "done", "failed"}
    /\ listener[d].at \in {"none", "gone"}

Init ==
    /\ current = None
    /\ done = None /\ passed = FALSE /\ closed = {}
    /\ peer = {} /\ open = {}
    /\ inbox = [c \in Conn |-> 0]
    /\ handshake = [c \in Conn |-> "idle"]
    /\ listener = [c \in Conn |-> NoListener]
    /\ early = {}
    /\ sender = [s \in Sender |-> "idle"]
    /\ overlapped = FALSE
    /\ crash = "none"

-----------------------------------------------------------------------------
(* The node's side.                                                        *)

\* The process connects and says its id.
Dial(c) ==
    /\ Alive
    /\ handshake[c] = "idle"
    /\ \A d \in Conn : d < c => handshake[d] # "idle"
    /\ overlapped' = (overlapped \/ \E d \in Conn \ {c} : ~ Over(d))
    /\ peer' = peer \cup {c}
    /\ open' = open \cup {c}
    /\ handshake' = [handshake EXCEPT ![c] = "checks"]
    /\ UNCHANGED <<current, gate, inbox, listener, early, sender, crash>>

\* A process may write before it has read the hub's "OK".
PeerSends(c) ==
    /\ Alive
    /\ c \in peer
    /\ inbox[c] < MaxMessages
    /\ inbox' = [inbox EXCEPT ![c] = @ + 1]
    /\ UNCHANGED <<current, gate, peer, open, handshake, listener, early,
                   sender, world>>

PeerCloses(c) ==
    /\ Alive
    /\ c \in peer
    /\ peer' = peer \ {c}
    /\ UNCHANGED <<current, gate, open, inbox, handshake, listener,
                   early, sender, world>>

-----------------------------------------------------------------------------
\* Somebody holds n.mu for reading, in a write that does not return.
Held ==
    \/ \E s \in Sender : sender[s] = "stalled"
    \/ \E l \in Conn : listener[l].at = "stalled"

\* A write returns (with an error) when one of the sides has closed.
WriteEnds == current \notin peer

\* The hub closes; what the process does to its side then does not matter.
HubCloses(c) ==
    /\ open' = open \ {c}
    /\ peer' = peer \ {c}

(* handleConnection.                                                       *)

Moves(c, from, to) ==
    /\ Alive
    /\ handshake[c] = from
    /\ handshake' = [handshake EXCEPT ![c] = to]

\* finishVerification(p)
FinishVerification(p) ==
    /\ ~ Held
    /\ passed' = IF done = None THEN passed ELSE p
    /\ closed' = IF done = None THEN closed ELSE closed \cup {done}
    /\ done' = None

\* A check of manifest or binary fails, and HandleConnection closes.
Denied(c) ==
    /\ Moves(c, "checks", "failed")
    /\ HubCloses(c)
    /\ inbox' = [inbox EXCEPT ![c] = 0]
    /\ UNCHANGED <<current, gate, listener, early, sender,
                   world>>

Activates(c) ==
    /\ ~ Held
    /\ current' = c
    /\ listener' = [listener EXCEPT ![c] = At("loop")]

\* The hub could verify the binary itself.
ActivateVerified(c) ==
    /\ Moves(c, "checks", "done")
    /\ Activates(c)
    /\ UNCHANGED <<gate, net, early, sender, world>>

\* (A slip: the gate is not closed when HYPHAE has to verify.)
ActivateUngated(c) ==
    /\ Moves(c, "checks", "hash")
    /\ Activates(c)
    /\ UNCHANGED <<gate, net, early, sender, world>>

\* The connection works while HYPHAE verifies the binary, behind the gate.
ActivateProvisional(c) ==
    /\ Moves(c, "checks", "hash")
    /\ Activates(c)
    /\ done' = c
    /\ passed' = FALSE
    /\ UNCHANGED <<closed, net, early, sender, world>>

\* The hash matches: RegisterNode, and finishVerification(true).
Pass(c) ==
    /\ Moves(c, "hash", "return")
    /\ FinishVerification(TRUE)
    /\ UNCHANGED <<current, net, listener, early, sender, world>>

\* The deferred finishVerification(false) of a handshake that succeeded.
Return(c) ==
    /\ Moves(c, "return", "done")
    /\ FinishVerification(FALSE)
    /\ UNCHANGED <<current, net, listener, early, sender, world>>

\* (A slip: a handshake that fails leaves the gate as it is.)
HashFailsQuietly(c) ==
    /\ Moves(c, "hash", "close")
    /\ UNCHANGED <<current, gate, net, listener, early, sender, world>>

\* HYPHAE does not answer in time, or the hash differs: the deferred call.
HashFails(c) ==
    /\ Moves(c, "hash", "close")
    /\ FinishVerification(FALSE)
    /\ UNCHANGED <<current, net, listener, early, sender, world>>

\* (A slip: the failed handshake also clears the node's connection.)
ClosesConnection(c) ==
    /\ Moves(c, "close", "failed")
    /\ HubCloses(c)
    /\ current' = None
    /\ UNCHANGED <<gate, inbox, listener, early, sender,
                   world>>

\* ... and HandleConnection closes.
Closes(c) ==
    /\ Moves(c, "close", "failed")
    /\ HubCloses(c)
    /\ UNCHANGED <<current, gate, inbox, listener, early, sender,
                   world>>

-----------------------------------------------------------------------------
(* listen.                                                                 *)

Is(l, place) == Alive /\ listener[l].at = place

\* The panic ends the process; nothing of it remains.
Crashes(who) ==
    /\ crash' = who
    /\ current' = None
    /\ done' = None /\ passed' = FALSE /\ closed' = {}
    /\ peer' = {} /\ open' = {}
    /\ inbox' = [c \in Conn |-> 0]
    /\ handshake' = [c \in Conn |-> "idle"]
    /\ listener' = [c \in Conn |-> NoListener]
    /\ early' = {}
    /\ sender' = [s \in Sender |-> "idle"]
    /\ UNCHANGED overlapped

\* readMessage reads n.reader, whichever that is now; a nil one is a panic.
Loop(l) ==
    /\ Is(l, "loop")
    /\ current # None
    /\ listener' = [listener EXCEPT ![l].at = "blocked", ![l].from = current]
    /\ UNCHANGED <<current, gate, net, handshake, early, sender,
                   world>>
LoopCrashes(l) ==
    /\ Is(l, "loop") /\ current = None
    /\ Crashes("listener")

\* A whole line has arrived (or was buffered when the hub closed).
Take(l) ==
    LET c == listener[l].from
    IN  /\ Is(l, "blocked")
        /\ inbox[c] > 0
        /\ inbox' = [inbox EXCEPT ![c] = @ - 1]
        /\ listener' = [listener EXCEPT ![l].at = "taken"]
        /\ UNCHANGED <<current, gate, peer, open, handshake, early,
                       sender, world>>

\* A gated line of the connection that listener l reads gets through.
GoesThrough(l) ==
    /\ early' = IF handshake[listener[l].from] = "hash"
                THEN early \cup {listener[l].from} ELSE early
    /\ listener' = [listener EXCEPT ![l] = At("dispatch")]

\* A line that is exempt goes to the bus at once ...
Exempt(l) ==
    /\ Is(l, "taken")
    /\ listener' = [listener EXCEPT ![l] = At("dispatch")]
    /\ UNCHANGED <<current, gate, net, handshake, early, sender, world>>

\* ... and a gated one if waitForVerification finds no channel.
Gate(l) ==
    /\ Is(l, "taken")
    /\ done = None
    /\ GoesThrough(l)
    /\ UNCHANGED <<current, gate, net, handshake, sender, world>>
Wait(l) ==
    /\ Is(l, "taken")
    /\ done # None
    /\ listener' = [listener EXCEPT ![l].at = "waiting", ![l].waits = done]
    /\ UNCHANGED <<current, gate, net, handshake, early, sender, world>>

\* The channel was closed: go on if the last verification passed.
Wake(l) ==
    /\ Is(l, "waiting")
    /\ listener[l].waits \in closed
    /\ passed
    /\ GoesThrough(l)
    /\ UNCHANGED <<current, gate, net, handshake, sender, world>>
Skip(l) ==
    /\ Is(l, "waiting")
    /\ listener[l].waits \in closed
    /\ ~ passed
    /\ listener' = [listener EXCEPT ![l] = At("loop")]
    /\ UNCHANGED <<current, gate, net, handshake, early, sender, world>>

\* Pipe, Broadcast, Response or Request of the bus returns; if it fails,
\* Receive finds the node's own writer, to report that.
Dispatch(l) ==
    /\ Is(l, "dispatch")
    /\ \E place \in {"loop", "write"} :
          /\ place = "write" => current # None
          /\ listener' = [listener EXCEPT ![l] = At(place)]
    /\ UNCHANGED <<current, gate, net, handshake, early, sender, world>>

\* The listener's own Receive, as below.
Answers(l) ==
    /\ Is(l, "write")
    /\ current # None
    /\ \E place \in {"loop", "stalled"} :
          /\ place = "stalled" => ~ WriteEnds
          /\ listener' = [listener EXCEPT ![l] = At(place)]
    /\ UNCHANGED <<current, gate, net, handshake, early, sender, world>>
Answered(l) ==
    /\ Is(l, "stalled")
    /\ listener' = [listener EXCEPT ![l] = At("loop")]
    /\ UNCHANGED <<current, gate, net, handshake, early, sender, world>>
AnswerCrashes(l) ==
    /\ Is(l, "write") /\ current = None
    /\ Crashes("listener")

\* End of file, or "use of closed network connection".
SeesClosed(l) ==
    LET c == listener[l].from
    IN  /\ Is(l, "blocked")
        /\ c \notin open \/ (c \notin peer /\ inbox[c] = 0)
        /\ listener' = [listener EXCEPT ![l].at = "teardown"]
        /\ UNCHANGED <<current, gate, net, handshake, early, sender,
                       world>>

\* (Slips: the end of listen closes without clearing, or clears without
\* closing.)
TearDownQuietly(l) ==
    /\ Is(l, "teardown") /\ ~ Held
    /\ current # None
    /\ HubCloses(current)
    /\ listener' = [listener EXCEPT ![l] = At("gone")]
    /\ UNCHANGED <<current, gate, inbox, handshake, early, sender,
                   world>>

TearDownUnclosed(l) ==
    /\ Is(l, "teardown") /\ ~ Held
    /\ current # None
    /\ current' = None
    /\ listener' = [listener EXCEPT ![l] = At("gone")]
    /\ UNCHANGED <<gate, net, handshake, early, sender, world>>

\* The end of listen closes and clears whatever connection the node has now.
TearDown(l) ==
    /\ Is(l, "teardown") /\ ~ Held
    /\ current # None
    /\ HubCloses(current)
    /\ current' = None
    /\ listener' = [listener EXCEPT ![l] = At("gone")]
    /\ UNCHANGED <<gate, inbox, handshake, early, sender,
                   world>>
TearDownCrashes(l) ==
    /\ Is(l, "teardown") /\ current = None
    /\ Crashes("listener")

-----------------------------------------------------------------------------
(* Receive: the writer is looked at, and used under a second RLock.        *)

FindWriter(s) ==
    /\ Alive /\ sender[s] = "idle"
    /\ current # None
    /\ sender' = [sender EXCEPT ![s] = "write"]
    /\ UNCHANGED <<current, gate, net, handshake, listener, early, world>>

Write(s) ==
    /\ Alive /\ sender[s] = "write"
    /\ current # None
    /\ \/ sender' = [sender EXCEPT ![s] = "idle"]
       \/ ~ WriteEnds /\ sender' = [sender EXCEPT ![s] = "stalled"]
    /\ UNCHANGED <<current, gate, net, handshake, listener, early, world>>
Written(s) ==
    /\ Alive /\ sender[s] = "stalled"
    /\ sender' = [sender EXCEPT ![s] = "idle"]
    /\ UNCHANGED <<current, gate, net, handshake, listener, early, world>>
WriteCrashes(s) ==
    /\ Alive /\ sender[s] = "write" /\ current = None
    /\ Crashes("sender")

-----------------------------------------------------------------------------
Handshakes(c) ==
    \/ Denied(c) \/ ActivateVerified(c) \/ ActivateProvisional(c)
    \/ Pass(c) \/ Return(c) \/ HashFails(c) \/ Closes(c)
Listens(l) ==
    \/ Loop(l) \/ LoopCrashes(l) \/ Take(l) \/ Exempt(l) \/ Gate(l) \/ Wait(l)
    \/ Wake(l) \/ Skip(l) \/ Answers(l) \/ AnswerCrashes(l)
    \/ SeesClosed(l) \/ TearDown(l) \/ TearDownCrashes(l)
Sends(s) == FindWriter(s) \/ Write(s) \/ Written(s) \/ WriteCrashes(s)

Next ==
    \/ \E c \in Conn :
          \/ Dial(c) \/ PeerSends(c) \/ PeerCloses(c)
          \/ Handshakes(c)
          \/ Listens(c) \/ Dispatch(c) \/ Answered(c)
    \/ \E s \in Sender : Sends(s)

Spec == Init /\ [][Next]_vars

\* The listeners run; but whatever needs n.mu waits while a write holds it
\* (then a Lock that waits goes before later RLocks, as sync.RWMutex
\* promises), and only a write to a connection that was closed is sure to end.
\* Nothing else is owed: neither by the peers, nor by a call into the bus, nor
\* by a handshake, whose request to HYPHAE is such a call.
Fairness ==
    \A l \in Conn :
        /\ SF_vars(~ Held /\ Listens(l))
        /\ WF_vars(WriteEnds /\ Answered(l))
WritersFair ==
    \A s \in Sender : WF_vars(WriteEnds /\ Written(s))

FairSpec == Spec /\ Fairness /\ WritersFair

-----------------------------------------------------------------------------
(* A node that reads as connected has the listener of that connection at   *)
(* work, so the end of the connection will be noticed, even if the         *)
(* connections of its processes overlap; and if they do not, a connection  *)
(* that was accepted and that the hub has not closed is the current one.   *)
ConnectedHasListener ==
    /\ TypeOK
    /\ current # None => listener[current].at \notin {"none", "gone"}
    /\ ~ overlapped =>
          \A c \in open : handshake[c] \in {"hash", "return", "done"}
              => current = c

(* While HYPHAE is verifying a connection, none of its lines gets through  *)
(* that waitForVerification is asked about (those that start with "~",     *)
(* answers and pipes, and those with ".binary.hash" in the first word are  *)
(* not), whatever the listener does meanwhile; unless connections of the   *)
(* node overlap: they share the gate, and the end of one verification      *)
(* opens it for the other.                                                 *)
SilentWhileVerifying ==
    ~ overlapped => early = {}

(* What README.md line 16 calls the hub, "A local IPC daemon that lets     *)
(* applications on the same machine discover and talk to each other", ends *)
(* when a goroutine uses a connection that another has cleared.            *)
HubSurvives == crash = "none"

(* A listener finds the connection that it reads or ends, as long as the   *)
(* connections of the node do not overlap: the messages of others, and     *)
(* handshakes that fail late, do not take it away.                         *)
ListenersSurvive == crash = "listener" => overlapped

\* No call into the bus, and no request for a hash, lasts for ever.
CallsReturn ==
    \A c \in Conn : /\ []<>(handshake[c] # "hash")
                    /\ []<>(listener[c].at # "dispatch")

(* A connection that the node's side has closed does not stay current:     *)
(* whoever is writing to it is set free, and the listener gets to the end  *)
(* of what it has to read, if only the calls into the bus, its own and     *)
(* those of the handshakes that it waits for, return.                      *)
DisconnectNoticed ==
    CallsReturn =>
        ((current # None /\ current \notin peer)
            ~> (current = None \/ current \in peer \/ ~ Alive))

Waiters == {l \in Conn : listener[l].at = "waiting"}

(* A listener that waits for a verification comes to know its outcome, if  *)
(* the verification ends, and no write to the process that is verified     *)
(* holds n.mu for ever: every way out of the handshake opens the gate,     *)
(* unless a later handshake has put a gate of its own in its place, whose  *)
(* predecessor nobody opens.                                               *)
WaitersWake ==
    CallsReturn /\ []<>(~ Held) =>
        (Waiters # {} ~> (Waiters = {} \/ overlapped \/ ~ Alive))
=============================================================================
