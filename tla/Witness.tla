------------------------------ MODULE Witness -------------------------------
(***************************************************************************)
(* The witness channel and the witnesses: witness/witness.go with the      *)
(* goroutine that empties the channel, bus/witness.go with the list of     *)
(* witnesses, and WriteWitness of nodes/writer.go.                         *)
(*                                                                         *)
(* A message is the number of its Send.  The goroutine holds w.mu for      *)
(* reading while it writes to one witness after the other; registering and *)
(* unregistering take it for writing, and wait for it.  A peer that does   *)
(* not read makes a write time out, after which the bufio.Writer of that   *)
(* connection refuses all others without a word.  The time limit is set    *)
(* by flush only: a message that does not fit the buffer is written before *)
(* that, and waits for the peer without any limit (`stuck').               *)
(***************************************************************************)
EXTENDS Naturals, Sequences

Lists == INSTANCE SequencesExt

CONSTANTS
    WitnessNode, \* nodes whose manifest makes them witnesses
    Capacity,    \* of messageChan
    MaxSent      \* bound: messages

ASSUME WitnessAssumption == Capacity \in Nat /\ MaxSent \in Nat

VARIABLES
    sent,       \* calls of Send
    channel,    \* messageChan
    witnesses,  \* w.witnesses
    member,     \* the nodes whose last call was register
    connected,  \* those with a connection
    reading,    \* those whose peer reads
    failed,     \* those whose bufio.Writer has failed
    drain,      \* where the goroutine is: its message, and whom to write to yet
    owed,       \* members that were, and are, fit to get the message
    got         \* what the peer of each has read

witnessVars == <<sent, channel, witnesses, member, connected, reading, failed,
                 drain, owed, got>>

Resting == [at |-> "idle", message |-> 0, todo |-> <<>>]

WitnessTypeOK ==
    /\ sent \in 0 .. MaxSent
    /\ channel \in Seq(1 .. MaxSent) /\ Len(channel) <= Capacity
    /\ witnesses \in Seq(WitnessNode)
    /\ member \in SUBSET WitnessNode
    /\ connected \in SUBSET WitnessNode
    /\ reading \in SUBSET WitnessNode
    /\ failed \in SUBSET connected
    /\ drain \in [at : {"idle", "writing", "stuck"}, message : 0 .. MaxSent,
                  todo : Seq(WitnessNode)]
    /\ owed \in SUBSET WitnessNode
    /\ got \in [WitnessNode -> Seq(1 .. MaxSent)]

WitnessInit ==
    /\ sent = 0 /\ channel = <<>>
    /\ witnesses = <<>> /\ member = {}
    /\ connected = {} /\ reading = WitnessNode /\ failed = {}
    /\ drain = Resting /\ owed = {}
    /\ got = [w \in WitnessNode |-> <<>>]

-----------------------------------------------------------------------------
(* The list.                                                               *)

Unheld == drain.at = "idle"

Added(w) == IF w \in Lists!ToSet(witnesses) THEN witnesses ELSE Append(witnesses, w)

\* register, at every handshake.
RegisterWitness(w) ==
    /\ Unheld
    /\ witnesses' = Added(w)
    /\ member' = member \cup {w}
    /\ UNCHANGED <<sent, channel, connected, reading, failed, drain, owed, got>>

\* (A slip: the last one goes, whichever was to go.)
DroppedLast(w) ==
    IF w \in Lists!ToSet(witnesses) THEN Lists!Front(witnesses) ELSE witnesses

\* The last one takes the place of w.
Place(w) == CHOOSE i \in DOMAIN witnesses : witnesses[i] = w
Dropped(w) ==
    IF w \in Lists!ToSet(witnesses)
    THEN Lists!Front([witnesses EXCEPT ![Place(w)] = Lists!Last(witnesses)])
    ELSE witnesses

UnregisterWitness(w) ==
    /\ Unheld
    /\ w \in member
    /\ witnesses' = Dropped(w)
    /\ member' = member \ {w}
    /\ UNCHANGED <<sent, channel, connected, reading, failed, drain, owed, got>>

-----------------------------------------------------------------------------
(* The connections of the witnesses.                                       *)

Connect(w) ==
    /\ w \notin connected
    /\ connected' = connected \cup {w}
    /\ reading' = reading \cup {w}
    /\ UNCHANGED <<sent, channel, witnesses, member, failed, drain, owed, got>>

\* The next connection has a writer of its own.  The end of the old one waits
\* for the write that is under way.
Disconnect(w) ==
    /\ w \in connected
    /\ drain.at = "stuck" => w # Head(drain.todo)
    /\ connected' = connected \ {w}
    /\ failed' = failed \ {w}
    /\ owed' = owed \ {w}
    /\ UNCHANGED <<sent, channel, witnesses, member, reading, drain, got>>

StopReading(w) ==
    /\ w \in connected \cap reading
    /\ reading' = reading \ {w}
    /\ owed' = owed \ {w}
    /\ UNCHANGED <<sent, channel, witnesses, member, connected, failed, drain, got>>

ReadAgain(w) ==
    /\ w \in connected \ reading
    /\ reading' = reading \cup {w}
    /\ UNCHANGED <<sent, channel, witnesses, member, connected, failed, drain,
                   owed, got>>

-----------------------------------------------------------------------------
(* Send, from anywhere in the hub, and the goroutine of Init.              *)

\* A full channel drops the message.
Send ==
    /\ sent < MaxSent
    /\ sent' = sent + 1
    /\ channel' = IF Len(channel) < Capacity THEN Append(channel, sent + 1)
                  ELSE channel
    /\ UNCHANGED <<witnesses, member, connected, reading, failed, drain, owed, got>>

Take ==
    /\ drain = Resting
    /\ channel # <<>>
    /\ channel' = Tail(channel)
    /\ drain' = [at |-> "writing", message |-> Head(channel), todo |-> witnesses]
    /\ owed' = (member \cap connected \cap reading) \ failed
    /\ UNCHANGED <<sent, witnesses, member, connected, reading, failed, got>>

AfterThis == [drain EXCEPT !.todo = Tail(@), !.at = "writing"]
Current == Head(drain.todo)
Writing == drain.at = "writing" /\ drain.todo # <<>>

\* A node that is not connected, or whose writer has failed, gets nothing.
Skip ==
    /\ Writing
    /\ Current \notin connected \/ Current \in failed
    /\ drain' = AfterThis
    /\ UNCHANGED <<sent, channel, witnesses, member, connected, reading, failed,
                   owed, got>>

\* (A slip: the writer offers what it writes to the witnesses, as WriteMessage
\* does.)
OfferedAgain ==
    IF Len(channel) < Capacity THEN Append(channel, drain.message) ELSE channel

\* WriteWitness, other than WriteMessage, does not Send.
Offered == channel

WriteWitness ==
    /\ Writing
    /\ Current \in (connected \cap reading) \ failed
    /\ got' = [got EXCEPT ![Current] = Append(@, drain.message)]
    /\ channel' = Offered
    /\ drain' = AfterThis
    /\ UNCHANGED <<sent, witnesses, member, connected, reading, failed, owed>>

\* flush gives up after three seconds.
TimeOut ==
    /\ Writing
    /\ Current \in connected \ (reading \cup failed)
    /\ failed' = failed \cup {Current}
    /\ drain' = AfterThis
    /\ UNCHANGED <<sent, channel, witnesses, member, connected, reading, owed, got>>

\* A long message is written by WriteString, without a deadline ...
GetStuck ==
    /\ Writing
    /\ Current \in connected \ (reading \cup failed)
    /\ drain' = [drain EXCEPT !.at = "stuck"]
    /\ UNCHANGED <<sent, channel, witnesses, member, connected, reading, failed,
                   owed, got>>

\* ... and goes on when the peer reads, or fails when it has gone.
GetLoose ==
    /\ drain.at = "stuck"
    /\ Current \in reading
    /\ got' = [got EXCEPT ![Current] = Append(@, drain.message)]
    /\ drain' = AfterThis
    /\ UNCHANGED <<sent, channel, witnesses, member, connected, reading, failed, owed>>

GetCut ==
    /\ drain.at = "stuck"
    /\ failed' = failed \cup {Current}
    /\ owed' = owed \ {Current}
    /\ drain' = AfterThis
    /\ UNCHANGED <<sent, channel, witnesses, member, connected, reading, got>>

Rest ==
    /\ drain.at = "writing" /\ drain.todo = <<>>
    /\ drain' = Resting
    /\ UNCHANGED <<sent, channel, witnesses, member, connected, reading, failed,
                   owed, got>>

WitnessNext ==
    \/ \E w \in WitnessNode :
          \/ RegisterWitness(w) \/ UnregisterWitness(w)
          \/ Connect(w) \/ Disconnect(w) \/ StopReading(w) \/ ReadAgain(w)
    \/ Send \/ Take \/ Skip \/ WriteWitness \/ TimeOut
    \/ GetStuck \/ GetLoose \/ GetCut \/ Rest

-----------------------------------------------------------------------------
(* A witness sees the messages of the hub in the order in which they were  *)
(* sent, and none twice: what is written to a witness is not itself        *)
(* witnessed, and a node that registers at every handshake is one witness. *)
WitnessedOnceInOrder ==
    \A w \in WitnessNode : \A i, j \in DOMAIN got[w] :
        i < j => got[w][i] < got[w][j]

(* A witness that is registered, connected and reading gets every message  *)
(* that the channel had room for, whichever other witnesses come, go, or   *)
(* keep the goroutine waiting.                                             *)
AttentiveMissNothing ==
    /\ WitnessTypeOK
    /\ drain.at = "writing" /\ drain.todo = <<>> =>
          \A w \in owed : got[w] # <<>> /\ Lists!Last(got[w]) = drain.message
=============================================================================
