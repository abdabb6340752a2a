----------------------------- MODULE NodeProofs -----------------------------
(***************************************************************************)
(* Proofs about one node (nodes/node.go): its connections and their        *)
(* listeners (Connection.tla), and what is verified of a connection        *)
(* (Handshake.tla), for any number of connections, senders, messages,      *)
(* contents and programs.                                                  *)
(***************************************************************************)
EXTENDS Connection, Handshake, TLAPS

\* A listener that is reading, or has read, knows from which connection.
ReadsSome ==
    \A l \in Conn : listener[l].at \in {"blocked", "taken", "waiting"}
        => listener[l].from \in Conn

Live(l) == listener[l].at \notin {"none", "gone"}

(* The state of a node whose connections have not overlapped so far: at    *)
(* most one of them is under way, and the gate is that of the handshake    *)
(* that waits for HYPHAE.                                                  *)

OneAtATime ==
    /\ \A c, d \in Conn : c # d => Over(c) \/ Over(d)
    /\ \A c \in Conn : handshake[c] \in {"idle", "checks"} =>
          ~ Live(c) /\ c \notin closed
    /\ \A c \in Conn : Live(c) => current = c
    /\ \A c \in open : handshake[c] \in {"hash", "return", "done"} => Live(c)
    /\ \A c \in Conn : listener[c].at \in {"blocked", "taken", "waiting"}
          => listener[c].from = c

GateInv ==
    /\ early = {}
    /\ done # None => handshake[done] = "hash"
    /\ \A c \in Conn : handshake[c] = "hash" =>
          /\ done = c /\ c \notin closed
          /\ listener[c].at = "waiting" => listener[c].waits = c

ConnectionInv ==
    /\ TypeOK
    /\ ReadsSome
    /\ current # None => Live(current)
    /\ ~ overlapped => OneAtATime /\ GateInv
    /\ ListenersSurvive

(* The places of a listener.                                               *)
Place == {"none", "loop", "blocked", "taken", "waiting", "dispatch",
          "write", "stalled", "teardown", "gone"}
Places == [at : Place, from : Conn \cup {None}, waits : Conn \cup {None}]

(* The states a listener is created in, goes through and ends in           *)
(* (handleConnection, listen).                                             *)
LEMMA PlaceType ==
    ASSUME NEW place \in Place
    PROVE  At(place) \in Places /\ At(place).at = place
BY DEF NoListener, At, Places

LEMMA NoListenerType == NoListener \in Places /\ NoListener.at = "none"
BY DEF NoListener, Places, Place

(* What a hub that starts finds: no connection, no listener, no sender.    *)
LEMMA BlankType ==
    /\ [c \in Conn |-> NoListener] \in [Conn -> Places]
    /\ [c \in Conn |-> 0] \in [Conn -> 0 .. MaxMessages]
    /\ [c \in Conn |-> "idle"] \in
          [Conn -> {"idle", "checks", "hash", "return", "done", "close", "failed"}]
    /\ [s \in Sender |-> "idle"] \in [Sender -> {"idle", "write", "stalled"}]
BY ConnectionAssumption, NoListenerType

(* A hub that starts has variables of their types.                         *)
LEMMA TypeInit == Init => TypeOK
BY ConnectionAssumption, NoListenerType, BlankType DEF Init, TypeOK, Places, Place

(* A panic leaves the types alone: the next start is as the first.         *)
LEMMA CrashesKeepType ==
    ASSUME TypeOK, NEW who \in {"listener", "sender"}, Crashes(who)
    PROVE  TypeOK'
BY BlankType DEF Crashes, TypeOK, Places, Place

(* No step of a handshake, listener, sender or peer leaves the types.      *)
LEMMA TypeInductive ==
    ASSUME TypeOK, ReadsSome, [Next]_vars
    PROVE  TypeOK'
<1> USE ConnectionAssumption DEF gate, net, world
<1>1. CASE UNCHANGED vars
  BY <1>1 DEF vars, TypeOK
<1>2. ASSUME NEW c \in Conn, Dial(c)
      PROVE  TypeOK'
  BY <1>2 DEF TypeOK, Dial
<1>3. ASSUME NEW c \in Conn, PeerSends(c)
      PROVE  TypeOK'
  BY <1>3 DEF TypeOK, PeerSends
<1>4. ASSUME NEW c \in Conn, PeerCloses(c)
      PROVE  TypeOK'
  BY <1>4 DEF TypeOK, PeerCloses
<1>5. ASSUME NEW c \in Conn, Denied(c)
      PROVE  TypeOK'
  BY <1>5 DEF TypeOK, Denied, HubCloses, Moves
<1>6. ASSUME NEW c \in Conn, ActivateVerified(c)
      PROVE  TypeOK'
  BY <1>6, PlaceType DEF TypeOK, ActivateVerified, Activates, Moves, Place, Places
<1>7. ASSUME NEW c \in Conn, ActivateProvisional(c)
      PROVE  TypeOK'
  BY <1>7, PlaceType DEF TypeOK, ActivateProvisional, Activates, Moves, Place,
     Places
<1>8. ASSUME NEW c \in Conn, Pass(c) \/ Return(c) \/ HashFails(c)
      PROVE  TypeOK'
  BY <1>8 DEF TypeOK, Pass, Return, HashFails, FinishVerification, Moves
<1>9. ASSUME NEW c \in Conn, Closes(c)
      PROVE  TypeOK'
  BY <1>9 DEF TypeOK, Closes, HubCloses, Moves
<1>12. ASSUME NEW c \in Conn, Loop(c)
       PROVE  TypeOK'
  <2>1. listener[c] \in Places /\ current \in Conn
    BY <1>12 DEF TypeOK, Places, Place, Loop
  <2>2. [listener[c] EXCEPT !.at = "blocked", !.from = current] \in Places
    BY <2>1 DEF Places, Place
  <2>3. listener' = [listener EXCEPT ![c] =
                        [listener[c] EXCEPT !.at = "blocked", !.from = current]]
    BY <1>12 DEF Loop, TypeOK
  <2>4. listener' \in [Conn -> Places]
    BY <2>2, <2>3 DEF TypeOK, Places, Place
  <2>5. QED
    BY <1>12, <2>4 DEF TypeOK, Loop, Places, Place
<1>13. ASSUME NEW c \in Conn, Take(c)
       PROVE  TypeOK'
  <2>1. inbox[listener[c].from] - 1 \in 0 .. MaxMessages
    BY <1>13 DEF TypeOK, ReadsSome, Take, Is
  <2>2. inbox' \in [Conn -> 0 .. MaxMessages]
    BY <1>13, <2>1 DEF TypeOK, Take
  <2>3. listener' \in [Conn -> Places]
    BY <1>13 DEF TypeOK, Take, Places, Place
  <2>4. QED
    BY <1>13, <2>2, <2>3 DEF TypeOK, Take, Places, Place
<1>14. ASSUME NEW c \in Conn, Wait(c)
       PROVE  TypeOK'
  <2>1. listener[c] \in Places
    BY DEF TypeOK, Places, Place
  <2>2. [listener[c] EXCEPT !.at = "waiting", !.waits = done] \in Places
    BY <2>1 DEF TypeOK, Places, Place
  <2>3. listener' = [listener EXCEPT ![c] =
           [listener[c] EXCEPT !.at = "waiting", !.waits = done]]
    BY <1>14 DEF TypeOK, Wait
  <2>4. listener' \in [Conn -> Places]
    BY <2>2, <2>3 DEF TypeOK, Places, Place
  <2>5. QED
    BY <1>14, <2>4 DEF TypeOK, Wait, Places, Place
<1>15. ASSUME NEW l \in Conn, Exempt(l) \/ Skip(l) \/ Dispatch(l)
                              \/ Answers(l) \/ Answered(l)
       PROVE  TypeOK'
  <2>1. PICK place \in Place : listener' = [listener EXCEPT ![l] = At(place)]
    BY <1>15 DEF Exempt, Skip, Dispatch, Answers, Answered, Place
  <2>2. listener' \in [Conn -> Places]
    BY <2>1, PlaceType DEF TypeOK, Places, Place
  <2>3. QED
    BY <1>15, <2>2 DEF TypeOK, Exempt, Skip, Dispatch, Answers, Answered, Places,
       Place
<1>16. ASSUME NEW l \in Conn, Gate(l) \/ Wake(l)
       PROVE  TypeOK'
  <2>1. listener' = [listener EXCEPT ![l] = At("dispatch")]
    BY <1>16 DEF Gate, Wake, GoesThrough
  <2>2. listener' \in [Conn -> Places]
    BY <2>1, PlaceType DEF TypeOK, Places, Place
  <2>3. early' \subseteq Conn
    <3>1. listener[l].from \in Conn
      BY <1>16 DEF ReadsSome, Gate, Wake, Is
    <3>2. early' = early \/ early' = early \cup {listener[l].from}
      BY <1>16 DEF Gate, Wake, GoesThrough
    <3>3. early \subseteq Conn
      BY DEF TypeOK
    <3>4. QED
      BY <3>1, <3>2, <3>3
  <2>4. UNCHANGED <<current, gate, net, handshake, sender, world>>
    BY <1>16 DEF Gate, Wake
  <2>5. QED
    BY <2>2, <2>3, <2>4 DEF TypeOK, Places, Place
<1>17. ASSUME NEW c \in Conn, SeesClosed(c)
       PROVE  TypeOK'
  BY <1>17 DEF TypeOK, SeesClosed, Is
<1>18. ASSUME NEW c \in Conn, TearDown(c)
       PROVE  TypeOK'
  BY <1>18, PlaceType DEF TypeOK, TearDown, HubCloses, Is, Place, Places
<1>19. ASSUME NEW s \in Sender, FindWriter(s) \/ Write(s) \/ Written(s)
       PROVE  TypeOK'
  BY <1>19 DEF TypeOK, FindWriter, Write, Written
<1>20. ASSUME NEW c \in Conn, LoopCrashes(c) \/ TearDownCrashes(c)
                              \/ AnswerCrashes(c)
       PROVE  TypeOK'
  BY <1>20, CrashesKeepType DEF LoopCrashes, TearDownCrashes, AnswerCrashes
<1>21. ASSUME NEW s \in Sender, WriteCrashes(s)
       PROVE  TypeOK'
  BY <1>21, CrashesKeepType DEF WriteCrashes
<1>22. QED
  BY <1>1, <1>2, <1>3, <1>4, <1>5, <1>6, <1>7, <1>8, <1>9, <1>12, <1>13,
     <1>14, <1>15, <1>16, <1>17, <1>18, <1>19, <1>20, <1>21 DEF Next,
     Handshakes, Listens, Sends

-----------------------------------------------------------------------------
(* What a step does, connection by connection.                             *)

Shaken(c, to) ==
    /\ handshake'[c] = to
    /\ \A d \in Conn \ {c} : handshake'[d] = handshake[d]

Heard(l, place) ==
    /\ listener'[l].at = place
    /\ \A d \in Conn \ {l} : listener'[d] = listener[d]

(* A hub that starts has no connection, so none that overlaps.             *)
LEMMA ConnectionInit == Init => ConnectionInv
<1> SUFFICES ASSUME Init PROVE ConnectionInv
  OBVIOUS
<1>1. \A c \in Conn : handshake[c] = "idle" /\ listener[c].at = "none"
  BY NoListenerType DEF Init
<1>2. QED
  BY <1>1, TypeInit DEF Init, ConnectionInv, ReadsSome, Live, OneAtATime,
     GateInv, Over,
     ListenersSurvive

(* A panic of any goroutine leaves nothing of the process.                 *)
LEMMA CrashesKeep ==
    ASSUME ConnectionInv, NEW who \in {"listener", "sender"}, Crashes(who),
           who = "listener" => overlapped
    PROVE  ConnectionInv'
<1>1. \A c \in Conn : handshake'[c] = "idle" /\ listener'[c].at = "none"
  BY NoListenerType DEF Crashes
<1>2. TypeOK'
  BY CrashesKeepType DEF ConnectionInv
<1>3. QED
  BY <1>1, <1>2 DEF Crashes, ConnectionInv, ReadsSome, Live, OneAtATime,
     GateInv, Over,
     ListenersSurvive

(* A process that connects, sends or closes: only a connection that is     *)
(* opened while another is under way makes them overlap.                   *)
LEMMA PeerKeeps ==
    ASSUME ConnectionInv, TypeOK', NEW c \in Conn, Dial(c) \/ PeerSends(c) \/ PeerCloses(c)
    PROVE  ConnectionInv'
<1> USE ConnectionAssumption
    DEF gate, net, world
<1>1. CASE Dial(c)
  <2>1. Shaken(c, "checks") /\ handshake[c] = "idle"
    BY <1>1, NoListenerType DEF Dial, Shaken, Heard, ConnectionInv, TypeOK
  <2>2. ASSUME ~ overlapped'
        PROVE  ~ overlapped /\ \A d \in Conn \ {c} : Over(d)
    BY <1>1, <2>2, Zenon DEF Dial
  <2>3. ASSUME ~ overlapped'
        PROVE  OneAtATime' /\ GateInv'
    BY <1>1, <2>1, <2>2, <2>3 DEF Dial, Shaken, ConnectionInv, Live,
       OneAtATime, GateInv, Over
  <2>4. ReadsSome' /\ (current # None => Live(current))' /\ ListenersSurvive'
    BY <1>1 DEF Dial, ConnectionInv, ReadsSome, Live, ListenersSurvive
  <2>5. QED
    BY <2>3, <2>4 DEF ConnectionInv
<1>2. CASE PeerSends(c)
  BY <1>2 DEF PeerSends, ConnectionInv, ReadsSome, Live, OneAtATime, GateInv,
     Over, ListenersSurvive
<1>3. CASE PeerCloses(c)
  BY <1>3 DEF PeerCloses, ConnectionInv, ReadsSome, Live, OneAtATime, GateInv,
     Over, ListenersSurvive
<1>4. QED
  BY <1>1, <1>2, <1>3

(* The checks, activateConnection, and the verification that opens the     *)
(* gate when HYPHAE has answered (handleConnection).                       *)
LEMMA HandshakeKeeps ==
    ASSUME ConnectionInv, TypeOK', NEW c \in Conn, Handshakes(c)
    PROVE  ConnectionInv'
<1> USE ConnectionAssumption
    DEF gate, net, world
<1>1. CASE Denied(c)
  <2>1. Shaken(c, "failed")
    BY <1>1, NoListenerType DEF Denied, Moves, Shaken, Heard, ConnectionInv,
       TypeOK
  <2>2. QED
    BY <1>1, <2>1 DEF Denied, HubCloses, Moves, Shaken, Heard, ConnectionInv, ReadsSome,
       Live, OneAtATime, GateInv, Over, ListenersSurvive
<1>2. CASE ActivateVerified(c)
  <2>1. Shaken(c, "done") /\ Heard(c, "loop")
    BY <1>2, PlaceType DEF Place, ActivateVerified, Activates, Moves, Shaken,
       Heard, ConnectionInv, TypeOK
  <2>2. QED
    BY <1>2, <2>1 DEF ActivateVerified, Activates, Moves, Shaken, Heard,
       ConnectionInv, ReadsSome, Live, OneAtATime, GateInv, Over,
       ListenersSurvive
<1>3. CASE ActivateProvisional(c)
  <2>1. Shaken(c, "hash") /\ Heard(c, "loop")
    BY <1>3, PlaceType DEF Place, ActivateProvisional, Activates, Moves, Shaken,
       Heard, ConnectionInv, TypeOK
  <2>2. QED
    BY <1>3, <2>1 DEF ActivateProvisional, Activates, Moves, Shaken, Heard,
       ConnectionInv, ReadsSome, Live, OneAtATime, GateInv, Over,
       ListenersSurvive
<1>4. CASE Pass(c)
  <2>1. Shaken(c, "return")
    BY <1>4, NoListenerType DEF Pass, Moves, Shaken, Heard, ConnectionInv,
       TypeOK
  <2>2. ASSUME ~ overlapped
        PROVE  OneAtATime' /\ GateInv'
    <3>1. OneAtATime'
      BY <1>4, <2>1, <2>2 DEF Pass, Moves, FinishVerification, Shaken,
         ConnectionInv, Live, OneAtATime, GateInv, Over
    <3>2. GateInv'
      BY <1>4, <2>1, <2>2 DEF Pass, Moves, FinishVerification, Shaken,
         ConnectionInv, OneAtATime, GateInv, Over
    <3>3. QED
      BY <3>1, <3>2
  <2>3. QED
    BY <1>4, <2>2 DEF Pass, ConnectionInv, ReadsSome, Live, ListenersSurvive
<1>5. CASE Return(c)
  <2>1. Shaken(c, "done")
    BY <1>5, NoListenerType DEF Return, Moves, Shaken, Heard, ConnectionInv,
       TypeOK
  <2>2. ASSUME ~ overlapped
        PROVE  OneAtATime' /\ GateInv'
    <3>1. OneAtATime'
      BY <1>5, <2>1, <2>2 DEF Return, Moves, FinishVerification, Shaken,
         ConnectionInv, Live, OneAtATime, GateInv, Over
    <3>2. GateInv'
      BY <1>5, <2>1, <2>2 DEF Return, Moves, FinishVerification, Shaken,
         ConnectionInv, OneAtATime, GateInv, Over
    <3>3. QED
      BY <3>1, <3>2
  <2>3. QED
    BY <1>5, <2>2 DEF Return, ConnectionInv, ReadsSome, Live, ListenersSurvive
<1>6. CASE HashFails(c)
  <2>1. Shaken(c, "close")
    BY <1>6, NoListenerType DEF HashFails, Moves, Shaken, Heard,
       ConnectionInv, TypeOK
  <2>2. ASSUME ~ overlapped
        PROVE  OneAtATime' /\ GateInv'
    <3>1. OneAtATime'
      BY <1>6, <2>1, <2>2 DEF HashFails, Moves, FinishVerification, Shaken,
         ConnectionInv, Live, OneAtATime, GateInv, Over
    <3>2. GateInv'
      BY <1>6, <2>1, <2>2 DEF HashFails, Moves, FinishVerification, Shaken,
         ConnectionInv, OneAtATime, GateInv, Over
    <3>3. QED
      BY <3>1, <3>2
  <2>3. QED
    BY <1>6, <2>2 DEF HashFails, ConnectionInv, ReadsSome, Live, ListenersSurvive
<1>7. CASE Closes(c)
  <2>1. Shaken(c, "failed")
    BY <1>7, NoListenerType DEF Closes, Moves, Shaken, Heard, ConnectionInv,
       TypeOK
  <2>2. QED
    BY <1>7, <2>1 DEF Closes, HubCloses, Moves, Shaken, Heard, ConnectionInv, ReadsSome,
       Live, OneAtATime, GateInv, Over, ListenersSurvive
<1>8. QED
  BY <1>1, <1>2, <1>3, <1>4, <1>5, <1>6, <1>7 DEF Handshakes

(* A listener goes on, at the same connection and behind the gate.         *)
LEMMA ListenerMoves ==
    ASSUME ConnectionInv, TypeOK', NEW l \in Conn, Live(l),
           NEW place \in Place \ {"none", "gone"},
           Heard(l, place),
           UNCHANGED <<handshake, closed, open, current, done, overlapped, crash>>,
           ~ overlapped => early' = early,
           place \in {"blocked", "taken", "waiting"} =>
              /\ listener'[l].from \in Conn
              /\ ~ overlapped => listener'[l].from = l,
           ~ overlapped /\ handshake[l] = "hash" /\ place = "waiting" =>
              listener'[l].waits = l
    PROVE  ConnectionInv'
<1>0. current \in Conn \cup {None} /\ open \subseteq Conn
  BY DEF ConnectionInv, TypeOK
<1>1. ReadsSome' /\ (current # None => Live(current))' /\ ListenersSurvive'
  BY <1>0 DEF Heard, Place, ConnectionInv, ReadsSome, Live, ListenersSurvive
<1>2. ASSUME ~ overlapped
      PROVE  OneAtATime' /\ GateInv'
  <2>1. OneAtATime'
    BY <1>0, <1>2 DEF Heard, Place, ConnectionInv, Live, OneAtATime, Over
  <2>2. GateInv'
    BY <1>2 DEF Heard, Place, ConnectionInv, Live, GateInv
  <2>3. QED
    BY <2>1, <2>2
<1>3. QED
  BY <1>1, <1>2 DEF ConnectionInv

(* One turn of listen: readMessage, waitForVerification, the call into the *)
(* bus, the answer to a call that fails, and the teardown that clears the  *)
(* connection.                                                             *)
LEMMA ListenerKeeps ==
    ASSUME ConnectionInv, TypeOK', NEW l \in Conn,
           Listens(l) \/ Dispatch(l) \/ Answered(l)
    PROVE  ConnectionInv'
<1> USE ConnectionAssumption
    DEF gate, net, world
<1>1. CASE LoopCrashes(l) \/ TearDownCrashes(l) \/ AnswerCrashes(l)
  BY <1>1, CrashesKeep DEF LoopCrashes, TearDownCrashes, AnswerCrashes, Is,
     ConnectionInv, OneAtATime, Live
<1>2. CASE Loop(l)
  <2>1. Heard(l, "blocked") /\ listener'[l].from = current /\ current \in Conn
    BY <1>2 DEF Loop, Heard, ConnectionInv, TypeOK
  <2>2. Live(l) /\ (~ overlapped => current = l)
    BY <1>2 DEF Loop, Is, Live, ConnectionInv, OneAtATime
  <2>3. QED
    BY <1>2, <2>1, <2>2, ListenerMoves DEF Loop, Place
<1>3. CASE Take(l)
  <2>1. Heard(l, "taken") /\ listener'[l].from = listener[l].from
    BY <1>3 DEF Take, Heard, ConnectionInv, TypeOK
  <2>2. Live(l) /\ listener[l].from \in Conn /\ (~ overlapped => listener[l].from = l)
    BY <1>3 DEF Take, Is, Live, ConnectionInv, ReadsSome, OneAtATime
  <2>3. QED
    BY <1>3, <2>1, <2>2, ListenerMoves DEF Take, Place
<1>4. CASE Wait(l)
  <2>1. /\ Heard(l, "waiting")
        /\ listener'[l].from = listener[l].from /\ listener'[l].waits = done
    BY <1>4 DEF Wait, Heard, ConnectionInv, TypeOK
  <2>2. /\ Live(l) /\ listener[l].from \in Conn /\ (~ overlapped => listener[l].from = l)
        /\ ~ overlapped /\ handshake[l] = "hash" => done = l
    BY <1>4 DEF Wait, Is, Live, ConnectionInv, ReadsSome, OneAtATime, GateInv
  <2>3. QED
    BY <1>4, <2>1, <2>2, ListenerMoves DEF Wait, Place
<1>5. ASSUME Gate(l) \/ Wake(l), ~ overlapped
      PROVE  early' = early
  \* The gate is that of the handshake of the listener's own connection, as
  \* long as it waits for HYPHAE; so neither way through is open then.
  <2>1. listener[l].from = l
    BY <1>5 DEF Gate, Wake, Is, ConnectionInv, OneAtATime
  <2>2. handshake[l] # "hash"
    BY <1>5  DEF Gate, Wake, Is, ConnectionInv, GateInv
  <2>3. QED
    BY <1>5, <2>1, <2>2 DEF Gate, Wake, GoesThrough
<1>6. CASE Gate(l) \/ Wake(l)
  <2>1. Heard(l, "dispatch")
    BY <1>6, PlaceType DEF Gate, Wake, GoesThrough, Heard, Place, ConnectionInv,
       TypeOK
  <2>2. Live(l)
    BY <1>6 DEF Gate, Wake, Is, Live
  <2>3. UNCHANGED <<handshake, closed, open, current, done, overlapped, crash>>
    BY <1>6 DEF Gate, Wake
  <2>4. QED
    BY <1>5, <1>6, <2>1, <2>2, <2>3, ListenerMoves DEF Place
<1>7. CASE Exempt(l) \/ Skip(l) \/ Dispatch(l) \/ Answers(l) \/ Answered(l)
  <2>1. PICK place \in {"loop", "dispatch", "write", "stalled"} :
           listener' = [listener EXCEPT ![l] = At(place)]
    BY <1>7 DEF Exempt, Skip, Dispatch, Answers, Answered
  <2>2. Heard(l, place)
    BY <2>1, PlaceType DEF Heard, Place, ConnectionInv, TypeOK
  <2>3. Live(l)
    BY <1>7 DEF Exempt, Skip, Dispatch, Answers, Answered, Is, Live
  <2>4. UNCHANGED <<handshake, closed, open, current, done, early, overlapped, crash>>
    BY <1>7 DEF Exempt, Skip, Dispatch, Answers, Answered
  <2>5. QED
    BY <2>2, <2>3, <2>4, ListenerMoves DEF Place
<1>8. CASE SeesClosed(l)
  <2>1. Heard(l, "teardown") /\ Live(l)
    BY <1>8 DEF SeesClosed, Is, Live, Heard, ConnectionInv, TypeOK
  <2>2. QED
    BY <1>8, <2>1, ListenerMoves DEF SeesClosed, Place
<1>9. CASE TearDown(l)
  <2>1. Heard(l, "gone")
    BY <1>9, PlaceType DEF TearDown, Heard, Place, ConnectionInv, TypeOK
  <2>2. QED
    BY <1>9, <2>1 DEF TearDown, HubCloses, Is, Shaken, Heard, ConnectionInv,
       ReadsSome, Live, OneAtATime, GateInv, Over, ListenersSurvive
<1>10. QED
  BY <1>1, <1>2, <1>3, <1>4, <1>6, <1>7, <1>8, <1>9 DEF Listens

(* A node.Receive that writes to whatever connection it finds.             *)
LEMMA SenderKeeps ==
    ASSUME ConnectionInv, TypeOK', NEW s \in Sender,
           Sends(s)
    PROVE  ConnectionInv'
<1> USE ConnectionAssumption
    DEF gate, net, world
<1>1. CASE WriteCrashes(s)
  BY <1>1, CrashesKeep DEF WriteCrashes
<1>2. CASE FindWriter(s) \/ Write(s) \/ Written(s)
  BY <1>2 DEF FindWriter, Write, Written, ConnectionInv, ReadsSome, Live, OneAtATime,
     GateInv, Over, ListenersSurvive
<1>3. QED
  BY <1>1, <1>2 DEF Sends

(* The invariant of a node's connections.                                  *)
THEOREM ConnectionInvariant == Spec => []ConnectionInv
<1>1. ASSUME ConnectionInv, [Next]_vars
      PROVE  ConnectionInv'
  <2>1. TypeOK'
    BY <1>1, TypeInductive DEF ConnectionInv
  <2>2. CASE UNCHANGED vars
    BY <1>1, <2>1, <2>2 DEF vars, gate, net, ConnectionInv, ReadsSome, Live,
       OneAtATime, GateInv, Over, ListenersSurvive
  <2>3. CASE Next
    BY <1>1, <2>1, <2>3, PeerKeeps, HandshakeKeeps, ListenerKeeps, SenderKeeps
       DEF Next
  <2>4. QED
    BY <1>1, <2>2, <2>3
<1>2. QED
  BY <1>1, ConnectionInit, PTL DEF Spec

(* A node that reads as connected has a listener at work, and connections  *)
(* that do not overlap are current as long as they are open (listen,       *)
(* activateConnection, handleConnection).                                  *)
THEOREM ConnectedHasListenerCorrect == Spec => []ConnectedHasListener
<1>1. ConnectionInv => ConnectedHasListener
  BY DEF ConnectionInv, OneAtATime, Live, ConnectedHasListener, TypeOK
<1>2. QED
  BY <1>1, ConnectionInvariant, PTL

(* No line that waitForVerification is asked about reaches the bus while   *)
(* HYPHAE verifies its connection, as long as connections do not overlap   *)
(* (listen, waitForVerification).                                          *)
THEOREM SilentWhileVerifyingCorrect == Spec => []SilentWhileVerifying
<1>1. ConnectionInv => SilentWhileVerifying
  BY DEF ConnectionInv, GateInv, SilentWhileVerifying
<1>2. QED
  BY <1>1, ConnectionInvariant, PTL

(* No listener finds the connection gone that it reads or ends, as long as *)
(* connections do not overlap (readMessage, listen).                       *)
THEOREM ListenersSurviveCorrect == Spec => []ListenersSurvive
BY ConnectionInvariant, PTL DEF ConnectionInv

-----------------------------------------------------------------------------
(* The verification of a connection.                                       *)

(* How the node was installed: as a developer's, or with the checksums of  *)
(* a manifest that parses and declares no developer trust, and of a        *)
(* program.                                                                *)
RegistryInv ==
    \/ registry = [manifest |-> Developer, binary |-> Developer]
    \/ /\ registry.manifest \in Content \ (Garbled \cup Developers)
       /\ registry.binary \in Program

\* Every key that the installed manifest has is as installed.
HasInstalled(installed, manifest) ==
    \A k \in KeysOf[installed] : manifest[k] = installed

\* What a hub has loaded that has read no file, or only this one.
Loads(content) == {Blank, Decoded(content, Blank)}

Past(c) ==
    conn[c].at \in {"branch", "hash", "check", "load", "binary", "hashBinary"}

(* Of the handshakes under way the file was edited during all or none, and *)
(* during all of them while GetManifest is at work; and a connection that  *)
(* is not there had no edit.                                               *)
EditedInv ==
    /\ \A c \in edited : ~ Reached(c, "away")
    /\ Busy \subseteq edited \/ Busy \cap edited = {}
    /\ Describing # {} => Busy \subseteq edited

(* What the shared status says to handshakes without an edit, whoever of   *)
(* them wrote it: Verified means that the file is the installed one, and   *)
(* that no developer's manifest is loaded; and HYPHAE is asked only where  *)
(* the hub loads nothing.                                                  *)
StatusInv ==
    \A c \in Busy \ edited : Past(c) =>
        /\ status = "Verified" => file = registry.manifest /\ ~ DeveloperTrust(loaded)
        /\ status = "RequiresUserSpace" \/ Reached(c, "hash") =>
              ~ CanLoad /\ ~ DeveloperTrust(loaded)
        /\ Reached(c, "binary") \/ Reached(c, "hashBinary") =>
              /\ file = registry.manifest /\ ~ DeveloperTrust(loaded)
              /\ readable.manifest => HasInstalled(registry.manifest, loaded)

AcceptedInv ==
    \A c \in Conn \ edited : Reached(c, "accepted") =>
        /\ conn[c].exe = registry.binary
        /\ readable.manifest => HasInstalled(registry.manifest, conn[c].with)

VerifiedInv ==
    /\ HandshakeTypeOK /\ RegistryInv /\ EditedInv
    /\ registry.manifest # Developer => StatusInv /\ AcceptedInv

-----------------------------------------------------------------------------
(* What a content leaves in a manifest that it is read into                *)
(* (yaml.Unmarshal, in Load and LoadContent).                              *)
LEMMA DecodedMeans ==
    ASSUME HandshakeAssumption, NEW content \in Content, NEW manifest \in Manifest
    PROVE  /\ Decoded(content, manifest) \in Manifest
           /\ \A k \in KeysOf[content] : Decoded(content, manifest)[k] = content
           /\ content \in Developers => DeveloperTrust(Decoded(content, manifest))
           /\ content \notin Developers /\ ~ DeveloperTrust(manifest) =>
                 ~ DeveloperTrust(Decoded(content, manifest))
<1>1. KeysOf[content] \subseteq Key /\ Trust \in Key
  BY DEF HandshakeAssumption
<1>2. \A k \in Key : Decoded(content, manifest)[k] =
         IF k \in KeysOf[content] THEN content ELSE manifest[k]
  BY DEF Decoded
<1>3. Decoded(content, manifest) \in Manifest
  BY DEF Decoded, Manifest
<1>4. content \in Developers => Trust \in KeysOf[content]
  BY DEF HandshakeAssumption
<1>5. QED
  BY <1>1, <1>2, <1>3, <1>4 DEF DeveloperTrust

(* A manifest that nothing was read into.                                  *)
LEMMA BlankMeans ==
    ASSUME HandshakeAssumption
    PROVE  Blank \in Manifest /\ ~ DeveloperTrust(Blank)
BY DEF HandshakeAssumption, Blank, Manifest, DeveloperTrust

(* The installed manifest, read into what there is of it, is all of it.    *)
LEMMA InstalledMeans ==
    ASSUME HandshakeAssumption, RegistryInv, registry.manifest # Developer
    PROVE  /\ registry.manifest \in Content
           /\ \A manifest \in Loads(registry.manifest) :
                 /\ manifest \in Manifest /\ ~ DeveloperTrust(manifest)
                 /\ Decoded(registry.manifest, manifest) \in Loads(registry.manifest)
                 /\ HasInstalled(registry.manifest, manifest) => manifest = Installed
<1> DEFINE all == Decoded(registry.manifest, Blank)
<1>1. registry.manifest \in Content /\ registry.manifest \notin Developers
  BY DEF RegistryInv
<1>2. all \in Manifest /\ ~ DeveloperTrust(all)
  BY <1>1, BlankMeans, DecodedMeans
<1>3. \A k \in Key : all[k] =
         IF k \in KeysOf[registry.manifest] THEN registry.manifest ELSE None
  BY DEF Decoded, Blank
<1>4. Decoded(registry.manifest, all) = all
  <2>1. Decoded(registry.manifest, all) \in Manifest
    BY <1>1, <1>2, DecodedMeans
  <2>2. \A k \in Key : Decoded(registry.manifest, all)[k] =
           IF k \in KeysOf[registry.manifest] THEN registry.manifest ELSE all[k]
    BY DEF Decoded
  <2> HIDE DEF all
  <2>3. \A k \in Key : Decoded(registry.manifest, all)[k] = all[k]
    BY <1>3, <2>2
  <2>4. QED
    BY <1>2, <2>1, <2>3 DEF Manifest
<1>5. ASSUME HasInstalled(registry.manifest, Blank) PROVE Blank = all
  <2>1. Blank \in Manifest /\ \A k \in Key : Blank[k] = None
    BY BlankMeans DEF Blank
  <2> HIDE DEF all
  <2>2. \A k \in Key : Blank[k] = all[k]
    BY <1>3, <1>5, <2>1 DEF HasInstalled
  <2>3. QED
    BY <1>2, <2>1, <2>2 DEF Manifest
<1>6. Loads(registry.manifest) = {Blank, all} /\ Installed = all
  BY DEF Loads, Installed
<1>7. Decoded(registry.manifest, Blank) = all
  OBVIOUS
<1> HIDE DEF all
<1>8. QED
  BY <1>1, <1>2, <1>4, <1>5, <1>6, <1>7, BlankMeans

-----------------------------------------------------------------------------
(* Every variable keeps its type.                                          *)
ConnType ==
    [at : {"away", "verify", "branch", "hash", "check", "load", "binary",
           "hashBinary", "accepted", "denied"},
     exe : Program \cup {None}, same : BOOLEAN, with : Manifest]

(* Verify yields a status (manifest.Verify).                               *)
LEMMA VerifiedType ==
    ASSUME NEW content, NEW last \in Statuses
    PROVE  Verified(content, last) \in Statuses
BY DEF Verified, Statuses, Failing

(* Where a handshake goes changes nothing else of it, and no other one.    *)
LEMMA GoType ==
    ASSUME conn \in [Conn -> ConnType], NEW c \in Conn,
           NEW place \in {"away", "verify", "branch", "hash", "check", "load", "binary",
                          "hashBinary", "accepted", "denied"},
           Go(c, place)
    PROVE  /\ conn' \in [Conn -> ConnType]
           /\ conn'[c] = [conn[c] EXCEPT !.at = place]
           /\ conn'[c].at = place /\ conn'[c].exe = conn[c].exe
           /\ conn'[c].same = conn[c].same /\ conn'[c].with = conn[c].with
           /\ \A d \in Conn \ {c} : conn'[d] = conn[d]
<1>1. conn[c] \in ConnType
  OBVIOUS
<1>2. conn' = [conn EXCEPT ![c] = [conn[c] EXCEPT !.at = place]]
  BY DEF Go
<1>3. [conn[c] EXCEPT !.at = place] \in ConnType
  BY <1>1 DEF ConnType
<1>4. conn'[c] = [conn[c] EXCEPT !.at = place]
  BY <1>2
<1>5. QED
  BY <1>1, <1>2, <1>3, <1>4 DEF ConnType

HandshakePlaces == {"away", "verify", "branch", "hash", "check", "load", "binary",
           "hashBinary", "accepted", "denied"}

(* A hub that starts has variables of their types, and a node in the       *)
(* registry that was installed (manifest.New, newNode).                    *)
LEMMA HandshakeTypeInit ==
    ASSUME HandshakeAssumption, HandshakeInit
    PROVE  HandshakeTypeOK /\ RegistryInv
<1>1. /\ registry.manifest \in Content \cup {Developer}
      /\ registry.binary \in Program \cup {Developer}
      /\ registry = [manifest |-> registry.manifest, binary |-> registry.binary]
      /\ RegistryInv
  BY DEF HandshakeInit, RegistryInv
<1>2. loaded \in Manifest /\ file \in Content
  BY BlankMeans, DecodedMeans DEF HandshakeInit, LoadedFrom
<1>3. status \in Statuses
  BY VerifiedType DEF HandshakeInit, Statuses
<1>4. conn \in [Conn -> ConnType]
  BY BlankMeans DEF HandshakeInit, Away, ConnType
<1>5. describer \in [Describer ->
          [at : {"resting", "reading", "loading", "hashing"},
           content : Content \cup {None}]]
  BY DEF HandshakeInit, Resting
<1>6. registry \in [manifest : Content \cup {Developer},
                    binary : Program \cup {Developer}]
  BY <1>1
<1>7. \A d \in Describer : describer[d].at # "loading"
  BY DEF HandshakeInit, Resting
<1>8. QED
  BY <1>1, <1>2, <1>3, <1>4, <1>5, <1>6, <1>7
     DEF HandshakeInit, HandshakeTypeOK, ConnType

(* No step of a handshake, of GetManifest or of an editor leaves the       *)
(* types.                                                                  *)
LEMMA HandshakeTypeInductive ==
    ASSUME HandshakeAssumption, HandshakeTypeOK, [HandshakeNext]_handshakeVars
    PROVE  HandshakeTypeOK'
<1> USE DEF fixed, history
<1>1. conn \in [Conn -> ConnType]
  BY DEF HandshakeTypeOK, ConnType
<1>2. ASSUME Restart PROVE HandshakeTypeOK'
  <2>1. loaded' \in Manifest
    BY <1>2, BlankMeans, DecodedMeans
       DEF Restart, HandshakeTypeOK, LoadedFrom, CanLoad
  <2>2. status' \in Statuses
    BY <1>2, VerifiedType DEF Restart, Statuses, Failing
  <2>3. conn' \in [Conn -> ConnType]
    BY <1>2, BlankMeans DEF Restart, Away, ConnType
  <2>4. /\ describer' \in [Describer ->
               [at : {"resting", "reading", "loading", "hashing"},
                content : Content \cup {None}]]
        /\ \A d \in Describer : describer'[d].at # "loading"
    BY <1>2 DEF Restart, Resting
  <2>5. pristine' \in BOOLEAN
    <3>1. AsInstalled(file) \in BOOLEAN
      <4>1. CASE registry.manifest = Developer
        BY <4>1 DEF AsInstalled
      <4>2. CASE registry.manifest # Developer
        BY <4>2 DEF AsInstalled
      <4>3. QED
        BY <4>1, <4>2
    <3>2. pristine' = AsInstalled(file)
      BY <1>2 DEF Restart
    <3>3. QED
      BY <3>1, <3>2
  <2>6. QED
    BY <1>2, <2>1, <2>2, <2>3, <2>4, <2>5 DEF Restart, HandshakeTypeOK, ConnType
<1>3. ASSUME Edit PROVE HandshakeTypeOK'
  <2>1. pristine' \in BOOLEAN
    BY <1>3 DEF Edit, AsInstalled, HandshakeTypeOK
  <2>2. QED
    BY <1>3, <2>1 DEF Edit, HandshakeTypeOK, Busy
<1>4. ASSUME NEW c \in Conn, Connect(c) PROVE HandshakeTypeOK'
  <2>1. PICK exe \in Program, same \in BOOLEAN :
           conn' = [conn EXCEPT ![c] = [Away EXCEPT
              !.at = IF status \in Failing THEN "denied" ELSE "verify",
              !.exe = exe, !.same = same]]
    BY <1>4 DEF Connect
  <2>2. conn' \in [Conn -> ConnType]
    BY <1>1, <2>1, BlankMeans DEF Away, ConnType
  <2>3. edited' \in SUBSET Conn /\ disturbed' \in SUBSET Conn
    BY <1>4 DEF Connect, HandshakeTypeOK, Busy
  <2>4. QED
    BY <1>4, <2>2, <2>3 DEF Connect, HandshakeTypeOK, ConnType
<1>5. ASSUME NEW c \in Conn, NEW place \in HandshakePlaces, Go(c, place),
             status' \in Statuses, loaded' \in Manifest,
             disturbed' \in SUBSET Conn,
             UNCHANGED <<fixed, file, describer, edited, pristine>>
      PROVE  HandshakeTypeOK'
  <2>1. conn' \in [Conn -> ConnType]
    BY <1>1, <1>5, GoType DEF HandshakePlaces
  <2>2. QED
    BY <1>5, <2>1 DEF HandshakeTypeOK, ConnType
<1>6. ASSUME NEW c \in Conn,
             Verify(c) \/ BranchDeveloper(c) \/ Branch(c) \/ HashFile(c)
             \/ HashFileFails(c) \/ Check(c)
      PROVE  HandshakeTypeOK'
  <2>1. CASE Verify(c)
    BY <1>5, <2>1, VerifiedType DEF Verify, HandshakeTypeOK, HandshakePlaces
  <2>2. CASE BranchDeveloper(c)
    BY <1>5, <2>2 DEF BranchDeveloper, HandshakeTypeOK, HandshakePlaces, Statuses,
         Failing
  <2>3. CASE Branch(c)
    BY <1>5, <2>3 DEF Branch, HandshakeTypeOK, HandshakePlaces
  <2>4. CASE HashFile(c)
    BY <1>5, <2>4 DEF HashFile, HandshakeTypeOK, HandshakePlaces, Statuses, Failing
  <2>5. CASE HashFileFails(c)
    BY <1>5, <2>5 DEF HashFileFails, HandshakeTypeOK, HandshakePlaces
  <2>6. CASE Check(c)
    BY <1>5, <2>6 DEF Check, HandshakeTypeOK, HandshakePlaces
  <2>7. QED
    BY <1>6, <2>1, <2>2, <2>3, <2>4, <2>5, <2>6
<1>7. ASSUME NEW c \in Conn, Load(c) PROVE HandshakeTypeOK'
  <2>1. loaded' \in Manifest /\ status' \in Statuses
    BY <1>7, DecodedMeans
       DEF Load, LoadedFrom, HandshakeTypeOK, Statuses, Failing, CanLoad
  <2>2. QED
    BY <1>5, <1>7, <2>1 DEF Load, HandshakeTypeOK, HandshakePlaces
<1>8. ASSUME NEW c \in Conn, Accept(c),
             UNCHANGED <<fixed, file, status, loaded, describer, history>>
      PROVE  HandshakeTypeOK'
  <2>1. conn' = [conn EXCEPT ![c] = [conn[c] EXCEPT !.at = "accepted", !.with = loaded]]
    BY <1>1, <1>8 DEF Accept
  <2>2. [conn[c] EXCEPT !.at = "accepted", !.with = loaded] \in ConnType
    <3>1. conn[c] \in ConnType /\ loaded \in Manifest
      BY <1>1 DEF HandshakeTypeOK
    <3>2. QED
      BY <3>1 DEF ConnType
  <2>3. conn' \in [Conn -> ConnType]
    BY <1>1, <2>1, <2>2
  <2>4. QED
    BY <1>8, <2>3 DEF HandshakeTypeOK, ConnType
<1>9. ASSUME NEW c \in Conn,
             DeveloperBinary(c) \/ VerifyBinary(c) \/ BinaryInUserSpace(c)
             \/ HashBinary(c) \/ BinaryFails(c)
      PROVE  HandshakeTypeOK'
  <2>1. CASE Accept(c) /\ UNCHANGED <<fixed, file, status, loaded, describer, history>>
    BY <1>8, <2>1
  <2>2. CASE /\ Go(c, "denied") \/ Go(c, "hashBinary")
             /\ UNCHANGED <<fixed, file, status, loaded, describer, edited, pristine>>
             /\ disturbed' \in SUBSET Conn
    BY <1>5, <2>2 DEF HandshakePlaces, HandshakeTypeOK
  <2>3. QED
    BY <1>9, <2>1, <2>2 DEF DeveloperBinary, VerifyBinary, BinaryInUserSpace,
       HashBinary, BinaryFails, HandshakeTypeOK
<1>10. ASSUME NEW c \in Conn, Leave(c) PROVE HandshakeTypeOK'
  <2>1. conn' \in [Conn -> ConnType]
    BY <1>1, <1>10, BlankMeans DEF Leave, Away, ConnType
  <2>2. QED
    BY <1>10, <2>1 DEF Leave, HandshakeTypeOK, ConnType
<1>11. ASSUME NEW d \in Describer,
              \/ BeginDescribe(d) \/ ReadManifest(d) \/ LoadContent(d)
              \/ HashContent(d) \/ DescribeFails(d)
       PROVE  HandshakeTypeOK'
  <2>1. describer[d].content \in Content \cup {None}
    BY DEF HandshakeTypeOK
  <2>2. CASE BeginDescribe(d)
    BY <2>2 DEF BeginDescribe, Describe, HandshakeTypeOK, Busy
  <2>3. CASE ReadManifest(d)
    BY <2>3 DEF ReadManifest, Describe, HandshakeTypeOK
  <2>4. CASE LoadContent(d)
    <3>1. loaded' \in Manifest /\ status' \in Statuses
      <4>1. describer[d].content \in Content
        BY <2>4 DEF LoadContent, HandshakeTypeOK
      <4>2. QED
        BY <2>4, <4>1, DecodedMeans
           DEF LoadContent, HandshakeTypeOK, Statuses, Failing
    <3>2. /\ describer' \in [Describer ->
                 [at : {"resting", "reading", "loading", "hashing"},
                  content : Content \cup {None}]]
          /\ \A e \in Describer :
                describer'[e].at = "loading" => describer'[e].content # None
      BY <2>1, <2>4 DEF LoadContent, Describe, Resting, HandshakeTypeOK
    <3>3. QED
      BY <2>4, <3>1, <3>2 DEF LoadContent, HandshakeTypeOK
  <2>5. CASE HashContent(d)
    BY <2>5 DEF HashContent, Resting, HandshakeTypeOK, Statuses, Failing
  <2>6. CASE DescribeFails(d)
    BY <2>6 DEF DescribeFails, Resting, HandshakeTypeOK
  <2>7. QED
    BY <1>11, <2>2, <2>3, <2>4, <2>5, <2>6
<1>12. CASE UNCHANGED handshakeVars
  BY <1>12 DEF handshakeVars, HandshakeTypeOK
<1>13. QED
  BY <1>2, <1>3, <1>4, <1>6, <1>7, <1>9, <1>10, <1>11, <1>12 DEF HandshakeNext

-----------------------------------------------------------------------------
(* A hub that starts has no handshake under way.                           *)
LEMMA VerifiedInit ==
    ASSUME HandshakeAssumption, HandshakeInit
    PROVE  VerifiedInv
<1>1. \A c \in Conn : conn[c].at = "away"
  BY DEF HandshakeInit, Away
<1>2. Busy = {}
  BY <1>1 DEF Busy
<1>3. Describing = {}
  BY DEF HandshakeInit, Describing, Resting
<1>4. QED
  BY <1>1, <1>2, <1>3, HandshakeTypeInit
     DEF HandshakeInit, VerifiedInv, EditedInv, StatusInv, AcceptedInv, Reached

(* A step of handshake c that leaves the file and the others alone: it     *)
(* goes wrong for nobody if the file was edited, and otherwise no          *)
(* handshake had an edit.                                                  *)
LEMMA HandshakeStep ==
    ASSUME VerifiedInv, HandshakeTypeOK', NEW c \in Busy,
           UNCHANGED <<fixed, file, describer, edited>>,
           ~ Reached(c, "away")', \A d \in Conn \ {c} : conn'[d] = conn[d]
    PROVE  /\ Busy' \subseteq Busy \cup {c}
           /\ \A d \in Busy' : d # c => d \in Busy
           /\ c \in Conn
           /\ RegistryInv' /\ EditedInv'
           /\ c \in edited => VerifiedInv'
           /\ c \notin edited => Busy \cap edited = {}
<1>1. /\ c \in Conn
      /\ \A d \in Conn : d \in Busy <=> conn[d].at \notin {"away", "accepted", "denied"}
  BY DEF Busy
<1>2. Busy' \subseteq Busy
  BY <1>1 DEF Busy
<1>3. Describing' = Describing
  BY DEF Describing
<1>4. RegistryInv' /\ EditedInv'
  <2>1. \A d \in edited : ~ Reached(d, "away")'
    BY DEF VerifiedInv, HandshakeTypeOK, EditedInv, Reached
  <2>2. QED
    BY <1>2, <1>3, <2>1 DEF VerifiedInv, RegistryInv, EditedInv, fixed
<1>5. c \notin edited => Busy \cap edited = {}
  BY DEF VerifiedInv, EditedInv
<1>6. ASSUME c \in edited PROVE VerifiedInv'
  <2>1. Busy' \subseteq edited'
    BY <1>2, <1>6 DEF VerifiedInv, EditedInv
  <2>2. StatusInv'
    BY <2>1 DEF StatusInv
  <2>3. AcceptedInv \/ registry.manifest = Developer
    BY DEF VerifiedInv
  <2>4. registry.manifest # Developer => AcceptedInv'
    BY <1>6, <2>3 DEF AcceptedInv, Reached, fixed
  <2>5. QED
    BY <1>4, <2>2, <2>4 DEF VerifiedInv, fixed
<1>7. QED
  BY <1>1, <1>2, <1>4, <1>5, <1>6

(* The steps that write or read the status.                                *)
LEMMA StatusKeeps ==
    ASSUME HandshakeAssumption, VerifiedInv, HandshakeTypeOK', NEW c \in Conn,
           \/ Verify(c) \/ BranchDeveloper(c) \/ Branch(c) \/ HashFile(c)
           \/ HashFileFails(c) \/ Check(c) \/ Load(c)
    PROVE  VerifiedInv'
<1> DEFINE place == conn'[c].at
<1>1. /\ c \in Busy
      /\ UNCHANGED <<registry, readable, file, describer, edited>>
      /\ \E p \in {"branch", "hash", "check", "load", "binary", "denied"} : Go(c, p)
  <2>1. \A p \in {"verify", "branch", "hash", "check", "load"} : Reached(c, p) => c \in Busy
    BY DEF Reached, Busy
  <2>2. QED
    BY <2>1 DEF Verify, BranchDeveloper, Branch, HashFile, HashFileFails, Check, Load,
       fixed, history
<1>2. /\ conn' \in [Conn -> ConnType] /\ \A d \in Conn \ {c} : conn'[d] = conn[d]
      /\ place \in {"branch", "hash", "check", "load", "binary", "denied"}
      /\ \A p \in HandshakePlaces : Go(c, p) => place = p
  BY <1>1, GoType DEF VerifiedInv, HandshakeTypeOK, ConnType, HandshakePlaces
<1> HIDE DEF place
<1>3. /\ RegistryInv' /\ EditedInv' /\ \A d \in Busy' : d # c => d \in Busy
      /\ c \in edited => VerifiedInv'
  BY <1>1, <1>2, HandshakeStep DEF fixed, Reached, place
<1>4. SUFFICES ASSUME c \notin edited, registry.manifest # Developer
               PROVE  StatusInv'
  <2>1. registry.manifest # Developer => AcceptedInv'
    BY <1>1, <1>2 DEF VerifiedInv, AcceptedInv, Reached, place
  <2>2. QED
    BY <1>1, <1>3, <2>1 DEF VerifiedInv
<1>5. /\ StatusInv /\ registry.manifest \in Content \ (Garbled \cup Developers)
      /\ status \in Statuses
  BY <1>4 DEF VerifiedInv, RegistryInv, HandshakeTypeOK
<1>6. SUFFICES ASSUME NEW d \in Busy' \ edited', Past(d)'
               PROVE  /\ status' = "Verified" =>
                            file = registry.manifest /\ ~ DeveloperTrust(loaded')
                      /\ status' = "RequiresUserSpace" \/ Reached(d, "hash")' =>
                            ~ CanLoad /\ ~ DeveloperTrust(loaded')
                      /\ Reached(d, "binary")' \/ Reached(d, "hashBinary")' =>
                            /\ file = registry.manifest /\ ~ DeveloperTrust(loaded')
                            /\ readable.manifest => HasInstalled(registry.manifest, loaded')
  BY <1>1 DEF StatusInv, CanLoad
<1>7. d # c => /\ d \in Busy \ edited /\ Past(d)
               /\ \A p : Reached(d, p)' <=> Reached(d, p)
  BY <1>1, <1>2, <1>3, <1>6 DEF Past, Reached, Busy
<1>8. d = c => \A p : Reached(d, p)' <=> place = p
  BY DEF Reached, place
<1>9. CASE Verify(c)
  <2>1. /\ status' = Verified(loaded, status) /\ loaded' = loaded /\ Go(c, "branch")
    BY <1>9 DEF Verify
  <2>2. /\ status' = "Verified" => file = registry.manifest /\ ~ DeveloperTrust(loaded)
        /\ status' = "RequiresUserSpace" => ~ CanLoad /\ ~ DeveloperTrust(loaded)
    BY <2>1 DEF Verified, CanLoad
  <2>3. place = "branch"
    BY <1>2, <2>1 DEF HandshakePlaces
  <2>4. QED
    BY <1>5, <1>7, <1>8, <2>1, <2>2, <2>3 DEF StatusInv
<1>10. CASE BranchDeveloper(c)
  <2>1. status' = "FailedChecksum" /\ loaded' = loaded /\ place = "denied"
    BY <1>2, <1>4, <1>10 DEF BranchDeveloper, HandshakePlaces
  <2>2. QED
    BY <1>5, <1>7, <1>8, <2>1 DEF StatusInv
<1>11. CASE Branch(c)
  <2>1. /\ UNCHANGED <<status, loaded>> /\ Reached(c, "branch")
        /\ place = "hash" \/ place = "check"
        /\ place = "hash" => status = "RequiresUserSpace"
    BY <1>2, <1>11 DEF Branch, HandshakePlaces
  <2>2. c \in Busy \ edited /\ Past(c)
    BY <1>1, <1>4, <2>1 DEF Past, Reached
  <2>3. QED
    BY <1>5, <1>7, <1>8, <2>1, <2>2 DEF StatusInv
<1>12. CASE HashFile(c)
  <2>1. /\ Reached(c, "hash") /\ loaded' = loaded
        /\ place = "check" \/ place = "denied"
        /\ status' = IF file = registry.manifest THEN "Verified" ELSE "FailedChecksum"
    BY <1>2, <1>12 DEF HashFile, HandshakePlaces
  <2>2. c \in Busy \ edited /\ Past(c)
    BY <1>1, <1>4, <2>1 DEF Past, Reached
  <2>3. ~ DeveloperTrust(loaded)
    BY <1>5, <2>1, <2>2 DEF StatusInv
  <2>4. QED
    BY <1>5, <1>7, <1>8, <2>1, <2>3 DEF StatusInv
<1>13. CASE HashFileFails(c) \/ Check(c)
  <2>1. /\ UNCHANGED <<status, loaded>>
        /\ place = "denied" \/ (place = "load" /\ Reached(c, "check"))
    BY <1>2, <1>13 DEF HashFileFails, Check, HandshakePlaces
  <2>2. Reached(c, "check") => c \in Busy \ edited /\ Past(c)
    BY <1>1, <1>4 DEF Past, Reached
  <2>3. QED
    BY <1>5, <1>6, <1>7, <1>8, <2>1, <2>2 DEF StatusInv, Past, Reached
<1>14. CASE Load(c)
  <2>1. /\ Reached(c, "load")
        /\ loaded' = LoadedFrom(loaded)
        /\ status' = IF CanLoad /\ file \in Garbled THEN "Malformed" ELSE status
        /\ place = IF status' = "Verified" THEN "binary" ELSE "denied"
    BY <1>2, <1>14 DEF Load, HandshakePlaces
  <2>2. c \in Busy \ edited /\ Past(c)
    BY <1>1, <1>4, <2>1 DEF Past, Reached
  <2>3. ASSUME file = registry.manifest, ~ DeveloperTrust(loaded)
        PROVE  /\ ~ DeveloperTrust(loaded')
               /\ CanLoad => HasInstalled(registry.manifest, loaded')
               /\ ~ CanLoad => loaded' = loaded
               /\ readable.manifest => CanLoad
    <3>1. readable.manifest => CanLoad
      BY <1>5, <2>3 DEF CanLoad, HandshakeAssumption
    <3>2. loaded \in Manifest
      BY DEF VerifiedInv, HandshakeTypeOK
    <3>3. CASE CanLoad
      <4>1. loaded' = Decoded(registry.manifest, loaded)
        BY <2>1, <2>3, <3>3 DEF LoadedFrom
      <4>2. QED
        BY <1>5, <2>3, <3>1, <3>2, <3>3, <4>1, DecodedMeans DEF HasInstalled
    <3>4. CASE ~ CanLoad
      BY <2>1, <2>3, <3>1, <3>4 DEF LoadedFrom
    <3>5. QED
      BY <3>3, <3>4
  <2>4. status' = "Verified" => /\ file = registry.manifest /\ ~ DeveloperTrust(loaded)
    BY <1>5, <2>1, <2>2 DEF StatusInv
  <2>5. CASE d = c
    <3>1. place # "denied"
      BY <1>6, <2>5 DEF Past, place
    <3>2. QED
      BY <1>8, <2>1, <2>3, <2>4, <2>5, <3>1
  <2>6. CASE d # c
    <3>1. status' = "RequiresUserSpace" \/ Reached(d, "hash")' =>
             ~ CanLoad /\ ~ DeveloperTrust(loaded')
      BY <1>5, <1>7, <2>1, <2>6 DEF StatusInv, LoadedFrom
    <3>2. Reached(d, "binary")' \/ Reached(d, "hashBinary")' =>
             /\ file = registry.manifest /\ ~ DeveloperTrust(loaded')
             /\ readable.manifest => HasInstalled(registry.manifest, loaded')
      BY <1>5, <1>7, <2>3, <2>6 DEF StatusInv
    <3>3. QED
      BY <2>3, <2>4, <3>1, <3>2
  <2>7. QED
    BY <2>5, <2>6
<1>15. QED
  BY <1>9, <1>10, <1>11, <1>12, <1>13, <1>14

(* The steps that look at the executable and accept.                       *)
LEMMA BinaryKeeps ==
    ASSUME HandshakeAssumption, VerifiedInv, HandshakeTypeOK', NEW c \in Conn,
           \/ DeveloperBinary(c) \/ VerifyBinary(c) \/ BinaryInUserSpace(c)
           \/ HashBinary(c) \/ BinaryFails(c)
    PROVE  VerifiedInv'
<1> DEFINE place == conn'[c].at
<1>0. conn \in [Conn -> ConnType] /\ conn[c] \in ConnType
  BY DEF VerifiedInv, HandshakeTypeOK, ConnType
<1>1. /\ c \in Busy /\ Past(c)
      /\ Reached(c, "binary") \/ Reached(c, "hashBinary")
      /\ UNCHANGED <<registry, readable, file, status, loaded, describer, edited>>
  BY DEF DeveloperBinary, VerifyBinary, BinaryInUserSpace, HashBinary, BinaryFails,
     fixed, history, Reached, Busy, Past
<1>2. ASSUME Accept(c)
      PROVE  /\ \A d \in Conn \ {c} : conn'[d] = conn[d]
             /\ place = "accepted" /\ conn'[c].exe = conn[c].exe
             /\ conn'[c].with = loaded
  <2>1. conn' = [conn EXCEPT ![c] = [conn[c] EXCEPT !.at = "accepted", !.with = loaded]]
    BY <1>0, <1>2 DEF Accept
  <2>2. conn'[c] = [conn[c] EXCEPT !.at = "accepted", !.with = loaded]
    BY <1>0, <2>1
  <2>3. QED
    BY <1>0, <2>1, <2>2 DEF ConnType
<1>3. ASSUME NEW p \in {"denied", "hashBinary"}, Go(c, p)
      PROVE  place = p /\ \A d \in Conn \ {c} : conn'[d] = conn[d]
  BY <1>0, <1>3, GoType
<1>4. \/ Accept(c)
      \/ Go(c, "denied")
      \/ Go(c, "hashBinary")
  BY DEF DeveloperBinary, VerifyBinary, BinaryInUserSpace, HashBinary, BinaryFails
<1>5. /\ \A d \in Conn \ {c} : conn'[d] = conn[d]
      /\ place \in {"accepted", "denied", "hashBinary"}
      /\ place = "accepted" => /\ Accept(c) /\ conn'[c].exe = conn[c].exe
                              /\ conn'[c].with = loaded
  BY <1>2, <1>3, <1>4
<1> HIDE DEF place
<1>6. /\ RegistryInv' /\ EditedInv' /\ \A d \in Busy' : d # c => d \in Busy
      /\ c \in edited => VerifiedInv'
  BY <1>1, <1>5, HandshakeStep DEF fixed, Reached, place
<1>7. SUFFICES ASSUME c \notin edited, registry.manifest # Developer
               PROVE  StatusInv' /\ AcceptedInv'
  BY <1>1, <1>6 DEF VerifiedInv
<1>8. /\ StatusInv /\ AcceptedInv
      /\ file = registry.manifest /\ ~ DeveloperTrust(loaded)
      /\ readable.manifest => HasInstalled(registry.manifest, loaded)
  BY <1>1, <1>7 DEF VerifiedInv, StatusInv
<1>9. \A d \in Conn \ {c} : (Past(d)' <=> Past(d)) /\ \A p : Reached(d, p)' <=> Reached(d, p)
  BY <1>5 DEF Past, Reached
<1>10. \A p : Reached(c, p)' <=> place = p
  BY DEF Reached, place
<1>11. StatusInv'
  <2>1. SUFFICES ASSUME NEW d \in Busy' \ edited', Past(d)'
                 PROVE  /\ status = "Verified" =>
                              file = registry.manifest /\ ~ DeveloperTrust(loaded)
                        /\ status = "RequiresUserSpace" \/ Reached(d, "hash")' =>
                              ~ CanLoad /\ ~ DeveloperTrust(loaded)
                        /\ Reached(d, "binary")' \/ Reached(d, "hashBinary")' =>
                              /\ file = registry.manifest /\ ~ DeveloperTrust(loaded)
                              /\ readable.manifest => HasInstalled(registry.manifest, loaded)
    BY <1>1 DEF StatusInv, CanLoad
  <2>2. CASE d = c
    BY <1>1, <1>5, <1>7, <1>8, <1>10, <2>2 DEF StatusInv
  <2>3. CASE d # c
    BY <1>1, <1>6, <1>8, <1>9, <2>1, <2>3 DEF StatusInv, Busy
  <2>4. QED
    BY <2>2, <2>3
<1>12. AcceptedInv'
  <2>1. ASSUME place = "accepted"
        PROVE  conn[c].exe = registry.binary
    BY <1>2, <1>3, <1>5, <1>8, <2>1
       DEF DeveloperBinary, VerifyBinary, BinaryInUserSpace, HashBinary, BinaryFails
  <2>2. QED
    BY <1>1, <1>5, <1>8, <1>9, <1>10, <2>1 DEF AcceptedInv
<1>13. QED
  BY <1>11, <1>12

(* A process that connects is at the first step; its handshake is without  *)
(* an edit if those under way are.                                         *)
LEMMA ConnectKeeps ==
    ASSUME VerifiedInv, HandshakeTypeOK', NEW c \in Conn, Connect(c)
    PROVE  VerifiedInv'
<1>1. PICK exe \in Program, same \in BOOLEAN :
         conn' = [conn EXCEPT ![c] = [Away EXCEPT
            !.at = IF status \in Failing THEN "denied" ELSE "verify",
            !.exe = exe, !.same = same]]
  BY DEF Connect
<1>2. conn'[c].at \in {"denied", "verify"} /\ \A d \in Conn \ {c} : conn'[d] = conn[d]
  BY <1>1 DEF VerifiedInv, HandshakeTypeOK, Away
<1>3. /\ UNCHANGED <<registry, readable, file, status, loaded, describer>>
      /\ edited \subseteq edited'
  BY DEF Connect, fixed
<1>4. edited' = IF Describing # {} \/ Busy \cap edited # {} THEN edited \cup {c} ELSE edited
  BY DEF Connect
<1>5. Describing' = Describing /\ \A d \in Busy' : d # c => d \in Busy
  BY <1>2, <1>3 DEF Describing, Busy
<1>6. EditedInv'
  <2>0. c \notin edited /\ \A d \in edited' : ~ Reached(d, "away")'
    BY <1>2, <1>4 DEF Connect, VerifiedInv, HandshakeTypeOK, EditedInv, Reached
  <2>1. CASE Describing # {} \/ Busy \cap edited # {}
    <3>1. Busy \subseteq edited /\ edited' = edited \cup {c}
      BY <1>4, <2>1 DEF VerifiedInv, EditedInv
    <3>2. Busy' \subseteq edited'
      BY <1>5, <3>1
    <3>3. QED
      BY <2>0, <3>2 DEF EditedInv
  <2>2. CASE Describing = {} /\ Busy \cap edited = {}
    BY <1>4, <1>5, <2>0, <2>2 DEF EditedInv
  <2>3. QED
    BY <2>1, <2>2
<1>7. ~ Past(c)' /\ ~ Reached(c, "accepted")' /\ c \in Conn
  BY <1>2 DEF Past, Reached
<1>8. \A d \in Conn \ {c} : (Past(d)' <=> Past(d)) /\ \A p : Reached(d, p)' <=> Reached(d, p)
  BY <1>2 DEF Past, Reached
<1>9. StatusInv => StatusInv'
  BY <1>3, <1>5, <1>7, <1>8 DEF StatusInv, CanLoad, Busy
<1>10. AcceptedInv => AcceptedInv'
  BY <1>2, <1>3, <1>7, <1>8 DEF AcceptedInv
<1>11. QED
  BY <1>3, <1>6, <1>9, <1>10 DEF VerifiedInv, RegistryInv

(* A connection that closes has no handshake under way.                    *)
LEMMA LeaveKeeps ==
    ASSUME VerifiedInv, HandshakeTypeOK', NEW c \in Conn, Leave(c)
    PROVE  VerifiedInv'
<1>1. /\ conn'[c].at = "away" /\ \A d \in Conn \ {c} : conn'[d] = conn[d]
      /\ conn[c].at \in {"accepted", "denied"}
      /\ edited' = edited \ {c}
      /\ UNCHANGED <<registry, readable, file, status, loaded, describer>>
  BY DEF Leave, VerifiedInv, HandshakeTypeOK, Away, fixed
<1>2. Describing' = Describing /\ Busy' = Busy /\ c \notin Busy
  BY <1>1 DEF Describing, Busy
<1>3. EditedInv'
  BY <1>1, <1>2 DEF VerifiedInv, HandshakeTypeOK, EditedInv, Reached
<1>4. ~ Reached(c, "accepted")'
  BY <1>1 DEF Reached
<1>5. \A d \in Conn \ {c} : (Past(d)' <=> Past(d)) /\ \A p : Reached(d, p)' <=> Reached(d, p)
  BY <1>1 DEF Past, Reached
<1>6. StatusInv => StatusInv'
  BY <1>1, <1>2, <1>5 DEF StatusInv, CanLoad, Busy
<1>7. AcceptedInv => AcceptedInv'
  BY <1>1, <1>4, <1>5 DEF AcceptedInv
<1>8. QED
  BY <1>1, <1>3, <1>6, <1>7 DEF VerifiedInv, RegistryInv

(* A hub that starts has no connection.                                    *)
LEMMA RestartKeeps ==
    ASSUME VerifiedInv, HandshakeTypeOK', Restart
    PROVE  VerifiedInv'
<1>1. \A c \in Conn : conn'[c].at = "away"
  BY DEF Restart, Away
<1>2. Busy' = {} /\ Describing' = {} /\ edited' = {} /\ registry' = registry
  BY <1>1 DEF Restart, Busy, Describing, Resting, fixed
<1>3. AcceptedInv'
  BY <1>1 DEF AcceptedInv, Reached
<1>4. QED
  BY <1>2, <1>3 DEF VerifiedInv, RegistryInv, EditedInv, StatusInv

(* An edit is one for all handshakes under way.                            *)
LEMMA EditKeeps ==
    ASSUME VerifiedInv, HandshakeTypeOK', Edit
    PROVE  VerifiedInv'
<1>1. edited' = edited \cup Busy /\ Busy' = Busy /\ Describing' = Describing
  BY DEF Edit, Busy, Describing
<1>2. UNCHANGED <<registry, readable, conn>>
  BY DEF Edit, fixed
<1>3. EditedInv'
  BY <1>1, <1>2 DEF VerifiedInv, EditedInv, Reached, Busy
<1>4. AcceptedInv => AcceptedInv'
  BY <1>1, <1>2 DEF AcceptedInv, Reached
<1>5. StatusInv'
  BY <1>1 DEF StatusInv
<1>6. QED
  BY <1>2, <1>3, <1>4, <1>5 DEF VerifiedInv, RegistryInv

(* While GetManifest is at work every handshake counts as edited, so what  *)
(* it writes into the manifest and the status deceives none of the others. *)
LEMMA DescriberKeeps ==
    ASSUME VerifiedInv, HandshakeTypeOK', NEW d \in Describer,
           \/ BeginDescribe(d) \/ ReadManifest(d) \/ LoadContent(d)
           \/ HashContent(d) \/ DescribeFails(d)
    PROVE  VerifiedInv'
<1>1. /\ UNCHANGED <<registry, readable, file, conn>>
      /\ edited' \subseteq edited \cup Busy
      /\ edited \subseteq edited'
  BY DEF BeginDescribe, ReadManifest, LoadContent, HashContent, DescribeFails,
     fixed, history
<1>2. Busy' = Busy
  BY <1>1 DEF Busy
<1>3. Busy \subseteq edited'
  <2>1. CASE BeginDescribe(d)
    BY <2>1 DEF BeginDescribe
  <2>2. CASE describer[d].at # "resting"
    BY <1>1, <2>2 DEF VerifiedInv, EditedInv, Describing
  <2>3. QED
    BY <2>1, <2>2 DEF ReadManifest, LoadContent, HashContent, DescribeFails
<1>4. EditedInv'
  BY <1>1, <1>2, <1>3 DEF VerifiedInv, EditedInv, Reached, Busy
<1>5. StatusInv'
  BY <1>2, <1>3 DEF StatusInv
<1>6. AcceptedInv => AcceptedInv'
  BY <1>1 DEF AcceptedInv, Reached
<1>7. QED
  BY <1>1, <1>4, <1>5, <1>6 DEF VerifiedInv, RegistryInv

(* No step verifies a connection wrongly.                                  *)
LEMMA VerifiedKeeps ==
    ASSUME HandshakeAssumption, VerifiedInv, [HandshakeNext]_handshakeVars
    PROVE  VerifiedInv'
<1>1. HandshakeTypeOK'
  BY HandshakeTypeInductive DEF VerifiedInv
<1>2. CASE UNCHANGED handshakeVars
  BY <1>2 DEF handshakeVars, VerifiedInv, HandshakeTypeOK, RegistryInv, EditedInv,
       Busy, Describing, Reached, StatusInv, Past, CanLoad, AcceptedInv
<1>3. ASSUME NEW c \in Conn,
             \/ Connect(c) \/ Verify(c) \/ BranchDeveloper(c) \/ Branch(c)
             \/ HashFile(c) \/ HashFileFails(c) \/ Check(c) \/ Load(c)
             \/ DeveloperBinary(c) \/ VerifyBinary(c) \/ BinaryInUserSpace(c)
             \/ HashBinary(c) \/ BinaryFails(c) \/ Leave(c)
      PROVE  VerifiedInv'
  BY <1>1, <1>3, ConnectKeeps, StatusKeeps, BinaryKeeps, LeaveKeeps
<1>4. ASSUME NEW d \in Describer,
             \/ BeginDescribe(d) \/ ReadManifest(d) \/ LoadContent(d)
             \/ HashContent(d) \/ DescribeFails(d)
      PROVE  VerifiedInv'
  BY <1>1, <1>4, DescriberKeeps
<1>5. QED
  BY <1>1, <1>2, <1>3, <1>4, RestartKeeps, EditKeeps DEF HandshakeNext

(* The invariant of a verification that nobody edits the file during.      *)
THEOREM VerifiedInvariant ==
    ASSUME HandshakeAssumption
    PROVE  HandshakeSpec => []VerifiedInv
<1>1. HandshakeInit => VerifiedInv
  BY VerifiedInit
<1>2. VerifiedInv /\ [HandshakeNext]_handshakeVars => VerifiedInv'
  BY VerifiedKeeps
<1>3. QED
  BY <1>1, <1>2, PTL DEF HandshakeSpec

-----------------------------------------------------------------------------
(* Why a connection is denied.                                             *)

(* A handshake that nothing disturbs is the only one, and GetManifest is   *)
(* not at work.                                                            *)
AloneInv ==
    \A c \in Busy \ disturbed : Busy = {c} /\ Describing = {}

(* As long as the file is as installed, whoever writes the shared status   *)
(* and manifest leaves in them what was installed, ...                     *)
InstalledInv ==
    /\ status \in {"Verified", "RequiresUserSpace"}
    /\ loaded \in Loads(registry.manifest)
    /\ \A c \in Conn : conn[c].with \in Loads(registry.manifest)
    /\ \A d \in Describer :
          /\ describer[d].content \in {None, registry.manifest}
          /\ describer[d].at = "loading" => describer[d].content # None

(* ... also of a developer's manifest, if the hub reads it itself.         *)
DeveloperInv ==
    /\ status \in {"Verified", "RequiresDeveloper"}
    /\ DeveloperTrust(loaded)
    /\ \A d \in Describer :
          /\ describer[d].at # "hashing"
          /\ describer[d].at = "loading" => describer[d].content \in Developers
    /\ \A c \in Conn : ~ Reached(c, "hash") /\ ~ Reached(c, "hashBinary")

PristineInv ==
    pristine =>
        /\ file # None /\ AsInstalled(file)
        /\ registry.manifest # Developer => InstalledInv
        /\ registry.manifest = Developer /\ readable.manifest => DeveloperInv

(* What an undisturbed handshake knows of the status that it wrote.        *)
InstalledReason(c) ==
    /\ Reached(c, "check") \/ Reached(c, "load") => status = "Verified"
    /\ Reached(c, "denied") => \/ conn[c].exe # registry.binary
                               \/ readable.binary /\ ~ conn[c].same
DeveloperReason(c) ==
    /\ Reached(c, "branch") => status = "RequiresDeveloper"
    /\ Reached(c, "check") \/ Reached(c, "load") => status = "Verified"
    /\ ~ Reached(c, "denied")

ReasonInv ==
    pristine => \A c \in Conn \ disturbed :
        /\ registry.manifest # Developer => InstalledReason(c)
        /\ registry.manifest = Developer /\ readable.manifest => DeveloperReason(c)

DeniedInv == HandshakeTypeOK /\ RegistryInv /\ AloneInv /\ PristineInv /\ ReasonInv

-----------------------------------------------------------------------------
(* What is written in the shared status and manifest for a file that is as *)
(* installed.                                                              *)
LEMMA WrittenAsInstalled ==
    ASSUME HandshakeAssumption, RegistryInv, file # None, AsInstalled(file)
    PROVE  /\ registry.manifest # Developer =>
                 /\ file = registry.manifest /\ file \notin Garbled /\ file \notin Developers
                 /\ \A s \in {"Unverified", "Verified", "RequiresUserSpace"} :
                    \A manifest \in Loads(registry.manifest) :
                       Verified(manifest, s) = IF readable.manifest THEN "Verified"
                                                                  ELSE "RequiresUserSpace"
           /\ registry.manifest = Developer =>
                 /\ file \in Developers /\ file \notin Garbled
                 /\ \A s \in {"Unverified", "Verified", "RequiresDeveloper"} :
                    \A manifest : DeveloperTrust(manifest) =>
                       Verified(manifest, s) = "RequiresDeveloper"
<1>1. \A manifest \in Loads(registry.manifest) :
         registry.manifest # Developer => ~ DeveloperTrust(manifest)
  BY BlankMeans, InstalledMeans
<1>2. QED
  BY <1>1 DEF HandshakeAssumption, RegistryInv, AsInstalled, Verified

(* A hub that starts has denied nobody.                                    *)
LEMMA PristineInit ==
    ASSUME HandshakeAssumption, HandshakeInit
    PROVE  DeniedInv
<1>1. HandshakeTypeOK /\ RegistryInv
  BY HandshakeTypeInit
<1>2. \A c \in Conn : conn[c].at = "away"
  BY DEF HandshakeInit, Away
<1>3. Busy = {} /\ Describing = {} /\ \A d \in Describer : describer[d] = Resting
  BY <1>2 DEF HandshakeInit, Busy, Describing, Resting
<1>4. AloneInv /\ ReasonInv
  BY <1>2, <1>3 DEF AloneInv, ReasonInv, InstalledReason, DeveloperReason, Reached
<1>5. file # None /\ AsInstalled(file)
  BY DEF HandshakeInit, HandshakeAssumption
<1>6. registry.manifest # Developer => InstalledInv
  <2>1. registry.manifest # Developer => loaded \in Loads(registry.manifest)
    BY <1>1, <1>5, WrittenAsInstalled DEF HandshakeInit, LoadedFrom, Loads
  <2>2. \A c \in Conn : conn[c].with \in Loads(registry.manifest)
    BY DEF HandshakeInit, Away, Loads
  <2>3. QED
    BY <1>1, <1>3, <1>5, <2>1, <2>2, WrittenAsInstalled
       DEF HandshakeInit, InstalledInv, Resting
<1>7. registry.manifest = Developer /\ readable.manifest => DeveloperInv
  <2>1. registry.manifest = Developer /\ readable.manifest => DeveloperTrust(loaded)
    BY <1>1, <1>5, WrittenAsInstalled, BlankMeans, DecodedMeans
       DEF HandshakeInit, LoadedFrom, CanLoad
  <2>2. QED
    BY <1>1, <1>2, <1>3, <1>5, <2>1, WrittenAsInstalled
       DEF HandshakeInit, DeveloperInv, Reached, Resting
<1>8. QED
  BY <1>1, <1>4, <1>5, <1>6, <1>7 DEF DeniedInv, PristineInv

(* A hub that starts reads the file anew.                                  *)
LEMMA RestartPristine ==
    ASSUME HandshakeAssumption, DeniedInv, HandshakeTypeOK', Restart
    PROVE  DeniedInv'
<1>1. \A c \in Conn : conn'[c].at = "away"
  BY DEF Restart, Away
<1>2. /\ Busy' = {} /\ Describing' = {}
      /\ \A d \in Describer : describer'[d] = Resting
      /\ UNCHANGED <<registry, readable, file>>
  BY <1>1 DEF Restart, Busy, Describing, Resting, fixed
<1>3. RegistryInv /\ RegistryInv'
  BY <1>2 DEF DeniedInv, RegistryInv
<1>4. AloneInv' /\ ReasonInv'
  BY <1>1, <1>2 DEF AloneInv, ReasonInv, InstalledReason, DeveloperReason, Reached
<1>5. PristineInv'
  <2>1. SUFFICES ASSUME AsInstalled(file)
                 PROVE  /\ file # None
                        /\ registry.manifest # Developer => InstalledInv'
                        /\ registry.manifest = Developer /\ readable.manifest => DeveloperInv'
    BY <1>2 DEF Restart, PristineInv, AsInstalled
  <2>2. file # None
    BY <1>3, <2>1 DEF HandshakeAssumption, RegistryInv, AsInstalled
  <2>3. /\ loaded' = IF readable.manifest THEN Decoded(file, Blank) ELSE Blank
        /\ status' = Verified(loaded', "Unverified")
    BY <2>2 DEF Restart, CanLoad, LoadedFrom
  <2>4. registry.manifest # Developer => InstalledInv'
    <3>1. registry.manifest # Developer => loaded' \in Loads(registry.manifest)
      BY <1>3, <2>1, <2>2, <2>3, WrittenAsInstalled DEF Loads
    <3>2. \A c \in Conn : conn'[c].with \in Loads(registry.manifest)
      BY DEF Restart, Away, Loads
    <3>3. QED
      BY <1>2, <1>3, <2>1, <2>2, <2>3, <3>1, <3>2, WrittenAsInstalled
         DEF InstalledInv, Resting
  <2>5. registry.manifest = Developer /\ readable.manifest => DeveloperInv'
    <3>1. registry.manifest = Developer /\ readable.manifest => DeveloperTrust(loaded')
      BY <1>3, <2>1, <2>2, <2>3, WrittenAsInstalled, BlankMeans, DecodedMeans
         DEF DeniedInv, HandshakeTypeOK
    <3>2. QED
      BY <1>1, <1>2, <1>3, <2>1, <2>2, <2>3, <3>1, WrittenAsInstalled
         DEF DeveloperInv, Reached, Resting
  <2>6. QED
    BY <2>2, <2>4, <2>5
<1>6. QED
  BY <1>3, <1>4, <1>5 DEF DeniedInv

(* An edit disturbs the handshakes under way.                              *)
LEMMA EditPristine ==
    ASSUME HandshakeAssumption, DeniedInv, HandshakeTypeOK', Edit
    PROVE  DeniedInv'
<1>1. /\ disturbed' = disturbed \cup Busy
      /\ UNCHANGED <<registry, readable, status, loaded, conn, describer>>
      /\ pristine' = (pristine /\ AsInstalled(file'))
  BY DEF Edit, fixed
<1>2. Busy' = Busy /\ Describing' = Describing
  BY <1>1 DEF Busy, Describing
<1>3. AloneInv'
  BY <1>1, <1>2 DEF AloneInv
<1>4. \A c \in Conn, p \in HandshakePlaces : Reached(c, p)' <=> Reached(c, p)
  BY <1>1 DEF Reached
<1>5. \A c \in Conn \ disturbed' :
         /\ ~ Reached(c, "check") /\ ~ Reached(c, "load") /\ ~ Reached(c, "branch")
         /\ c \in Conn \ disturbed
  BY <1>1 DEF Busy, Reached
<1>6. ReasonInv'
  BY <1>1, <1>4, <1>5 DEF DeniedInv, ReasonInv, InstalledReason, DeveloperReason,
       HandshakePlaces
<1>7. PristineInv'
  <2>1. SUFFICES ASSUME pristine, AsInstalled(file')
                 PROVE  /\ file' # None
                        /\ registry.manifest # Developer => InstalledInv'
                        /\ registry.manifest = Developer /\ readable.manifest => DeveloperInv'
    BY <1>1 DEF PristineInv, AsInstalled
  <2>2. file' # None
    BY <2>1 DEF DeniedInv, HandshakeAssumption, RegistryInv, AsInstalled
  <2>3. QED
    BY <1>1, <1>2, <1>4, <2>1, <2>2
       DEF DeniedInv, PristineInv, InstalledInv, DeveloperInv, HandshakePlaces
<1>8. QED
  BY <1>1, <1>3, <1>6, <1>7 DEF DeniedInv, RegistryInv

(* A handshake, whether disturbed or not, leaves status and manifest as    *)
(* the installed file has them.                                            *)
LEMMA HandshakePristine ==
    ASSUME HandshakeAssumption, DeniedInv, NEW c \in Conn,
           UNCHANGED <<registry, readable, file, describer, pristine>>,
           \A d \in Conn \ {c} : conn'[d] = conn[d],
           pristine /\ AsInstalled(file) /\ file # None =>
              /\ registry.manifest # Developer =>
                    /\ status' \in {"Verified", "RequiresUserSpace"}
                    /\ loaded' \in Loads(registry.manifest)
                    /\ conn'[c].with \in {conn[c].with, loaded, Blank}
              /\ registry.manifest = Developer /\ readable.manifest =>
                    /\ status' \in {"Verified", "RequiresDeveloper"}
                    /\ DeveloperTrust(loaded')
                    /\ conn'[c].at \notin {"hash", "hashBinary"}
    PROVE  PristineInv'
<1>1. SUFFICES ASSUME pristine
               PROVE  /\ file # None /\ AsInstalled(file)
                      /\ registry.manifest # Developer => InstalledInv'
                      /\ registry.manifest = Developer /\ readable.manifest => DeveloperInv'
  BY DEF PristineInv, AsInstalled
<1>2. file # None /\ AsInstalled(file)
  BY <1>1 DEF DeniedInv, PristineInv
<1>3. ASSUME registry.manifest # Developer
      PROVE  InstalledInv'
  <2>1. InstalledInv
    BY <1>1, <1>3 DEF DeniedInv, PristineInv
  <2>2. \A d \in Conn : conn'[d].with \in Loads(registry.manifest)
    BY <1>1, <1>2, <1>3, <2>1 DEF InstalledInv, Loads
  <2>3. QED
    BY <1>1, <1>2, <1>3, <2>1, <2>2 DEF InstalledInv
<1>4. ASSUME registry.manifest = Developer, readable.manifest
      PROVE  DeveloperInv'
  <2>1. DeveloperInv
    BY <1>1, <1>4 DEF DeniedInv, PristineInv
  <2>3. \A d \in Conn : ~ Reached(d, "hash")' /\ ~ Reached(d, "hashBinary")'
    BY <1>1, <1>2, <1>4, <2>1 DEF DeveloperInv, Reached
  <2>4. QED
    BY <1>1, <1>2, <1>4, <2>1, <2>3 DEF DeveloperInv
<1>5. QED
  BY <1>2, <1>3, <1>4

(* A step of a handshake concerns no other undisturbed one.                *)
LEMMA HandshakeAlone ==
    ASSUME DeniedInv, NEW c \in Busy,
           UNCHANGED <<registry, readable, describer, pristine>>,
           \A d \in Conn \ {c} : conn'[d] = conn[d],
           disturbed \subseteq disturbed',
           pristine /\ c \notin disturbed' =>
              /\ registry.manifest # Developer => InstalledReason(c)'
              /\ registry.manifest = Developer /\ readable.manifest => DeveloperReason(c)'
    PROVE  AloneInv' /\ ReasonInv'
<1>1. Busy' \subseteq Busy /\ c \in Conn
  BY DEF Busy
<1>2. Describing' = Describing
  BY DEF Describing
<1>3. AloneInv'
  BY <1>1, <1>2 DEF DeniedInv, AloneInv
<1>4. ASSUME pristine, NEW d \in Conn \ disturbed', d # c
      PROVE  /\ registry.manifest # Developer => InstalledReason(d)'
             /\ registry.manifest = Developer /\ readable.manifest => DeveloperReason(d)'
  <2>1. d \notin Busy /\ d \in Conn \ disturbed
    BY <1>4 DEF DeniedInv, AloneInv
  <2>2. \A p \in HandshakePlaces : Reached(d, p)' <=> Reached(d, p)
    BY <1>4 DEF Reached
  <2>3. ~ Reached(d, "check") /\ ~ Reached(d, "load") /\ ~ Reached(d, "branch")
    BY <2>1 DEF Busy, Reached
  <2>4. conn'[d] = conn[d]
    BY <1>4
  <2>5. QED
    BY <1>4, <2>1, <2>2, <2>3, <2>4
       DEF DeniedInv, ReasonInv, InstalledReason, DeveloperReason, HandshakePlaces
<1>5. ReasonInv'
  BY <1>4 DEF ReasonInv
<1>6. QED
  BY <1>3, <1>5

(* What the status and the manifest say while the file is as installed.    *)
LEMMA PristineFacts ==
    ASSUME HandshakeAssumption, DeniedInv, pristine, file # None, AsInstalled(file)
    PROVE  /\ registry.manifest # Developer =>
                 /\ status \in {"Verified", "RequiresUserSpace"}
                 /\ loaded \in Loads(registry.manifest) /\ ~ DeveloperTrust(loaded)
                 /\ file = registry.manifest /\ file \notin Garbled
                 /\ Verified(loaded, status) \in {"Verified", "RequiresUserSpace"}
           /\ registry.manifest = Developer /\ readable.manifest =>
                 /\ status \in {"Verified", "RequiresDeveloper"}
                 /\ DeveloperTrust(loaded) /\ file \in Developers /\ file \notin Garbled
                 /\ Verified(loaded, status) = "RequiresDeveloper"
                 /\ \A c \in Conn : ~ Reached(c, "hash") /\ ~ Reached(c, "hashBinary")
<1>1. RegistryInv
  BY DEF DeniedInv
<1>2. ASSUME registry.manifest # Developer
      PROVE  InstalledInv /\ ~ DeveloperTrust(loaded)
  <2>1. InstalledInv
    BY <1>2 DEF DeniedInv, PristineInv
  <2>2. QED
    BY <1>1, <1>2, <2>1, InstalledMeans DEF InstalledInv
<1>3. registry.manifest = Developer /\ readable.manifest => DeveloperInv
  BY DEF DeniedInv, PristineInv
<1>4. QED
  BY <1>1, <1>2, <1>3, WrittenAsInstalled DEF InstalledInv, DeveloperInv

(* The steps up to the second reading of the manifest.                     *)
LEMMA StatusPristine ==
    ASSUME HandshakeAssumption, DeniedInv, NEW c \in Conn,
           \/ Verify(c) \/ BranchDeveloper(c) \/ Branch(c) \/ HashFile(c)
           \/ HashFileFails(c) \/ Check(c) \/ Load(c)
    PROVE  PristineInv' /\ AloneInv' /\ ReasonInv'
<1> DEFINE place == conn'[c].at
<1>1. /\ c \in Busy
      /\ UNCHANGED <<registry, readable, file, describer, pristine>>
      /\ disturbed \subseteq disturbed'
      /\ \E p \in {"branch", "hash", "check", "load", "binary", "denied"} : Go(c, p)
  <2>1. \A p \in {"verify", "branch", "hash", "check", "load"} : Reached(c, p) => c \in Busy
    BY DEF Reached, Busy
  <2>2. QED
    BY <2>1 DEF Verify, BranchDeveloper, Branch, HashFile, HashFileFails, Check, Load,
       fixed, history
<1>2. /\ \A d \in Conn \ {c} : conn'[d] = conn[d]
      /\ place \in {"branch", "hash", "check", "load", "binary", "denied"}
      /\ conn'[c].with = conn[c].with
      /\ \A p \in HandshakePlaces : Go(c, p) => place = p
  <2>1. conn \in [Conn -> ConnType]
    BY DEF DeniedInv, HandshakeTypeOK, ConnType
  <2>2. QED
    BY <1>1, <2>1, GoType DEF HandshakePlaces
<1>3. \A p : Reached(c, p)' <=> place = p
  BY DEF Reached, place
<1> HIDE DEF place
<1>4. ASSUME pristine, AsInstalled(file), file # None
      PROVE  /\ registry.manifest # Developer =>
                   /\ status' \in {"Verified", "RequiresUserSpace"}
                   /\ loaded' \in Loads(registry.manifest)
                   /\ c \notin disturbed' =>
                        /\ place \in {"check", "load"} => status' = "Verified"
                        /\ place # "denied"
             /\ registry.manifest = Developer /\ readable.manifest =>
                   /\ status' \in {"Verified", "RequiresDeveloper"}
                   /\ DeveloperTrust(loaded')
                   /\ place # "hash"
                   /\ c \notin disturbed' =>
                        /\ place = "branch" => status' = "RequiresDeveloper"
                        /\ place \in {"check", "load"} => status' = "Verified"
                        /\ place # "denied"
  <2> USE <1>2, <1>4, PristineFacts
  <2>0. c \notin disturbed' =>
           /\ registry.manifest # Developer => InstalledReason(c)
           /\ registry.manifest = Developer /\ readable.manifest => DeveloperReason(c)
    BY <1>1 DEF DeniedInv, ReasonInv
  <2>1. CASE Verify(c)
    <3>1. status' = Verified(loaded, status) /\ loaded' = loaded /\ place = "branch"
      BY <2>1 DEF Verify, HandshakePlaces
    <3>2. QED
      BY <3>1
  <2>2. CASE BranchDeveloper(c)
    <3>1. /\ status = "RequiresDeveloper" /\ loaded' = loaded
          /\ registry.manifest = Developer => status' = "Verified" /\ place = "check"
      BY <2>2 DEF BranchDeveloper, HandshakePlaces
    <3>2. QED
      BY <3>1
  <2>3. CASE Branch(c)
    <3>1. /\ Reached(c, "branch") /\ status # "RequiresDeveloper"
          /\ UNCHANGED <<status, loaded>>
          /\ place = IF status = "RequiresUserSpace" THEN "hash" ELSE "check"
      BY <2>3 DEF Branch, HandshakePlaces
    <3>2. QED
      BY <2>0, <3>1 DEF DeveloperReason
  <2>4. CASE HashFile(c)
    <3>1. /\ Reached(c, "hash") /\ loaded' = loaded
          /\ file = registry.manifest => status' = "Verified" /\ place = "check"
      BY <2>4 DEF HashFile, HandshakePlaces
    <3>2. QED
      BY <3>1
  <2>5. CASE HashFileFails(c)
    <3>1. UNCHANGED <<status, loaded>> /\ place = "denied" /\ c \in disturbed'
      BY <2>5 DEF HashFileFails, HandshakePlaces
    <3>2. QED
      BY <3>1
  <2>6. CASE Check(c)
    <3>1. /\ Reached(c, "check") /\ UNCHANGED <<status, loaded>>
          /\ place = IF status \in Failing THEN "denied" ELSE "load"
      BY <2>6 DEF Check, HandshakePlaces
    <3>2. QED
      BY <2>0, <3>1 DEF Failing, InstalledReason, DeveloperReason
  <2>7. CASE Load(c)
    <3>1. /\ Reached(c, "load")
          /\ status' = IF CanLoad /\ file \in Garbled THEN "Malformed" ELSE status
          /\ loaded' = LoadedFrom(loaded)
          /\ place = IF status' = "Verified" THEN "binary" ELSE "denied"
      BY <2>7 DEF Load, HandshakePlaces
    <3>2. /\ registry.manifest # Developer =>
                 status' = status /\ loaded' \in Loads(registry.manifest)
          /\ registry.manifest = Developer /\ readable.manifest =>
                 status' = status /\ DeveloperTrust(loaded')
      <4>1. CASE ~ CanLoad
        BY <3>1, <4>1 DEF LoadedFrom
      <4>2. CASE CanLoad
        <5>1. loaded' = Decoded(file, loaded) /\ loaded \in Manifest /\ file \in Content
          BY <3>1, <4>2 DEF LoadedFrom, CanLoad, DeniedInv, HandshakeTypeOK
        <5>2. registry.manifest # Developer => loaded' \in Loads(registry.manifest)
          BY <5>1, InstalledMeans DEF DeniedInv
        <5>3. registry.manifest = Developer /\ readable.manifest => DeveloperTrust(loaded')
          BY <5>1, DecodedMeans
        <5>4. QED
          BY <3>1, <5>2, <5>3
      <4>3. QED
        BY <4>1, <4>2
    <3>3. QED
      BY <2>0, <3>1, <3>2 DEF InstalledReason, DeveloperReason
  <2>8. QED
    BY <2>1, <2>2, <2>3, <2>4, <2>5, <2>6, <2>7
<1>5. PristineInv'
  BY <1>1, <1>2, <1>4, HandshakePristine DEF place
<1>6. ASSUME pristine, c \notin disturbed'
      PROVE  /\ registry.manifest # Developer => InstalledReason(c)'
             /\ registry.manifest = Developer /\ readable.manifest => DeveloperReason(c)'
  <2>1. AsInstalled(file) /\ file # None
    BY <1>6 DEF DeniedInv, PristineInv
  <2>2. QED
    BY <1>3, <1>4, <1>6, <2>1 DEF InstalledReason, DeveloperReason
<1>7. AloneInv' /\ ReasonInv'
  BY <1>1, <1>2, <1>6, HandshakeAlone
<1>8. QED
  BY <1>5, <1>7

(* The steps that look at the executable.                                  *)
LEMMA BinaryPristine ==
    ASSUME HandshakeAssumption, DeniedInv, NEW c \in Conn,
           \/ DeveloperBinary(c) \/ VerifyBinary(c) \/ BinaryInUserSpace(c)
           \/ HashBinary(c) \/ BinaryFails(c)
    PROVE  PristineInv' /\ AloneInv' /\ ReasonInv'
<1> DEFINE place == conn'[c].at
<1>0. conn \in [Conn -> ConnType] /\ conn[c] \in ConnType
  BY DEF DeniedInv, HandshakeTypeOK, ConnType
<1>1. /\ c \in Busy
      /\ UNCHANGED <<registry, readable, file, status, loaded, describer, pristine>>
      /\ disturbed \subseteq disturbed'
  BY DEF DeveloperBinary, VerifyBinary, BinaryInUserSpace, HashBinary, BinaryFails,
     fixed, history, Reached, Busy
<1>2. ASSUME Accept(c)
      PROVE  /\ \A d \in Conn \ {c} : conn'[d] = conn[d]
             /\ place = "accepted" /\ conn'[c].with = loaded
  <2>1. conn' = [conn EXCEPT ![c] = [conn[c] EXCEPT !.at = "accepted", !.with = loaded]]
    BY <1>0, <1>2 DEF Accept
  <2>2. conn'[c] = [conn[c] EXCEPT !.at = "accepted", !.with = loaded]
    BY <1>0, <2>1
  <2>3. QED
    BY <1>0, <2>1, <2>2 DEF ConnType
<1>3. ASSUME NEW p \in {"denied", "hashBinary"}, Go(c, p)
      PROVE  /\ place = p /\ \A d \in Conn \ {c} : conn'[d] = conn[d]
             /\ conn'[c].exe = conn[c].exe /\ conn'[c].same = conn[c].same
             /\ conn'[c].with = conn[c].with
  BY <1>0, <1>3, GoType
<1>4. /\ \A d \in Conn \ {c} : conn'[d] = conn[d]
      /\ place \in {"accepted", "denied", "hashBinary"}
      /\ conn'[c].with \in {conn[c].with, loaded}
  BY <1>2, <1>3
     DEF DeveloperBinary, VerifyBinary, BinaryInUserSpace, HashBinary, BinaryFails
<1>5. \A p : Reached(c, p)' <=> place = p
  BY DEF Reached, place
<1> HIDE DEF place
<1>6. place = "hashBinary" => BinaryInUserSpace(c)
  BY <1>2, <1>3 DEF DeveloperBinary, VerifyBinary, HashBinary, BinaryFails
<1>7. place = "denied" /\ c \notin disturbed' =>
         /\ VerifyBinary(c) \/ HashBinary(c)
         /\ \/ conn'[c].exe # registry.binary
            \/ readable.binary /\ ~ conn'[c].same
  BY <1>2, <1>3
     DEF DeveloperBinary, VerifyBinary, BinaryInUserSpace, HashBinary, BinaryFails
<1>8. ASSUME pristine
      PROVE  /\ file # None /\ AsInstalled(file)
             /\ registry.manifest = Developer /\ readable.manifest =>
                   /\ ~ BinaryInUserSpace(c) /\ ~ VerifyBinary(c) /\ ~ HashBinary(c)
  <2>1. file # None /\ AsInstalled(file)
    BY <1>8 DEF DeniedInv, PristineInv
  <2>2. QED
    BY <1>8, <2>1, PristineFacts DEF BinaryInUserSpace, VerifyBinary, HashBinary
<1>9. PristineInv'
  BY <1>1, <1>4, <1>6, <1>8, PristineFacts, HandshakePristine DEF place
<1>10. ASSUME pristine, c \notin disturbed'
       PROVE  /\ registry.manifest # Developer => InstalledReason(c)'
              /\ registry.manifest = Developer /\ readable.manifest => DeveloperReason(c)'
  BY <1>1, <1>4, <1>5, <1>7, <1>8, <1>10 DEF InstalledReason, DeveloperReason
<1>11. AloneInv' /\ ReasonInv'
  BY <1>1, <1>4, <1>10, HandshakeAlone
<1>12. QED
  BY <1>9, <1>11

(* A process that connects disturbs the handshakes under way.              *)
LEMMA ConnectPristine ==
    ASSUME HandshakeAssumption, DeniedInv, NEW c \in Conn, Connect(c)
    PROVE  PristineInv' /\ AloneInv' /\ ReasonInv'
<1>1. PICK exe \in Program, same \in BOOLEAN :
         conn' = [conn EXCEPT ![c] = [Away EXCEPT
            !.at = IF status \in Failing THEN "denied" ELSE "verify",
            !.exe = exe, !.same = same]]
  BY DEF Connect
<1>2. /\ conn'[c].at = IF status \in Failing THEN "denied" ELSE "verify"
      /\ conn'[c].with = Blank
      /\ \A d \in Conn \ {c} : conn'[d] = conn[d]
  BY <1>1 DEF DeniedInv, HandshakeTypeOK, Away
<1>3. /\ UNCHANGED <<registry, readable, file, status, loaded, describer, pristine>>
      /\ disturbed' = IF Describing # {} \/ Busy # {}
                       THEN disturbed \cup Busy \cup {c} ELSE disturbed
  BY DEF Connect, fixed
<1>4. Describing' = Describing /\ Busy' \subseteq Busy \cup {c}
  BY <1>2, <1>3 DEF Describing, Busy
<1>5. AloneInv'
  BY <1>3, <1>4 DEF AloneInv
<1>6. ASSUME pristine, AsInstalled(file), file # None
      PROVE  /\ registry.manifest # Developer =>
                   status \notin Failing /\ loaded \in Loads(registry.manifest)
                   /\ status \in {"Verified", "RequiresUserSpace"}
             /\ registry.manifest = Developer /\ readable.manifest =>
                   status \notin Failing /\ DeveloperTrust(loaded)
                   /\ status \in {"Verified", "RequiresDeveloper"}
  BY <1>6, PristineFacts DEF Failing
<1>7. conn'[c].at \notin {"hash", "hashBinary", "branch", "check", "load"}
  BY <1>2
<1>8. PristineInv'
  BY <1>2, <1>3, <1>6, <1>7, HandshakePristine
<1>9. ASSUME pristine, NEW d \in Conn \ disturbed'
      PROVE  /\ registry.manifest # Developer => InstalledReason(d)'
             /\ registry.manifest = Developer /\ readable.manifest => DeveloperReason(d)'
  <2>0. AsInstalled(file) /\ file # None
    BY <1>9 DEF DeniedInv, PristineInv
  <2>1. CASE d = c
    <3>1. registry.manifest # Developer \/ readable.manifest => ~ Reached(c, "denied")'
      BY <1>2, <1>6, <1>9, <2>0 DEF Reached
    <3>2. ~ Reached(c, "branch")' /\ ~ Reached(c, "check")' /\ ~ Reached(c, "load")'
      BY <1>7 DEF Reached
    <3>3. QED
      BY <1>3, <2>1, <3>1, <3>2 DEF InstalledReason, DeveloperReason
  <2>2. CASE d # c
    <3>1. /\ conn'[d] = conn[d] /\ d \notin disturbed
          /\ \A p \in HandshakePlaces : Reached(d, p)' <=> Reached(d, p)
      BY <1>2, <1>3, <1>9, <2>2 DEF Reached
    <3>2. QED
      BY <1>3, <1>9, <3>1 DEF DeniedInv, ReasonInv, InstalledReason, DeveloperReason,
           HandshakePlaces
  <2>3. QED
    BY <2>1, <2>2
<1>10. ReasonInv'
  BY <1>3, <1>9 DEF ReasonInv
<1>11. QED
  BY <1>5, <1>8, <1>10

(* A connection that closes was at its end.                                *)
LEMMA LeavePristine ==
    ASSUME HandshakeAssumption, DeniedInv, NEW c \in Conn, Leave(c)
    PROVE  PristineInv' /\ AloneInv' /\ ReasonInv'
<1>1. /\ conn'[c].at = "away" /\ \A d \in Conn \ {c} : conn'[d] = conn[d]
      /\ conn'[c].with = Blank
      /\ conn[c].at \in {"accepted", "denied"}
      /\ disturbed' = disturbed \ {c}
      /\ UNCHANGED <<registry, readable, file, status, loaded, describer, pristine>>
  BY DEF Leave, DeniedInv, HandshakeTypeOK, Away, fixed
<1>2. Describing' = Describing /\ Busy' = Busy /\ c \notin Busy
  BY <1>1 DEF Describing, Busy
<1>3. AloneInv'
  BY <1>1, <1>2 DEF DeniedInv, AloneInv
<1>4. PristineInv'
  BY <1>1, PristineFacts, HandshakePristine
<1>5. ASSUME pristine, NEW d \in Conn \ disturbed'
      PROVE  /\ registry.manifest # Developer => InstalledReason(d)'
             /\ registry.manifest = Developer /\ readable.manifest => DeveloperReason(d)'
  <2>1. CASE d = c
    <3>1. \A p \in {"branch", "check", "load", "denied"} : ~ Reached(d, p)'
      BY <1>1, <2>1 DEF Reached
    <3>2. QED
      BY <1>1, <3>1 DEF InstalledReason, DeveloperReason
  <2>2. CASE d # c
    <3>1. /\ conn'[d] = conn[d] /\ d \notin disturbed
          /\ \A p \in HandshakePlaces : Reached(d, p)' <=> Reached(d, p)
      BY <1>1, <1>5, <2>2 DEF Reached
    <3>2. QED
      BY <1>1, <1>5, <3>1 DEF DeniedInv, ReasonInv, InstalledReason, DeveloperReason,
           HandshakePlaces
  <2>3. QED
    BY <2>1, <2>2
<1>6. ReasonInv'
  BY <1>1, <1>5 DEF ReasonInv
<1>7. QED
  BY <1>3, <1>4, <1>6

(* GetManifest is at work only when a hub that may not read the manifest   *)
(* has none, and it reads the file as it is installed.                     *)
LEMMA DescriberPristine ==
    ASSUME HandshakeAssumption, DeniedInv, NEW d \in Describer,
           \/ BeginDescribe(d) \/ ReadManifest(d) \/ LoadContent(d)
           \/ HashContent(d) \/ DescribeFails(d)
    PROVE  PristineInv' /\ AloneInv' /\ ReasonInv'
<1>1. /\ UNCHANGED <<registry, readable, file, conn, pristine>>
      /\ disturbed \subseteq disturbed'
  BY DEF BeginDescribe, ReadManifest, LoadContent, HashContent, DescribeFails,
     fixed, history
<1>2. Busy' = Busy
  BY <1>1 DEF Busy
<1>3. Busy \subseteq disturbed'
  <2>1. CASE BeginDescribe(d)
    BY <2>1 DEF BeginDescribe
  <2>2. CASE describer[d].at # "resting"
    BY <1>1, <2>2 DEF DeniedInv, AloneInv, Describing
  <2>3. QED
    BY <2>1, <2>2 DEF ReadManifest, LoadContent, HashContent, DescribeFails
<1>4. AloneInv'
  BY <1>2, <1>3 DEF AloneInv
<1>5. ReasonInv'
  <2>1. \A c \in Conn \ disturbed' :
           /\ ~ Reached(c, "check") /\ ~ Reached(c, "load") /\ ~ Reached(c, "branch")
           /\ c \in Conn \ disturbed
    BY <1>1, <1>3 DEF Busy, Reached
  <2>2. \A c \in Conn, p \in HandshakePlaces : Reached(c, p)' <=> Reached(c, p)
    BY <1>1 DEF Reached
  <2>3. QED
    BY <1>1, <2>1, <2>2 DEF DeniedInv, ReasonInv, InstalledReason, DeveloperReason,
         HandshakePlaces
<1>6. PristineInv'
  <2>1. SUFFICES ASSUME pristine
                 PROVE  /\ file # None /\ AsInstalled(file)
                        /\ registry.manifest # Developer => InstalledInv'
                        /\ registry.manifest = Developer /\ readable.manifest => DeveloperInv'
    BY <1>1 DEF PristineInv, AsInstalled
  <2>2. file # None /\ AsInstalled(file)
    BY <2>1 DEF DeniedInv, PristineInv
  <2>3. ASSUME registry.manifest = Developer, readable.manifest
        PROVE  DeveloperInv'
    <3>1. DeveloperInv /\ file \in Developers
      BY <2>1, <2>2, <2>3, WrittenAsInstalled DEF DeniedInv, PristineInv
    <3>2. \A c \in Conn : ~ Reached(c, "hash")' /\ ~ Reached(c, "hashBinary")'
      BY <1>1, <3>1 DEF DeveloperInv, Reached
    <3>3. ASSUME NEW new, new.at # "hashing",
                 new.at = "loading" => new.content \in Developers,
                 describer' = [describer EXCEPT ![d] = new]
          PROVE  \A e \in Describer :
                    /\ describer'[e].at # "hashing"
                    /\ describer'[e].at = "loading" => describer'[e].content \in Developers
      BY <3>1, <3>3 DEF DeveloperInv, DeniedInv, HandshakeTypeOK
    <3>4. Resting.at = "resting"
      BY DEF Resting
    <3>5. CASE BeginDescribe(d)
      BY <1>1, <3>1, <3>2, <3>3, <3>5 DEF BeginDescribe, Describe, DeveloperInv
    <3>6. CASE ReadManifest(d)
      BY <1>1, <3>1, <3>2, <3>3, <3>6 DEF ReadManifest, Describe, DeveloperInv
    <3>7. CASE LoadContent(d)
      <4>1. /\ describer[d].content \in Developers /\ describer[d].content \in Content
            /\ loaded \in Manifest
        BY <3>1, <3>7 DEF LoadContent, DeveloperInv, DeniedInv, HandshakeTypeOK,
             HandshakeAssumption
      <4>2. loaded' = Decoded(describer[d].content, loaded)
        BY <3>7 DEF LoadContent
      <4>3. DeveloperTrust(loaded')
        BY <4>1, <4>2, DecodedMeans
      <4>4. status' = "Verified" /\ describer' = [describer EXCEPT ![d] = Resting]
        BY <2>3, <3>7, <4>3 DEF LoadContent
      <4>5. QED
        BY <1>1, <3>1, <3>2, <3>3, <3>4, <4>3, <4>4 DEF DeveloperInv
    <3>8. CASE HashContent(d)
      BY <3>1, <3>8 DEF HashContent, DeveloperInv
    <3>9. CASE DescribeFails(d)
      BY <1>1, <3>1, <3>2, <3>3, <3>4, <3>9 DEF DescribeFails, DeveloperInv
    <3>10. QED
      BY <3>5, <3>6, <3>7, <3>8, <3>9
  <2>4. ASSUME registry.manifest # Developer
        PROVE  InstalledInv'
    <3>1. /\ InstalledInv /\ file = registry.manifest
          /\ file \notin Garbled /\ file \notin Developers
      BY <2>1, <2>2, <2>4, WrittenAsInstalled DEF DeniedInv, PristineInv
    <3>2. ASSUME NEW new, new.content \in {None, registry.manifest},
                 new.at = "loading" => new.content # None,
                 describer' = [describer EXCEPT ![d] = new]
          PROVE  \A e \in Describer :
                    /\ describer'[e].content \in {None, registry.manifest}
                    /\ describer'[e].at = "loading" => describer'[e].content # None
      BY <3>1, <3>2 DEF InstalledInv, DeniedInv, HandshakeTypeOK
    <3>3. Resting.content = None /\ Resting.at = "resting"
      BY DEF Resting
    <3>4. CASE BeginDescribe(d)
      BY <1>1, <3>1, <3>2, <3>4 DEF BeginDescribe, Describe, InstalledInv
    <3>5. CASE ReadManifest(d)
      BY <1>1, <2>2, <3>1, <3>2, <3>5 DEF ReadManifest, Describe, InstalledInv
    <3>6. CASE LoadContent(d)
      <4>1. describer[d].content = file
        BY <3>1, <3>6 DEF LoadContent, InstalledInv
      <4>2. loaded' = Decoded(registry.manifest, loaded)
        BY <3>1, <3>6, <4>1 DEF LoadContent
      <4>3. loaded' \in Loads(registry.manifest) /\ ~ DeveloperTrust(loaded')
        BY <2>4, <3>1, <4>2, InstalledMeans DEF InstalledInv, DeniedInv
      <4>4. status' = status /\ Describe(d, "hashing", file)
        BY <3>1, <3>6, <4>1, <4>3 DEF LoadContent
      <4>5. QED
        BY <1>1, <3>1, <3>2, <4>3, <4>4 DEF Describe, InstalledInv
    <3>7. CASE HashContent(d)
      BY <1>1, <3>1, <3>2, <3>3, <3>7 DEF HashContent, InstalledInv
    <3>8. CASE DescribeFails(d)
      BY <1>1, <3>1, <3>2, <3>3, <3>8 DEF DescribeFails, InstalledInv
    <3>9. QED
      BY <3>4, <3>5, <3>6, <3>7, <3>8
  <2>5. QED
    BY <2>2, <2>3, <2>4
<1>7. QED
  BY <1>4, <1>5, <1>6

(* No step denies a connection without a reason.                           *)
LEMMA DeniedKeeps ==
    ASSUME HandshakeAssumption, DeniedInv, [HandshakeNext]_handshakeVars
    PROVE  DeniedInv'
<1>1. HandshakeTypeOK'
  BY HandshakeTypeInductive DEF DeniedInv
<1>2. CASE UNCHANGED handshakeVars
  BY <1>2 DEF handshakeVars, DeniedInv, HandshakeTypeOK, RegistryInv, AloneInv, Busy,
       Describing, Reached, PristineInv, AsInstalled, InstalledInv, DeveloperInv,
       ReasonInv, InstalledReason, DeveloperReason
<1>3. ASSUME registry' = registry, PristineInv' /\ AloneInv' /\ ReasonInv'
      PROVE  DeniedInv'
  BY <1>1, <1>3 DEF DeniedInv, RegistryInv
<1>4. ASSUME NEW c \in Conn,
             \/ Connect(c) \/ Verify(c) \/ BranchDeveloper(c) \/ Branch(c)
             \/ HashFile(c) \/ HashFileFails(c) \/ Check(c) \/ Load(c)
             \/ DeveloperBinary(c) \/ VerifyBinary(c) \/ BinaryInUserSpace(c)
             \/ HashBinary(c) \/ BinaryFails(c) \/ Leave(c)
      PROVE  DeniedInv'
  <2>1. registry' = registry
    BY <1>4 DEF Connect, Verify, BranchDeveloper, Branch, HashFile, HashFileFails,
         Check, Load, DeveloperBinary, VerifyBinary, BinaryInUserSpace, HashBinary,
         BinaryFails, Leave, fixed
  <2>2. QED
    BY <1>3, <1>4, <2>1, ConnectPristine, StatusPristine, BinaryPristine, LeavePristine
<1>5. ASSUME NEW d \in Describer,
             \/ BeginDescribe(d) \/ ReadManifest(d) \/ LoadContent(d)
             \/ HashContent(d) \/ DescribeFails(d)
      PROVE  DeniedInv'
  <2>1. registry' = registry
    BY <1>5 DEF BeginDescribe, ReadManifest, LoadContent, HashContent, DescribeFails,
         fixed
  <2>2. QED
    BY <1>3, <1>5, <2>1, DescriberPristine
<1>6. QED
  BY <1>1, <1>2, <1>4, <1>5, RestartPristine, EditPristine DEF HandshakeNext

(* The invariant of a verification that nothing disturbs.                  *)
THEOREM DeniedInvariant ==
    ASSUME HandshakeAssumption
    PROVE  HandshakeSpec => []DeniedInv
<1>1. HandshakeInit => DeniedInv
  BY PristineInit
<1>2. DeniedInv /\ [HandshakeNext]_handshakeVars => DeniedInv'
  BY DeniedKeeps
<1>3. QED
  BY <1>1, <1>2, PTL DEF HandshakeSpec

(* A connection that nothing disturbs is denied only if its process is not *)
(* the installed one, as long as the file is as installed                  *)
(* (handleConnection, binary.go).                                          *)
THEOREM DeniedForReasonCorrect ==
    ASSUME HandshakeAssumption
    PROVE  HandshakeSpec => []DeniedForReason
<1>1. DeniedInv => DeniedForReason
  BY DEF DeniedInv, RegistryInv, HandshakeTypeOK, ReasonInv, InstalledReason,
       DeveloperReason, DeniedForReason
<1>2. QED
  BY <1>1, DeniedInvariant, PTL

(* A connection that is accepted comes from the executable and, where the  *)
(* hub reads it, with the manifest that were installed, also when          *)
(* handshakes share the status, unless the file is edited or described     *)
(* meanwhile (handleConnection, manifest.Verify); an earlier file may have *)
(* left keys that the installed one does not have (manifest.Load).         *)
THEOREM AcceptedAsInstalledCorrect ==
    ASSUME HandshakeAssumption
    PROVE  HandshakeSpec => []AcceptedAsInstalled
<1>1. VerifiedInv /\ DeniedInv => AcceptedAsInstalled
  <2>1. SUFFICES ASSUME VerifiedInv, DeniedInv, registry.manifest # Developer,
                        NEW c \in Conn, Reached(c, "accepted"), c \notin edited
                 PROVE  /\ conn[c].exe = registry.binary
                        /\ readable.manifest =>
                              /\ \A k \in KeysOf[registry.manifest] :
                                    conn[c].with[k] = registry.manifest
                              /\ pristine => conn[c].with = Installed
    BY DEF AcceptedAsInstalled, VerifiedInv
  <2>2. /\ conn[c].exe = registry.binary
        /\ readable.manifest => HasInstalled(registry.manifest, conn[c].with)
    BY <2>1 DEF VerifiedInv, AcceptedInv
  <2>3. pristine => conn[c].with \in Loads(registry.manifest)
    BY <2>1 DEF DeniedInv, PristineInv, InstalledInv
  <2>4. pristine /\ readable.manifest => conn[c].with = Installed
    BY <2>1, <2>2, <2>3, InstalledMeans DEF DeniedInv
  <2>5. QED
    BY <2>2, <2>4 DEF HasInstalled
<1>2. QED
  BY <1>1, VerifiedInvariant, DeniedInvariant, PTL
=============================================================================
