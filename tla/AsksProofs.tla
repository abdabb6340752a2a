----------------------------- MODULE AsksProofs -----------------------------
(***************************************************************************)
(* Proofs about the requests that the hub waits for, for any number of     *)
(* clients, stages, handles and answers.                                   *)
(***************************************************************************)
EXTENDS Asks, TLAPS

\* Where a client is from Await to the end of its wait.
Held == {"asking", "routing", "sent", "waiting"}

\* Where a client is while the stage it is in has no entry.
Unlisted == {"idle", "ready", "asking", "unsent"}

\* A client has an answer only in a stage that asked for one.
PlaceInv ==
    \A p \in Client :
        /\ At(p, "idle") => client[p].stage = 1
        /\ client[p].at \in {"idle", "ready"} => buffer[p] = None
        /\ client[p].at \in Held => Here(p) \in Asking /\ handle[Here(p)] # None

\* A stage gets its handle once, and answers carry the handle of their stage.
HandleInv ==
    /\ \A a \in Asking :
          /\ handle[a] # None =>
                /\ handle[a] \in HandlesOf[a[1]][a[2]]
                /\ a[2] <= client[a[1]].stage
                /\ a[2] = client[a[1]].stage => client[a[1]].at \notin {"idle", "ready"}
          /\ owed[a] > 0 => handle[a] # None
    /\ \A m \in transit : handle[m.for] = m.handle

\* Who has a channel in the table has no other, has no answer in it, and waits
\* for one or is a pipe whose request failed.
ChannelInv ==
    \A h \in Handle : channels[h] # None =>
        /\ buffer[channels[h]] = None
        /\ \/ client[channels[h]].at \in Held /\ handle[Here(channels[h])] = h
           \/ channels[h] \notin Careful /\ At(channels[h], "unsent")
        /\ \A g \in Handle : channels[g] = channels[h] => g = h

\* An entry was made with the handle of its stage, which its client has sent, or
\* left in another way than by a request that failed.
EntryInv ==
    \A h \in Handle : entry[h] # None =>
        /\ handle[entry[h]] = h
        /\ entry[h][2] = client[entry[h][1]].stage =>
              client[entry[h][1]].at \notin Unlisted

\* StageByStage, from the Await on.
OwnInv ==
    \A p \in Own :
        /\ used[p] \subseteq {<<p, i>> : i \in 1 .. client[p].stage}
        /\ client[p].at \in Held =>
              /\ buffer[p] # None => buffer[p] = Here(p)
              /\ channels[handle[Here(p)]] = p \/ buffer[p] # None

AsksInv ==
    /\ TypeOK
    /\ PlaceInv
    /\ HandleInv
    /\ ChannelInv
    /\ EntryInv
    /\ OwnInv

-----------------------------------------------------------------------------
(* Stages, and the steps of a client from place to place.                  *)

\* A stage that asks is a client and a place among its stages.
LEMMA AskingParts ==
    /\ \A a \in Asking :
          /\ a = <<a[1], a[2]>> /\ a[1] \in Client
          /\ a[2] \in DOMAIN Stages[a[1]] /\ a[2] \in Nat
    /\ None \notin Asking
    /\ \A p \in Client : \A i \in DOMAIN Stages[p] :
          Stages[p][i] = "ask" => <<p, i>> \in Asking
    /\ \A p \in Client :
          /\ Len(Stages[p]) \in Nat \ {0}
          /\ DOMAIN Stages[p] = 1 .. Len(Stages[p])
<1>1. \A p \in Client :
         /\ Len(Stages[p]) \in Nat \ {0}
         /\ DOMAIN Stages[p] = 1 .. Len(Stages[p])
  BY AsksAssumption
<1>2. \A p \in Client : \A i \in DOMAIN Stages[p] :
         Stages[p][i] = "ask" => <<p, i>> \in Asking
  BY DEF Asking
<1>3. ASSUME NEW a \in Asking
      PROVE  /\ a = <<a[1], a[2]>> /\ a[1] \in Client
             /\ a[2] \in DOMAIN Stages[a[1]] /\ a[2] \in Nat
  <2>1. PICK p \in Client : a \in {p} \X {i \in DOMAIN Stages[p] : Stages[p][i] = "ask"}
    BY DEF Asking
  <2>2. QED
    BY <1>1, <2>1
<1>4. None \notin Asking
  <2>1. \A a \in Asking : a \in Client \X Nat
    BY <1>3
  <2>2. QED
    BY <2>1, AsksAssumption
<1>5. QED
  BY <1>1, <1>2, <1>3, <1>4

\* Only the clients of one stage know the handles of an Own one.
LEMMA HandleTellsStage ==
    ASSUME HandleInv, NEW p \in Own, p \in Client, NEW a \in Asking, NEW b \in Asking,
           a[1] = p, handle[a] # None, handle[b] = handle[a]
    PROVE  b = a
<1>1. a = <<p, a[2]>> /\ a[2] \in DOMAIN Stages[p]
  BY AskingParts
<1>2. OwnStage(p, a[2])
  BY <1>1 DEF Own
<1>3. handle[a] \in HandlesOf[a[1]][a[2]] /\ handle[a] \in HandlesOf[b[1]][b[2]]
  BY DEF HandleInv
<1>4. QED
  BY <1>1, <1>2, <1>3 DEF OwnStage

\* One client moves within its stage, or on to the next.
Moves(p) ==
    /\ client' \in [Client -> [at : Place, stage : Nat]]
    /\ \A q \in Client : Active(q)' => client'[q].stage \in DOMAIN Stages[q]
    /\ \A q \in Client \ {p} : client'[q] = client[q]
    /\ client'[p].at # "idle"
    /\ \/ client'[p].stage = client[p].stage
       \/ client'[p].at = "ready" /\ client'[p].stage = client[p].stage + 1

\* Go stays within the stage ...
LEMMA GoMoves ==
    ASSUME TypeOK, NEW p \in Client, NEW place, Go(p, place),
           place \in Place \ {"idle"},
           place \in {"done", "failed", "unsent"} \/ client[p].stage \in DOMAIN Stages[p]
    PROVE  /\ Moves(p)
           /\ client'[p].at = place
           /\ client'[p].stage = client[p].stage
           /\ \A q \in Client : Here(q)' = Here(q)
<1>1. client \in [Client -> [at : Place, stage : Nat]]
  BY DEF TypeOK
<1>2. client' = [client EXCEPT ![p] = [client[p] EXCEPT !.at = place]]
  BY DEF Go
<1>3. client'[p] = [client[p] EXCEPT !.at = place]
  BY <1>1, <1>2
<1>4. \A q \in Client \ {p} : client'[q] = client[q]
  BY <1>1, <1>2
<1>5. client[p] \in [at : Place, stage : Nat]
  BY <1>1
<1>6. client'[p].at = place /\ client'[p].stage = client[p].stage
  BY <1>3, <1>5
<1>7. client' \in [Client -> [at : Place, stage : Nat]]
  BY <1>1, <1>2, <1>5
<1>8. \A q \in Client : Active(q)' => client'[q].stage \in DOMAIN Stages[q]
  BY <1>4, <1>6 DEF TypeOK, Active
<1>9. \A q \in Client : Here(q)' = Here(q)
  BY <1>4, <1>6 DEF Here
<1>10. QED
  BY <1>4, <1>6, <1>7, <1>8, <1>9 DEF Moves

\* ... and GoOn goes to the next, or ends.
LEMMA GoOnMoves ==
    ASSUME TypeOK, NEW p \in Client, GoOn(p), client[p].stage \in DOMAIN Stages[p]
    PROVE  /\ Moves(p)
           /\ client'[p].at \in {"ready", "done"}
           /\ client'[p].at = "ready" => client'[p].stage = client[p].stage + 1
<1>1. client \in [Client -> [at : Place, stage : Nat]]
  BY DEF TypeOK
<1> DEFINE next == IF client[p].stage = Len(Stages[p])
                   THEN [client[p] EXCEPT !.at = "done"]
                   ELSE [at |-> "ready", stage |-> client[p].stage + 1]
<1>2. client' = [client EXCEPT ![p] = next]
  BY DEF GoOn
<1>3. client'[p] = next /\ \A q \in Client \ {p} : client'[q] = client[q]
  BY <1>1, <1>2
<1>4. client[p] \in [at : Place, stage : Nat]
  BY <1>1
<1>5. /\ next \in [at : Place, stage : Nat]
      /\ next.at \in {"ready", "done"}
      /\ next.at = "ready" =>
            next.stage = client[p].stage + 1 /\ next.stage \in DOMAIN Stages[p]
      /\ next.at = "done" => next.stage = client[p].stage
  BY <1>4, AskingParts DEF Place
<1> HIDE DEF next
<1>6. client' \in [Client -> [at : Place, stage : Nat]]
  BY <1>1, <1>2, <1>5
<1>7. \A q \in Client : Active(q)' => client'[q].stage \in DOMAIN Stages[q]
  BY <1>3, <1>5 DEF TypeOK, Active
<1>8. QED
  BY <1>3, <1>5, <1>6, <1>7 DEF Moves

-----------------------------------------------------------------------------
(* What a step of one client leaves as it is.                              *)

\* Nothing is asked with a handle before Await, and only GoOn gets to a stage
\* that has not asked.
LEMMA HandlesKept ==
    ASSUME TypeOK, HandleInv, NEW p \in Client, Moves(p), UNCHANGED <<handle, transit>>,
           \A a \in Asking : owed'[a] > 0 => handle[a] # None,
           client'[p].at = "ready" =>
               At(p, "idle") \/ client'[p].stage = client[p].stage + 1
    PROVE  HandleInv'
<1>1. ASSUME NEW a \in Asking, handle[a] # None
      PROVE  /\ a[2] <= client'[a[1]].stage
             /\ a[2] = client'[a[1]].stage => client'[a[1]].at \notin {"idle", "ready"}
  <2>1. /\ a[1] \in Client /\ a[2] \in Nat /\ a[2] <= client[a[1]].stage
        /\ a[2] = client[a[1]].stage => client[a[1]].at \notin {"idle", "ready"}
    BY <1>1, AskingParts DEF HandleInv
  <2>2. client[p].stage \in Nat
    BY DEF TypeOK
  <2>3. CASE a[1] = p
    BY <2>1, <2>2, <2>3 DEF Moves, At
  <2>4. CASE a[1] # p
    BY <2>1, <2>4 DEF Moves
  <2>5. QED
    BY <2>3, <2>4
<1>2. QED
  BY <1>1 DEF HandleInv

\* A client has an answer, and a handle, only where it may.
LEMMA PlacesKept ==
    ASSUME TypeOK, PlaceInv, NEW p \in Client, Moves(p), UNCHANGED handle,
           \A q \in Client \ {p} : buffer'[q] = buffer[q],
           client'[p].at = "ready" => buffer'[p] = None,
           client'[p].at \in Held => client[p].at \in Held
    PROVE  PlaceInv'
<1>1. \A q \in Client \ {p} : client'[q] = client[q] /\ Here(q)' = Here(q)
  BY DEF Moves, Here
<1>2. client'[p].at \in Held => client'[p].stage = client[p].stage
  BY DEF Moves, Held
<1>3. client'[p].at \in Held => Here(p)' = Here(p)
  BY <1>2 DEF Here
<1>4. ASSUME NEW q \in Client
      PROVE  /\ At(q, "idle")' => client'[q].stage = 1
             /\ client'[q].at \in {"idle", "ready"} => buffer'[q] = None
             /\ client'[q].at \in Held => Here(q)' \in Asking /\ handle'[Here(q)'] # None
  <2>1. CASE q = p
    BY <1>3, <2>1 DEF PlaceInv, Moves, At
  <2>2. CASE q # p
    BY <1>1, <2>2 DEF PlaceInv, At
  <2>3. QED
    BY <2>1, <2>2
<1>5. QED
  BY <1>4 DEF PlaceInv

\* A channel that stays is still waited in, or left behind by a pipe that failed.
LEMMA ChannelsKept ==
    ASSUME TypeOK, ChannelInv, NEW p \in Client, Moves(p), UNCHANGED handle,
           \A h \in Handle : channels'[h] \in {channels[h], None},
           \A q \in Client \ {p} : buffer'[q] = buffer[q],
           \A h \in Handle : channels'[h] = p =>
               /\ buffer'[p] = buffer[p]
               /\ \/ client[p].at \in Held /\ client'[p].at \in Held
                  \/ p \notin Careful /\ client'[p].at = "unsent"
    PROVE  ChannelInv'
<1>1. ASSUME NEW h \in Handle, channels'[h] # None
      PROVE  /\ buffer'[channels'[h]] = None
             /\ \/ client'[channels'[h]].at \in Held /\ handle'[Here(channels[h])'] = h
                \/ channels'[h] \notin Careful /\ client'[channels'[h]].at = "unsent"
             /\ \A g \in Handle : channels'[g] = channels'[h] => g = h
  <2>1. channels'[h] = channels[h] /\ channels[h] \in Client
    BY <1>1 DEF TypeOK
  <2>2. /\ buffer[channels[h]] = None
        /\ \/ client[channels[h]].at \in Held /\ handle[Here(channels[h])] = h
           \/ channels[h] \notin Careful /\ client[channels[h]].at = "unsent"
        /\ \A g \in Handle : channels[g] = channels[h] => g = h
    BY <1>1, <2>1 DEF ChannelInv, At
  <2>3. \A g \in Handle : channels'[g] = channels'[h] => g = h
    BY <1>1, <2>1, <2>2
  <2>4. CASE channels[h] # p
    <3>1. client'[channels[h]] = client[channels[h]] /\ Here(channels[h])' = Here(channels[h])
      BY <2>1, <2>4 DEF Moves, Here
    <3>2. QED
      BY <2>1, <2>2, <2>3, <2>4, <3>1
  <2>5. CASE channels[h] = p
    <3>1. buffer'[p] = None
      BY <2>1, <2>2, <2>5
    <3>2. CASE client[p].at \in Held /\ client'[p].at \in Held
      <4>1. client'[p].stage = client[p].stage
        BY <3>2 DEF Moves, Held
      <4>2. Here(channels[h])' = Here(channels[h])
        BY <2>1, <2>5, <4>1 DEF Here
      <4>3. client[p].at # "unsent"
        BY <3>2 DEF Held
      <4>4. QED
        BY <2>1, <2>2, <2>3, <2>5, <3>1, <3>2, <4>2, <4>3
    <3>3. CASE p \notin Careful /\ client'[p].at = "unsent"
      BY <2>1, <2>3, <2>5, <3>1, <3>3
    <3>4. QED
      BY <2>1, <2>5, <3>2, <3>3
  <2>6. QED
    BY <2>4, <2>5
<1>2. QED
  BY <1>1 DEF ChannelInv, At, Here

\* A stage is not in the table before it is sent.
LEMMA NoEntry ==
    ASSUME TypeOK, EntryInv, NEW p \in Client, client[p].at \in Unlisted
    PROVE  \A h \in Handle : entry[h] # Here(p)
<1>1. Here(p) = <<p, client[p].stage>>
  BY DEF Here
<1>2. ASSUME NEW h \in Handle, entry[h] = Here(p) PROVE FALSE
  <2>1. entry[h] # None \/ Here(p) = None
    BY <1>2
  <2>2. entry[h][1] = p /\ entry[h][2] = client[p].stage
    BY <1>1, <1>2
  <2>3. Here(p) # None
    BY <1>1, AsksAssumption DEF TypeOK
  <2>4. QED
    BY <1>2, <2>1, <2>2, <2>3 DEF EntryInv
<1>3. QED
  BY <1>2

\* An entry stays, goes, or is made for the stage that is sent.
LEMMA EntriesKept ==
    ASSUME TypeOK, HandleInv, EntryInv, NEW p \in Client, Moves(p), UNCHANGED handle,
           \A h \in Handle :
               \/ entry'[h] \in {entry[h], None}
               \/ /\ entry'[h] = Here(p) /\ handle[Here(p)] = h
                  /\ client'[p].at \notin Unlisted,
           client'[p].at \in Unlisted =>
               \/ client'[p].stage = client[p].stage + 1
               \/ \A h \in Handle : entry'[h] # Here(p)
    PROVE  EntryInv'
<1>1. ASSUME NEW h \in Handle, entry'[h] # None
      PROVE  /\ handle[entry'[h]] = h
             /\ entry'[h][2] = client'[entry'[h][1]].stage =>
                   client'[entry'[h][1]].at \notin Unlisted
  <2>1. CASE entry'[h] = Here(p) /\ handle[Here(p)] = h /\ client'[p].at \notin Unlisted
    <3>1. entry'[h][1] = p
      BY <2>1 DEF Here
    <3>2. handle[entry'[h]] = h /\ client'[entry'[h][1]].at \notin Unlisted
      BY <2>1, <3>1
    <3>3. QED
      BY <3>2
  <2>2. CASE entry'[h] = entry[h]
    <3>1. /\ entry[h] \in Asking /\ handle[entry[h]] = h
          /\ entry[h][2] = client[entry[h][1]].stage =>
                client[entry[h][1]].at \notin Unlisted
      <4>1. entry[h] # None
        BY <1>1, <2>2
      <4>2. QED
        BY <4>1 DEF TypeOK, EntryInv
    <3>2. entry[h] = <<entry[h][1], entry[h][2]>> /\ entry[h][1] \in Client /\ entry[h][2] \in Nat
      <4>1. entry[h] \in Asking
        BY <3>1
      <4>2. QED
        BY <4>1, AskingParts
    <3>3. entry[h][2] <= client[entry[h][1]].stage
      <4>1. handle[entry[h]] # None
        BY <3>1, AsksAssumption
      <4>2. QED
        BY <3>1, <4>1 DEF HandleInv
    <3>4. CASE entry[h][1] # p
      BY <2>2, <3>1, <3>2, <3>4 DEF Moves
    <3>5. CASE entry[h][1] = p
      <4>1. client[p].stage \in Nat
        BY DEF TypeOK
      <4>2. CASE client'[p].stage = client[p].stage + 1
        BY <2>2, <3>1, <3>2, <3>3, <3>5, <4>1, <4>2
      <4>3. CASE client'[p].stage = client[p].stage
        <5>1. ASSUME entry[h][2] = client[p].stage, client'[p].at \in Unlisted PROVE FALSE
          <6>1. entry'[h] # Here(p)
            BY <4>1, <4>3, <5>1
          <6>2. entry[h] = Here(p)
            BY <3>2, <3>5, <5>1 DEF Here
          <6>3. QED
            BY <2>2, <6>1, <6>2
        <5>2. QED
          BY <2>2, <3>1, <3>5, <4>3, <5>1
      <4>4. QED
        BY <4>2, <4>3 DEF Moves
    <3>6. QED
      BY <3>4, <3>5
  <2>3. QED
    BY <1>1, <2>1, <2>2
<1>2. QED
  BY <1>1 DEF EntryInv

\* Who has its handles for itself keeps its channel through the steps of others.
LEMMA OwnKept ==
    ASSUME TypeOK, OwnInv, NEW p \in Client, Moves(p), UNCHANGED handle,
           used' \in [Client -> SUBSET Asking],
           \A q \in Client \ {p} : used'[q] = used[q] /\ buffer'[q] = buffer[q],
           p \in Own => used'[p] \subseteq used[p] \cup {Here(p)}, client[p].stage >= 1,
           client'[p].at \in Held =>
               client[p].at \in Held /\ buffer'[p] = buffer[p] /\ UNCHANGED channels,
           \A q \in Own \ {p} : client[q].at \in Held =>
               channels'[handle[Here(q)]] = channels[handle[Here(q)]]
    PROVE  OwnInv'
<1>1. ASSUME NEW q \in Own
      PROVE  /\ used'[q] \subseteq {<<q, i>> : i \in 1 .. client'[q].stage}
             /\ client'[q].at \in Held =>
                   /\ buffer'[q] # None => buffer'[q] = Here(q)'
                   /\ channels'[handle'[Here(q)']] = q \/ buffer'[q] # None
  <2>1. q \in Client
    BY DEF Own
  <2>2. /\ used[q] \subseteq {<<q, i>> : i \in 1 .. client[q].stage}
        /\ client[q].at \in Held =>
              /\ buffer[q] # None => buffer[q] = Here(q)
              /\ channels[handle[Here(q)]] = q \/ buffer[q] # None
    BY DEF OwnInv
  <2>3. CASE q # p
    <3>1. client'[q] = client[q] /\ Here(q)' = Here(q)
      BY <2>1, <2>3 DEF Moves, Here
    <3>2. QED
      BY <2>1, <2>2, <2>3, <3>1
  <2>4. CASE q = p
    <3>1. /\ client[p].stage \in Nat /\ client'[p].stage \in Nat
          /\ client[p].stage <= client'[p].stage
      BY DEF TypeOK, Moves
    <3>2. Here(p) = <<p, client[p].stage>>
      BY DEF Here
    <3>3. used'[p] \subseteq {<<p, i>> : i \in 1 .. client'[p].stage}
      BY <2>2, <2>4, <3>1, <3>2
    <3>4. client'[p].at \in Held => Here(p)' = Here(p)
      <4>1. client'[p].at \in Held => client'[p].stage = client[p].stage
        BY DEF Moves, Held
      <4>2. QED
        BY <4>1 DEF Here
    <3>5. QED
      BY <2>2, <2>4, <3>3, <3>4
  <2>5. QED
    BY <2>3, <2>4
<1>2. QED
  BY <1>1 DEF OwnInv, Here

\* Own clients are clients, and no other holds the handle that one holds.
LEMMA OwnHandles ==
    ASSUME PlaceInv, HandleInv, NEW p \in Own, client[p].at \in Held
    PROVE  /\ p \in Client
           /\ \A q \in Client \ {p} :
                 client[q].at \in Held => handle[Here(q)] # handle[Here(p)]
<1>1. p \in Client
  BY DEF Own
<1>2. Here(p) \in Asking /\ handle[Here(p)] # None /\ Here(p)[1] = p
  BY <1>1 DEF PlaceInv, Here
<1>3. ASSUME NEW q \in Client \ {p}, client[q].at \in Held,
             handle[Here(q)] = handle[Here(p)]
      PROVE  FALSE
  <2>1. Here(q) \in Asking /\ Here(q)[1] = q
    BY <1>3 DEF PlaceInv, Here
  <2>2. Here(q) = Here(p)
    BY <1>1, <1>2, <1>3, <2>1, HandleTellsStage
  <2>3. QED
    BY <1>2, <2>1, <2>2
<1>4. QED
  BY <1>1, <1>3

\* Who has not asked, and who got an answer, has no channel in the table.
LEMMA NoChannel ==
    ASSUME ChannelInv, NEW p \in Client,
           client[p].at \notin Held \cup {"unsent"} \/ buffer[p] # None
    PROVE  \A h \in Handle : channels[h] # p
BY AsksAssumption DEF ChannelInv, At

\* Places within the stages are counted from one.
LEMMA StageCounts ==
    ASSUME TypeOK, NEW p \in Client, Active(p)
    PROVE  /\ client[p].stage \in DOMAIN Stages[p]
           /\ client[p].stage \in Nat /\ client[p].stage >= 1
<1>1. client[p].stage \in DOMAIN Stages[p]
  BY DEF TypeOK
<1>2. QED
  BY <1>1, AskingParts

\* Where a client is while it has a handle.
LEMMA HeldFacts ==
    ASSUME AsksInv, NEW p \in Client, client[p].at \in Held
    PROVE  /\ client[p].stage \in DOMAIN Stages[p] /\ client[p].stage >= 1
           /\ Here(p) \in Asking /\ handle[Here(p)] \in Handle
           /\ \A h \in Handle : channels[h] = p => h = handle[Here(p)]
<1>1. client[p].stage \in DOMAIN Stages[p] /\ client[p].stage >= 1
  BY StageCounts DEF AsksInv, Active, Held
<1>2. Here(p) \in Asking /\ handle[Here(p)] # None
  BY DEF AsksInv, PlaceInv
<1>3. handle[Here(p)] \in Handle
  BY <1>2 DEF AsksInv, TypeOK
<1>4. ASSUME NEW h \in Handle, channels[h] = p PROVE h = handle[Here(p)]
  <2>1. client[p].at # "unsent" /\ p # None
    BY AsksAssumption DEF Held
  <2>2. QED
    BY <1>4, <2>1 DEF AsksInv, ChannelInv, At
<1>5. QED
  BY <1>1, <1>2, <1>3, <1>4

-----------------------------------------------------------------------------
(* The steps of clients.                                                   *)

\* Clients that hold nothing move: Start, Malformed, Local and Last.
LEMMA FreeStep ==
    ASSUME AsksInv, NEW p \in Client, Start(p) \/ Malformed(p) \/ Local(p) \/ Last(p)
    PROVE  AsksInv'
<1>1. UNCHANGED <<handle, channels, buffer, entry, owed, transit, used>>
  BY DEF Start, Malformed, Local, Last
<1>2. /\ client[p].at \in {"idle", "ready"} /\ buffer[p] = None
      /\ client[p].stage \in DOMAIN Stages[p] /\ client[p].stage >= 1
      /\ \A h \in Handle : channels[h] # p
  <2>1. client[p].at \in {"idle", "ready"}
    BY DEF Start, Malformed, Local, Last, At
  <2>2. buffer[p] = None
    BY <2>1 DEF AsksInv, PlaceInv
  <2>3. client[p].stage \in DOMAIN Stages[p] /\ client[p].stage >= 1
    <3>1. CASE client[p].at = "idle"
      BY <3>1, AskingParts DEF AsksInv, PlaceInv, At
    <3>2. CASE client[p].at = "ready"
      BY <3>2, StageCounts DEF AsksInv, Active
    <3>3. QED
      BY <2>1, <3>1, <3>2
  <2>4. QED
    BY <2>1, <2>2, <2>3, NoChannel DEF AsksInv, Held
<1>3. /\ Moves(p) /\ client'[p].at \in {"ready", "failed", "done"}
      /\ client'[p].at = "ready" =>
            At(p, "idle") \/ client'[p].stage = client[p].stage + 1
  <2>1. CASE Start(p)
    BY <1>2, <2>1, GoMoves DEF Start, AsksInv, Place
  <2>2. CASE Malformed(p)
    BY <1>2, <2>2, GoMoves DEF Malformed, AsksInv, Place
  <2>3. CASE Local(p)
    BY <1>2, <2>3, GoOnMoves DEF Local, AsksInv
  <2>4. CASE Last(p)
    BY <1>2, <2>4, GoMoves DEF Last, AsksInv, Place
  <2>5. QED
    BY <2>1, <2>2, <2>3, <2>4
<1>4. client'[p].at \notin Held
  BY <1>3 DEF Held
<1>5. TypeOK'
  BY <1>1, <1>3 DEF AsksInv, TypeOK, Moves, Active
<1>6. HandleInv'
  BY <1>1, <1>3, HandlesKept DEF AsksInv, HandleInv
<1>7. PlaceInv'
  BY <1>1, <1>2, <1>3, <1>4, PlacesKept DEF AsksInv
<1>8. ChannelInv'
  BY <1>1, <1>2, <1>3, ChannelsKept DEF AsksInv
<1>9. OwnInv'
  BY <1>1, <1>2, <1>3, <1>4, OwnKept DEF AsksInv, TypeOK
<1>10. EntryInv'
  <2>1. \A h \in Handle : entry[h] # Here(p)
    BY <1>2, NoEntry DEF AsksInv, Unlisted
  <2>2. QED
    BY <1>1, <1>3, <2>1, EntriesKept DEF AsksInv
<1>11. QED
  BY <1>5, <1>6, <1>7, <1>8, <1>9, <1>10 DEF AsksInv

\* bus.Request takes the handle and succeeds, and WaitFor is called: Accept, Sent
\* and Waits.
LEMMA HeldStep ==
    ASSUME AsksInv, NEW p \in Client, Accept(p) \/ Sent(p) \/ Waits(p)
    PROVE  AsksInv'
<1>1. UNCHANGED <<handle, channels, buffer, transit, used>>
  BY DEF Accept, Sent, Waits
<1>2. client[p].at \in {"asking", "routing", "sent"} /\ client[p].at \in Held
  BY DEF Accept, Sent, Waits, At, Held
<1>3. /\ client[p].stage \in DOMAIN Stages[p] /\ client[p].stage >= 1
      /\ Here(p) \in Asking /\ handle[Here(p)] \in Handle /\ Here(p)[1] = p
  BY <1>2, HeldFacts DEF Here
<1>4. /\ Moves(p) /\ client'[p].at \in {"routing", "sent", "waiting"}
      /\ client'[p].at \in Held /\ client'[p].at \notin Unlisted
  <2>1. CASE Accept(p)
    BY <1>3, <2>1, GoMoves DEF Accept, AsksInv, Held, Unlisted, Place
  <2>2. CASE Sent(p)
    BY <1>3, <2>2, GoMoves DEF Sent, AsksInv, Held, Unlisted, Place
  <2>3. CASE Waits(p)
    BY <1>3, <2>3, GoMoves DEF Waits, AsksInv, Held, Unlisted, Place
  <2>4. QED
    BY <2>1, <2>2, <2>3
<1>5. /\ entry' \in [Handle -> Asking \cup {None}]
      /\ owed' \in [Asking -> Nat]
      /\ \A a \in Asking : owed'[a] <= MaxAnswers[a[1]]
      /\ \A a \in Asking \ {Here(p)} : owed'[a] = owed[a]
      /\ \A h \in Handle :
            \/ entry'[h] = entry[h]
            \/ entry'[h] = Here(p) /\ handle[Here(p)] = h
  <2>1. MaxAnswers[p] \in Nat /\ MaxAnswers[p] <= MaxAnswers[p]
    BY AsksAssumption
  <2>2. CASE Accept(p)
    BY <1>3, <2>2 DEF AsksInv, TypeOK, Accept
  <2>3. CASE Sent(p)
    BY <1>3, <2>1, <2>3 DEF AsksInv, TypeOK, Sent
  <2>4. CASE Waits(p)
    BY <2>4 DEF AsksInv, TypeOK, Waits
  <2>5. QED
    BY <2>2, <2>3, <2>4
<1>6. TypeOK'
  BY <1>1, <1>4, <1>5 DEF AsksInv, TypeOK, Moves, Active
<1>7. HandleInv'
  <2>1. \A a \in Asking : owed'[a] > 0 => handle[a] # None
    BY <1>2, <1>5 DEF AsksInv, HandleInv, PlaceInv
  <2>2. QED
    BY <1>1, <1>4, <2>1, HandlesKept DEF AsksInv
<1>8. PlaceInv'
  BY <1>1, <1>2, <1>4, PlacesKept DEF AsksInv
<1>9. ChannelInv'
  BY <1>1, <1>2, <1>4, ChannelsKept DEF AsksInv
<1>10. OwnInv'
  BY <1>1, <1>2, <1>3, <1>4, OwnKept DEF AsksInv, TypeOK
<1>11. EntryInv'
  BY <1>1, <1>4, <1>5, EntriesKept DEF AsksInv
<1>12. QED
  BY <1>6, <1>7, <1>8, <1>9, <1>10, <1>11 DEF AsksInv

\* The request fails, or the client stops waiting: InUse, NotSent and Expire.
LEMMA GivesUpStep ==
    ASSUME AsksInv, NEW p \in Client, InUse(p) \/ NotSent(p) \/ Expire(p)
    PROVE  AsksInv'
<1> DEFINE h == handle[Here(p)]
<1>1. UNCHANGED <<handle, buffer, owed, transit, used>> /\ client[p].at \in Held
  BY DEF InUse, NotSent, GivesUp, Expire, At, Held
<1>2. /\ client[p].stage \in DOMAIN Stages[p] /\ client[p].stage >= 1
      /\ h \in Handle
      /\ \A g \in Handle : channels[g] = p => g = h
  BY <1>1, HeldFacts
<1>3. /\ Moves(p) /\ client'[p].at \in {"failed", "unsent"}
      /\ client'[p].at \notin Held
      /\ client'[p].at = "unsent" => InUse(p) \/ NotSent(p)
  <2>1. CASE Expire(p)
    BY <1>2, <2>1, GoMoves DEF AsksInv, Held, Place, Expire
  <2>2. CASE InUse(p) \/ NotSent(p)
    BY <1>2, <2>2, GoMoves DEF AsksInv, Held, Place, InUse, NotSent, GivesUp
  <2>3. QED
    BY <2>1, <2>2
<1>4. /\ entry' \in [Handle -> Asking \cup {None}]
      /\ \A g \in Handle : entry'[g] \in {entry[g], None}
      /\ \/ channels' = [channels EXCEPT ![h] = None]
         \/ p \notin Careful /\ client'[p].at = "unsent" /\ channels' = channels
  <2>1. entry \in [Handle -> Asking \cup {None}]
    BY DEF AsksInv, TypeOK
  <2>2. CASE InUse(p) \/ NotSent(p)
    <3>1. entry' = entry \/ entry' = [entry EXCEPT ![h] = None]
      BY <2>2 DEF InUse, NotSent
    <3>2. channels' = IF p \in Careful THEN [channels EXCEPT ![h] = None] ELSE channels
      BY <2>2 DEF InUse, NotSent, GivesUp
    <3>3. client'[p].at = "unsent"
      BY <1>2, <2>2, GoMoves DEF AsksInv, Held, Place, InUse, NotSent, GivesUp
    <3>4. QED
      BY <1>2, <2>1, <3>1, <3>2, <3>3
  <2>3. CASE Expire(p)
    BY <2>1, <2>3 DEF Expire
  <2>4. QED
    BY <2>2, <2>3
<1>gone. client'[p].at \in Unlisted => \A g \in Handle : entry'[g] # Here(p)
  <2>1. CASE InUse(p)
    <3>1. \A g \in Handle : entry[g] # Here(p)
      BY <2>1, NoEntry DEF AsksInv, Unlisted, InUse, At
    <3>2. QED
      BY <2>1, <3>1 DEF InUse
  <2>2. CASE NotSent(p)
    <3>1. entry' = [entry EXCEPT ![h] = None] /\ Here(p) # None
      BY <1>1, <2>2, AskingParts DEF NotSent, AsksInv, PlaceInv
    <3>2. \A g \in Handle : entry[g] = Here(p) => g = h
      BY <3>1 DEF AsksInv, EntryInv
    <3>3. QED
      BY <1>2, <3>1, <3>2 DEF AsksInv, TypeOK
  <2>3. CASE Expire(p)
    BY <1>2, <2>3, GoMoves DEF AsksInv, Held, Place, Expire, Unlisted
  <2>4. QED
    BY <2>1, <2>2, <2>3
<1> HIDE DEF h
<1>5. /\ channels' \in [Handle -> Client \cup {None}]
      /\ \A g \in Handle : channels'[g] \in {channels[g], None}
      /\ \A g \in Handle \ {h} : channels'[g] = channels[g]
  BY <1>2, <1>4 DEF AsksInv, TypeOK
<1>6. TypeOK'
  BY <1>1, <1>3, <1>4, <1>5 DEF AsksInv, TypeOK, Moves, Active
<1>7. HandleInv'
  BY <1>1, <1>3, HandlesKept DEF AsksInv, HandleInv
<1>8. PlaceInv'
  BY <1>1, <1>3, PlacesKept DEF AsksInv
<1>9. ChannelInv'
  <2>1. ASSUME NEW g \in Handle, channels'[g] = p
        PROVE  p \notin Careful /\ client'[p].at = "unsent"
    <3>1. channels[g] = p /\ p # None
      BY <1>5, <2>1, AsksAssumption
    <3>2. channels'[h] # None
      BY <1>2, <2>1, <3>1
    <3>3. channels \in [Handle -> Client \cup {None}]
      BY DEF AsksInv, TypeOK
    <3>4. QED
      BY <1>2, <1>4, <3>2, <3>3
  <2>2. QED
    BY <1>1, <1>3, <1>5, <2>1, ChannelsKept DEF AsksInv
<1>10. OwnInv'
  <2>1. ASSUME NEW q \in Own \ {p}, client[q].at \in Held
        PROVE  channels'[handle[Here(q)]] = channels[handle[Here(q)]]
    <3>1. q \in Client /\ handle[Here(q)] # h
      BY <1>1, <2>1, OwnHandles DEF AsksInv, h
    <3>2. handle[Here(q)] \in Handle
      BY <2>1, <3>1, HeldFacts
    <3>3. QED
      BY <1>5, <3>1, <3>2
  <2>2. QED
    BY <1>1, <1>2, <1>3, <2>1, OwnKept DEF AsksInv, TypeOK
<1>11. EntryInv'
  BY <1>1, <1>3, <1>4, <1>gone, EntriesKept DEF AsksInv
<1>12. QED
  BY <1>6, <1>7, <1>8, <1>9, <1>10, <1>11 DEF AsksInv

\* The client takes the answer from its channel: Get and GetError.
LEMMA TakesStep ==
    ASSUME AsksInv, NEW p \in Client, Get(p) \/ GetError(p)
    PROVE  AsksInv'
<1>1. /\ UNCHANGED <<handle, channels, entry, owed, transit>>
      /\ client[p].at \in Held /\ buffer[p] # None
      /\ buffer' = [buffer EXCEPT ![p] = None]
      /\ used' = [used EXCEPT ![p] = @ \cup {buffer[p]}]
  BY DEF Get, GetError, At, Held
<1>2. /\ client[p].stage \in DOMAIN Stages[p] /\ client[p].stage >= 1
      /\ \A h \in Handle : channels[h] # p
  BY <1>1, HeldFacts, NoChannel DEF AsksInv
<1>3. /\ buffer' \in [Client -> Asking \cup {None}]
      /\ buffer'[p] = None /\ \A q \in Client \ {p} : buffer'[q] = buffer[q]
      /\ used' \in [Client -> SUBSET Asking]
      /\ used'[p] = used[p] \cup {buffer[p]}
      /\ \A q \in Client \ {p} : used'[q] = used[q]
  <2>1. /\ buffer \in [Client -> Asking \cup {None}] /\ used \in [Client -> SUBSET Asking]
        /\ buffer[p] \in Asking
    BY <1>1 DEF AsksInv, TypeOK
  <2>2. QED
    BY <1>1, <2>1
<1>4. /\ Moves(p) /\ client'[p].at \in {"ready", "done", "failed"}
      /\ client'[p].at \notin Held
      /\ client'[p].at = "ready" => client'[p].stage = client[p].stage + 1
  <2>1. CASE Get(p)
    BY <1>2, <2>1, GoOnMoves DEF Get, AsksInv, Held
  <2>2. CASE GetError(p)
    BY <1>2, <2>2, GoMoves DEF GetError, AsksInv, Held, Place
  <2>3. QED
    BY <2>1, <2>2
<1>5. TypeOK'
  BY <1>1, <1>3, <1>4 DEF AsksInv, TypeOK, Moves, Active
<1>6. HandleInv'
  BY <1>1, <1>4, HandlesKept DEF AsksInv, HandleInv
<1>7. PlaceInv'
  BY <1>1, <1>3, <1>4, PlacesKept DEF AsksInv
<1>8. ChannelInv'
  BY <1>1, <1>2, <1>3, <1>4, ChannelsKept DEF AsksInv
<1>9. OwnInv'
  <2>1. p \in Own => used'[p] \subseteq used[p] \cup {Here(p)}
    BY <1>1, <1>3 DEF AsksInv, OwnInv
  <2>2. QED
    BY <1>1, <1>2, <1>3, <1>4, <2>1, OwnKept DEF AsksInv
<1>10. EntryInv'
  BY <1>1, <1>4, EntriesKept DEF AsksInv, Unlisted
<1>11. QED
  BY <1>5, <1>6, <1>7, <1>8, <1>9, <1>10 DEF AsksInv

\* Await: the stage gets its handle, and the client the handle's channel.
LEMMA AwaitStep ==
    ASSUME AsksInv, NEW p \in Client, Await(p)
    PROVE  AsksInv'
<1>1. /\ UNCHANGED <<buffer, entry, owed, transit, used>>
      /\ client[p].at = "ready" /\ Stages[p][client[p].stage] = "ask"
      /\ Go(p, "asking")
  BY DEF Await, At
<1>2. PICK h \in HandlesOf[p][client[p].stage] :
         /\ handle' = [handle EXCEPT ![Here(p)] = h]
         /\ channels' = [channels EXCEPT ![h] = p]
  BY DEF Await
<1>3. client[p].stage \in DOMAIN Stages[p] /\ client[p].stage \in Nat /\ client[p].stage >= 1
  BY <1>1, StageCounts DEF AsksInv, Active
<1>4. /\ Here(p) \in Asking /\ Here(p)[1] = p /\ Here(p)[2] = client[p].stage
      /\ h \in Handle /\ h # None /\ p # None
  <2>1. HandlesOf[p] \in [DOMAIN Stages[p] -> SUBSET Handle]
    BY AsksAssumption
  <2>2. h \in Handle
    BY <1>2, <1>3, <2>1
  <2>3. QED
    BY <1>1, <1>3, <2>2, AskingParts, AsksAssumption DEF Here
<1>5. /\ handle' \in [Asking -> Handle \cup {None}]
      /\ handle'[Here(p)] = h
      /\ \A a \in Asking \ {Here(p)} : handle'[a] = handle[a]
      /\ channels' \in [Handle -> Client \cup {None}]
      /\ channels'[h] = p
      /\ \A g \in Handle \ {h} : channels'[g] = channels[g]
  <2>1. handle \in [Asking -> Handle \cup {None}] /\ channels \in [Handle -> Client \cup {None}]
    BY DEF AsksInv, TypeOK
  <2>2. QED
    BY <1>2, <1>4, <2>1
<1>6. /\ Moves(p) /\ client'[p].at = "asking" /\ client'[p].stage = client[p].stage
      /\ \A q \in Client : Here(q)' = Here(q)
  BY <1>1, <1>3, GoMoves DEF AsksInv, Place
<1>7. /\ buffer[p] = None /\ \A g \in Handle : channels[g] # p
      /\ handle[Here(p)] = None
  <2>1. buffer[p] = None
    BY <1>1 DEF AsksInv, PlaceInv
  <2>2. \A g \in Handle : channels[g] # p
    BY <1>1, NoChannel DEF AsksInv, Held
  <2>3. handle[Here(p)] = None
    BY <1>1, <1>4 DEF AsksInv, HandleInv
  <2>4. QED
    BY <2>1, <2>2, <2>3
<1>8. TypeOK'
  BY <1>1, <1>5, <1>6 DEF AsksInv, TypeOK, Moves, Active
<1>9. PlaceInv'
  <2>1. ASSUME NEW q \in Client
        PROVE  /\ client'[q].at = "idle" => client'[q].stage = 1
               /\ client'[q].at \in {"idle", "ready"} => buffer'[q] = None
               /\ client'[q].at \in Held => Here(q) \in Asking /\ handle'[Here(q)] # None
    <3>1. CASE q = p
      BY <1>4, <1>5, <1>6, <3>1
    <3>2. CASE q # p
      <4>1. Here(q) # Here(p) /\ client'[q] = client[q]
        BY <1>6, <3>2 DEF Here, Moves
      <4>2. QED
        BY <1>1, <1>5, <4>1 DEF AsksInv, PlaceInv, At
    <3>3. QED
      BY <3>1, <3>2
  <2>2. QED
    BY <1>6, <2>1 DEF PlaceInv, At
<1>10. HandleInv'
  <2>1. ASSUME NEW a \in Asking
        PROVE  /\ handle'[a] # None =>
                     /\ handle'[a] \in HandlesOf[a[1]][a[2]]
                     /\ a[2] <= client'[a[1]].stage
                     /\ a[2] = client'[a[1]].stage => client'[a[1]].at \notin {"idle", "ready"}
               /\ owed'[a] > 0 => handle'[a] # None
    <3>1. CASE a = Here(p)
      BY <1>2, <1>3, <1>4, <1>5, <1>6, <3>1
    <3>2. CASE a # Here(p)
      <4>1. handle'[a] = handle[a] /\ owed'[a] = owed[a] /\ a[1] \in Client
        BY <1>1, <1>5, <3>2, AskingParts
      <4>2. /\ client'[a[1]].stage = client[a[1]].stage
            /\ client'[a[1]].at # client[a[1]].at => client'[a[1]].at = "asking"
        BY <1>6, <4>1 DEF Moves
      <4>3. QED
        BY <4>1, <4>2 DEF AsksInv, HandleInv
    <3>3. QED
      BY <3>1, <3>2
  <2>2. ASSUME NEW m \in transit PROVE handle'[m.for] = m.handle
    <3>1. m.for \in Asking /\ m.handle \in Handle /\ handle[m.for] = m.handle
      BY DEF AsksInv, TypeOK, HandleInv
    <3>2. m.for # Here(p)
      BY <1>7, <3>1, AsksAssumption
    <3>3. QED
      BY <1>5, <3>1, <3>2
  <2>3. QED
    BY <1>1, <2>1, <2>2 DEF HandleInv
<1>11. ChannelInv'
  <2>1. ASSUME NEW g \in Handle, channels'[g] # None
        PROVE  /\ buffer'[channels'[g]] = None
               /\ \/ client'[channels'[g]].at \in Held /\ handle'[Here(channels'[g])] = g
                  \/ channels'[g] \notin Careful /\ client'[channels'[g]].at = "unsent"
               /\ \A f \in Handle : channels'[f] = channels'[g] => f = g
    <3>1. CASE g = h
      BY <1>1, <1>5, <1>6, <1>7, <3>1 DEF Held
    <3>2. CASE g # h
      <4>1. channels'[g] = channels[g] /\ channels[g] \in Client /\ channels[g] # p
        BY <1>5, <1>7, <2>1, <3>2 DEF AsksInv, TypeOK
      <4>2. /\ buffer[channels[g]] = None
            /\ \/ client[channels[g]].at \in Held /\ handle[Here(channels[g])] = g
               \/ channels[g] \notin Careful /\ client[channels[g]].at = "unsent"
            /\ \A f \in Handle : channels[f] = channels[g] => f = g
        BY <2>1, <4>1 DEF AsksInv, ChannelInv, At
      <4>3. client'[channels[g]] = client[channels[g]]
        BY <1>6, <4>1 DEF Moves
      <4>4. handle[Here(channels[g])] = g /\ client[channels[g]].at \in Held =>
               handle'[Here(channels[g])] = g
        <5>1. Here(channels[g]) # Here(p)
          BY <4>1 DEF Here
        <5>2. client[channels[g]].at \in Held => Here(channels[g]) \in Asking
          BY <4>1 DEF AsksInv, PlaceInv
        <5>3. QED
          BY <1>5, <5>1, <5>2
      <4>5. \A f \in Handle : channels'[f] = channels'[g] => f = g
        BY <1>5, <4>1, <4>2
      <4>6. QED
        BY <1>1, <4>1, <4>2, <4>3, <4>4, <4>5
    <3>3. QED
      BY <3>1, <3>2
  <2>2. \A q \in Client : client'[q].stage = client[q].stage
    BY <1>6 DEF Moves
  <2>3. \A g \in Handle : channels'[g] # None => channels'[g] \in Client
    BY <1>5
  <2>4. QED
    BY <2>1, <2>2, <2>3 DEF ChannelInv, At, Here
<1>12. OwnInv'
  <2>1. ASSUME NEW q \in Own
        PROVE  /\ used'[q] \subseteq {<<q, i>> : i \in 1 .. client'[q].stage}
               /\ client'[q].at \in Held =>
                     /\ buffer'[q] # None => buffer'[q] = Here(q)
                     /\ channels'[handle'[Here(q)]] = q \/ buffer'[q] # None
    <3>1. q \in Client
      BY DEF Own
    <3>2. /\ used[q] \subseteq {<<q, i>> : i \in 1 .. client[q].stage}
          /\ client[q].at \in Held =>
                /\ buffer[q] # None => buffer[q] = Here(q)
                /\ channels[handle[Here(q)]] = q \/ buffer[q] # None
      BY DEF AsksInv, OwnInv
    <3>3. CASE q = p
      BY <1>1, <1>5, <1>6, <1>7, <3>2, <3>3
    <3>4. CASE q # p
      <4>1. client'[q] = client[q] /\ Here(q) # Here(p)
        BY <1>6, <3>1, <3>4 DEF Moves, Here
      <4>2. ASSUME client[q].at \in Held
            PROVE  channels'[handle'[Here(q)]] = channels[handle[Here(q)]]
        <5>1. Here(q) \in Asking /\ handle[Here(q)] \in Handle
              /\ client[q].stage \in DOMAIN Stages[q]
          BY <3>1, <4>2, HeldFacts
        <5>2. OwnStage(q, client[q].stage)
          BY <5>1 DEF Own
        <5>3. handle[Here(q)] \in HandlesOf[q][client[q].stage]
          BY <5>1, AsksAssumption DEF AsksInv, HandleInv, Here
        <5>4. HandlesOf[q][client[q].stage] \cap HandlesOf[p][client[p].stage] = {}
          BY <1>4, <4>1, <5>2 DEF OwnStage, Here
        <5>5. handle[Here(q)] # h
          BY <1>2, <5>3, <5>4
        <5>6. QED
          BY <1>5, <4>1, <5>1, <5>5
      <4>3. QED
        BY <1>1, <3>2, <4>1, <4>2
    <3>5. QED
      BY <3>3, <3>4
  <2>2. \A q \in Own : Here(q)' = Here(q)
    BY <1>6 DEF Own
  <2>3. QED
    BY <2>1, <2>2 DEF OwnInv, Here
<1>13. EntryInv'
  <2>1. ASSUME NEW g \in Handle, entry[g] # None
        PROVE  /\ handle'[entry[g]] = g
               /\ entry[g][2] = client'[entry[g][1]].stage =>
                     client'[entry[g][1]].at \notin Unlisted
    <3>1. /\ entry[g] \in Asking /\ handle[entry[g]] = g /\ g # None
          /\ entry[g][2] = client[entry[g][1]].stage =>
                client[entry[g][1]].at \notin Unlisted
      BY <2>1, AsksAssumption DEF AsksInv, TypeOK, EntryInv
    <3>2. entry[g] # Here(p)
      BY <1>7, <3>1
    <3>3. entry[g] = <<entry[g][1], entry[g][2]>> /\ entry[g][1] \in Client
      BY <3>1, AskingParts
    <3>4. handle'[entry[g]] = g
      BY <1>5, <3>1, <3>2
    <3>5. CASE entry[g][1] = p
      BY <1>6, <3>2, <3>3, <3>4, <3>5 DEF Here
    <3>6. CASE entry[g][1] # p
      BY <1>6, <3>1, <3>3, <3>4, <3>6 DEF Moves
    <3>7. QED
      BY <3>5, <3>6
  <2>2. QED
    BY <1>1, <2>1 DEF EntryInv
<1>14. QED
  BY <1>8, <1>9, <1>10, <1>11, <1>12, <1>13 DEF AsksInv

-----------------------------------------------------------------------------
(* The answers, and the theorems.                                          *)

\* An answer leaves the table, or finds no entry: Answer and AnswerUnmapped.
LEMMA AnswerStep ==
    ASSUME AsksInv, NEW a \in Asking, Answer(a) \/ AnswerUnmapped(a)
    PROVE  AsksInv'
<1>1. /\ UNCHANGED <<client, handle, channels, buffer, used>>
      /\ owed[a] > 0 /\ owed' = [owed EXCEPT ![a] = @ - 1]
  BY DEF Answer, AnswerUnmapped, CanAnswer
<1>2. handle[a] \in Handle
  BY <1>1 DEF AsksInv, TypeOK, HandleInv
<1>3. /\ owed' \in [Asking -> Nat]
      /\ \A b \in Asking : owed'[b] <= owed[b]
  BY <1>1 DEF AsksInv, TypeOK
<1>4. \A b \in Asking : owed'[b] <= MaxAnswers[b[1]] /\ (owed'[b] > 0 => owed[b] > 0)
  <2>1. \A b \in Asking : MaxAnswers[b[1]] \in Nat
    BY AskingParts, AsksAssumption
  <2>2. QED
    BY <1>3, <2>1 DEF AsksInv, TypeOK
<1>5. /\ entry' \in [Handle -> Asking \cup {None}]
      /\ transit' \in SUBSET [handle : Handle, for : Asking]
      /\ \A m \in transit' : handle[m.for] = m.handle
  <2>1. CASE Answer(a)
    <3>1. /\ entry' = [entry EXCEPT ![handle[a]] = None]
          /\ transit' = transit \cup {[handle |-> handle[a], for |-> a]}
      BY <2>1 DEF Answer
    <3>2. QED
      BY <1>2, <3>1 DEF AsksInv, TypeOK, HandleInv
  <2>2. CASE AnswerUnmapped(a)
    BY <2>2 DEF AnswerUnmapped, AsksInv, TypeOK, HandleInv
  <2>3. QED
    BY <2>1, <2>2
<1>6. TypeOK'
  BY <1>1, <1>3, <1>4, <1>5 DEF AsksInv, TypeOK, Active
<1>7. HandleInv'
  BY <1>1, <1>4, <1>5 DEF AsksInv, HandleInv
<1>8. PlaceInv' /\ ChannelInv' /\ OwnInv'
  BY <1>1 DEF AsksInv, PlaceInv, ChannelInv, OwnInv, At, Here
<1>9. EntryInv'
  <2>1. \A g \in Handle : entry'[g] \in {entry[g], None}
    BY DEF Answer, AnswerUnmapped, AsksInv, TypeOK
  <2>2. QED
    BY <1>1, <2>1 DEF AsksInv, EntryInv
<1>10. QED
  BY <1>6, <1>7, <1>8, <1>9 DEF AsksInv

\* Nobody waits for the answer.
LEMMA DropStep ==
    ASSUME AsksInv, NEW m \in transit, Drop(m)
    PROVE  AsksInv'
<1>1. /\ UNCHANGED <<client, handle, channels, buffer, entry, owed, used>>
      /\ transit' \subseteq transit
  BY DEF Drop
<1>2. TypeOK'
  BY <1>1 DEF AsksInv, TypeOK, Active
<1>3. HandleInv'
  BY <1>1 DEF AsksInv, HandleInv
<1>4. PlaceInv' /\ ChannelInv' /\ EntryInv' /\ OwnInv'
  BY <1>1 DEF AsksInv, PlaceInv, ChannelInv, EntryInv, OwnInv, At, Here
<1>5. QED
  BY <1>2, <1>3, <1>4 DEF AsksInv

\* Receive: the client of the handle's channel gets the answer.
LEMMA ReceiveStep ==
    ASSUME AsksInv, NEW m \in transit, Receive(m)
    PROVE  AsksInv'
<1> DEFINE p == channels[m.handle]
<1>1. m.handle \in Handle /\ m.for \in Asking /\ handle[m.for] = m.handle
  BY DEF AsksInv, TypeOK, HandleInv
<1>2. /\ UNCHANGED <<client, handle, entry, owed, used>>
      /\ p # None /\ transit' \subseteq transit
      /\ channels' = [channels EXCEPT ![m.handle] = None]
      /\ buffer' = [buffer EXCEPT ![p] = m.for]
  BY DEF Receive
<1>3. p \in Client
  BY <1>1, <1>2 DEF AsksInv, TypeOK
<1>4. /\ \/ client[p].at \in Held /\ handle[Here(p)] = m.handle
         \/ client[p].at = "unsent"
      /\ \A g \in Handle : channels[g] = p => g = m.handle
  BY <1>1, <1>2 DEF AsksInv, ChannelInv, At
<1> HIDE DEF p
<1>5. /\ channels' \in [Handle -> Client \cup {None}]
      /\ channels'[m.handle] = None
      /\ \A g \in Handle \ {m.handle} : channels'[g] = channels[g]
      /\ buffer' \in [Client -> Asking \cup {None}]
      /\ buffer'[p] = m.for
      /\ \A q \in Client \ {p} : buffer'[q] = buffer[q]
  BY <1>1, <1>2, <1>3 DEF AsksInv, TypeOK
<1>6. TypeOK'
  BY <1>2, <1>5 DEF AsksInv, TypeOK, Active
<1>7. HandleInv'
  BY <1>2 DEF AsksInv, HandleInv
<1>8. PlaceInv'
  BY <1>2, <1>4, <1>5 DEF AsksInv, PlaceInv, At, Here, Held
<1>9. ChannelInv'
  <2>1. ASSUME NEW g \in Handle, channels'[g] # None
        PROVE  /\ channels'[g] = channels[g] /\ channels[g] \in Client
               /\ buffer'[channels[g]] = buffer[channels[g]]
               /\ \A f \in Handle : channels'[f] = channels[g] => channels[f] = channels[g]
    <3>1. g # m.handle /\ channels'[g] = channels[g] /\ channels[g] \in Client
      BY <1>5, <2>1 DEF AsksInv, TypeOK
    <3>2. channels[g] # p
      BY <1>4, <3>1
    <3>3. QED
      BY <1>5, <2>1, <3>1, <3>2
  <2>2. QED
    BY <1>2, <2>1 DEF AsksInv, ChannelInv, At, Here
<1>10. OwnInv'
  <2>1. ASSUME NEW q \in Own, client[q].at \in Held
        PROVE  /\ buffer'[q] # None => buffer'[q] = Here(q)
               /\ channels'[handle[Here(q)]] = q \/ buffer'[q] # None
    <3>1. /\ q \in Client /\ Here(q) \in Asking /\ handle[Here(q)] \in Handle
          /\ Here(q)[1] = q /\ handle[Here(q)] # None
          /\ buffer[q] # None => buffer[q] = Here(q)
          /\ channels[handle[Here(q)]] = q \/ buffer[q] # None
      <4>1. q \in Client
        BY DEF Own
      <4>2. Here(q) \in Asking /\ handle[Here(q)] \in Handle /\ Here(q)[1] = q
        BY <2>1, <4>1, HeldFacts DEF Here
      <4>3. handle[Here(q)] # None
        BY <4>2, AsksAssumption
      <4>4. QED
        BY <2>1, <4>1, <4>2, <4>3 DEF AsksInv, OwnInv
    <3>2. CASE q = p
      <4>1. handle[Here(q)] = handle[m.for]
        BY <1>1, <1>4, <2>1, <3>2 DEF Held
      <4>2. m.for = Here(q)
        BY <1>1, <3>1, <4>1, HandleTellsStage DEF AsksInv
      <4>3. m.for # None
        BY <1>1, AskingParts
      <4>4. QED
        BY <1>5, <3>2, <4>2, <4>3
    <3>3. CASE q # p
      <4>1. buffer'[q] = buffer[q]
        BY <1>5, <3>1, <3>3
      <4>2. channels[handle[Here(q)]] = q => handle[Here(q)] # m.handle
        BY <3>3 DEF p
      <4>3. QED
        BY <1>5, <3>1, <4>1, <4>2
    <3>4. QED
      BY <3>2, <3>3
  <2>2. QED
    BY <1>2, <2>1 DEF AsksInv, OwnInv, Here
<1>11. EntryInv'
  BY <1>2 DEF AsksInv, EntryInv
<1>12. QED
  BY <1>6, <1>7, <1>8, <1>9, <1>10, <1>11 DEF AsksInv

\* Nobody has asked yet.
LEMMA AsksInvInit == Init => AsksInv
<1> SUFFICES ASSUME Init PROVE AsksInv
  OBVIOUS
<1>1. TypeOK
  <2>1. \A a \in Asking : 0 <= MaxAnswers[a[1]]
    BY AskingParts, AsksAssumption
  <2>2. \A p \in Client : ~ Active(p)
    BY DEF Init, Active
  <2>3. QED
    BY <2>1, <2>2 DEF Init, TypeOK, Place
<1>2. PlaceInv
  BY DEF Init, PlaceInv, At, Held
<1>3. HandleInv /\ ChannelInv /\ EntryInv
  BY DEF Init, HandleInv, ChannelInv, EntryInv
<1>4. OwnInv
  BY DEF Init, OwnInv, Own, Held
<1>5. QED
  BY <1>1, <1>2, <1>3, <1>4 DEF AsksInv

\* Every step keeps the invariant.
LEMMA AsksInvInductive ==
    ASSUME AsksInv, [Next]_vars
    PROVE  AsksInv'
<1>1. CASE \E p \in Client : Start(p) \/ Steps(p)
  BY <1>1, FreeStep, HeldStep, AwaitStep, GivesUpStep, TakesStep DEF Steps
<1>2. CASE \E a \in Asking : Answer(a) \/ AnswerUnmapped(a)
  BY <1>2, AnswerStep
<1>3. CASE \E m \in transit : Receive(m) \/ Drop(m)
  BY <1>3, ReceiveStep, DropStep
<1>4. CASE UNCHANGED vars
  BY <1>4 DEF AsksInv, TypeOK, PlaceInv, HandleInv, ChannelInv, EntryInv, OwnInv, vars,
              At, Here, Active
<1>5. QED
  BY <1>1, <1>2, <1>3, <1>4 DEF Next

(* The invariant of clients, their channels and their answers.             *)
THEOREM AsksInvariant == Spec => []AsksInv
<1>1. AsksInv /\ [Next]_vars => AsksInv'
  BY AsksInvInductive
<1>2. QED
  BY <1>1, AsksInvInit, PTL DEF Spec

(* Pending.Receive never sends on a full channel while it holds the lock:  *)
(* a channel in the table is empty, and stands for one handle.             *)
THEOREM NeverBlocksCorrect == Spec => []NeverBlocks
<1>1. AsksInv => NeverBlocks
  BY DEF AsksInv, ChannelInv, NeverBlocks
<1>2. QED
  BY <1>1, AsksInvariant, PTL

(* A client whose handles are its own takes the answers of its stages one  *)
(* by one, and while it waits its channel is in the table or has been      *)
(* filled.                                                                 *)
THEOREM StageByStageCorrect == Spec => []StageByStage
<1>1. AsksInv => StageByStage
  <2>1. SUFFICES ASSUME AsksInv, NEW p \in Own
                 PROVE  /\ used[p] \subseteq {<<p, i>> : i \in 1 .. client[p].stage}
                        /\ At(p, "waiting") /\ buffer[p] # None => buffer[p] = Here(p)
                        /\ client[p].at \in {"sent", "waiting"} =>
                              channels[handle[Here(p)]] = p \/ buffer[p] # None
    BY DEF StageByStage
  <2>2. QED
    BY <2>1 DEF AsksInv, OwnInv, At, Held
<1>2. QED
  BY <1>1, AsksInvariant, PTL

(* A Pending keeps no channel of a client that has ended, but for those of *)
(* pipes whose request failed (await.Pending.Delete is theirs to call);    *)
(* and a request that failed leaves no entry of its own in the table.      *)
THEOREM NobodyLeftBehindCorrect == Spec => []NobodyLeftBehind
<1>1. AsksInv => NobodyLeftBehind
  <2>1. ASSUME AsksInv, NEW h \in Handle, channels[h] # None
        PROVE  \/ Active(channels[h]) /\ handle[Here(channels[h])] = h
               \/ channels[h] \notin Careful /\ At(channels[h], "unsent")
    BY <2>1 DEF AsksInv, ChannelInv, At, Active, Held
  <2>2. ASSUME AsksInv, NEW p \in Client, At(p, "unsent")
        PROVE  \A h \in Handle : entry[h] # Here(p)
    BY <2>2, NoEntry DEF AsksInv, At, Unlisted
  <2>3. QED
    BY <2>1, <2>2 DEF NobodyLeftBehind
<1>2. QED
  BY <1>1, AsksInvariant, PTL
=============================================================================
