--------------------------- MODULE RequestProofs ----------------------------
(***************************************************************************)
(* Proofs about a request on its way through the hub: its entry in the     *)
(* response table (Responses.tla), for every set of nodes, handles and     *)
(* requests, the launch of the lazy node that it is for (Launch.tla), for  *)
(* every set of senders, processes and removers, and the messages, stages  *)
(* and words that its text is cut into (Text.tla), for every text.         *)
(***************************************************************************)
EXTENDS Responses, Launch, Text, TLAPS, SequenceTheorems, WellFoundedInduction

-----------------------------------------------------------------------------
(* The response table.                                                     *)

(* Every handler of the table keeps its state well-typed (responses.go).   *)
THEOREM TypeCorrect == Spec => []TypeOK
<1>1. Init => TypeOK
  <2> SUFFICES ASSUME Init PROVE TypeOK
    OBVIOUS
  <2>1. /\ nodes \in SUBSET Node /\ held \in BOOLEAN
        /\ responses \in [Handle -> Request \cup {NoRequest}]
    BY DEF Init
  <2>2. /\ phase \in [Request -> {"new", "refused", "routing", "routed", "failed"}]
        /\ handle \in [Request -> Handle] /\ actor \in [Request -> Node]
        /\ answered \in [Request -> 0 .. MaxAnswers]
    BY ResponsesAssumption DEF Init
  <2>3. accepted \in Seq(Request) /\ lapsed \in 0 .. Len(accepted)
    BY DEF Init
  <2>4. replies \in Seq(Reply)
    BY DEF Init
  <2>5. QED
    BY <2>1, <2>2, <2>3, <2>4 DEF TypeOK
<1>2. TypeOK /\ [Next]_vars => TypeOK'
  <2> SUFFICES ASSUME TypeOK, [Next]_vars PROVE TypeOK'
    OBVIOUS
  <2> USE ResponsesAssumption DEF TypeOK
  <2>1. ASSUME NEW n \in Node, Register(n) \/ Unregister(n) PROVE TypeOK'
    BY <2>1 DEF Register, Unregister
  <2>2. ASSUME NEW r \in Request, Refuse(r) PROVE TypeOK'
    BY <2>2 DEF Refuse
  <2>3. ASSUME NEW r \in Request, Accept(r) PROVE TypeOK'
    <3>1. accepted' \in Seq(Request) /\ Len(accepted') = Len(accepted) + 1
      BY <2>3 DEF Accept
    <3>2. QED
      BY <2>3, <3>1 DEF Accept
  <2>4. ASSUME NEW r \in Request, Route(r) \/ Cancel(r) PROVE TypeOK'
    BY <2>4 DEF Route, Cancel
  <2>5. ASSUME NEW r \in Request, RespondReserved(r) \/ RespondUnmapped(r)
        PROVE  TypeOK'
    <3>1. Answers(r)
      BY <2>5 DEF RespondReserved, RespondUnmapped
    <3>2. answered' \in [Request -> 0 .. MaxAnswers]
      BY <3>1 DEF Answers
    <3>3. QED
      BY <2>5, <3>2 DEF RespondReserved, RespondUnmapped
  <2>6. ASSUME NEW r \in Request, Respond(r) PROVE TypeOK'
    <3>1. answered' \in [Request -> 0 .. MaxAnswers]
      BY <2>6 DEF Respond, Answers
    <3>2. replies' \in Seq(Reply)
      BY <2>6 DEF Respond, Reply
    <3>3. QED
      BY <2>6, <3>1, <3>2 DEF Respond
  <2>7. ASSUME Lapse PROVE TypeOK'
    BY <2>7 DEF Lapse
  <2>8. ASSUME UNCHANGED vars PROVE TypeOK'
    BY <2>8 DEF vars
  <2>9. QED
    BY <2>1, <2>2, <2>3, <2>4, <2>5, <2>6, <2>7, <2>8 DEF Next
<1>3. QED
  BY <1>1, <1>2, PTL DEF Spec

-----------------------------------------------------------------------------
(* The answers handed out are exactly extended by Respond.                 *)

\* What is at each place after one entry was added.
LEMMA AppendedAt ==
    ASSUME NEW E, NEW s \in Seq(E), NEW x \in E
    PROVE  /\ DOMAIN Append(s, x) = DOMAIN s \cup {Len(s) + 1}
           /\ Append(s, x)[Len(s) + 1] = x
           /\ \A i \in DOMAIN s : Append(s, x)[i] = s[i]
<1>1. DOMAIN s = 1 .. Len(s) /\ Len(s) \in Nat
  BY LenProperties
<1>2. /\ Append(s, x) \in Seq(E) /\ Len(Append(s, x)) = Len(s) + 1
      /\ \A i \in 1 .. Len(s) : Append(s, x)[i] = s[i]
      /\ Append(s, x)[Len(s) + 1] = x
  BY AppendProperties
<1>3. DOMAIN Append(s, x) = 1 .. Len(s) + 1
  BY <1>2, LenProperties
<1>4. QED
  BY <1>1, <1>2, <1>3

\* responses.Respond: the reply it adds to those before it.
LEMMA ReplyAdded ==
    ASSUME TypeOK, NEW r \in Request, Respond(r)
    PROVE  LET credit == responses[handle[r]]
               new == [credit |-> credit, for |-> r,
                       delivered |-> actor[credit] \in nodes]
           IN  /\ DOMAIN replies' = DOMAIN replies \cup {Len(replies) + 1}
               /\ replies'[Len(replies) + 1] = new
               /\ \A i \in DOMAIN replies : replies'[i] = replies[i]
<1> DEFINE credit == responses[handle[r]]
           new == [credit |-> credit, for |-> r,
                   delivered |-> actor[credit] \in nodes]
<1>1. handle[r] \in Handle /\ replies \in Seq(Reply)
  BY DEF TypeOK
<1>2. credit \in Request /\ replies' = Append(replies, new)
  BY <1>1 DEF Respond, TypeOK
<1>3. new \in Reply
  BY <1>2 DEF Reply
<1> HIDE DEF new, credit
<1>4. QED
  BY <1>1, <1>2, <1>3, AppendedAt DEF new, credit

(* An entry belongs to a request in flight, with the entry's handle, that  *)
(* no answer has been credited to; and only a request that was accepted is *)
(* ever credited.                                                          *)
EntryInv ==
    /\ \A h \in Handle :
          responses[h] # NoRequest =>
             /\ handle[responses[h]] = h
             /\ InFlight(responses[h])
             /\ ~ Credited(responses[h])
    /\ \A r \in Request : Credited(r) => phase[r] \notin {"new", "refused"}

OnceInv == EntryInv /\ AnsweredOnce

\* An entry is there until the answer that its request is credited with.
LEMMA OnceInductive ==
    ASSUME TypeOK, OnceInv, [Next]_vars
    PROVE  OnceInv'
<1> USE ResponsesAssumption DEF TypeOK, OnceInv
<1>1. ASSUME NEW n \in Node, Register(n) \/ Unregister(n) PROVE OnceInv'
  BY <1>1 DEF Register, Unregister, EntryInv, AnsweredOnce, InFlight, Credited
<1>2. ASSUME NEW r \in Request, Refuse(r) PROVE OnceInv'
  BY <1>2 DEF Refuse, EntryInv, AnsweredOnce, InFlight, Credited
<1>3. ASSUME NEW r \in Request, Accept(r) PROVE OnceInv'
  <2>1. ~ Credited(r)
    BY <1>3 DEF Accept, EntryInv
  <2>2. QED
    BY <1>3, <2>1 DEF Accept, EntryInv, AnsweredOnce, InFlight, Credited
<1>4. ASSUME NEW r \in Request, Route(r) PROVE OnceInv'
  BY <1>4 DEF Route, EntryInv, AnsweredOnce, InFlight, Credited
<1>5. ASSUME NEW r \in Request, Cancel(r) PROVE OnceInv'
  BY <1>5 DEF Cancel, EntryInv, AnsweredOnce, InFlight, Credited
<1>6. ASSUME NEW r \in Request, RespondReserved(r) \/ RespondUnmapped(r)
      PROVE  OnceInv'
  BY <1>6 DEF RespondReserved, RespondUnmapped, EntryInv, AnsweredOnce,
              InFlight, Credited
<1>7. ASSUME NEW r \in Request, Respond(r) PROVE OnceInv'
  <2> DEFINE credit == responses[handle[r]]
             new == [credit |-> credit, for |-> r,
                     delivered |-> actor[credit] \in nodes]
  <2>1. credit \in Request /\ ~ Credited(credit) /\ handle[credit] = handle[r]
        /\ InFlight(credit)
    BY <1>7 DEF Respond, EntryInv
  <2>2. /\ DOMAIN replies' = DOMAIN replies \cup {Len(replies) + 1}
        /\ replies'[Len(replies) + 1] = new
        /\ \A i \in DOMAIN replies : replies'[i] = replies[i]
    BY <1>7, ReplyAdded
  <2>3. \A q : Credited(q)' <=> Credited(q) \/ q = credit
    BY <2>2 DEF Credited
  <2>4. AnsweredOnce'
    BY <2>1, <2>2 DEF AnsweredOnce, Credited
  <2>5. \A h \in Handle : responses'[h] # NoRequest =>
           responses'[h] = responses[h] /\ h # handle[r]
    BY <1>7 DEF Respond
  <2>6. EntryInv'
    <3>1. \A q : InFlight(q)' <=> InFlight(q)
      BY <1>7 DEF Respond, InFlight
    <3>2. ASSUME NEW h \in Handle, responses'[h] # NoRequest
          PROVE  /\ handle'[responses'[h]] = h
                 /\ InFlight(responses[h])'
                 /\ ~ Credited(responses[h])'
                 /\ responses'[h] = responses[h]
      BY <1>7, <2>1, <2>3, <2>5, <3>1, <3>2 DEF Respond, EntryInv
    <3>3. ASSUME NEW q \in Request, Credited(q)'
          PROVE  phase'[q] \notin {"new", "refused"}
      BY <1>7, <2>1, <2>3, <3>3 DEF Respond, EntryInv, InFlight
    <3>4. QED
      BY <3>2, <3>3 DEF EntryInv, InFlight, Credited
  <2>7. QED
    BY <2>4, <2>6
<1>8. ASSUME Lapse PROVE OnceInv'
  BY <1>8 DEF Lapse, EntryInv, AnsweredOnce, InFlight, Credited
<1>9. ASSUME UNCHANGED vars PROVE OnceInv'
  BY <1>9 DEF vars, EntryInv, AnsweredOnce, InFlight, Credited
<1>10. QED
  BY <1>1, <1>2, <1>3, <1>4, <1>5, <1>6, <1>7, <1>8, <1>9 DEF Next

\* It is so in every state.
THEOREM OnceInvariant == Spec => []OnceInv
<1>1. Init => OnceInv
  BY ResponsesAssumption
     DEF Init, OnceInv, EntryInv, AnsweredOnce, Credited, InFlight
<1>2. QED
  BY <1>1, OnceInductive, TypeCorrect, PTL DEF Spec

(* No request is answered twice, whatever handles the nodes choose and     *)
(* however many answers they send (responses.response deletes first).      *)
THEOREM AnsweredOnceCorrect == Spec => []AnsweredOnce
BY OnceInvariant, PTL DEF OnceInv

-----------------------------------------------------------------------------
(* Requests with handles of their own (Own).                               *)

FreshInv ==
    /\ \A r \in Request : handle[r] \in HandlesOf[r]
    /\ \A i \in DOMAIN replies :
          handle[replies[i].credit] = handle[replies[i].for]
    /\ \A i \in DOMAIN replies : phase[replies[i].for] = "routed"
    /\ LateReplyFindsEntry

\* A handle of one's own tells the request.
LEMMA HandleTellsRequest ==
    ASSUME TypeOK, FreshInv,
           NEW r \in Own, NEW s \in Request, handle[r] = handle[s]
    PROVE  r = s
<1> r \in Request
  BY DEF Own
<1>1. handle[r] \in HandlesOf[r] \cap HandlesOf[s]
  BY DEF FreshInv
<1>2. QED
  BY <1>1 DEF Own

\* So an answer with such a handle is credited to the request it was sent for.
LEMMA CreditTellsRequest == TypeOK /\ FreshInv => ReplyMatches
<1> SUFFICES ASSUME TypeOK, FreshInv, NEW i \in DOMAIN replies,
                    {replies[i].credit, replies[i].for} \cap Own # {}
             PROVE  replies[i].credit = replies[i].for
  BY DEF ReplyMatches
<1>1. replies[i] \in Reply
  BY DEF TypeOK
<1>2. /\ replies[i].credit \in Request /\ replies[i].for \in Request
      /\ handle[replies[i].credit] = handle[replies[i].for]
  BY <1>1 DEF Reply, FreshInv
<1>3. QED
  BY <1>2, HandleTellsRequest

\* In the terms of Credited: an answered request is still marked routed.
LEMMA CreditedIsRouted ==
    ASSUME TypeOK, FreshInv, NEW r \in Own, Credited(r)
    PROVE  phase[r] = "routed"
<1>1. PICK i \in DOMAIN replies : replies[i].credit = r
  BY DEF Credited
<1>2. replies[i].for = r
  BY <1>1, CreditTellsRequest DEF ReplyMatches
<1>3. QED
  BY <1>2 DEF FreshInv

\* Handles and answers of such requests belong together after every step.
LEMMA FreshInductive ==
    ASSUME TypeOK, OnceInv, FreshInv, [Next]_vars
    PROVE  FreshInv'
<1> USE ResponsesAssumption DEF TypeOK
<1> DEFINE Routed == \A i \in DOMAIN replies : phase[replies[i].for] = "routed"
           SameHandle == \A i \in DOMAIN replies :
               handle[replies[i].credit] = handle[replies[i].for]
<1> Own \subseteq Request
  BY DEF Own
<1>0. \A i \in DOMAIN replies : replies[i].for \in Request
  <2>1. \A i \in DOMAIN replies : replies[i] \in Reply
    BY DEF TypeOK
  <2>2. QED
    BY <2>1 DEF Reply
<1>1. ASSUME NEW n \in Node, Register(n) \/ Unregister(n) PROVE FreshInv'
  BY <1>1 DEF Register, Unregister, FreshInv, LateReplyFindsEntry, InFlight,
              Credited
<1>2. ASSUME NEW r \in Request, Refuse(r) PROVE FreshInv'
  <2>1. Routed'
    BY <1>0, <1>2 DEF Refuse, FreshInv
  <2>2. LateReplyFindsEntry'
    BY <1>2 DEF Refuse, FreshInv, LateReplyFindsEntry, InFlight, Credited
  <2>3. QED
    BY <1>2, <2>1, <2>2 DEF Refuse, FreshInv
<1>3. ASSUME NEW r \in Request, Accept(r) PROVE FreshInv'
  <2>1. Routed'
    BY <1>0, <1>3 DEF Accept, FreshInv
  <2>2. LateReplyFindsEntry'
    <3> SUFFICES ASSUME NEW q \in Own, InFlight(q)', ~ Credited(q)'
                 PROVE  responses'[handle'[q]] = q
      BY DEF LateReplyFindsEntry
    <3>1. CASE q = r
      BY <1>3, <3>1 DEF Accept
    <3>2. CASE q # r
      <4>1. handle[q] # handle[r]
        BY <3>2, HandleTellsRequest
      <4>2. InFlight(q) /\ ~ Credited(q)
        BY <1>3, <3>2 DEF Accept, InFlight, Credited
      <4>3. QED
        BY <1>3, <4>1, <4>2 DEF Accept, FreshInv, LateReplyFindsEntry
    <3>3. QED
      BY <3>1, <3>2
  <2>3. QED
    BY <1>3, <2>1, <2>2 DEF Accept, FreshInv
<1>4. ASSUME NEW r \in Request, Route(r) PROVE FreshInv'
  <2>1. Routed'
    BY <1>0, <1>4 DEF Route, FreshInv
  <2>2. LateReplyFindsEntry'
    BY <1>4 DEF Route, FreshInv, LateReplyFindsEntry, InFlight, Credited
  <2>3. QED
    BY <1>4, <2>1, <2>2 DEF Route, FreshInv
<1>5. ASSUME NEW r \in Request, Cancel(r) PROVE FreshInv'
  <2>1. Routed'
    BY <1>0, <1>5 DEF Cancel, FreshInv
  <2>2. LateReplyFindsEntry'
    <3> SUFFICES ASSUME NEW q \in Own, InFlight(q)', ~ Credited(q)'
                 PROVE  responses'[handle'[q]] = q
      BY DEF LateReplyFindsEntry
    <3>1. q # r /\ InFlight(q) /\ ~ Credited(q)
      BY <1>5 DEF Cancel, InFlight, Credited
    <3>2. handle[q] # handle[r]
      BY <3>1, HandleTellsRequest
    <3>3. QED
      BY <1>5, <3>1, <3>2 DEF Cancel, FreshInv, LateReplyFindsEntry
  <2>3. QED
    BY <1>5, <2>1, <2>2 DEF Cancel, FreshInv
<1>6. ASSUME NEW r \in Request, RespondReserved(r) \/ RespondUnmapped(r)
      PROVE  FreshInv'
  BY <1>6 DEF RespondReserved, RespondUnmapped, FreshInv, LateReplyFindsEntry,
              InFlight, Credited
<1>7. ASSUME NEW r \in Request, Respond(r) PROVE FreshInv'
  <2> DEFINE c == responses[handle[r]]
             new == [credit |-> c, for |-> r, delivered |-> actor[c] \in nodes]
  <2>1. c \in Request /\ handle[c] = handle[r] /\ phase[r] = "routed"
    BY <1>7 DEF Respond, Answers, OnceInv, EntryInv
  <2>2. /\ DOMAIN replies' = DOMAIN replies \cup {Len(replies) + 1}
        /\ replies'[Len(replies) + 1] = new
        /\ \A i \in DOMAIN replies : replies'[i] = replies[i]
    BY <1>7, ReplyAdded
  <2>3. \A q : Credited(q)' <=> Credited(q) \/ q = c
    BY <2>2 DEF Credited
  <2>4. SameHandle'
    BY <1>7, <2>1, <2>2 DEF Respond, FreshInv
  <2>5. Routed'
    BY <1>7, <2>1, <2>2 DEF Respond, FreshInv
  <2>6. LateReplyFindsEntry'
    <3> SUFFICES ASSUME NEW q \in Own, InFlight(q)', ~ Credited(q)'
                 PROVE  responses'[handle'[q]] = q
      BY DEF LateReplyFindsEntry
    <3>1. q # c /\ InFlight(q) /\ ~ Credited(q)
      BY <1>7, <2>3 DEF Respond, InFlight
    <3>2. handle[q] # handle[r]
      BY <2>1, <3>1, HandleTellsRequest
    <3>3. QED
      BY <1>7, <3>1, <3>2 DEF Respond, FreshInv, LateReplyFindsEntry
  <2>7. QED
    BY <1>7, <2>4, <2>5, <2>6 DEF Respond, FreshInv
<1>8. ASSUME Lapse PROVE FreshInv'
  BY <1>8 DEF Lapse, FreshInv, LateReplyFindsEntry, InFlight, Credited
<1>9. ASSUME UNCHANGED vars PROVE FreshInv'
  BY <1>9 DEF vars, FreshInv, LateReplyFindsEntry, InFlight, Credited
<1>10. QED
  BY <1>1, <1>2, <1>3, <1>4, <1>5, <1>6, <1>7, <1>8, <1>9 DEF Next

\* They do in every state.
THEOREM FreshInvariant == Spec => []FreshInv
<1>1. Init => FreshInv
  BY ResponsesAssumption
     DEF Init, FreshInv, LateReplyFindsEntry, InFlight, Own
<1>2. TypeOK /\ OnceInv /\ FreshInv /\ [Next]_vars => FreshInv'
  BY FreshInductive
<1>3. QED
  BY <1>1, <1>2, TypeCorrect, OnceInvariant, PTL DEF Spec

(* A request with a handle of its own gets the answers sent for it, and no *)
(* others, in spite of what the nodes do with theirs.                      *)
THEOREM ReplyMatchesCorrect == Spec => []ReplyMatches
BY FreshInvariant, TypeCorrect, CreditTellsRequest, PTL

(* A request with a handle of its own keeps its entry until it is          *)
(* answered, however late the answer comes: response ignores expiresAt.    *)
THEOREM LateReplyFindsEntryCorrect == Spec => []LateReplyFindsEntry
BY FreshInvariant, PTL DEF FreshInv

(* The sender of a request with a handle of its own sees an answer or an   *)
(* error of Bus.Request, never both.                                       *)
THEOREM ReplyOrErrorCorrect == Spec => []ReplyOrError
<1>1. TypeOK /\ FreshInv => ReplyOrError
  BY CreditedIsRouted DEF ReplyOrError
<1>2. QED
  BY <1>1, TypeCorrect, FreshInvariant, PTL

-----------------------------------------------------------------------------
(* Requests with handles of their own are exchanges (Exchange.tla).        *)

\* A step that tells nothing new about them is a stutter.
LEMMA SameStatus ==
    ASSUME \A q \in Own : phase'[q] = phase[q],
           \A q \in Own : Credited(q)' <=> Credited(q)
    PROVE  Status' = Status
BY DEF Status, InFlight

\* Every step of the table is one of the exchange, or leaves it as it is.
LEMMA StepRefines ==
    ASSUME TypeOK, OnceInv, FreshInv, [Next]_vars
    PROVE  [Abstract!Next]_Status
<1> USE ResponsesAssumption DEF TypeOK
<1> Own \subseteq Request
  BY DEF Own
<1> DEFINE Stutters == Status' = Status
<1>1. ASSUME replies' = replies, phase' = phase PROVE Stutters
  BY <1>1, SameStatus DEF Credited
<1>2. ASSUME NEW r \in Request, Refuse(r)
      PROVE  Stutters \/ (r \in Own /\ Abstract!Refuse(r))
  <2>1. \A q : Credited(q)' <=> Credited(q)
    BY <1>2 DEF Refuse, Credited
  <2>2. CASE r \notin Own
    BY <1>2, <2>1, <2>2, SameStatus DEF Refuse
  <2>3. CASE r \in Own
    <3>1. ~ Credited(r)
      BY <1>2 DEF Refuse, OnceInv, EntryInv
    <3>2. Status[r] = "new"
      BY <1>2, <2>3, <3>1 DEF Refuse, Status, InFlight
    <3>3. Status' = [Status EXCEPT ![r] = "refused"]
      BY <1>2, <2>1, <2>3, <3>1 DEF Refuse, Status, InFlight
    <3>4. QED
      BY <2>3, <3>2, <3>3 DEF Abstract!Refuse, Abstract!Move
  <2>4. QED
    BY <2>2, <2>3
<1>3. ASSUME NEW r \in Request, Accept(r)
      PROVE  Stutters \/ (r \in Own /\ Abstract!Open(r))
  <2>1. \A q : Credited(q)' <=> Credited(q)
    BY <1>3 DEF Accept, Credited
  <2>2. CASE r \notin Own
    BY <1>3, <2>1, <2>2, SameStatus DEF Accept
  <2>3. CASE r \in Own
    <3>1. ~ Credited(r)
      BY <1>3 DEF Accept, OnceInv, EntryInv
    <3>2. Status[r] = "new"
      BY <1>3, <2>3, <3>1 DEF Accept, Status, InFlight
    <3>3. Status' = [Status EXCEPT ![r] = "open"]
      BY <1>3, <2>1, <2>3, <3>1 DEF Accept, Status, InFlight
    <3>4. QED
      BY <2>3, <3>2, <3>3 DEF Abstract!Open, Abstract!Move
  <2>4. QED
    BY <2>2, <2>3
<1>4. ASSUME NEW r \in Request, Route(r) PROVE Stutters
  <2>1. \A q : Credited(q)' <=> Credited(q)
    BY <1>4 DEF Route, Credited
  <2>2. \A q \in Own : InFlight(q)' <=> InFlight(q)
    BY <1>4 DEF Route, InFlight
  <2>3. \A q \in Own : ~ InFlight(q) => phase'[q] = phase[q]
    BY <1>4 DEF Route, InFlight
  <2>4. QED
    BY <2>1, <2>2, <2>3 DEF Status
<1>5. ASSUME NEW r \in Request, Cancel(r)
      PROVE  Stutters \/ (r \in Own /\ Abstract!Fail(r))
  <2>1. \A q : Credited(q)' <=> Credited(q)
    BY <1>5 DEF Cancel, Credited
  <2>2. CASE r \notin Own
    BY <1>5, <2>1, <2>2, SameStatus DEF Cancel
  <2>3. CASE r \in Own
    <3>1. ~ Credited(r)
      BY <1>5, <2>3, CreditedIsRouted DEF Cancel
    <3>2. Status[r] = "open"
      BY <1>5, <2>3, <3>1 DEF Cancel, Status, InFlight
    <3>3. Status' = [Status EXCEPT ![r] = "failed"]
      BY <1>5, <2>1, <2>3, <3>1 DEF Cancel, Status, InFlight
    <3>4. QED
      BY <2>3, <3>2, <3>3 DEF Abstract!Fail, Abstract!Move
  <2>4. QED
    BY <2>2, <2>3
<1>6. ASSUME NEW r \in Request, Respond(r)
      PROVE  Stutters \/ (r \in Own /\ Abstract!Answer(r))
  <2> DEFINE c == responses[handle[r]]
             new == [credit |-> c, for |-> r, delivered |-> actor[c] \in nodes]
  <2>1. /\ c \in Request /\ handle[c] = handle[r] /\ ~ Credited(c)
        /\ phase[r] = "routed"
    BY <1>6 DEF Respond, Answers, OnceInv, EntryInv
  <2>2. /\ DOMAIN replies' = DOMAIN replies \cup {Len(replies) + 1}
        /\ replies'[Len(replies) + 1] = new
        /\ \A i \in DOMAIN replies : replies'[i] = replies[i]
    BY <1>6, ReplyAdded
  <2>3. \A q : Credited(q)' <=> Credited(q) \/ q = c
    BY <2>2 DEF Credited
  <2>4. r \in Own \/ c \in Own => c = r
    BY <2>1, HandleTellsRequest
  <2>5. CASE r \notin Own
    BY <1>6, <2>3, <2>4, <2>5, SameStatus DEF Respond
  <2>6. CASE r \in Own
    <3>1. Status[r] = "open"
      BY <2>1, <2>4, <2>6 DEF Status, InFlight
    <3>2. Status' = [Status EXCEPT ![r] = "answered"]
      BY <1>6, <2>3, <2>4, <2>6 DEF Respond, Status, InFlight
    <3>3. QED
      BY <2>6, <3>1, <3>2 DEF Abstract!Answer, Abstract!Move
  <2>7. QED
    BY <2>5, <2>6
<1>7. ASSUME NEW n \in Node, Register(n) \/ Unregister(n) PROVE Stutters
  BY <1>1, <1>7 DEF Register, Unregister
<1>8. ASSUME NEW r \in Request, RespondReserved(r) \/ RespondUnmapped(r)
      PROVE  Stutters
  BY <1>1, <1>8 DEF RespondReserved, RespondUnmapped
<1>9. ASSUME Lapse \/ UNCHANGED vars PROVE Stutters
  BY <1>1, <1>9 DEF Lapse, vars
<1>10. QED
  BY <1>2, <1>3, <1>4, <1>5, <1>6, <1>7, <1>8, <1>9 DEF Next, Abstract!Next

(* The table implements the exchange that a sender with a handle of its    *)
(* own relies on.                                                          *)
THEOREM ResponsesRefinesExchange == Spec => ExchangeSpec
<1>1. Init => Abstract!Init
  BY ResponsesAssumption
     DEF Init, Abstract!Init, Status, Credited, InFlight, Own
<1>2. TypeOK /\ OnceInv /\ FreshInv /\ [Next]_vars => [Abstract!Next]_Status
  BY StepRefines
<1>3. QED
  BY <1>1, <1>2, TypeCorrect, OnceInvariant, FreshInvariant, PTL
     DEF Spec, ExchangeSpec, Abstract!Spec

-----------------------------------------------------------------------------
(* Requests with handles that others carry as well.                        *)

\* Why r has lost its handle.
Lost(r) ==
    \E s \in Request \ {r} :
        /\ handle[s] = handle[r]
        /\ phase[s] = "failed"
        /\ Expired(s) \/ Credited(s)

\* What has expired or was answered stays so, and a failure is final.
LEMMA PastIsKept ==
    ASSUME TypeOK, [Next]_vars
    PROVE  /\ handle' = handle
           /\ \A r : Expired(r) => Expired(r)'
           /\ \A r : Credited(r) => Credited(r)'
           /\ \A r \in Request : phase[r] = "failed" => phase'[r] = "failed"
           /\ \A r \in Request : Lost(r) => Lost(r)'
<1> USE ResponsesAssumption DEF TypeOK
<1>1. handle' = handle
  BY DEF Next, vars, Register, Unregister, Refuse, Accept, Route, Cancel,
         RespondReserved, RespondUnmapped, Respond, Lapse
<1>2. \A r : Expired(r) => Expired(r)'
  <2>1. ASSUME NEW q \in Request, Accept(q) PROVE \A r : Expired(r) => Expired(r)'
    <3>1. /\ lapsed' = lapsed /\ lapsed \in 0 .. Len(accepted)
          /\ accepted' = Append(accepted, q) /\ accepted \in Seq(Request)
      BY <2>1 DEF Accept
    <3>2. \A i \in 1 .. lapsed : accepted'[i] = accepted[i]
      BY <3>1, AppendProperties
    <3>3. QED
      BY <3>1, <3>2 DEF Expired
  <2>2. CASE Lapse
    <3>1. lapsed' = lapsed + 1 /\ lapsed \in Nat /\ accepted' = accepted
      BY <2>2 DEF Lapse
    <3>2. QED
      BY <3>1 DEF Expired
  <2>3. CASE UNCHANGED <<accepted, lapsed>>
    BY <2>3 DEF Expired
  <2>4. QED
    BY <2>1, <2>2, <2>3 DEF Next, vars, Register, Unregister, Refuse, Route, Cancel,
       RespondReserved, RespondUnmapped, Respond
<1>3. \A r : Credited(r) => Credited(r)'
  <2>1. ASSUME NEW q \in Request, Respond(q) PROVE \A r : Credited(r) => Credited(r)'
    <3>1. /\ DOMAIN replies \subseteq DOMAIN replies'
          /\ \A i \in DOMAIN replies : replies'[i] = replies[i]
      BY <2>1, ReplyAdded
    <3>2. QED
      BY <3>1 DEF Credited
  <2>2. CASE UNCHANGED replies
    BY <2>2 DEF Credited
  <2>3. QED
    BY <2>1, <2>2 DEF Next, vars, Register, Unregister, Refuse, Accept, Route, Cancel,
       RespondReserved, RespondUnmapped, Lapse
<1>4. \A r \in Request : phase[r] = "failed" => phase'[r] = "failed"
  BY DEF Next, vars, Register, Unregister, Refuse, Accept, Route, Cancel,
         RespondReserved, RespondUnmapped, Respond, Lapse
<1> HIDE DEF TypeOK
<1>5. QED
  BY <1>1, <1>2, <1>3, <1>4 DEF Lost

\* A step either leaves r in possession of its handle, or makes it one that lost it.
LEMMA OwnershipInductive ==
    ASSUME TypeOK, OnceInv, OwnsHandle, [Next]_vars
    PROVE  OwnsHandle'
<1> USE ResponsesAssumption
<1> SUFFICES ASSUME NEW r \in Request, InFlight(r)', ~ Expired(r)', ~ Credited(r)'
             PROVE  responses'[handle'[r]] = r \/ Lost(r)'
  BY DEF OwnsHandle, Lost
<1>1. /\ handle' = handle /\ ~ Expired(r) /\ ~ Credited(r)
      /\ handle[r] \in Handle
      /\ responses \in [Handle -> Request \cup {NoRequest}]
  BY PastIsKept DEF TypeOK
<1>2. \A q \in Request : InFlight(q) /\ ~ Expired(q) /\ ~ Credited(q) =>
         responses[handle[q]] = q \/ Lost(q)
  BY DEF OwnsHandle, Lost
<1>3. CASE \E q \in Request : Accept(q)
  <2>1. PICK q \in Request : Accept(q)
    BY <1>3
  <2>2. CASE q = r
    BY <1>1, <2>1, <2>2 DEF Accept
  <2>3. CASE q # r
    <3>1. InFlight(r)
      BY <2>1, <2>3 DEF Accept, InFlight, TypeOK
    <3>2. CASE Lost(r)
      BY <3>2, PastIsKept
    <3>3. CASE responses[handle[r]] = r
      <4>1. handle[q] # handle[r]
        BY <1>1, <2>1, <3>3 DEF Accept, InUse
      <4>2. QED
        BY <1>1, <2>1, <3>3, <4>1 DEF Accept
    <3>4. QED
      BY <1>1, <1>2, <3>1, <3>2, <3>3
  <2>4. QED
    BY <2>2, <2>3
<1>4. ASSUME InFlight(r), ~ Lost(r), responses'[handle[r]] # responses[handle[r]]
      PROVE  Lost(r)' \/ \E q \in Request : Accept(q)
  <2>1. responses[handle[r]] = r
    BY <1>1, <1>2, <1>4
  <2>2. ASSUME NEW q \in Request, Respond(q) PROVE FALSE
    <3>1. handle[q] = handle[r]
      BY <1>1, <1>4, <2>2 DEF Respond, TypeOK
    <3>2. replies' = Append(replies, [credit |-> r, for |-> q,
                                      delivered |-> actor[r] \in nodes])
      BY <2>1, <2>2, <3>1 DEF Respond
    <3>3. replies'[Len(replies) + 1].credit = r /\ Len(replies) + 1 \in DOMAIN replies'
      BY <3>2 DEF TypeOK, Reply
    <3>4. QED
      BY <3>3 DEF Credited
  <2>3. ASSUME NEW q \in Request, Cancel(q) PROVE Lost(r)'
    <3>1. handle[q] = handle[r] /\ InFlight(q) /\ phase'[q] = "failed"
      BY <1>1, <1>4, <2>3 DEF Cancel, TypeOK, InFlight
    <3>2. q # r
      BY <2>3, <3>1 DEF InFlight
    <3>3. CASE Expired(q) \/ Credited(q)
      BY <1>1, <3>1, <3>2, <3>3, PastIsKept DEF Lost
    <3>4. CASE ~ Expired(q) /\ ~ Credited(q)
      <4>1. Lost(q)
        BY <1>2, <2>1, <3>1, <3>2, <3>4
      <4>2. PICK t \in Request \ {q} :
               /\ handle[t] = handle[q] /\ phase[t] = "failed"
               /\ Expired(t) \/ Credited(t)
        BY <4>1 DEF Lost
      <4>3. t # r
        BY <1>4, <4>2 DEF InFlight
      <4>4. Lost(r)
        BY <3>1, <4>2, <4>3 DEF Lost
      <4>5. QED
        BY <1>4, <4>4
    <3>5. QED
      BY <3>3, <3>4
  <2>4. CASE UNCHANGED responses
    BY <1>4, <2>4
  <2>5. QED
    BY <2>2, <2>3, <2>4 DEF Next, vars, Register, Unregister, Refuse, Route,
       RespondReserved, RespondUnmapped, Lapse
<1>5. CASE ~ \E q \in Request : Accept(q)
  <2>1. InFlight(r)
    BY <1>5 DEF InFlight, TypeOK, Next, vars, Register, Unregister, Refuse, Route, Cancel,
       RespondReserved, RespondUnmapped, Respond, Lapse
  <2>2. CASE Lost(r)
    BY <2>2, PastIsKept
  <2>3. CASE ~ Lost(r)
    BY <1>1, <1>2, <1>4, <1>5, <2>1, <2>3
  <2>4. QED
    BY <2>2, <2>3
<1>6. QED
  BY <1>3, <1>5

(* A request within its ten seconds loses its handle to nothing but the    *)
(* late cancellation of a request with the same handle (Bus.Request,       *)
(* responses.cancel).                                                      *)
THEOREM OwnsHandleCorrect == Spec => []OwnsHandle
<1>1. Init => OwnsHandle
  BY DEF Init, OwnsHandle, InFlight
<1>2. QED
  BY <1>1, OwnershipInductive, TypeCorrect, OnceInvariant, PTL DEF Spec

-----------------------------------------------------------------------------
(* The launch of a lazy node.                                              *)

(* A goroutine has the read lock where the code holds it, and nowhere      *)
(* else; nobody waits for it but behind a writer; and a writer that has    *)
(* the lock has it alone.                                                  *)
LockInv ==
    /\ \A s \in Sender :
          /\ sender[s] = "start" => lock[s] = "held"
          /\ sender[s] \in {"idle", "await", "undo", "wait", "write"} =>
                lock[s] = "none"
    /\ \A p \in Process :
          /\ process[p] \in {"verify", "hash", "activate", "signal", "accepted",
                         "denied"}
                => lock[p] = "held"
          /\ process[p] = "away" => lock[p] = "none"
    /\ \A u \in Remover : remover[u] = "holding" => \A g \in Reader : lock[g] # "held"
    /\ \A u, w \in Remover : remover[u] # "idle" /\ remover[w] # "idle" => u = w

\* Whoever has a signal is not in the table any more.
WaiterInv == waiter \notin told

(* A reader that waits waits for a writer: no read lock is asked for in    *)
(* vain (Unlock lets all of them in).                                      *)
ReadersWaitForWriter == \A g \in Reader : lock[g] = "waiting" => ~ NoWriter

(* While the hub verifies, activates and signals for a process, the node   *)
(* stays installed.                                                        *)
InstalledMeanwhile ==
    \A p \in Process :
        process[p] \in {"verify", "hash", "activate", "signal", "accepted"} => installed

LaunchInv ==
    /\ SignalMeansUp
    /\ LaunchableAgain
    /\ WaiterInv
    /\ LockInv
    /\ ReadersWaitForWriter
    /\ InstalledMeanwhile

(* A hub that starts has the lazy node installed and nobody at work on it. *)
LEMMA LaunchBegins ==
    ASSUME LaunchAssumption, LaunchInit
    PROVE  LaunchInv
<1>1. SignalMeansUp /\ LaunchableAgain /\ InstalledMeanwhile
  BY DEF LaunchInit, SignalMeansUp, LaunchTypeOK, LaunchableAgain, InstalledMeanwhile
<1>2. WaiterInv /\ ReadersWaitForWriter
  BY DEF LaunchInit, WaiterInv, ReadersWaitForWriter, NoWriter
<1>3. LockInv
  BY DEF LaunchInit, LockInv, Reader
<1>4. QED
  BY <1>1, <1>2, <1>3 DEF LaunchInv

(* node.Receive.                                                           *)
LEMMA SenderKeeps ==
    ASSUME LaunchAssumption, LaunchInv, NEW s \in Sender,
           \/ Receive(s) \/ Await(s) \/ ResolveId(s) \/ EnterSpawn(s) \/ Spawn(s)
           \/ SpawnFails(s) \/ Undo(s) \/ Wake(s) \/ Expire(s) \/ Write(s)
    PROVE  LaunchInv'
<1> USE DEF SenderAt, RUnlock, Reads, Receive, Await, ResolveId, EnterSpawn, Spawn,
            SpawnFails, Undo, Wake, Expire, Write
<1>1. SignalMeansUp'
  BY DEF LaunchInv, SignalMeansUp, LaunchTypeOK, Reader, LaunchAssumption
<1>2. LaunchableAgain' /\ WaiterInv'
  BY DEF LaunchInv, SignalMeansUp, LaunchTypeOK, LaunchableAgain, WaiterInv,
       LaunchAssumption
<1>3. LockInv'
  BY DEF LaunchInv, SignalMeansUp, LaunchTypeOK, LockInv, Reader, LaunchAssumption
<1>4. ReadersWaitForWriter'
  BY DEF LaunchInv, SignalMeansUp, LaunchTypeOK, ReadersWaitForWriter, NoWriter,
       Reader
<1>5. InstalledMeanwhile'
  BY DEF LaunchInv, InstalledMeanwhile
<1>6. QED
  BY <1>1, <1>2, <1>3, <1>4, <1>5 DEF LaunchInv

(* HandleConnection.                                                       *)
LEMMA ProcessKeeps ==
    ASSUME LaunchAssumption, LaunchInv, NEW p \in Process,
           \/ Connect(p) \/ EnterHandshake(p) \/ Verify(p) \/ Hash(p) \/ Deny(p)
           \/ Activate(p) \/ Signal(p) \/ LeaveHandshake(p) \/ Disconnect(p)
    PROVE  LaunchInv'
<1> USE DEF P, RUnlock, Reads, Connect, EnterHandshake, Verify, Hash, Deny, Activate,
            Signal, LeaveHandshake, Disconnect
<1>1. SignalMeansUp'
  BY DEF LaunchInv, SignalMeansUp, LaunchTypeOK, Reader, LaunchAssumption
<1>2. LaunchableAgain' /\ WaiterInv'
  BY DEF LaunchInv, SignalMeansUp, LaunchTypeOK, LaunchableAgain, WaiterInv,
       LaunchAssumption
<1>3. LockInv'
  BY DEF LaunchInv, SignalMeansUp, LaunchTypeOK, LockInv, Reader, LaunchAssumption
<1>4. ReadersWaitForWriter'
  BY DEF LaunchInv, SignalMeansUp, LaunchTypeOK, ReadersWaitForWriter, NoWriter,
       Reader
<1>5. InstalledMeanwhile'
  BY DEF LaunchInv, SignalMeansUp, LaunchTypeOK, InstalledMeanwhile
<1>6. QED
  BY <1>1, <1>2, <1>3, <1>4, <1>5 DEF LaunchInv

(* RLock, when a writer waits and when none does.                          *)
LEMMA GetLockKeeps ==
    ASSUME LaunchAssumption, LaunchInv, NEW g \in Reader, GetLock(g)
    PROVE  LaunchInv'
<1>1. /\ lock' = [lock EXCEPT ![g] = IF NoWriter THEN "held" ELSE "waiting"]
      /\ AsksLock(g) /\ lock[g] = "none"
      /\ UNCHANGED <<sender, process, remover, listening, installed, up, waiter, told, missed>>
  BY DEF GetLock, RLock
<1>2. SignalMeansUp' /\ LaunchableAgain' /\ WaiterInv' /\ InstalledMeanwhile'
  BY <1>1 DEF LaunchInv, SignalMeansUp, LaunchTypeOK, LaunchableAgain, WaiterInv,
              InstalledMeanwhile
<1>3. LockInv'
  BY <1>1 DEF LaunchInv, SignalMeansUp, LaunchTypeOK, LockInv, AsksLock, NoWriter,
       Reader, LaunchAssumption
<1>4. ReadersWaitForWriter'
  BY <1>1 DEF LaunchInv, SignalMeansUp, LaunchTypeOK, ReadersWaitForWriter, NoWriter
<1>5. QED
  BY <1>2, <1>3, <1>4 DEF LaunchInv

(* Uninstall.                                                              *)
LEMMA RemoverKeeps ==
    ASSUME LaunchAssumption, LaunchInv, NEW u \in Remover,
           AwaitLock(u) \/ Uninstall(u) \/ Unlock(u)
    PROVE  LaunchInv'
<1>1. CASE AwaitLock(u)
  <2>1. /\ remover' = [remover EXCEPT ![u] = "waiting"] /\ NoWriter
        /\ UNCHANGED <<sender, process, listening, lock, installed, up, waiter, told, missed>>
    BY <1>1 DEF AwaitLock
  <2>2. \A w \in Remover : remover'[w] = IF w = u THEN "waiting" ELSE "idle"
    BY <2>1 DEF LaunchInv, SignalMeansUp, LaunchTypeOK, NoWriter
  <2>3. SignalMeansUp' /\ LaunchableAgain' /\ WaiterInv' /\ InstalledMeanwhile'
    BY <2>1 DEF LaunchInv, SignalMeansUp, LaunchTypeOK, LaunchableAgain, WaiterInv,
                InstalledMeanwhile
  <2>4. LockInv' /\ ReadersWaitForWriter'
    BY <2>1, <2>2 DEF LaunchInv, LockInv, ReadersWaitForWriter, NoWriter
  <2>5. QED
    BY <2>3, <2>4 DEF LaunchInv
<1>2. CASE Uninstall(u)
  <2>1. /\ remover' = [remover EXCEPT ![u] = "holding"] /\ remover[u] = "waiting"
        /\ \A g \in Reader : lock[g] # "held"
        /\ installed' \in BOOLEAN
        /\ UNCHANGED <<sender, process, listening, lock, up, waiter, told, missed>>
    BY <1>2 DEF Uninstall, LaunchInv, SignalMeansUp, LaunchTypeOK
  <2>2. \A w \in Remover : remover'[w] = IF w = u THEN "holding" ELSE remover[w]
    BY <2>1 DEF LaunchInv, SignalMeansUp, LaunchTypeOK
  <2>3. SignalMeansUp' /\ LaunchableAgain' /\ WaiterInv'
    BY <2>1 DEF LaunchInv, SignalMeansUp, LaunchTypeOK, LaunchableAgain, WaiterInv
  <2>4. LockInv' /\ ReadersWaitForWriter'
    BY <2>1, <2>2 DEF LaunchInv, LockInv, ReadersWaitForWriter, NoWriter
  <2>5. InstalledMeanwhile'
    BY <2>1 DEF LaunchInv, LockInv, InstalledMeanwhile, Reader
  <2>6. QED
    BY <2>3, <2>4, <2>5 DEF LaunchInv
<1>3. CASE Unlock(u)
  <2>1. /\ remover' = [remover EXCEPT ![u] = "idle"] /\ remover[u] = "holding"
        /\ lock' = [g \in Reader |-> IF lock[g] = "waiting" THEN "held" ELSE lock[g]]
        /\ UNCHANGED <<sender, process, listening, installed, up, waiter, told, missed>>
    BY <1>3 DEF Unlock
  <2>2. \A w \in Remover : remover'[w] = "idle"
    BY <2>1 DEF LaunchInv, SignalMeansUp, LaunchTypeOK, LockInv
  <2>3. \A g \in Reader :
           /\ lock'[g] = IF lock[g] = "waiting" THEN "held" ELSE lock[g]
           /\ lock'[g] \in {"none", "held"}
    BY <2>1 DEF LaunchInv, SignalMeansUp, LaunchTypeOK
  <2>4. SignalMeansUp'
    BY <2>1, <2>3 DEF LaunchInv, SignalMeansUp, LaunchTypeOK
  <2>5. LaunchableAgain' /\ WaiterInv' /\ InstalledMeanwhile'
    BY <2>1 DEF LaunchInv, LaunchableAgain, WaiterInv, InstalledMeanwhile
  <2>6. LockInv' /\ ReadersWaitForWriter'
    BY <2>1, <2>2, <2>3 DEF LaunchInv, LockInv, ReadersWaitForWriter, Reader
  <2>7. QED
    BY <2>4, <2>5, <2>6 DEF LaunchInv
<1>4. QED
  BY <1>1, <1>2, <1>3

(* The invariant of launching a lazy node.                                 *)
THEOREM LaunchInvariant ==
    ASSUME LaunchAssumption
    PROVE  LaunchSpec => []LaunchInv
<1>1. LaunchInv /\ [LaunchNext]_launchVars => LaunchInv'
  <2> SUFFICES ASSUME LaunchInv, [LaunchNext]_launchVars
               PROVE  LaunchInv'
    OBVIOUS
  <2>1. CASE UNCHANGED launchVars
    BY <2>1 DEF launchVars, LaunchInv, SignalMeansUp, LaunchTypeOK, LaunchableAgain,
       WaiterInv, LockInv, ReadersWaitForWriter, NoWriter, InstalledMeanwhile
  <2>2. ASSUME NEW s \in Sender, Receive(s) \/ Sends(s)
        PROVE  LaunchInv'
    BY <2>2, SenderKeeps, GetLockKeeps DEF Sends, Reader
  <2>3. ASSUME NEW p \in Process, Connect(p) \/ Shakes(p) \/ Disconnect(p)
        PROVE  LaunchInv'
    BY <2>3, ProcessKeeps, GetLockKeeps DEF Shakes, Reader
  <2>4. ASSUME NEW u \in Remover, AwaitLock(u) \/ Removes(u)
        PROVE  LaunchInv'
    BY <2>4, RemoverKeeps DEF Removes
  <2>5. QED
    BY <2>1, <2>2, <2>3, <2>4 DEF LaunchNext
<1>2. LaunchInit => LaunchInv
  BY LaunchBegins
<1>3. QED
  BY <1>1, <1>2, PTL DEF LaunchSpec

(* Nobody is in the table of the ones that wait but somebody who waits or  *)
(* will undo it, so the node can be launched again (Await, Undo, Expire).  *)
THEOREM LaunchableAgainCorrect ==
    ASSUME LaunchAssumption
    PROVE  LaunchSpec => []LaunchableAgain
<1>1. LaunchInv => LaunchableAgain
  BY DEF LaunchInv
<1>2. QED
  BY <1>1, LaunchInvariant, PTL

(* Who is told that the node is there finds it there, unless it was lost   *)
(* again meanwhile (HandleConnection, Receive).                            *)
THEOREM SignalMeansUpCorrect ==
    ASSUME LaunchAssumption
    PROVE  LaunchSpec => []SignalMeansUp
<1>1. LaunchInv => SignalMeansUp
  BY DEF LaunchInv
<1>2. QED
  BY <1>1, LaunchInvariant, PTL

(* A goroutine waits for the read lock of n.mu only while Uninstall waits  *)
(* for the lock or has it.                                                 *)
THEOREM ReadersWaitForWriterCorrect ==
    ASSUME LaunchAssumption
    PROVE  LaunchSpec => []ReadersWaitForWriter
<1>1. LaunchInv => ReadersWaitForWriter
  BY DEF LaunchInv
<1>2. QED
  BY <1>1, LaunchInvariant, PTL

(* A node is not uninstalled between the look-up of HandleConnection and   *)
(* the end of the handshake.                                               *)
THEOREM InstalledMeanwhileCorrect ==
    ASSUME LaunchAssumption
    PROVE  LaunchSpec => []InstalledMeanwhile
<1>1. LaunchInv => InstalledMeanwhile
  BY DEF LaunchInv
<1>2. QED
  BY <1>1, LaunchInvariant, PTL

-----------------------------------------------------------------------------
(* The words of a line.  A scanner is a function of how much it has read,  *)
(* so what it does is shown by induction on that: first that the scanner   *)
(* goes from state to state at all, then that the two scanners are at the  *)
(* same place after each character.                                        *)

(* Induction: a set with 0 and the successor of each of its numbers.       *)
LEMMA Induction ==
    ASSUME NEW M, 0 \in M, \A n \in Nat : n \in M => n + 1 \in M
    PROVE  Nat \subseteq M
<1> DEFINE R == OpToRel(<, Nat)
<1>1. R = {ss \in Nat \X Nat : ss[1] < ss[2]}
  BY Zenon DEF OpToRel
<1>2. IsWellFoundedOn(R, Nat)
  BY NatLessThanWellFounded, Zenon
<1> HIDE DEF R
<1> SUFFICES ASSUME Nat \ M # {} PROVE FALSE
  OBVIOUS
<1>3. PICK x \in Nat \ M : \A y \in Nat \ M : <<y, x>> \notin R
  BY <1>2, WFMin
<1>4. x - 1 \in Nat /\ (x - 1) + 1 = x
  OBVIOUS
<1>5. x - 1 \notin M
  BY <1>4
<1>6. <<x - 1, x>> \in R
  BY <1>1, <1>4
<1>7. QED
  BY <1>3, <1>4, <1>5, <1>6

NoToken == [tokens |-> <<>>, buf |-> <<>>, in |-> "", depth |-> 0, escaped |-> FALSE]
Tokenizing(f, raw, n) ==
    /\ f = [i \in 0 .. n |-> f[i]]
    /\ f[0] = NoToken
    /\ \A i \in 1 .. n : f[i] = Token(f[i - 1], raw[i], i = Len(raw))

(* Scan goes from state to state, whatever it reads.                       *)
LEMMA ScanSteps ==
    ASSUME NEW raw, Len(raw) \in Nat
    PROVE  \E f : Tokenizing(f, raw, Len(raw)) /\ Scan(raw) = f[Len(raw)]
<1> DEFINE M == {n \in Nat : \E f : Tokenizing(f, raw, n)}
<1>1. 0 \in M
  <2>1. Tokenizing([i \in 0 .. 0 |-> NoToken], raw, 0)
    BY DEF Tokenizing
  <2>2. QED
    BY <2>1
<1>2. ASSUME NEW n \in Nat, n \in M PROVE n + 1 \in M
  <2>1. PICK f : Tokenizing(f, raw, n)
    BY <1>2
  <2> DEFINE x == Token(f[n], raw[n + 1], n + 1 = Len(raw))
             h == [i \in 0 .. n + 1 |-> IF i = n + 1 THEN x ELSE f[i]]
  <2>2. h = [i \in 0 .. n + 1 |-> h[i]] /\ h[0] = NoToken
    BY <2>1 DEF Tokenizing
  <2>3. ASSUME NEW i \in 1 .. n + 1
        PROVE  h[i] = Token(h[i - 1], raw[i], i = Len(raw))
    <3>1. i - 1 \in 0 .. n + 1 /\ i - 1 # n + 1 /\ h[i - 1] = f[i - 1]
      OBVIOUS
    <3>2. CASE i = n + 1
      BY <3>1, <3>2
    <3>3. CASE i # n + 1
      <4>1. i \in 1 .. n /\ h[i] = f[i]
        BY <3>3
      <4>2. QED
        BY <4>1, <3>1, <2>1 DEF Tokenizing
    <3>4. QED
      BY <3>2, <3>3
  <2> HIDE DEF h
  <2>4. Tokenizing(h, raw, n + 1)
    BY <2>2, <2>3 DEF Tokenizing
  <2>5. QED
    BY <2>4
<1>3. Nat \subseteq M
  <2> HIDE DEF M
  <2> QED BY <1>1, <1>2, Induction
<1>4. PICK g : Tokenizing(g, raw, Len(raw))
  BY <1>3
<1> DEFINE Fits(f) == f = [i \in 0 .. Len(raw) |->
                          IF i = 0 THEN NoToken
                          ELSE Token(f[i - 1], raw[i], i = Len(raw))]
           h == CHOOSE f : Fits(f)
<1>5. Fits(g)
  <2> DEFINE e(i) == IF i = 0 THEN NoToken ELSE Token(g[i - 1], raw[i], i = Len(raw))
  <2> HIDE DEF Fits
  <2>1. /\ g = [i \in 0 .. Len(raw) |-> g[i]]
        /\ g[0] = NoToken
        /\ \A i \in 1 .. Len(raw) : g[i] = Token(g[i - 1], raw[i], i = Len(raw))
    BY <1>4 DEF Tokenizing
  <2>2. \A i \in 0 .. Len(raw) : i = 0 \/ i \in 1 .. Len(raw)
    OBVIOUS
  <2>3. \A i \in 1 .. Len(raw) : i # 0
    OBVIOUS
  <2>4. \A i \in 0 .. Len(raw) : g[i] = e(i)
    BY <2>1, <2>2, <2>3, Zenon
  <2> HIDE DEF e
  <2>5. g = [i \in 0 .. Len(raw) |-> e(i)]
    BY <2>1, <2>4
  <2>6. QED
    BY <2>5 DEF e, Fits
<1>6. Fits(h)
  <2> HIDE DEF Fits
  <2> QED BY <1>5, Zenon
<1>7. Scan(raw) = h[Len(raw)]
  BY DEF Scan, NoToken
<1> HIDE DEF h
<1>8. Tokenizing(h, raw, Len(raw))
  BY <1>6 DEF Tokenizing
<1>9. QED
  BY <1>7, <1>8

NoWord == [words |-> <<>>, word |-> <<>>, quote |-> "", stack |-> <<>>, skip |-> FALSE]
Reading(f, body, n) ==
    /\ f = [i \in 0 .. n |-> f[i]]
    /\ f[0] = NoWord
    /\ \A i \in 1 .. n : f[i] = ReadWord(f[i - 1], body, i)

(* So does parseBody.                                                      *)
LEMMA ParseSteps ==
    ASSUME NEW body, Len(body) \in Nat
    PROVE  \E f : Reading(f, body, Len(body)) /\ ParseBody(body) = EndWord(f[Len(body)]).words
<1> DEFINE M == {n \in Nat : \E f : Reading(f, body, n)}
<1>1. 0 \in M
  <2>1. Reading([i \in 0 .. 0 |-> NoWord], body, 0)
    BY DEF Reading
  <2>2. QED
    BY <2>1
<1>2. ASSUME NEW n \in Nat, n \in M PROVE n + 1 \in M
  <2>1. PICK f : Reading(f, body, n)
    BY <1>2
  <2> DEFINE x == ReadWord(f[n], body, n + 1)
             h == [i \in 0 .. n + 1 |-> IF i = n + 1 THEN x ELSE f[i]]
  <2>2. h = [i \in 0 .. n + 1 |-> h[i]] /\ h[0] = NoWord
    BY <2>1 DEF Reading
  <2>3. ASSUME NEW i \in 1 .. n + 1
        PROVE  h[i] = ReadWord(h[i - 1], body, i)
    <3>1. i - 1 \in 0 .. n + 1 /\ i - 1 # n + 1 /\ h[i - 1] = f[i - 1]
      OBVIOUS
    <3>2. CASE i = n + 1
      BY <3>1, <3>2
    <3>3. CASE i # n + 1
      <4>1. i \in 1 .. n /\ h[i] = f[i]
        BY <3>3
      <4>2. QED
        BY <4>1, <3>1, <2>1 DEF Reading
    <3>4. QED
      BY <3>2, <3>3
  <2> HIDE DEF h
  <2>4. Reading(h, body, n + 1)
    BY <2>2, <2>3 DEF Reading
  <2>5. QED
    BY <2>4
<1>3. Nat \subseteq M
  <2> HIDE DEF M
  <2> QED BY <1>1, <1>2, Induction
<1>4. PICK g : Reading(g, body, Len(body))
  BY <1>3
<1> DEFINE Fits(f) == f = [i \in 0 .. Len(body) |->
                          IF i = 0 THEN NoWord
                          ELSE ReadWord(f[i - 1], body, i)]
           h == CHOOSE f : Fits(f)
<1>5. Fits(g)
  <2> DEFINE e(i) == IF i = 0 THEN NoWord ELSE ReadWord(g[i - 1], body, i)
  <2> HIDE DEF Fits
  <2>1. /\ g = [i \in 0 .. Len(body) |-> g[i]]
        /\ g[0] = NoWord
        /\ \A i \in 1 .. Len(body) : g[i] = ReadWord(g[i - 1], body, i)
    BY <1>4 DEF Reading
  <2>2. \A i \in 0 .. Len(body) : i = 0 \/ i \in 1 .. Len(body)
    OBVIOUS
  <2>3. \A i \in 1 .. Len(body) : i # 0
    OBVIOUS
  <2>4. \A i \in 0 .. Len(body) : g[i] = e(i)
    BY <2>1, <2>2, <2>3, Zenon
  <2> HIDE DEF e
  <2>5. g = [i \in 0 .. Len(body) |-> e(i)]
    BY <2>1, <2>4
  <2>6. QED
    BY <2>5 DEF e, Fits
<1>6. Fits(h)
  <2> HIDE DEF Fits
  <2> QED BY <1>5, Zenon
<1>7. ParseBody(body) = EndWord(h[Len(body)]).words
  BY DEF ParseBody, NoWord
<1> HIDE DEF h
<1>8. Reading(h, body, Len(body))
  BY <1>6 DEF Reading
<1>9. QED
  BY <1>7, <1>8

(* Without backslashes the tokenizer does not look ahead, so what it makes *)
(* of a prefix is what it goes through.                                    *)
LEMMA ScanPrefix ==
    ASSUME NEW raw \in Seq(STRING), \A i \in 1 .. Len(raw) : raw[i] # "\\",
           NEW f, Tokenizing(f, raw, Len(raw)), NEW n \in 0 .. Len(raw)
    PROVE  Scan(SubSeq(raw, 1, n)) = f[n]
<1> DEFINE s == SubSeq(raw, 1, n)
<1>1. Len(raw) \in Nat /\ Len(s) = n /\ \A i \in 1 .. n : s[i] = raw[i]
  OBVIOUS
<1> HIDE DEF s
<1>2. PICK h : Tokenizing(h, s, n) /\ Scan(s) = h[n]
  BY <1>1, ScanSteps
<1> DEFINE M == {i \in Nat : i <= n => h[i] = f[i]}
<1>3. 0 \in M
  BY <1>2 DEF Tokenizing
<1>4. ASSUME NEW i \in Nat, i \in M PROVE i + 1 \in M
  <2> SUFFICES ASSUME i + 1 <= n PROVE h[i + 1] = f[i + 1]
    OBVIOUS
  <2>1. i + 1 \in 1 .. n /\ i + 1 \in 1 .. Len(raw) /\ (i + 1) - 1 = i /\ h[i] = f[i]
    BY <1>1, <1>4
  <2> DEFINE ch == raw[i + 1]
  <2>2. ch # "\\" /\ s[i + 1] = ch
    BY <2>1, <1>1
  <2>3. h[i + 1] = Token(h[i], ch, i + 1 = n)
    BY <2>1, <2>2, <1>1, <1>2 DEF Tokenizing
  <2>4. f[i + 1] = Token(f[i], ch, i + 1 = Len(raw))
    BY <2>1 DEF Tokenizing
  <2>5. Token(h[i], ch, i + 1 = n) = Token(f[i], ch, i + 1 = Len(raw))
    BY <2>1, <2>2, Zenon DEF Token
  <2>6. QED
    BY <2>3, <2>4, <2>5
<1>5. Nat \subseteq M
  <2> HIDE DEF M
  <2> QED BY <1>3, <1>4, Induction
<1>6. h[n] = f[n]
  BY <1>5, <1>1
<1>7. QED
  BY <1>2, <1>6 DEF s

(* Both scanners are at one place: the words so far, the one being read,   *)
(* and the delimiter that is open, or "".                                  *)
Quotes == {"'", "\""}
Brackets == {"[", "{"}
Places == Quotes \cup Brackets \cup {""}

TokenHas(t, words, word, d, depth) ==
    /\ DOMAIN t = {"tokens", "buf", "in", "depth", "escaped"}
    /\ t.tokens = words /\ t.buf = word /\ t.in = d /\ t.depth = depth /\ ~ t.escaped
WordHas(w, words, word, quote, stack) ==
    /\ DOMAIN w = {"words", "word", "quote", "stack", "skip"}
    /\ w.words = words /\ w.word = word /\ w.quote = quote /\ w.stack = stack /\ ~ w.skip

Depth(d) == IF d = "" THEN 0 ELSE 1
Quote(d) == IF d \in Quotes THEN d ELSE ""
Stack(d) == IF d \in Brackets THEN <<Closer[d]>> ELSE <<>>
TokenAt(t, words, word, d) == TokenHas(t, words, word, d, Depth(d))
WordAt(w, words, word, d) == WordHas(w, words, word, Quote(d), Stack(d))
Agree(t, w) ==
    \E words, word : \E d \in Places :
        TokenAt(t, words, word, d) /\ WordAt(w, words, word, d)

\* The words with the one that ends.
Ended(words, word) == IF word = <<>> THEN words ELSE Append(words, word)

\* The place after a character that ends no word.
After(d, ch) ==
    IF d = "" THEN IF ch \in Delimiters THEN ch ELSE ""
    ELSE IF ch = Matching(d) THEN "" ELSE d

\* What the scanners look for.
LEMMA Characters ==
    /\ \A ch : ch \in Delimiters <=> ch \in Quotes \/ ch \in Brackets \/ ch = "("
    /\ \A ch : ch \in Quotes => ch \notin Brackets /\ ch # "(" /\ ch # "" /\ ch # Space
    /\ \A ch : ch \in Brackets => ch # "(" /\ ch # "" /\ ch # Space
    /\ \A ch : ch \in Gap <=> ch = Space \/ ch = "\t"
    /\ "(" # "" /\ Space # "" /\ Space # "\t" /\ Space # "("
    /\ \A ch \in Quotes : Matching(ch) = ch
    /\ DOMAIN Closer = Brackets
    /\ \A ch \in Brackets : Closer[ch] = <<Matching(ch)>>
<1>1. /\ \A ch : ch \in Delimiters <=> ch \in Quotes \/ ch \in Brackets \/ ch = "("
      /\ \A ch : ch \in Quotes => ch \notin Brackets /\ ch # "(" /\ ch # "" /\ ch # Space
      /\ \A ch : ch \in Brackets => ch # "(" /\ ch # "" /\ ch # Space
      /\ \A ch : ch \in Gap <=> ch = Space \/ ch = "\t"
      /\ "(" # "" /\ Space # "" /\ Space # "\t" /\ Space # "("
  BY Zenon DEF Delimiters, Quotes, Brackets, Gap, Space
<1>2. \A ch \in Quotes : Matching(ch) = ch
  BY Zenon DEF Quotes, Matching
<1>3. DOMAIN Closer = Brackets
  BY Zenon DEF Closer, Brackets
<1>4. \A ch \in Brackets : Closer[ch] = <<Matching(ch)>>
  BY Zenon DEF Closer, Brackets
<1>5. QED
  BY <1>1, <1>2, <1>3, <1>4, Zenon

\* What the tokenizer does to its state, field by field.
LEMMA TokenUpdates ==
    ASSUME NEW t, NEW a, NEW b, NEW d, NEW k, NEW x, NEW y, TokenHas(t, a, b, d, k)
    PROVE  /\ TokenHas(WriteRune(t, x), a, Append(b, x), d, k)
           /\ TokenHas([t EXCEPT !.in = x, !.depth = y], a, b, x, y)
           /\ TokenHas([t EXCEPT !.depth = y, !.in = x], a, b, x, y)
           /\ TokenHas(Flush(t), Ended(a, b), <<>>, d, k)
<1>1. TokenHas(WriteRune(t, x), a, Append(b, x), d, k)
  BY DEF TokenHas, WriteRune
<1>2. TokenHas([t EXCEPT !.in = x, !.depth = y], a, b, x, y)
  BY DEF TokenHas
<1>3. TokenHas([t EXCEPT !.depth = y, !.in = x], a, b, x, y)
  BY DEF TokenHas
<1>4. TokenHas(Flush(t), Ended(a, b), <<>>, d, k)
  BY DEF TokenHas, Flush, Ended
<1>5. QED
  BY <1>1, <1>2, <1>3, <1>4

\* What parseBody does to its state, field by field.
LEMMA WordUpdates ==
    ASSUME NEW w, NEW a, NEW b, NEW q, NEW s, NEW x, WordHas(w, a, b, q, s)
    PROVE  /\ WordHas(Word(w, x), a, Append(b, x), q, s)
           /\ WordHas(Open(w, x), a, b, q, Append(s, x))
           /\ WordHas([w EXCEPT !.quote = x], a, b, x, s)
           /\ WordHas(EndWord(w), Ended(a, b), <<>>, q, s)
<1>1. WordHas(Word(w, x), a, Append(b, x), q, s)
  BY DEF WordHas, Word
<1>2. WordHas(Open(w, x), a, b, q, Append(s, x))
  BY DEF WordHas, Open
<1>3. WordHas([w EXCEPT !.quote = x], a, b, x, s)
  BY DEF WordHas
<1>4. WordHas(EndWord(w), Ended(a, b), <<>>, q, s)
  BY DEF WordHas, EndWord, Ended
<1>5. QED
  BY <1>1, <1>2, <1>3, <1>4

\* A closing bracket of one character leaves nothing to skip.
LEMMA WordPops ==
    ASSUME NEW w, NEW a, NEW b, NEW q, NEW s, WordHas(w, a, b, q, s),
           NEW n, n # 2, NEW y
    PROVE  WordHas([w EXCEPT !.skip = (n = 2), !.stack = y], a, b, q, y)
BY DEF WordHas

LEMMA OneIsNotTwo == 1 # 2
OBVIOUS

\* A text starts with one character where it has it.
LEMMA StartsWithOne ==
    ASSUME NEW S, NEW s \in Seq(S), NEW i \in 1 .. Len(s), NEW ch
    PROVE  StartsAt(s, i, <<ch>>) <=> s[i] = ch
<1>1. SubSeq(s, i, i) = [j \in 1 .. 1 |-> s[i]]
  OBVIOUS
<1>2. SubSeq(s, i, i) = <<ch>> <=> s[i] = ch
  BY <1>1
<1>3. Len(<<ch>>) = 1 /\ i + 1 - 1 = i /\ i <= Len(s)
  OBVIOUS
<1>4. QED
  BY <1>2, <1>3 DEF StartsAt

\* The stack with one bracket.
LEMMA OneElement ==
    ASSUME NEW x
    PROVE  /\ Append(<<>>, x) = <<x>> /\ Len(<<x>>) = 1 /\ <<x>> # <<>>
           /\ Last(<<x>>) = x /\ Front(<<x>>) = <<>>
<1>1. Append(<<>>, x) = <<x>> /\ Len(<<x>>) = 1 /\ <<x>> # <<>> /\ <<x>>[1] = x
  OBVIOUS
<1>2. Len(SubSeq(<<x>>, 1, 0)) = 0 /\ SubSeq(<<x>>, 1, 0) = <<>>
  OBVIOUS
<1>3. QED
  BY <1>1, <1>2 DEF Last, Front

\* What a character does to the tokenizer, by the place it is read at.
LEMMA TokenMoves ==
    ASSUME NEW words, NEW word, NEW d \in Places, NEW t, TokenAt(t, words, word, d),
           NEW ch, ch \notin {"(", "\t", "\\"}, NEW last
    PROVE  IF d = "" /\ ch = Space
           THEN TokenAt(Token(t, ch, last), Ended(words, word), <<>>, "")
           ELSE TokenAt(Token(t, ch, last), words, Append(word, ch), After(d, ch))
<1> DEFINE more == Append(word, ch)
           new == WriteRune(t, ch)
<1>1. t.in = d /\ ~ t.escaped /\ t.depth = Depth(d)
  BY Zenon DEF TokenAt, TokenHas
<1>2. TokenHas(new, words, more, d, Depth(d))
  BY TokenUpdates, Zenon DEF TokenAt
<1>3. ch \notin Gap \/ ch = Space
  BY Characters, Zenon
<1>4. d # "(" /\ ch # "(" /\ ch # "\\"
  BY Characters, Zenon DEF Places
<1>5. CASE d = "" /\ ch = Space
  <2>1. ch \in Gap
    BY <1>5, Characters, Zenon
  <2>2. Token(t, ch, last) = Flush(t)
    BY <1>1, <1>5, <2>1, Zenon DEF Token
  <2>3. TokenHas(Flush(t), Ended(words, word), <<>>, d, Depth(d))
    BY TokenUpdates, Zenon DEF TokenAt
  <2>4. QED
    BY <1>5, <2>2, <2>3, Zenon DEF TokenAt
<1> HIDE DEF more, new
<1>6. CASE d = "" /\ ch # Space /\ ch \in Delimiters
  <2>1. Depth(ch) = 1
    BY <1>6, Characters, Zenon DEF Depth
  <2>2. Token(t, ch, last) = [new EXCEPT !.in = ch, !.depth = 1]
    BY <1>1, <1>3, <1>6, Zenon DEF Token, new
  <2>3. TokenHas([new EXCEPT !.in = ch, !.depth = 1], words, more, ch, 1)
    BY <1>2, TokenUpdates, Zenon
  <2>4. After(d, ch) = ch
    BY <1>6, Zenon DEF After
  <2>5. QED
    BY <1>6, <2>1, <2>2, <2>3, <2>4, Zenon DEF TokenAt, more
<1>7. CASE d = "" /\ ch # Space /\ ch \notin Delimiters
  <2>1. Token(t, ch, last) = new
    BY <1>1, <1>3, <1>7, Zenon DEF Token, new
  <2>2. After(d, ch) = d
    BY <1>7, Zenon DEF After
  <2>3. QED
    BY <1>2, <1>7, <2>1, <2>2, Zenon DEF TokenAt, more
<1>8. CASE d # ""
  <2>1. Depth(d) = 1 /\ Depth("") = 0
    BY <1>8, Zenon DEF Depth
  <2>2. new.depth = 1
    BY <1>2, <2>1, Zenon DEF TokenHas
  <2>3. CASE ch = Matching(d)
    <3>1. Token(t, ch, last) = [new EXCEPT !.depth = new.depth - 1, !.in = ""]
      BY <1>1, <1>4, <1>8, <2>1, <2>3, Zenon DEF Token, new
    <3>2. new.depth - 1 = 0
      BY <2>2
    <3>3. TokenHas([new EXCEPT !.depth = 0, !.in = ""], words, more, "", 0)
      BY <1>2, TokenUpdates, Zenon
    <3>4. After(d, ch) = ""
      BY <1>8, <2>3, Zenon DEF After
    <3>5. QED
      BY <1>8, <2>1, <3>1, <3>2, <3>3, <3>4, Zenon DEF TokenAt, more
  <2>4. CASE ch # Matching(d)
    <3>1. Token(t, ch, last) = new
      BY <1>1, <1>4, <1>8, <2>4, Zenon DEF Token, new
    <3>2. After(d, ch) = d
      BY <1>8, <2>4, Zenon DEF After
    <3>3. QED
      BY <1>2, <1>8, <3>1, <3>2, Zenon DEF TokenAt, more
  <2>5. QED
    BY <2>3, <2>4, Zenon
<1>9. QED
  BY <1>5, <1>6, <1>7, <1>8, Zenon

\* What a character does to parseBody, by the place it is read at.
LEMMA WordMoves ==
    ASSUME NEW words, NEW word, NEW d \in Places, NEW w, WordAt(w, words, word, d),
           NEW body \in Seq(STRING), NEW i \in 1 .. Len(body),
           body[i] # "(", ~ StartsAt(body, i, Opening),
           d \in Brackets => body[i] \notin Delimiters
    PROVE  IF d = "" /\ body[i] = Space
           THEN WordAt(ReadWord(w, body, i), Ended(words, word), <<>>, "")
           ELSE WordAt(ReadWord(w, body, i), words, Append(word, body[i]), After(d, body[i]))
<1> DEFINE ch == body[i]
           more == Append(word, ch)
           new == Word(w, ch)
<1>1. ~ w.skip /\ w.quote = Quote(d) /\ w.stack = Stack(d)
  BY Zenon DEF WordAt, WordHas
<1>2. WordHas(new, words, more, Quote(d), Stack(d))
  BY WordUpdates, Zenon DEF WordAt
<1>3. \A x : x \in {"'", "\""} <=> x \in Quotes
  BY Zenon DEF Quotes
<1>4. /\ Quote("") = "" /\ Stack("") = <<>>
      /\ \A q \in Quotes : q # "" /\ Quote(q) = q /\ Stack(q) = <<>>
      /\ \A b \in Brackets : b # "" /\ Quote(b) = "" /\ Stack(b) = <<Closer[b]>>
  BY Characters, Zenon DEF Quote, Stack
<1>5. ch # "(" /\ (d \in Brackets => ch \notin Delimiters)
  OBVIOUS
<1>6. ~ StartsAt(body, i, Opening)
  OBVIOUS
<1>7. CASE d = "" /\ ch = Space
  <2>1. ReadWord(w, body, i) = EndWord(w)
    BY <1>1, <1>4, <1>7, Zenon DEF ReadWord
  <2>2. WordHas(EndWord(w), Ended(words, word), <<>>, Quote(d), Stack(d))
    BY WordUpdates, Zenon DEF WordAt
  <2>3. QED
    BY <1>7, <2>1, <2>2, Zenon DEF WordAt
<1> HIDE DEF ch, more, new
<1>8. ASSUME NEW e, After(d, ch) = e, ~ (d = "" /\ ch = Space),
             WordHas(ReadWord(w, body, i), words, more, Quote(e), Stack(e))
      PROVE  IF d = "" /\ body[i] = Space
             THEN WordAt(ReadWord(w, body, i), Ended(words, word), <<>>, "")
             ELSE WordAt(ReadWord(w, body, i), words, Append(word, body[i]), After(d, body[i]))
  BY <1>8, Zenon DEF WordAt, ch, more
<1>9. CASE d = "" /\ ch # Space
  <2>1. w.quote = "" /\ w.stack = <<>>
    BY <1>1, <1>4, <1>9, Zenon
  <2>2. CASE ch \in Quotes
    <3>1. ReadWord(w, body, i) = [new EXCEPT !.quote = ch]
      BY <1>1, <1>3, <1>9, <2>1, <2>2, Zenon DEF ReadWord, ch, new
    <3>2. After(d, ch) = ch
      BY <1>9, <2>2, Characters, Zenon DEF After
    <3>3. WordHas([new EXCEPT !.quote = ch], words, more, ch, Stack(d))
      BY <1>2, WordUpdates, Zenon
    <3>4. QED
      BY <1>4, <1>8, <1>9, <2>2, <3>1, <3>2, <3>3, Zenon
  <2>3. CASE ch \in Brackets
    <3>1. ch \notin Quotes /\ ch \in DOMAIN Closer
      BY <2>3, Characters, Zenon
    <3>2. ReadWord(w, body, i) = Open(new, Closer[ch])
      BY <1>1, <1>3, <1>9, <2>1, <3>1, Zenon DEF ReadWord, ch, new
    <3>3. After(d, ch) = ch
      BY <1>9, <2>3, Characters, Zenon DEF After
    <3>4. WordHas(Open(new, Closer[ch]), words, more, Quote(d), Append(Stack(d), Closer[ch]))
      BY <1>2, WordUpdates, Zenon
    <3>5. Append(Stack(d), Closer[ch]) = Stack(ch) /\ Quote(d) = Quote(ch)
      BY <1>4, <1>9, <2>3, OneElement, Zenon
    <3>6. QED
      BY <1>8, <1>9, <3>2, <3>3, <3>4, <3>5, Zenon
  <2>4. CASE ch \notin Quotes /\ ch \notin Brackets
    <3>1. ch \notin DOMAIN Closer /\ ch \notin Delimiters
      BY <1>5, <2>4, Characters, Zenon
    <3>2. ReadWord(w, body, i) = new
      BY <1>1, <1>3, <1>6, <1>9, <2>1, <2>4, <3>1, Zenon DEF ReadWord, ch, new
    <3>3. After(d, ch) = d
      BY <1>9, <3>1, Zenon DEF After
    <3>4. QED
      BY <1>2, <1>8, <1>9, <3>2, <3>3, Zenon
  <2>5. QED
    BY <2>2, <2>3, <2>4, Zenon
<1>10. CASE d \in Quotes
  <2>1. w.quote = d /\ d # "" /\ Stack(d) = <<>> /\ Quote(d) = d
    BY <1>1, <1>4, <1>10, Zenon
  <2>2. new.quote = d
    BY <1>2, <2>1, Zenon DEF WordHas
  <2>3. ReadWord(w, body, i) = [new EXCEPT !.quote = IF ch = new.quote THEN "" ELSE new.quote]
    BY <1>1, <2>1, Zenon DEF ReadWord, ch, new
  <2>4. \A e : WordHas([new EXCEPT !.quote = e], words, more, e, <<>>)
    BY <1>2, <2>1, WordUpdates, Zenon
  <2>5. After(d, ch) = IF ch = d THEN "" ELSE d
    BY <1>10, <2>1, Characters, Zenon DEF After
  <2>6. CASE ch = d
    <3>1. ReadWord(w, body, i) = [new EXCEPT !.quote = ""]
      BY <2>2, <2>3, <2>6, Zenon
    <3>2. After(d, ch) = ""
      BY <2>5, <2>6, Zenon
    <3>3. WordHas(ReadWord(w, body, i), words, more, "", <<>>)
      BY <2>4, <3>1, Zenon
    <3>4. WordHas(ReadWord(w, body, i), words, more, Quote(""), Stack(""))
      BY <1>4, <3>3, Zenon
    <3>5. QED
      BY <1>8, <2>1, <3>2, <3>4, Zenon
  <2>7. CASE ch # d
    <3>1. ReadWord(w, body, i) = [new EXCEPT !.quote = d]
      BY <2>2, <2>3, <2>7, Zenon
    <3>2. After(d, ch) = d
      BY <2>5, <2>7, Zenon
    <3>3. WordHas(ReadWord(w, body, i), words, more, d, <<>>)
      BY <2>4, <3>1, Zenon
    <3>4. WordHas(ReadWord(w, body, i), words, more, Quote(d), Stack(d))
      BY <2>1, <3>3, Zenon
    <3>5. QED
      BY <1>8, <2>1, <3>2, <3>4, Zenon
  <2>8. QED
    BY <2>6, <2>7, Zenon
<1>11. CASE d \in Brackets
  <2>1. w.quote = "" /\ w.stack = <<Closer[d]>> /\ d # "" /\ ch \notin Delimiters
    BY <1>1, <1>4, <1>5, <1>11, Zenon
  <2>2. w.stack # <<>> /\ Last(w.stack) = Closer[d] /\ Front(w.stack) = <<>>
    BY <2>1, OneElement, Zenon
  <2>3. Closer[d] = <<Matching(d)>> /\ Len(Closer[d]) = 1
    BY <1>11, Characters, OneElement, Zenon
  <2>4. StartsAt(body, i, Closer[d]) <=> ch = Matching(d)
    <3>1. StartsAt(body, i, <<Matching(d)>>) <=> ch = Matching(d)
      BY StartsWithOne, Zenon DEF ch
    <3>2. QED
      BY <2>3, <3>1, Zenon
  <2>5. CASE ch = Matching(d)
    <3>1. Len(Last(w.stack)) # 2
      BY <2>2, <2>3, OneIsNotTwo, Zenon
    <3>2. new.stack = w.stack
      BY <1>1, <1>2, Zenon DEF WordHas
    <3>3. ReadWord(w, body, i) = [new EXCEPT
             !.skip = (Len(Last(w.stack)) = 2), !.stack = Front(new.stack)]
      BY <1>1, <2>1, <2>2, <2>4, <2>5, Zenon DEF ReadWord, ch, new
    <3>4. WordHas(ReadWord(w, body, i), words, more, Quote(d), <<>>)
      <4> DEFINE n == Len(Last(w.stack))
                 y == Front(new.stack)
      <4>1. y = <<>>
        BY <2>2, <3>2, Zenon
      <4>2. ReadWord(w, body, i) = [new EXCEPT !.skip = (n = 2), !.stack = y]
        BY <3>3, Zenon
      <4>3. n # 2
        BY <3>1, Zenon
      <4> HIDE DEF n, y
      <4>4. WordHas([new EXCEPT !.skip = (n = 2), !.stack = y], words, more, Quote(d), y)
        BY <1>2, <4>3, WordPops, Zenon
      <4>5. QED
        BY <4>1, <4>2, <4>4, Zenon
    <3>5. After(d, ch) = ""
      BY <2>1, <2>5, Zenon DEF After
    <3>6. WordHas(ReadWord(w, body, i), words, more, Quote(""), Stack(""))
      BY <1>4, <1>11, <3>4, Zenon
    <3>7. QED
      BY <1>8, <2>1, <3>5, <3>6, Zenon
  <2>6. CASE ch # Matching(d)
    <3>1. ch \notin Quotes /\ ch \notin DOMAIN Closer
      BY <2>1, Characters, Zenon
    <3>2. ReadWord(w, body, i) = new
      BY <1>1, <1>3, <1>6, <2>1, <2>2, <2>4, <2>6, <3>1, Zenon DEF ReadWord, ch, new
    <3>3. After(d, ch) = d
      BY <2>1, <2>6, Zenon DEF After
    <3>4. QED
      BY <1>2, <1>8, <2>1, <3>2, <3>3, Zenon
  <2>7. QED
    BY <2>5, <2>6, Zenon
<1>12. QED
  BY <1>7, <1>9, <1>10, <1>11, Zenon DEF Places

\* Without parentheses there are no other places.
LEMMA PlacesAfter ==
    ASSUME NEW d \in Places, NEW ch, ch # "("
    PROVE  After(d, ch) \in Places /\ "" \in Places
<1>1. ch \in Delimiters => ch \in Places
  BY Characters, Zenon DEF Places
<1>2. "" \in Places
  BY Zenon DEF Places
<1>3. QED
  BY <1>1, <1>2, Zenon DEF After

\* So a character takes two scanners that agree to two that agree.
LEMMA StepsAgree ==
    ASSUME NEW t, NEW w, Agree(t, w),
           NEW body \in Seq(STRING), NEW i \in 1 .. Len(body), NEW last,
           body[i] \notin {"(", "\t", "\\"}, ~ StartsAt(body, i, Opening),
           t.in \in Brackets => body[i] \notin Delimiters
    PROVE  Agree(Token(t, body[i], last), ReadWord(w, body, i))
<1>1. PICK words, word : \E d \in Places :
          TokenAt(t, words, word, d) /\ WordAt(w, words, word, d)
  BY Zenon DEF Agree
<1>2. PICK d \in Places : TokenAt(t, words, word, d) /\ WordAt(w, words, word, d)
  BY <1>1, Zenon
<1> DEFINE ch == body[i]
           u == Token(t, ch, last)
           v == ReadWord(w, body, i)
<1>3. ch \notin {"(", "\t", "\\"} /\ ch # "("
  BY Zenon
<1>4. d \in Brackets => body[i] \notin Delimiters
  BY <1>2, Zenon DEF TokenAt, TokenHas
<1>5. IF d = "" /\ ch = Space
      THEN TokenAt(u, Ended(words, word), <<>>, "")
      ELSE TokenAt(u, words, Append(word, ch), After(d, ch))
  BY <1>2, <1>3, TokenMoves, Zenon
<1>6. IF d = "" /\ ch = Space
      THEN WordAt(v, Ended(words, word), <<>>, "")
      ELSE WordAt(v, words, Append(word, ch), After(d, ch))
  BY <1>2, <1>3, <1>4, WordMoves, Zenon
<1>7. After(d, ch) \in Places /\ "" \in Places
  BY <1>3, PlacesAfter, Zenon
<1> HIDE DEF ch, u, v
<1>8. Agree(u, v)
  BY <1>5, <1>6, <1>7, Zenon DEF Agree
<1>9. QED
  BY <1>8, Zenon DEF ch, u, v

\* They agree at the start.
LEMMA StartsAgree == Agree(NoToken, NoWord)
<1>1. Depth("") = 0
  BY Zenon DEF Depth
<1>2. Quote("") = "" /\ Stack("") = <<>>
  BY Characters, Zenon DEF Quote, Stack
<1>3. "" \in Places
  BY Zenon DEF Places
<1>4. DOMAIN NoToken = {"tokens", "buf", "in", "depth", "escaped"}
  BY DEF NoToken
<1>5. TokenHas(NoToken, <<>>, <<>>, "", 0)
  BY <1>4, Zenon DEF TokenHas, NoToken
<1>6. DOMAIN NoWord = {"words", "word", "quote", "stack", "skip"}
  BY DEF NoWord
<1>7. WordHas(NoWord, <<>>, <<>>, "", <<>>)
  BY <1>6, Zenon DEF WordHas, NoWord
<1>8. QED
  BY <1>1, <1>2, <1>3, <1>5, <1>7, Zenon DEF Agree, TokenAt, WordAt

\* When they agree at the end, they return the same.
LEMMA EndsAgree ==
    ASSUME NEW t, NEW w, Agree(t, w)
    PROVE  EndWord(w).words = Flush(t).tokens
<1>1. PICK words, word : \E d \in Places :
          TokenAt(t, words, word, d) /\ WordAt(w, words, word, d)
  BY Zenon DEF Agree
<1>2. PICK d \in Places : TokenAt(t, words, word, d) /\ WordAt(w, words, word, d)
  BY <1>1, Zenon
<1>3. TokenHas(Flush(t), Ended(words, word), <<>>, d, Depth(d))
  BY <1>2, TokenUpdates, Zenon DEF TokenAt
<1>4. WordHas(EndWord(w), Ended(words, word), <<>>, Quote(d), Stack(d))
  BY <1>2, WordUpdates, Zenon DEF WordAt
<1>5. QED
  BY <1>3, <1>4, Zenon DEF TokenHas, WordHas

\* A text without a character has it nowhere.
LEMMA HasNone ==
    ASSUME NEW S, NEW s \in Seq(S), NEW ch, ~ Has(s, <<ch>>), NEW i \in 1 .. Len(s)
    PROVE  s[i] # ch
BY StartsWithOne, Zenon DEF Has

(* As long as nothing is nested or escaped, the words are the tokens.      *)
LEMMA TokensAreWords ==
    ASSUME NEW s \in Seq(STRING), Tokenizes(s), Simple(s), ~ Has(s, Opening),
           ~ Has(s, <<"\\">>), ~ Has(s, <<"\t">>)
    PROVE  ParseBody(s) = Tokenize(s)
<1>1. Len(s) \in Nat
  OBVIOUS
<1>2. \A i \in 1 .. Len(s) : s[i] # "\\" /\ s[i] # "(" /\ s[i] # "\t"
  BY HasNone, Zenon DEF Simple
<1>3. \A i \in 1 .. Len(s) : ~ StartsAt(s, i, Opening)
  BY Zenon DEF Has
<1>4. PICK f : Tokenizing(f, s, Len(s)) /\ Scan(s) = f[Len(s)]
  BY <1>1, ScanSteps, Zenon
<1>5. PICK g : Reading(g, s, Len(s)) /\ ParseBody(s) = EndWord(g[Len(s)]).words
  BY <1>1, ParseSteps, Zenon
<1> DEFINE M == {i \in Nat : i <= Len(s) => Agree(f[i], g[i])}
<1>6. 0 \in M
  BY <1>4, <1>5, StartsAgree, Zenon DEF Tokenizing, Reading
<1>7. ASSUME NEW n \in Nat, n \in M PROVE n + 1 \in M
  <2> SUFFICES ASSUME n + 1 <= Len(s) PROVE Agree(f[n + 1], g[n + 1])
    BY <1>7
  <2> DEFINE i == n + 1
  <2>1. n <= Len(s)
    BY <1>1
  <2>2. Agree(f[n], g[n])
    BY <1>7, <2>1, Zenon
  <2>3. i \in 1 .. Len(s) /\ i - 1 = n /\ n \in 0 .. Len(s)
    BY <1>1
  <2> HIDE DEF i
  <2>4. f[i] = Token(f[n], s[i], i = Len(s))
    BY <1>4, <2>3, Zenon DEF Tokenizing
  <2>5. g[i] = ReadWord(g[n], s, i)
    BY <1>5, <2>3, Zenon DEF Reading
  <2>6. Scan(SubSeq(s, 1, i - 1)) = f[n]
    BY <1>2, <1>4, <2>3, ScanPrefix, Zenon
  <2>7. f[n].in \in Brackets => s[i] \notin Delimiters
    BY <2>3, <2>6, Zenon DEF Simple, Brackets
  <2>8. s[i] \notin {"(", "\t", "\\"} /\ ~ StartsAt(s, i, Opening)
    BY <1>2, <1>3, <2>3, Zenon
  <2>9. Agree(Token(f[n], s[i], i = Len(s)), ReadWord(g[n], s, i))
    BY <2>2, <2>3, <2>7, <2>8, StepsAgree, Zenon
  <2>10. QED
    BY <2>4, <2>5, <2>9, Zenon DEF i
<1>8. Nat \subseteq M
  <2> HIDE DEF M
  <2> QED BY <1>6, <1>7, Induction
<1>9. Agree(f[Len(s)], g[Len(s)])
  BY <1>1, <1>8
<1>10. EndWord(g[Len(s)]).words = Flush(f[Len(s)]).tokens
  BY <1>9, EndsAgree, Zenon
<1>11. QED
  BY <1>4, <1>5, <1>10, Zenon DEF Tokenize

(* A text is written with characters.                                      *)
TextTypeOK == kind \in DOMAIN Pieces /\ text \in Seq(STRING)

LEMMA TextTyped == TextSpec => []TextTypeOK
<1>1. TextInit => TextTypeOK
  BY DEF TextInit, TextTypeOK
<1>2. TextTypeOK /\ [TextNext]_textVars => TextTypeOK'
  <2> SUFFICES ASSUME TextTypeOK, [TextNext]_textVars PROVE TextTypeOK'
    OBVIOUS
  <2>1. CASE TextNext
    <3>1. PICK piece \in Pieces[kind] : Type(piece)
      BY <2>1 DEF TextNext
    <3>2. piece \in Seq(STRING)
      BY TextAssumption DEF TextTypeOK
    <3>3. QED
      BY <3>1, <3>2 DEF Type, TextTypeOK
  <2>2. CASE UNCHANGED textVars
    BY <2>2 DEF textVars, TextTypeOK
  <2>3. QED
    BY <2>1, <2>2
<1>3. QED
  BY <1>1, <1>2, PTL DEF TextSpec

(* What the help and the completion of SPORE take for the words of a line  *)
(* are the tokens that its parser sees, for every text in which nothing is *)
(* nested or escaped (parseBody of meta.go, tokenize of parse.go).         *)
THEOREM WordsAsTokensCorrect == TextSpec => []WordsAsTokens
<1>1. TextTypeOK => WordsAsTokens
  BY TokensAreWords, Zenon DEF TextTypeOK, WordsAsTokens
<1>2. QED
  BY <1>1, TextTyped, PTL

\* Induction up to a number.
LEMMA Along ==
    ASSUME NEW n \in Nat, NEW M, 0 \in M, \A i \in 1 .. n : i - 1 \in M => i \in M
    PROVE  0 .. n \subseteq M
<1> DEFINE N == {i \in Nat : i <= n => i \in M}
<1>1. 0 \in N
  OBVIOUS
<1>2. ASSUME NEW i \in Nat, i \in N PROVE i + 1 \in N
  <2> SUFFICES ASSUME i + 1 <= n PROVE i + 1 \in M
    OBVIOUS
  <2>1. i + 1 \in 1 .. n /\ (i + 1) - 1 = i /\ i \in M
    BY <1>2
  <2>2. QED
    BY <2>1
<1>3. Nat \subseteq N
  <2> HIDE DEF N
  <2> QED BY <1>1, <1>2, Induction
<1>4. QED
  BY <1>3

\* Two functions that take the same steps are the same.
TakesSameSteps(f, g, n) ==
    f[0] = g[0] /\ \A i \in 1 .. n : f[i - 1] = g[i - 1] => f[i] = g[i]
Same(f, g, n) == \A i \in 0 .. n : f[i] = g[i]
LEMMA SameSteps ==
    ASSUME NEW n \in Nat, NEW f, NEW g, TakesSameSteps(f, g, n)
    PROVE  Same(f, g, n)
<1> DEFINE M == {i \in Nat : f[i] = g[i]}
<1>1. \A i \in 1 .. n : i - 1 \in M => i \in M
  BY DEF TakesSameSteps
<1>2. 0 \in M
  BY DEF TakesSameSteps
<1>3. 0 .. n \subseteq M
  <2> HIDE DEF M
  <2> QED BY <1>1, <1>2, Along
<1>4. QED
  BY <1>3 DEF Same

\* Induction over sequences.
LEMMA SeqInduction ==
    ASSUME NEW S, NEW M, <<>> \in M,
           \A s \in Seq(S) : \A c \in S : s \in M => Append(s, c) \in M
    PROVE  Seq(S) \subseteq M
<1> DEFINE N == {n \in Nat : \A s \in Seq(S) : Len(s) = n => s \in M}
<1>1. 0 \in N
  <2>1. \A s \in Seq(S) : Len(s) = 0 => s = <<>>
    OBVIOUS
  <2>2. QED
    BY <2>1
<1>2. ASSUME NEW n \in Nat, n \in N PROVE n + 1 \in N
  <2> SUFFICES ASSUME NEW s \in Seq(S), Len(s) = n + 1 PROVE s \in M
    OBVIOUS
  <2> DEFINE r == SubSeq(s, 1, n)
  <2>1. r \in Seq(S) /\ Len(r) = n /\ s[n + 1] \in S
    OBVIOUS
  <2>2. s = Append(r, s[n + 1])
    OBVIOUS
  <2>3. r \in M
    BY <1>2, <2>1
  <2> HIDE DEF r
  <2>4. QED
    BY <2>1, <2>2, <2>3
<1>3. Nat \subseteq N
  <2> HIDE DEF N
  <2> QED BY <1>1, <1>2, Induction
<1>4. QED
  BY <1>3

\* A function that takes the steps of F exists.
Follows(f, Q, b, n, F) ==
    /\ f \in [0 .. n -> Q]
    /\ f[0] = b
    /\ \A i \in 1 .. n : f[i] = F[<<f[i - 1], i>>]
LEMMA Recursion ==
    ASSUME NEW Q, NEW b \in Q, NEW n \in Nat, NEW F \in [Q \X (1 .. n) -> Q]
    PROVE  \E f : Follows(f, Q, b, n, F)
<1> DEFINE Goes(f, m) == f[0] = b /\ \A i \in 1 .. m : f[i] = F[<<f[i - 1], i>>]
           M == {m \in Nat : m <= n => \E f \in [0 .. m -> Q] : Goes(f, m)}
<1>1. 0 \in M
  <2>1. [i \in 0 .. 0 |-> b] \in [0 .. 0 -> Q] /\ Goes([i \in 0 .. 0 |-> b], 0)
    OBVIOUS
  <2>2. QED
    BY <2>1
<1>2. ASSUME NEW i \in 1 .. n, i - 1 \in M PROVE i \in M
  <2>1. i - 1 <= n /\ i \in Nat /\ i - 1 \in Nat
    OBVIOUS
  <2>2. PICK f \in [0 .. i - 1 -> Q] : Goes(f, i - 1)
    BY <1>2, <2>1
  <2> DEFINE x == F[<<f[i - 1], i>>]
             h == [j \in 0 .. i |-> IF j = i THEN x ELSE f[j]]
  <2>3. x \in Q
    BY <2>1
  <2>4. h \in [0 .. i -> Q]
    <3> HIDE DEF x
    <3> QED BY <2>1, <2>3
  <2>5. h[0] = b
    BY <2>1, <2>2
  <2>6. ASSUME NEW j \in 1 .. i PROVE h[j] = F[<<h[j - 1], j>>]
    <3>1. h[j - 1] = f[j - 1]
      BY <2>1
    <3>2. CASE j = i
      <4>1. h[j] = x
        BY <3>2
      <4> HIDE DEF h
      <4>2. QED
        BY <3>1, <3>2, <4>1, Zenon
    <3>3. CASE j # i
      <4>1. j \in 1 .. i - 1 /\ h[j] = f[j]
        BY <2>1, <3>3
      <4>2. QED
        BY <4>1, <3>1, <2>2
    <3>4. QED
      BY <3>2, <3>3
  <2> HIDE DEF h
  <2>7. Goes(h, i)
    BY <2>5, <2>6
  <2>8. QED
    BY <2>1, <2>4, <2>7
<1>3. 0 .. n \subseteq M
  <2> HIDE DEF M
  <2> QED BY <1>1, <1>2, Along
<1>4. n \in M /\ n <= n
  <2> HIDE DEF M
  <2> QED BY <1>3
<1>5. QED
  BY <1>4, Zenon DEF Follows

\* Extending a function by one place.
Extends(h, f, n, x) == h[n + 1] = x /\ \A i \in 0 .. n : h[i] = f[i]
LEMMA OneMore == ASSUME NEW n \in Nat, NEW f, NEW x PROVE \E h : Extends(h, f, n, x)
<1> DEFINE h == [i \in 0 .. n + 1 |-> IF i = n + 1 THEN x ELSE f[i]]
<1>1. h[n + 1] = x /\ \A i \in 0 .. n : h[i] = f[i]
  OBVIOUS
<1>2. QED
  BY <1>1, Zenon DEF Extends

\* The places of a sequence with one element more.
OneLonger(n, t, s, ch) ==
    /\ n \in Nat /\ Len(t) = n + 1 /\ t[n + 1] = ch /\ \A i \in 1 .. n : t[i] = s[i]
    /\ \A i \in 1 .. n + 1 : i = n + 1 \/ i \in 1 .. n
    /\ \A i \in 0 .. n + 1 : i = n + 1 \/ i \in 0 .. n
    /\ \A i \in 1 .. n : i - 1 \in 0 .. n /\ i \in 0 .. n
    /\ (n + 1) - 1 = n /\ n \in 0 .. n /\ 0 \in 0 .. n
LEMMA AppendedPlaces ==
    ASSUME NEW S, NEW s \in Seq(S), NEW ch \in S
    PROVE  OneLonger(Len(s), Append(s, ch), s, ch)
<1> DEFINE n == Len(s)
           t == Append(s, ch)
<1>1. n \in Nat /\ Len(t) = n + 1 /\ t[n + 1] = ch /\ \A i \in 1 .. n : t[i] = s[i]
  OBVIOUS
<1> HIDE DEF n, t
<1>2. /\ \A i \in 1 .. n + 1 : i = n + 1 \/ i \in 1 .. n
      /\ \A i \in 0 .. n + 1 : i = n + 1 \/ i \in 0 .. n
      /\ \A i \in 1 .. n : i - 1 \in 0 .. n /\ i \in 0 .. n
      /\ (n + 1) - 1 = n /\ n \in 0 .. n /\ 0 \in 0 .. n
  BY <1>1
<1>3. QED
  BY <1>1, <1>2, Zenon DEF OneLonger, n, t

\* Chosen, character by character.
Choose(r, c, yes) == IF yes THEN Append(r, c) ELSE r
Choosing(f, S, s, keep) ==
    /\ f \in [0 .. Len(s) -> Seq(S)]
    /\ f[0] = <<>>
    /\ \A i \in 1 .. Len(s) : f[i] = Choose(f[i - 1], s[i], keep[i])
LEMMA ChosenSteps ==
    ASSUME NEW S, NEW s \in Seq(S), NEW keep
    PROVE  \E f : Choosing(f, S, s, keep) /\ Chosen(s, keep) = f[Len(s)]
<1> DEFINE Step(q, i) == Choose(q, s[i], keep[i])
           F == [x \in Seq(S) \X (1 .. Len(s)) |-> Step(x[1], x[2])]
           Fits(f) == f = [i \in 0 .. Len(s) |-> IF i = 0 THEN <<>> ELSE Step(f[i - 1], i)]
           h == CHOOSE f : Fits(f)
<1>1. Len(s) \in Nat /\ <<>> \in Seq(S)
  OBVIOUS
<1>2. \A q \in Seq(S), i \in 1 .. Len(s) : Step(q, i) \in Seq(S)
  BY DEF Choose
<1> HIDE DEF Step
<1>3. F \in [Seq(S) \X (1 .. Len(s)) -> Seq(S)]
  BY <1>2
<1>4. PICK g : Follows(g, Seq(S), <<>>, Len(s), F)
  <2> HIDE DEF F
  <2> QED BY <1>1, <1>3, Recursion, Zenon
<1>5. /\ g \in [0 .. Len(s) -> Seq(S)] /\ g[0] = <<>>
      /\ \A i \in 1 .. Len(s) : g[i] = Step(g[i - 1], i)
  <2>1. /\ g \in [0 .. Len(s) -> Seq(S)] /\ g[0] = <<>>
        /\ \A i \in 1 .. Len(s) : g[i] = F[<<g[i - 1], i>>]
    <3> HIDE DEF F
    <3> QED BY <1>4, Zenon DEF Follows
  <2>2. \A q \in Seq(S), i \in 1 .. Len(s) : F[<<q, i>>] = Step(q, i)
    OBVIOUS
  <2>3. \A i \in 1 .. Len(s) : i - 1 \in 0 .. Len(s)
    BY <1>1
  <2>4. \A i \in 1 .. Len(s) : g[i - 1] \in Seq(S)
    BY <2>1, <2>3
  <2> HIDE DEF F
  <2>5. QED
    BY <2>1, <2>2, <2>4, Zenon
<1>6. Fits(g)
  BY <1>5
<1>7. Fits(h)
  <2> HIDE DEF Fits
  <2> QED BY <1>6, Zenon
<1>8. Chosen(s, keep) = h[Len(s)]
  BY Zenon DEF Chosen, Step, Choose
<1> HIDE DEF h
<1>9. h[0] = <<>> /\ \A i \in 1 .. Len(s) : h[i] = Step(h[i - 1], i)
  BY <1>1, <1>7
<1>10. Same(h, g, Len(s))
  <2>1. TakesSameSteps(h, g, Len(s))
    BY <1>5, <1>9, Zenon DEF TakesSameSteps
  <2>2. QED
    BY <1>1, <2>1, SameSteps, Zenon
<1>11. Len(s) \in 0 .. Len(s)
  BY <1>1
<1>12. Chosen(s, keep) = g[Len(s)]
  BY <1>8, <1>10, <1>11, Zenon DEF Same
<1>13. Choosing(g, S, s, keep)
  BY <1>5, Zenon DEF Choosing, Step
<1>14. QED
  BY <1>12, <1>13, Zenon

ChosenStep(s, c, keep, more) ==
    Chosen(Append(s, c), more) = Choose(Chosen(s, keep), c, more[Len(s) + 1])
LEMMA ChosenNext ==
    ASSUME NEW S, NEW s \in Seq(S), NEW c \in S, NEW keep, NEW more,
           \A i \in 1 .. Len(s) : more[i] = keep[i]
    PROVE  ChosenStep(s, c, keep, more)
<1> DEFINE t == Append(s, c)
<1>1. /\ Len(s) \in Nat /\ t \in Seq(S) /\ Len(t) = Len(s) + 1 /\ t[Len(s) + 1] = c
      /\ \A i \in 1 .. Len(s) : t[i] = s[i]
  OBVIOUS
<1> HIDE DEF t
<1>2. PICK f : Choosing(f, S, s, keep) /\ Chosen(s, keep) = f[Len(s)]
  BY ChosenSteps, Zenon
<1>3. PICK g : Choosing(g, S, t, more) /\ Chosen(t, more) = g[Len(t)]
  BY <1>1, ChosenSteps, Zenon
<1>4. \A i \in 1 .. Len(s) : i \in 1 .. Len(t)
  BY <1>1
<1>5. f[0] = g[0]
  BY <1>2, <1>3, Zenon DEF Choosing
<1>6. ASSUME NEW i \in 1 .. Len(s), f[i - 1] = g[i - 1] PROVE f[i] = g[i]
  BY <1>1, <1>2, <1>3, <1>4, <1>6, Zenon DEF Choosing
<1>7. Same(f, g, Len(s))
  <2>1. TakesSameSteps(f, g, Len(s))
    BY <1>5, <1>6, Zenon DEF TakesSameSteps
  <2>2. Len(s) \in Nat
    OBVIOUS
  <2>3. QED
    BY <2>1, <2>2, SameSteps, Zenon
<1>8. Len(s) \in 0 .. Len(s) /\ Len(t) \in 1 .. Len(t) /\ Len(t) - 1 = Len(s)
  BY <1>1
<1>9. g[Len(t)] = Choose(g[Len(s)], c, more[Len(s) + 1])
  BY <1>1, <1>3, <1>8, Zenon DEF Choosing
<1>10. QED
  BY <1>2, <1>3, <1>7, <1>8, <1>9, Zenon DEF Same, t, ChosenStep

LEMMA ChosenType ==
    ASSUME NEW S, NEW s \in Seq(S), NEW keep
    PROVE  Chosen(s, keep) \in Seq(S)
<1>1. Len(s) \in Nat /\ Len(s) \in 0 .. Len(s)
  OBVIOUS
<1>2. PICK f : Choosing(f, S, s, keep) /\ Chosen(s, keep) = f[Len(s)]
  BY ChosenSteps, Zenon
<1>3. QED
  BY <1>1, <1>2 DEF Choosing

LEMMA ChosenEmpty == ASSUME NEW keep PROVE Chosen(<<>>, keep) = <<>>
<1>1. <<>> \in Seq({}) /\ Len(<<>>) = 0
  OBVIOUS
<1>2. PICK f : Choosing(f, {}, <<>>, keep) /\ Chosen(<<>>, keep) = f[Len(<<>>)]
  BY <1>1, ChosenSteps, Zenon
<1>3. QED
  BY <1>1, <1>2, Zenon DEF Choosing

Assoc(s, t, c) == Append(s \o t, c) = s \o Append(t, c)
LEMMA AppendConcat ==
    ASSUME NEW S, NEW s \in Seq(S), NEW t \in Seq(S), NEW c \in S
    PROVE  Assoc(s, t, c)
BY DEF Assoc

\* The solid characters of a text with one more, or with another behind it.
LEMMA DenseNext ==
    ASSUME NEW S, NEW s \in Seq(S), NEW c \in S
    PROVE  Dense(Append(s, c)) = Choose(Dense(s), c, c \notin Blank)
<1> DEFINE t == Append(s, c)
           keep == [i \in 1 .. Len(s) |-> s[i] \notin Blank]
           more == [i \in 1 .. Len(t) |-> t[i] \notin Blank]
<1>1. \A i \in 1 .. Len(s) : more[i] = keep[i]
  OBVIOUS
<1>2. more[Len(s) + 1] <=> c \notin Blank
  <2>1. Len(s) + 1 \in 1 .. Len(t) /\ t[Len(s) + 1] = c
    OBVIOUS
  <2> HIDE DEF t
  <2>2. QED
    BY <2>1, Zenon
<1>3. Dense(s) = Chosen(s, keep) /\ Dense(t) = Chosen(t, more)
  BY Zenon DEF Dense
<1> HIDE DEF keep, more
<1>4. Chosen(t, more) = Choose(Chosen(s, keep), c, more[Len(s) + 1])
  BY <1>1, ChosenNext, Zenon DEF ChosenStep
<1>5. QED
  BY <1>2, <1>3, <1>4, Zenon DEF Choose

LEMMA DenseType ==
    ASSUME NEW S, NEW s \in Seq(S)
    PROVE  Dense(s) \in Seq(S) /\ Dense(<<>>) = <<>>
BY ChosenType, ChosenEmpty, Zenon DEF Dense

LEMMA DenseConcat ==
    ASSUME NEW S, NEW s \in Seq(S), NEW t \in Seq(S)
    PROVE  Dense(s \o t) = Dense(s) \o Dense(t)
<1> DEFINE M == {x \in Seq(S) : Dense(s \o x) = Dense(s) \o Dense(x)}
<1>1. <<>> \in M
  <2>1. s \o <<>> = s /\ Dense(s) \o <<>> = Dense(s) /\ <<>> \in Seq(S)
    BY DenseType
  <2>2. QED
    BY <2>1, DenseType, Zenon
<1>2. ASSUME NEW x \in Seq(S), NEW c \in S, x \in M PROVE Append(x, c) \in M
  <2>1. s \o Append(x, c) = Append(s \o x, c) /\ s \o x \in Seq(S) /\ Append(x, c) \in Seq(S)
    OBVIOUS
  <2>2. Dense(Append(s \o x, c)) = Choose(Dense(s) \o Dense(x), c, c \notin Blank)
    BY <1>2, <2>1, DenseNext, Zenon
  <2>3. Dense(Append(x, c)) = Choose(Dense(x), c, c \notin Blank)
    BY DenseNext, Zenon
  <2>4. Dense(s) \in Seq(S) /\ Dense(x) \in Seq(S)
    BY DenseType
  <2>5. Append(Dense(s) \o Dense(x), c) = Dense(s) \o Append(Dense(x), c)
    <3>1. Assoc(Dense(s), Dense(x), c)
      BY <2>4, AppendConcat, Zenon
    <3>2. QED
      BY <3>1, Zenon DEF Assoc
  <2>6. QED
    BY <2>1, <2>2, <2>3, <2>5, Zenon DEF Choose
<1>3. Seq(S) \subseteq M
  <2> HIDE DEF M
  <2> QED BY <1>1, <1>2, SeqInduction, Zenon
<1>4. QED
  BY <1>3

-----------------------------------------------------------------------------
(* TrimSpace takes nothing but blanks, from both ends.                     *)

\* A set of numbers up to n has a least and a greatest.
LEMMA Extremes ==
    ASSUME NEW n \in Nat, NEW S, S \subseteq 1 .. n, S # {}
    PROVE  /\ Least(S) \in S /\ Greatest(S) \in S
           /\ \A j \in S : Least(S) <= j /\ j <= Greatest(S)
<1> DEFINE L(i) == \A j \in S : i <= j
           G(i) == \A j \in S : i >= j
<1>1. \E i \in S : L(i)
  <2> SUFFICES ASSUME \A i \in S : ~ L(i) PROVE FALSE
    OBVIOUS
  <2> DEFINE M == {m \in Nat : \A j \in S : j > m}
  <2>1. 0 \in M
    OBVIOUS
  <2>2. ASSUME NEW i \in 1 .. n, i - 1 \in M PROVE i \in M
    <3>1. \A j \in S : j >= i
      BY <2>2
    <3>2. i \notin S
      BY <3>1
    <3>3. QED
      BY <3>1, <3>2
  <2>3. 0 .. n \subseteq M
    <3> HIDE DEF M, L
    <3> QED BY <2>1, <2>2, Along
  <2>4. n \in M
    <3> HIDE DEF M
    <3> QED BY <2>3
  <2>5. PICK j \in S : TRUE
    OBVIOUS
  <2>6. j \in 1 .. n
    BY <2>5
  <2>7. QED
    BY <2>4, <2>6
<1>2. \E i \in S : G(i)
  <2> SUFFICES ASSUME \A i \in S : ~ G(i) PROVE FALSE
    OBVIOUS
  <2> DEFINE M == {m \in Nat : \A j \in S : j <= n - m}
  <2>1. 0 \in M
    OBVIOUS
  <2>2. ASSUME NEW i \in 1 .. n, i - 1 \in M PROVE i \in M
    <3>1. \A j \in S : j <= (n - i) + 1
      BY <2>2
    <3>2. (n - i) + 1 \notin S
      BY <3>1
    <3>3. QED
      BY <3>1, <3>2
  <2>3. 0 .. n \subseteq M
    <3> HIDE DEF M, G
    <3> QED BY <2>1, <2>2, Along
  <2>4. n \in M
    <3> HIDE DEF M
    <3> QED BY <2>3
  <2>5. PICK j \in S : TRUE
    OBVIOUS
  <2>6. j \in 1 .. n
    BY <2>5
  <2>7. QED
    BY <2>4, <2>6
<1> HIDE DEF L, G
<1>3. Least(S) = CHOOSE i \in S : L(i)
  BY Zenon DEF Least, L
<1>4. Greatest(S) = CHOOSE i \in S : G(i)
  BY Zenon DEF Greatest, G
<1>5. Least(S) \in S /\ L(Least(S)) /\ Greatest(S) \in S /\ G(Greatest(S))
  BY <1>1, <1>2, <1>3, <1>4, Zenon
<1>6. QED
  BY <1>5 DEF L, G

\* A text is what it begins with and the rest.
Joined(s, t, u) == s = t \o u
LEMMA Cuts ==
    ASSUME NEW S, NEW s \in Seq(S), NEW n \in 0 .. Len(s)
    PROVE  Joined(s, SubSeq(s, 1, n), SubSeq(s, n + 1, Len(s)))
<1> DEFINE t == SubSeq(s, 1, n)
           u == SubSeq(s, n + 1, Len(s))
<1>1. /\ t \in Seq(S) /\ Len(t) = n /\ \A i \in 1 .. n : t[i] = s[i]
      /\ u \in Seq(S) /\ Len(u) = Len(s) - n /\ \A i \in 1 .. Len(u) : u[i] = s[n + i]
  OBVIOUS
<1> HIDE DEF t, u
<1>2. \A i \in 1 .. Len(s) : (t \o u)[i] = s[i]
  <2> SUFFICES ASSUME NEW i \in 1 .. Len(s) PROVE (t \o u)[i] = s[i]
    OBVIOUS
  <2>1. CASE i <= n
    BY <1>1, <2>1
  <2>2. CASE i > n
    <3>1. i - n \in 1 .. Len(u) /\ n + (i - n) = i
      BY <1>1, <2>2
    <3>2. (t \o u)[i] = u[i - n]
      BY <1>1, <2>2
    <3>3. QED
      BY <1>1, <3>1, <3>2
  <2>3. i <= n \/ i > n
    OBVIOUS
  <2>4. QED
    BY <2>1, <2>2, <2>3, Zenon
<1>3. t \o u \in Seq(S) /\ Len(t \o u) = Len(s)
  BY <1>1
<1>4. t \o u = s
  BY <1>2, <1>3, SeqEqual
<1>5. QED
  BY <1>4 DEF Joined, t, u

\* What TrimSpace(s) lies between, when it is t.
Between(s, a, t, b) ==
    /\ s = a \o t \o b
    /\ \A i \in 1 .. Len(a) : a[i] \in Blank
    /\ \A i \in 1 .. Len(b) : b[i] \in Blank
LEMMA TrimSplits ==
    ASSUME NEW S, NEW s \in Seq(S)
    PROVE  /\ TrimSpace(s) \in Seq(S)
           /\ \E a, b \in Seq(S) : Between(s, a, TrimSpace(s), b)
<1>1. CASE Solid(s) = {}
  <2>1. TrimSpace(s) = <<>>
    BY <1>1 DEF TrimSpace, TrimBeside
  <2>2. \A i \in 1 .. Len(s) : s[i] \in Blank
    BY <1>1 DEF Solid
  <2>3. s = s \o <<>> \o <<>> /\ <<>> \in Seq(S) /\ Len(<<>>) = 0
    OBVIOUS
  <2>4. \A i \in 1 .. 0 : FALSE
    OBVIOUS
  <2>5. Between(s, s, <<>>, <<>>)
    BY <2>2, <2>3, <2>4, Zenon DEF Between
  <2>6. QED
    BY <2>1, <2>3, <2>5, Zenon
<1>2. CASE Solid(s) # {}
  <2> DEFINE l == Least(Solid(s))
             g == Greatest(Solid(s))
             a == SubSeq(s, 1, l - 1)
             t == SubSeq(s, l, g)
             b == SubSeq(s, g + 1, Len(s))
  <2>1. Solid(s) \subseteq 1 .. Len(s) /\ Len(s) \in Nat
    BY DEF Solid
  <2>2. /\ l \in Solid(s) /\ g \in Solid(s)
        /\ \A j \in Solid(s) : l <= j /\ j <= g
    BY <1>2, <2>1, Extremes, Zenon
  <2>3. TrimSpace(s) = t
    BY <1>2, Zenon DEF TrimSpace, TrimBeside
  <2> HIDE DEF l, g
  <2>4. l \in 1 .. Len(s) /\ g \in 1 .. Len(s) /\ l <= g
    BY <2>1, <2>2
  <2>5. a \in Seq(S) /\ t \in Seq(S) /\ b \in Seq(S) /\ s = a \o t \o b
    <3>1. a \in Seq(S) /\ t \in Seq(S) /\ b \in Seq(S)
      BY <2>4
    <3>2. a \o t = SubSeq(s, 1, g)
      BY <2>4
    <3>3. g \in 0 .. Len(s)
      BY <2>4
    <3>4. s = SubSeq(s, 1, g) \o b
      BY <3>3, Cuts, Zenon DEF Joined
    <3>5. QED
      BY <3>1, <3>2, <3>4, Zenon
  <2>6. \A i \in 1 .. Len(s) : i < l \/ i > g => s[i] \in Blank
    BY <2>2, <2>4 DEF Solid
  <2>7. \A i \in 1 .. Len(a) : a[i] = s[i] /\ i < l /\ i \in 1 .. Len(s)
    BY <2>4
  <2>8. \A i \in 1 .. Len(b) : b[i] = s[g + i] /\ g + i > g /\ g + i \in 1 .. Len(s)
    BY <2>4
  <2> HIDE DEF a, b, t
  <2>9. Between(s, a, t, b)
    BY <2>5, <2>6, <2>7, <2>8, Zenon DEF Between
  <2>10. QED
    BY <2>3, <2>5, <2>9, Zenon
<1>3. QED
  BY <1>1, <1>2, Zenon

\* Blanks are not solid.
LEMMA DenseBlank ==
    ASSUME NEW S, NEW s \in Seq(S), \A i \in 1 .. Len(s) : s[i] \in Blank
    PROVE  Dense(s) = <<>>
<1> DEFINE keep == [i \in 1 .. Len(s) |-> s[i] \notin Blank]
<1>1. PICK f : Choosing(f, S, s, keep) /\ Chosen(s, keep) = f[Len(s)]
  <2> HIDE DEF keep
  <2> QED BY ChosenSteps, Zenon
<1>2. \A i \in 1 .. Len(s) : ~ keep[i]
  OBVIOUS
<1>3. Dense(s) = Chosen(s, keep)
  BY Zenon DEF Dense
<1> HIDE DEF keep
<1> DEFINE N == {i \in Nat : f[i] = <<>>}
<1>4. 0 \in N
  BY <1>1 DEF Choosing
<1>5. \A i \in 1 .. Len(s) : f[i - 1] = <<>> => f[i] = <<>>
  BY <1>1, <1>2, Zenon DEF Choosing, Choose
<1>6. \A i \in 1 .. Len(s) : i - 1 \in N => i \in N
  BY <1>5
<1>7. 0 .. Len(s) \subseteq N
  <2> HIDE DEF N
  <2>1. Len(s) \in Nat
    OBVIOUS
  <2> QED BY <1>4, <1>6, <2>1, Along, Zenon
<1>8. Len(s) \in N
  <2> HIDE DEF N
  <2>1. Len(s) \in 0 .. Len(s)
    OBVIOUS
  <2> QED BY <1>7, <2>1, Zenon
<1>9. QED
  BY <1>1, <1>3, <1>8

LEMMA DenseTrim ==
    ASSUME NEW S, NEW s \in Seq(S)
    PROVE  Dense(TrimSpace(s)) = Dense(s)
<1>1. TrimSpace(s) \in Seq(S)
  BY TrimSplits, Zenon
<1>2. PICK a \in Seq(S), b \in Seq(S) : Between(s, a, TrimSpace(s), b)
  BY TrimSplits, Zenon
<1> DEFINE t == TrimSpace(s)
<1> HIDE DEF t
<1>3. t \in Seq(S) /\ s = a \o t \o b /\ a \o t \in Seq(S)
  BY <1>1, <1>2 DEF Between, t
<1>4. Dense(a) = <<>> /\ Dense(b) = <<>>
  BY <1>2, DenseBlank, Zenon DEF Between
<1>5. /\ Dense((a \o t) \o b) = Dense(a \o t) \o Dense(b)
      /\ Dense(a \o t) = Dense(a) \o Dense(t)
  <2>1. Dense((a \o t) \o b) = Dense(a \o t) \o Dense(b)
    BY <1>3, DenseConcat, Zenon
  <2>2. Dense(a \o t) = Dense(a) \o Dense(t)
    BY <1>3, DenseConcat, Zenon
  <2>3. QED
    BY <2>1, <2>2
<1>6. Dense(t) \in Seq(S)
  BY <1>3, DenseType, Zenon
<1>7. (<<>> \o Dense(t)) \o <<>> = Dense(t)
  <2> DEFINE d == Dense(t)
  <2> HIDE DEF d
  <2>1. d \in Seq(S)
    BY <1>6 DEF d
  <2>2. (<<>> \o d) \o <<>> = d
    BY <2>1
  <2>3. QED
    BY <2>2, Zenon DEF d
<1>8. QED
  BY <1>3, <1>4, <1>5, <1>7, Zenon DEF t

-----------------------------------------------------------------------------
(* FlattenSeq of the community modules, sequence by sequence.              *)

Flattening(f, S, seqs) ==
    /\ f \in [0 .. Len(seqs) -> Seq(S)]
    /\ f[0] = <<>>
    /\ \A i \in 1 .. Len(seqs) : f[i] = f[i - 1] \o seqs[i]
LEMMA FlattenSteps ==
    ASSUME NEW S, NEW seqs \in Seq(Seq(S))
    PROVE  \E f : Flattening(f, S, seqs) /\ FlattenSeq(seqs) = f[Len(seqs)]
<1> DEFINE F == [x \in Seq(S) \X (1 .. Len(seqs)) |-> x[1] \o seqs[x[2]]]
<1>1. Len(seqs) \in Nat /\ <<>> \in Seq(S)
  OBVIOUS
<1>2. \A q \in Seq(S), i \in 1 .. Len(seqs) : q \o seqs[i] \in Seq(S)
  OBVIOUS
<1>3. F \in [Seq(S) \X (1 .. Len(seqs)) -> Seq(S)]
  BY <1>2
<1>4. PICK g : Follows(g, Seq(S), <<>>, Len(seqs), F)
  <2> HIDE DEF F
  <2> QED BY <1>1, <1>3, Recursion, Zenon
<1>5. Flattening(g, S, seqs)
  <2>1. /\ g \in [0 .. Len(seqs) -> Seq(S)] /\ g[0] = <<>>
        /\ \A i \in 1 .. Len(seqs) : g[i] = F[<<g[i - 1], i>>]
    <3> HIDE DEF F
    <3> QED BY <1>4, Zenon DEF Follows
  <2>2. \A q \in Seq(S), i \in 1 .. Len(seqs) : F[<<q, i>>] = q \o seqs[i]
    OBVIOUS
  <2>3. \A i \in 1 .. Len(seqs) : i - 1 \in 0 .. Len(seqs)
    BY <1>1
  <2>4. \A i \in 1 .. Len(seqs) : g[i - 1] \in Seq(S)
    BY <2>1, <2>3
  <2> HIDE DEF F
  <2>5. QED
    BY <2>1, <2>2, <2>4, Zenon DEF Flattening
<1>6. CASE Len(seqs) = 0
  <2>1. FlattenSeq(seqs) = seqs /\ seqs = <<>>
    BY <1>6 DEF FlattenSeq
  <2>2. FlattenSeq(seqs) = g[Len(seqs)]
    BY <1>5, <1>6, <2>1, Zenon DEF Flattening
  <2>3. QED
    BY <1>5, <2>2, Zenon
<1>7. CASE Len(seqs) # 0
  <2> DEFINE Fits(f) == f = [i \in 1 .. Len(seqs) |-> IF i = 1 THEN seqs[i] ELSE f[i - 1] \o seqs[i]]
             h == CHOOSE f : Fits(f)
             e == [i \in 1 .. Len(seqs) |-> g[i]]
  <2>1. /\ g \in [0 .. Len(seqs) -> Seq(S)] /\ g[0] = <<>>
        /\ \A i \in 1 .. Len(seqs) : g[i] = g[i - 1] \o seqs[i]
    BY <1>5, Zenon DEF Flattening
  <2>2. \A i \in 1 .. Len(seqs) : e[i] = IF i = 1 THEN seqs[i] ELSE e[i - 1] \o seqs[i]
    <3> SUFFICES ASSUME NEW i \in 1 .. Len(seqs)
                 PROVE  e[i] = IF i = 1 THEN seqs[i] ELSE e[i - 1] \o seqs[i]
      OBVIOUS
    <3>1. e[i] = g[i - 1] \o seqs[i]
      BY <2>1
    <3>2. CASE i = 1
      <4>1. g[i - 1] = <<>>
        BY <2>1, <3>2
      <4>2. seqs[i] \in Seq(S)
        OBVIOUS
      <4>3. <<>> \o seqs[i] = seqs[i]
        BY <4>2
      <4>4. QED
        BY <3>1, <3>2, <4>1, <4>3, Zenon
    <3>3. CASE i # 1
      <4>1. i - 1 \in 1 .. Len(seqs)
        BY <1>1, <3>3
      <4>2. e[i - 1] = g[i - 1]
        BY <4>1
      <4> HIDE DEF e
      <4>3. QED
        BY <3>1, <3>3, <4>2, Zenon
    <3>4. QED
      BY <3>2, <3>3
  <2>3. Fits(e)
    <3> DEFINE d(i) == IF i = 1 THEN seqs[i] ELSE e[i - 1] \o seqs[i]
    <3>1. \A i \in 1 .. Len(seqs) : e[i] = d(i)
      BY <2>2, Zenon
    <3>2. e = [i \in 1 .. Len(seqs) |-> e[i]]
      OBVIOUS
    <3> HIDE DEF e, d
    <3>3. e = [i \in 1 .. Len(seqs) |-> d(i)]
      BY <3>1, <3>2
    <3>4. QED
      BY <3>3, Zenon DEF d
  <2>4. Fits(h)
    <3> HIDE DEF Fits
    <3> QED BY <2>3, Zenon
  <2>5. FlattenSeq(seqs) = h[Len(seqs)]
    BY <1>7, Zenon DEF FlattenSeq
  <2> HIDE DEF h
  <2>6. \A i \in 1 .. Len(seqs) : h[i] = IF i = 1 THEN seqs[i] ELSE h[i - 1] \o seqs[i]
    <3> DEFINE d(i) == IF i = 1 THEN seqs[i] ELSE h[i - 1] \o seqs[i]
    <3>1. h = [i \in 1 .. Len(seqs) |-> d(i)]
      BY <2>4, Zenon
    <3> HIDE DEF d
    <3>2. \A i \in 1 .. Len(seqs) : h[i] = d(i)
      BY <3>1
    <3>3. QED
      BY <3>2, Zenon DEF d
  <2> DEFINE N == {i \in Nat : i = 0 \/ h[i] = e[i]}
  <2>7. 0 \in N
    OBVIOUS
  <2>8. ASSUME NEW i \in 1 .. Len(seqs), i - 1 \in N PROVE i \in N
    <3> HIDE DEF e
    <3>1. CASE i = 1
      <4>1. h[i] = e[i]
        BY <2>2, <2>6, <3>1, Zenon
      <4>2. QED
        BY <4>1
    <3>2. CASE i # 1
      <4>1. h[i - 1] = e[i - 1]
        BY <2>8, <3>2
      <4>2. h[i] = e[i]
        BY <2>2, <2>6, <3>2, <4>1, Zenon
      <4>3. QED
        BY <4>2
    <3>3. QED
      BY <3>1, <3>2
  <2>9. 0 .. Len(seqs) \subseteq N
    <3> HIDE DEF N
    <3> QED BY <1>1, <2>7, <2>8, Along
  <2>10. h[Len(seqs)] = e[Len(seqs)] /\ e[Len(seqs)] = g[Len(seqs)]
    <3>1. Len(seqs) \in 0 .. Len(seqs) /\ Len(seqs) \in 1 .. Len(seqs)
      BY <1>1, <1>7
    <3>2. e[Len(seqs)] = g[Len(seqs)]
      BY <3>1
    <3> HIDE DEF e
    <3>3. QED
      BY <1>7, <2>9, <3>1, <3>2
  <2>11. FlattenSeq(seqs) = g[Len(seqs)]
    <3> HIDE DEF e
    <3> QED BY <2>5, <2>10, Zenon
  <2>12. QED
    BY <1>5, <2>11, Zenon
<1>8. QED
  BY <1>6, <1>7

FlatAppend(seqs, s) == FlattenSeq(Append(seqs, s)) = FlattenSeq(seqs) \o s
LEMMA FlattenNext ==
    ASSUME NEW S, NEW seqs \in Seq(Seq(S)), NEW s \in Seq(S)
    PROVE  FlatAppend(seqs, s)
<1> DEFINE more == Append(seqs, s)
<1>1. /\ Len(seqs) \in Nat /\ more \in Seq(Seq(S)) /\ Len(more) = Len(seqs) + 1
      /\ more[Len(seqs) + 1] = s
      /\ \A i \in 1 .. Len(seqs) : more[i] = seqs[i]
  OBVIOUS
<1> HIDE DEF more
<1>2. PICK f : Flattening(f, S, seqs) /\ FlattenSeq(seqs) = f[Len(seqs)]
  BY FlattenSteps, Zenon
<1>3. PICK g : Flattening(g, S, more) /\ FlattenSeq(more) = g[Len(more)]
  BY <1>1, FlattenSteps, Zenon
<1>4. \A i \in 1 .. Len(seqs) : i \in 1 .. Len(more)
  BY <1>1
<1>5. f[0] = g[0]
  BY <1>2, <1>3, Zenon DEF Flattening
<1>6. ASSUME NEW i \in 1 .. Len(seqs), f[i - 1] = g[i - 1] PROVE f[i] = g[i]
  BY <1>1, <1>2, <1>3, <1>4, <1>6, Zenon DEF Flattening
<1>7. Same(f, g, Len(seqs))
  <2>1. TakesSameSteps(f, g, Len(seqs))
    BY <1>5, <1>6, Zenon DEF TakesSameSteps
  <2>2. Len(seqs) \in Nat
    OBVIOUS
  <2>3. QED
    BY <2>1, <2>2, SameSteps, Zenon
<1>8. Len(seqs) \in 0 .. Len(seqs) /\ Len(more) \in 1 .. Len(more) /\ Len(more) - 1 = Len(seqs)
  BY <1>1
<1>9. g[Len(more)] = g[Len(seqs)] \o s
  BY <1>1, <1>3, <1>8, Zenon DEF Flattening
<1>10. QED
  BY <1>2, <1>3, <1>7, <1>8, <1>9, Zenon DEF Same, more, FlatAppend

LEMMA FlattenType ==
    ASSUME NEW S, NEW seqs \in Seq(Seq(S))
    PROVE  FlattenSeq(seqs) \in Seq(S) /\ FlattenSeq(<<>>) = <<>>
<1>1. Len(seqs) \in Nat /\ Len(seqs) \in 0 .. Len(seqs)
  OBVIOUS
<1>2. PICK f : Flattening(f, S, seqs) /\ FlattenSeq(seqs) = f[Len(seqs)]
  BY FlattenSteps, Zenon
<1>3. FlattenSeq(<<>>) = <<>>
  BY DEF FlattenSeq
<1>4. QED
  BY <1>1, <1>2, <1>3 DEF Flattening

-----------------------------------------------------------------------------
(* splitPipe, character by character: every character but a "|" between    *)
(* stages goes to the end of the stage that is being read.                 *)

Cutting(f, raw, n) ==
    /\ f = [i \in 0 .. n |-> f[i]]
    /\ f[0] = NoPart
    /\ \A i \in 1 .. n : f[i] = Split(f[i - 1], raw, i)

\* It goes from state to state, whatever it reads.
LEMMA SplitSteps ==
    ASSUME NEW raw, Len(raw) \in Nat
    PROVE  \E f : Cutting(f, raw, Len(raw)) /\ Splitting(raw) = f[Len(raw)]
<1> DEFINE M == {n \in Nat : \E f : Cutting(f, raw, n)}
<1>1. 0 \in M
  <2>1. Cutting([i \in 0 .. 0 |-> NoPart], raw, 0)
    BY DEF Cutting
  <2>2. QED
    BY <2>1
<1>2. ASSUME NEW n \in Nat, n \in M PROVE n + 1 \in M
  <2>1. PICK f : Cutting(f, raw, n)
    BY <1>2
  <2> DEFINE x == Split(f[n], raw, n + 1)
             h == [i \in 0 .. n + 1 |-> IF i = n + 1 THEN x ELSE f[i]]
  <2>2. h = [i \in 0 .. n + 1 |-> h[i]] /\ h[0] = NoPart
    BY <2>1 DEF Cutting
  <2>3. ASSUME NEW i \in 1 .. n + 1
        PROVE  h[i] = Split(h[i - 1], raw, i)
    <3>1. i - 1 \in 0 .. n + 1 /\ i - 1 # n + 1 /\ h[i - 1] = f[i - 1]
      OBVIOUS
    <3>2. CASE i = n + 1
      BY <3>1, <3>2
    <3>3. CASE i # n + 1
      <4>1. i \in 1 .. n /\ h[i] = f[i]
        BY <3>3
      <4>2. QED
        BY <4>1, <3>1, <2>1 DEF Cutting
    <3>4. QED
      BY <3>2, <3>3
  <2> HIDE DEF h
  <2>4. Cutting(h, raw, n + 1)
    BY <2>2, <2>3 DEF Cutting
  <2>5. QED
    BY <2>4
<1>3. Nat \subseteq M
  <2> HIDE DEF M
  <2> QED BY <1>1, <1>2, Induction
<1>4. PICK g : Cutting(g, raw, Len(raw))
  BY <1>3
<1> DEFINE Fits(f) == f = [i \in 0 .. Len(raw) |->
                          IF i = 0 THEN NoPart
                          ELSE Split(f[i - 1], raw, i)]
           h == CHOOSE f : Fits(f)
<1>5. Fits(g)
  <2> DEFINE e(i) == IF i = 0 THEN NoPart ELSE Split(g[i - 1], raw, i)
  <2> HIDE DEF Fits
  <2>1. /\ g = [i \in 0 .. Len(raw) |-> g[i]]
        /\ g[0] = NoPart
        /\ \A i \in 1 .. Len(raw) : g[i] = Split(g[i - 1], raw, i)
    BY <1>4 DEF Cutting
  <2>2. \A i \in 0 .. Len(raw) : i = 0 \/ i \in 1 .. Len(raw)
    OBVIOUS
  <2>3. \A i \in 1 .. Len(raw) : i # 0
    OBVIOUS
  <2>4. \A i \in 0 .. Len(raw) : g[i] = e(i)
    BY <2>1, <2>2, <2>3, Zenon
  <2> HIDE DEF e
  <2>5. g = [i \in 0 .. Len(raw) |-> e(i)]
    BY <2>1, <2>4
  <2>6. QED
    BY <2>5 DEF e, Fits
<1>6. Fits(h)
  <2> HIDE DEF Fits
  <2> QED BY <1>5, Zenon
<1>7. Splitting(raw) = h[Len(raw)]
  BY DEF Splitting
<1> HIDE DEF h
<1>8. Cutting(h, raw, Len(raw))
  BY <1>6 DEF Cutting
<1>9. QED
  BY <1>7, <1>8

SplitFields == {"of", "parts", "buf", "single", "double", "bracket", "brace",
                "escaped", "block", "skip", "lineStart"}
Cut(p, of, parts, buf) ==
    /\ DOMAIN p = SplitFields
    /\ p.of = of /\ p.parts = parts /\ p.buf = buf
Marks(p, q) ==
    /\ p.single = q.single /\ p.double = q.double
    /\ p.bracket = q.bracket /\ p.brace = q.brace
    /\ p.escaped = q.escaped /\ p.block = q.block

\* What splitPipe does to its state, field by field.
LEMMA KeepUpdates ==
    ASSUME NEW p, NEW of, NEW parts, NEW buf, Cut(p, of, parts, buf), NEW ch
    PROVE  /\ Cut(Keep(p, ch), Append(of, Len(parts) + 1), parts, Append(buf, ch))
           /\ Marks(Keep(p, ch), p)
BY DEF Cut, Keep, Marks, SplitFields

Separated(q, p) ==
    q = [p EXCEPT !.of = Append(@, 0), !.buf = <<>>, !.parts = Append(@, TrimSpace(p.buf))]
LEMMA CutUpdates ==
    ASSUME NEW p, NEW of, NEW parts, NEW buf, Cut(p, of, parts, buf), NEW q, Separated(q, p)
    PROVE  Cut(q, Append(of, 0), Append(parts, TrimSpace(buf)), <<>>) /\ Marks(q, p)
BY DEF Cut, Marks, SplitFields, Separated

\* What else it does to its state leaves the stages alone.
Marked(q, p) ==
    \/ q = [p EXCEPT !.single = ~ @]
    \/ q = [p EXCEPT !.double = ~ @]
    \/ q = [p EXCEPT !.bracket = @ + 1]
    \/ q = [p EXCEPT !.bracket = Less(@)]
    \/ q = [p EXCEPT !.brace = @ + 1]
    \/ q = [p EXCEPT !.brace = Less(@)]
Passed(q, p, raw, i) ==
    \/ q = [p EXCEPT !.skip = FALSE, !.block = FALSE, !.lineStart = FALSE]
    \/ q = [p EXCEPT !.skip = TRUE]
    \/ q = [p EXCEPT !.lineStart = (raw[i] = NL)]
    \/ q = [p EXCEPT !.escaped = FALSE, !.lineStart = (raw[i] = NL)]
    \/ q = [p EXCEPT !.escaped = TRUE, !.lineStart = FALSE]
    \/ q = [p EXCEPT !.block = BlockOpens(p, raw, i), !.lineStart = (raw[i] = NL)]
LEMMA MarkUpdates ==
    ASSUME NEW p, NEW of, NEW parts, NEW buf, Cut(p, of, parts, buf), NEW q, Marked(q, p)
    PROVE  Cut(q, of, parts, buf)
BY DEF Cut, SplitFields, Marked

LEMMA BlockUpdates ==
    ASSUME NEW p, NEW of, NEW parts, NEW buf, Cut(p, of, parts, buf), NEW raw, NEW i,
           NEW q, Passed(q, p, raw, i)
    PROVE  Cut(q, of, parts, buf)
BY DEF Cut, SplitFields, Passed

\* Either a character is kept, or it is a "|" that ends a stage.
Kept(q, of, parts, buf, ch) ==
    Cut(q, Append(of, Len(parts) + 1), parts, Append(buf, ch))
Ends(q, of, parts, buf, ch) ==
    ch = "|" /\ Cut(q, Append(of, 0), Append(parts, TrimSpace(buf)), <<>>)
LEMMA CharacterCuts ==
    ASSUME NEW p, NEW of, NEW parts, NEW buf, Cut(p, of, parts, buf), NEW ch
    PROVE  IF Separates(p, ch)
           THEN Ends(Character(p, ch), of, parts, buf, ch)
           ELSE Kept(Character(p, ch), of, parts, buf, ch)
<1>1. CASE Separates(p, ch)
  <2>1. ch = "|"
    BY <1>1, Zenon DEF Separates
  <2>2. Character(p, ch) = [p EXCEPT !.of = Append(@, 0), !.buf = <<>>,
                              !.parts = Append(@, TrimSpace(p.buf))]
    BY <1>1, Zenon DEF Character
  <2>3. Separated(Character(p, ch), p)
    BY <2>2, Zenon DEF Separated
  <2>4. Cut(Character(p, ch), Append(of, 0), Append(parts, TrimSpace(buf)), <<>>)
    BY <2>3, CutUpdates, Zenon
  <2>5. QED
    BY <1>1, <2>1, <2>4, Zenon DEF Ends
<1>2. CASE ~ Separates(p, ch)
  <2> DEFINE q == Keep(p, ch)
             r == Character(p, ch)
  <2>1. Marked(r, q) \/ r = q
    BY <1>2, Zenon DEF Character, Marked
  <2>2. Kept(q, of, parts, buf, ch)
    BY KeepUpdates, Zenon DEF Kept
  <2> HIDE DEF q, r
  <2>3. Kept(r, of, parts, buf, ch)
    BY <2>1, <2>2, MarkUpdates, Zenon DEF Kept
  <2>4. QED
    BY <1>2, <2>3, Zenon DEF r
<1>3. QED
  BY <1>1, <1>2, Zenon

Quiet(p) == Flat(p) /\ ~ p.block /\ ~ p.escaped
LEMMA SplitCuts ==
    ASSUME NEW p, NEW of, NEW parts, NEW buf, Cut(p, of, parts, buf), NEW raw, NEW i
    PROVE  LET q == Split(p, raw, i)
           IN  \/ Kept(q, of, parts, buf, raw[i])
               \/ Ends(q, of, parts, buf, raw[i]) /\ Quiet(p)
<1> DEFINE q == Split(p, raw, i)
           ch == raw[i]
           k == Keep(p, ch)
           c == Character(p, ch)
<1>1. Kept(k, of, parts, buf, ch)
  BY KeepUpdates, Zenon DEF Kept
<1>2. Kept(c, of, parts, buf, ch) \/ (Ends(c, of, parts, buf, ch) /\ Flat(p))
  BY CharacterCuts, Zenon DEF Separates
<1>3. CASE p.block
  <2>1. Passed(q, k, raw, i)
    BY <1>3, Zenon DEF Split, InBlock, Passed
  <2> HIDE DEF q, k, c
  <2>2. Kept(q, of, parts, buf, ch)
    BY <1>1, <2>1, BlockUpdates, Zenon DEF Kept
  <2>3. QED
    BY <2>2, Zenon DEF q
<1>4. CASE ~ p.block /\ p.escaped
  <2>1. Passed(q, k, raw, i)
    BY <1>4, Zenon DEF Split, Passed
  <2> HIDE DEF q, k, c
  <2>2. Kept(q, of, parts, buf, ch)
    BY <1>1, <2>1, BlockUpdates, Zenon DEF Kept
  <2>3. QED
    BY <2>2, Zenon DEF q
<1>5. CASE ~ p.block /\ ~ p.escaped /\ ch = "\\" /\ p.double
  <2>1. Passed(q, k, raw, i)
    BY <1>5, Zenon DEF Split, Passed
  <2> HIDE DEF q, k, c
  <2>2. Kept(q, of, parts, buf, ch)
    BY <1>1, <2>1, BlockUpdates, Zenon DEF Kept
  <2>3. QED
    BY <2>2, Zenon DEF q
<1>6. CASE ~ p.block /\ ~ p.escaped /\ ~ (ch = "\\" /\ p.double)
  <2>1. Passed(q, c, raw, i)
    BY <1>6, Zenon DEF Split, Passed
  <2> HIDE DEF q, k, c
  <2>2. Kept(q, of, parts, buf, ch) \/ (Ends(q, of, parts, buf, ch) /\ Quiet(p))
    BY <1>2, <1>6, <2>1, BlockUpdates, Zenon DEF Kept, Ends, Quiet
  <2>3. QED
    BY <2>2, Zenon DEF q
<1>7. QED
  BY <1>3, <1>4, <1>5, <1>6, Zenon

\* The characters that belong to a stage.
Assigned(of, n) == [i \in 1 .. n |-> of[i] # 0]

(* Between two characters: only "|" belong to no stage, and but for blanks *)
(* the stages and the one being read are the characters that do.           *)
Sorted(of, parts, buf, s, S) ==
    /\ of \in Seq(Nat) /\ Len(of) = Len(s)
    /\ parts \in Seq(Seq(S)) /\ buf \in Seq(S)
    /\ \A i \in 1 .. Len(s) : of[i] = 0 => s[i] = "|"
    /\ Dense(FlattenSeq(parts) \o buf) = Dense(Chosen(s, Assigned(of, Len(s))))
SortedAt(p, s, S) ==
    \E of, parts, buf : Cut(p, of, parts, buf) /\ Sorted(of, parts, buf, s, S)

LEMMA SortedBegins == ASSUME NEW S PROVE SortedAt(NoPart, <<>>, S)
<1>1. Cut(NoPart, <<>>, <<>>, <<>>)
  BY DEF Cut, NoPart, SplitFields
<1>2. <<>> \in Seq(Nat) /\ Len(<<>>) = 0 /\ <<>> \in Seq(Seq(S)) /\ <<>> \in Seq(S)
  OBVIOUS
<1>3. FlattenSeq(<<>>) = <<>> /\ <<>> \o <<>> = <<>>
  BY DEF FlattenSeq
<1>4. Chosen(<<>>, Assigned(<<>>, Len(<<>>))) = <<>>
  BY ChosenEmpty, Zenon
<1>5. \A i \in 1 .. 0 : FALSE
  OBVIOUS
<1>6. Sorted(<<>>, <<>>, <<>>, <<>>, S)
  BY <1>2, <1>3, <1>4, <1>5, Zenon DEF Sorted
<1>7. QED
  BY <1>1, <1>6, Zenon DEF SortedAt

\* One more character that belongs to stage n, or to none.
LEMMA KeptNext ==
    ASSUME NEW S, NEW s \in Seq(S), NEW c \in S, NEW of \in Seq(Nat), Len(of) = Len(s),
           NEW n \in Nat
    PROVE  Chosen(Append(s, c), Assigned(Append(of, n), Len(s) + 1)) =
               Choose(Chosen(s, Assigned(of, Len(s))), c, n # 0)
<1> DEFINE keep == Assigned(of, Len(s))
           more == Assigned(Append(of, n), Len(s) + 1)
<1>1. Len(s) \in Nat
  OBVIOUS
<1>2. \A i \in 1 .. Len(s) : more[i] = keep[i]
  <2>1. \A i \in 1 .. Len(s) : Append(of, n)[i] = of[i] /\ i \in 1 .. Len(s) + 1
    OBVIOUS
  <2> DEFINE m == Append(of, n)
  <2> HIDE DEF m
  <2>2. \A i \in 1 .. Len(s) : m[i] = of[i] /\ i \in 1 .. Len(s) + 1
    BY <2>1 DEF m
  <2>3. \A i \in 1 .. Len(s) : Assigned(m, Len(s) + 1)[i] = keep[i]
    BY <2>2 DEF Assigned
  <2>4. QED
    BY <2>3 DEF m
<1>3. more[Len(s) + 1] <=> n # 0
  <2>1. Len(s) + 1 \in 1 .. Len(s) + 1 /\ Append(of, n)[Len(s) + 1] = n
    BY <1>1
  <2>2. QED
    BY <2>1, Zenon DEF Assigned
<1> HIDE DEF keep, more
<1>4. Chosen(Append(s, c), more) = Choose(Chosen(s, keep), c, more[Len(s) + 1])
  <2>1. ChosenStep(s, c, keep, more)
    BY <1>2, ChosenNext, Zenon
  <2>2. QED
    BY <2>1, Zenon DEF ChosenStep
<1>5. QED
  BY <1>3, <1>4, Zenon DEF Choose, keep, more

LEMMA SortedNext ==
    ASSUME NEW S, NEW s \in Seq(S), NEW c \in S, NEW p, SortedAt(p, s, S), NEW raw, NEW i, raw[i] = c
    PROVE  SortedAt(Split(p, raw, i), Append(s, c), S)
<1>1. PICK of, parts, buf : Cut(p, of, parts, buf) /\ Sorted(of, parts, buf, s, S)
  BY Zenon DEF SortedAt
<1> DEFINE q == Split(p, raw, i)
           t == Append(s, c)
           flat == FlattenSeq(parts)
           chosen == Chosen(s, Assigned(of, Len(s)))
<1>2. Kept(q, of, parts, buf, c) \/ Ends(q, of, parts, buf, c)
  BY <1>1, SplitCuts, Zenon
<1>3. /\ of \in Seq(Nat) /\ Len(of) = Len(s) /\ parts \in Seq(Seq(S)) /\ buf \in Seq(S)
      /\ \A j \in 1 .. Len(s) : of[j] = 0 => s[j] = "|"
      /\ Dense(flat \o buf) = Dense(chosen)
  BY <1>1, Zenon DEF Sorted
<1>4. /\ Len(t) = Len(s) + 1 /\ t[Len(s) + 1] = c /\ \A j \in 1 .. Len(s) : t[j] = s[j]
      /\ Len(s) \in Nat
  OBVIOUS
<1>5. flat \in Seq(S)
  BY <1>3, FlattenType, Zenon
<1>6. chosen \in Seq(S)
  BY ChosenType, Zenon
<1>7. CASE Kept(q, of, parts, buf, c)
  <2> DEFINE n == Len(parts) + 1
  <2>1. n \in Nat /\ n # 0
    BY <1>3
  <2> HIDE DEF n
  <2>2. Chosen(t, Assigned(Append(of, n), Len(s) + 1)) = Choose(chosen, c, n # 0)
    BY <1>3, <2>1, KeptNext, Zenon
  <2> HIDE DEF q, t, flat, chosen
  <2>3. Chosen(t, Assigned(Append(of, n), Len(t))) = Append(chosen, c)
    BY <1>4, <2>1, <2>2, Zenon DEF Choose
  <2>4. Dense(Append(chosen, c)) = Choose(Dense(chosen), c, c \notin Blank)
    BY <1>6, DenseNext, Zenon
  <2>5. flat \o buf \in Seq(S)
    BY <1>3, <1>5
  <2>6. Dense(Append(flat \o buf, c)) = Choose(Dense(flat \o buf), c, c \notin Blank)
    BY <2>5, DenseNext, Zenon
  <2>7. Assoc(flat, buf, c)
    BY <1>3, <1>5, AppendConcat, Zenon
  <2>8. Dense(flat \o Append(buf, c)) = Dense(Append(chosen, c))
    BY <1>3, <2>4, <2>6, <2>7, Zenon DEF Assoc
  <2>9. Append(of, n) \in Seq(Nat) /\ Len(Append(of, n)) = Len(t) /\ Append(buf, c) \in Seq(S)
    BY <1>3, <1>4, <2>1
  <2>10. \A j \in 1 .. Len(t) : Append(of, n)[j] = 0 => t[j] = "|"
    BY <1>3, <1>4, <2>1
  <2>11. Sorted(Append(of, n), parts, Append(buf, c), t, S)
    BY <1>3, <2>3, <2>8, <2>9, <2>10, Zenon DEF Sorted, flat
  <2>12. QED
    BY <1>7, <2>11, Zenon DEF Kept, SortedAt, n, q, t
<1>8. CASE Ends(q, of, parts, buf, c)
  <2> DEFINE x == TrimSpace(buf)
  <2>1. c = "|" /\ Cut(q, Append(of, 0), Append(parts, x), <<>>)
    BY <1>8, Zenon DEF Ends
  <2>2. x \in Seq(S)
    BY <1>3, TrimSplits, Zenon
  <2>3. Dense(x) = Dense(buf)
    BY <1>3, DenseTrim, Zenon
  <2> HIDE DEF x
  <2>4. 0 \in Nat
    OBVIOUS
  <2>5. Chosen(t, Assigned(Append(of, 0), Len(s) + 1)) = Choose(chosen, c, 0 # 0)
    BY <1>3, <2>4, KeptNext, Zenon
  <2>6. FlatAppend(parts, x)
    BY <1>3, <2>2, FlattenNext, Zenon
  <2> HIDE DEF q, t, flat, chosen
  <2>7. Chosen(t, Assigned(Append(of, 0), Len(t))) = chosen
    BY <1>4, <2>5, Zenon DEF Choose
  <2>8. FlattenSeq(Append(parts, x)) = flat \o x
    BY <2>6, Zenon DEF FlatAppend, flat
  <2>9. Dense(flat \o x) = Dense(flat) \o Dense(x)
    BY <1>5, <2>2, DenseConcat, Zenon
  <2>10. Dense(flat \o buf) = Dense(flat) \o Dense(buf)
    BY <1>3, <1>5, DenseConcat, Zenon
  <2>11. (flat \o x) \o <<>> = flat \o x
    BY <1>5, <2>2
  <2>12. Dense(FlattenSeq(Append(parts, x)) \o <<>>) = Dense(chosen)
    BY <1>3, <2>3, <2>8, <2>9, <2>10, <2>11, Zenon
  <2>13. /\ Append(of, 0) \in Seq(Nat) /\ Len(Append(of, 0)) = Len(t)
         /\ Append(parts, x) \in Seq(Seq(S)) /\ <<>> \in Seq(S)
    BY <1>3, <1>4, <2>2
  <2>14. \A j \in 1 .. Len(t) : Append(of, 0)[j] = 0 => t[j] = "|"
    BY <1>3, <1>4, <2>1
  <2>15. Sorted(Append(of, 0), Append(parts, x), <<>>, t, S)
    BY <1>3, <2>7, <2>12, <2>13, <2>14, Zenon DEF Sorted
  <2>16. QED
    BY <2>1, <2>15, Zenon DEF SortedAt, q, t
<1>9. QED
  BY <1>2, <1>7, <1>8, Zenon

\* So it is at every place, and at the end.
LEMMA SplittingSorted ==
    ASSUME NEW S, NEW raw \in Seq(S)
    PROVE  SortedAt(Splitting(raw), raw, S)
<1>1. Len(raw) \in Nat /\ SubSeq(raw, 1, 0) = <<>> /\ SubSeq(raw, 1, Len(raw)) = raw
  OBVIOUS
<1>2. PICK f : Cutting(f, raw, Len(raw)) /\ Splitting(raw) = f[Len(raw)]
  BY <1>1, SplitSteps, Zenon
<1> DEFINE M == {i \in Nat : i <= Len(raw) => SortedAt(f[i], SubSeq(raw, 1, i), S)}
<1>3. 0 \in M
  BY <1>1, <1>2, SortedBegins, Zenon DEF Cutting
<1>4. ASSUME NEW i \in 1 .. Len(raw), i - 1 \in M PROVE i \in M
  <2> DEFINE s == SubSeq(raw, 1, i - 1)
  <2>1. s \in Seq(S) /\ raw[i] \in S /\ SubSeq(raw, 1, i) = Append(s, raw[i])
    OBVIOUS
  <2>2. SortedAt(f[i - 1], s, S)
    BY <1>1, <1>4
  <2>3. f[i] = Split(f[i - 1], raw, i)
    BY <1>2, Zenon DEF Cutting
  <2> HIDE DEF s
  <2>4. SortedAt(f[i], Append(s, raw[i]), S)
    BY <2>1, <2>2, <2>3, SortedNext, Zenon
  <2>5. i \in Nat
    OBVIOUS
  <2>6. QED
    BY <2>1, <2>4, <2>5, Zenon
<1>5. 0 .. Len(raw) \subseteq M
  <2> HIDE DEF M
  <2> QED BY <1>1, <1>3, <1>4, Along
<1>6. SortedAt(f[Len(raw)], SubSeq(raw, 1, Len(raw)), S)
  <2>1. Len(raw) \in 0 .. Len(raw) /\ Len(raw) <= Len(raw)
    BY <1>1
  <2>2. QED
    BY <1>5, <2>1, Zenon
<1>7. QED
  BY <1>1, <1>2, <1>6, Zenon

(* Cutting a line into stages loses and reorders nothing but the "|" that  *)
(* separate them.                                                          *)
LEMMA SplitLosesNothing ==
    ASSUME NEW S, NEW raw \in Seq(S)
    PROVE  /\ \A i \in 1 .. Len(raw) : PartOf(raw)[i] = 0 => raw[i] = "|"
           /\ Dense(FlattenSeq(SplitPipe(raw))) =
                  Dense(Chosen(raw, [i \in 1 .. Len(raw) |-> PartOf(raw)[i] # 0]))
           /\ SplitPipe(raw) \in Seq(Seq(S))
<1>1. PICK of, parts, buf : Cut(Splitting(raw), of, parts, buf) /\ Sorted(of, parts, buf, raw, S)
  BY SplittingSorted, Zenon DEF SortedAt
<1>2. /\ of \in Seq(Nat) /\ Len(of) = Len(raw) /\ parts \in Seq(Seq(S)) /\ buf \in Seq(S)
      /\ \A j \in 1 .. Len(raw) : of[j] = 0 => raw[j] = "|"
      /\ Dense(FlattenSeq(parts) \o buf) = Dense(Chosen(raw, Assigned(of, Len(raw))))
  BY <1>1, Zenon DEF Sorted
<1>3. PartOf(raw) = of
  BY <1>1, Zenon DEF Cut, PartOf
<1>4. SplitPipe(raw) = IF buf = <<>> THEN parts ELSE Append(parts, TrimSpace(buf))
  BY <1>1, Zenon DEF Cut, SplitPipe
<1>5. FlattenSeq(parts) \in Seq(S)
  BY <1>2, FlattenType, Zenon
<1>6. /\ SplitPipe(raw) \in Seq(Seq(S))
      /\ Dense(FlattenSeq(SplitPipe(raw))) = Dense(FlattenSeq(parts) \o buf)
  <2> DEFINE flat == FlattenSeq(parts)
             x == TrimSpace(buf)
  <2>1. CASE buf = <<>>
    <3> HIDE DEF flat
    <3>1. flat \o <<>> = flat
      BY <1>5 DEF flat
    <3>2. QED
      BY <1>2, <1>4, <2>1, <3>1, Zenon DEF flat
  <2>2. CASE buf # <<>>
    <3>1. x \in Seq(S)
      BY <1>2, TrimSplits, Zenon
    <3>2. Dense(x) = Dense(buf)
      BY <1>2, DenseTrim, Zenon
    <3>3. SplitPipe(raw) = Append(parts, x)
      BY <1>4, <2>2, Zenon
    <3> HIDE DEF x
    <3>4. FlatAppend(parts, x)
      BY <1>2, <3>1, FlattenNext, Zenon
    <3>5. FlattenSeq(Append(parts, x)) = flat \o x
      BY <3>4, Zenon DEF FlatAppend
    <3>6. Dense(flat \o x) = Dense(flat) \o Dense(x)
      BY <1>5, <3>1, DenseConcat, Zenon
    <3>7. Dense(flat \o buf) = Dense(flat) \o Dense(buf)
      BY <1>2, <1>5, DenseConcat, Zenon
    <3>8. Append(parts, x) \in Seq(Seq(S))
      BY <1>2, <3>1
    <3>9. QED
      BY <3>2, <3>3, <3>5, <3>6, <3>7, <3>8, Zenon
  <2>3. QED
    BY <2>1, <2>2, Zenon
<1>7. QED
  BY <1>2, <1>3, <1>6, Zenon DEF Assigned

-----------------------------------------------------------------------------
(* Where the tokenizer is after a text without parentheses that nest: the  *)
(* tokens and the word so far, the delimiter that is open, and the         *)
(* backslash that came last, or "".                                        *)

TokenIs(t, words, word, d, e) ==
    /\ DOMAIN t = {"tokens", "buf", "in", "depth", "escaped"}
    /\ t.tokens = words /\ t.buf = word /\ t.in = d /\ t.depth = Depth(d)
    /\ t.escaped <=> e # ""

Parting(d, ch) == d = "" /\ ch \in Gap
WordsAfter(words, word, d, ch) == IF Parting(d, ch) THEN Ended(words, word) ELSE words
WordAfter(word, d, ch) == IF Parting(d, ch) THEN <<>> ELSE Append(word, ch)
InAfter(d, e, ch) ==
    IF d = "" THEN IF ch \in Delimiters THEN ch ELSE ""
    ELSE IF e # "" THEN d
    ELSE IF ch = Matching(d) THEN "" ELSE d
EscapeAfter(d, e, ch) == IF d = "\"" /\ e = "" /\ ch = "\\" THEN "\\" ELSE ""

\* Only a string in double quotes has escapes.
Legal(d, e) == d \in Places /\ (e = "" \/ (e = "\\" /\ d = "\""))
LEMMA LegalAfter ==
    ASSUME NEW d, NEW e, Legal(d, e), NEW ch, d = "" => ch # "("
    PROVE  Legal(InAfter(d, e, ch), EscapeAfter(d, e, ch))
<1>1. d = "" /\ ch \in Delimiters => ch \in Places
  BY Characters, Zenon DEF Places
<1>2. "" \in Places
  BY Zenon DEF Places
<1>3. InAfter(d, e, ch) \in Places
  BY <1>1, <1>2, Zenon DEF Legal, InAfter
<1>4. "\"" \in Quotes /\ "\"" # "" /\ "\\" # "\"" /\ "\\" # ""
  BY Zenon DEF Quotes
<1>5. Matching("\"") = "\""
  BY <1>4, Characters, Zenon
<1>6. EscapeAfter(d, e, ch) = "" \/ (EscapeAfter(d, e, ch) = "\\" /\ InAfter(d, e, ch) = "\"")
  BY <1>4, <1>5, Zenon DEF InAfter, EscapeAfter
<1>7. QED
  BY <1>3, <1>6, Zenon DEF Legal

LEMMA TokenChanges ==
    ASSUME NEW t, NEW a, NEW b, NEW d, NEW e, TokenIs(t, a, b, d, e), NEW ch
    PROVE  /\ TokenIs(WriteRune(t, ch), a, Append(b, ch), d, e)
           /\ TokenIs(Flush(t), Ended(a, b), <<>>, d, e)
           /\ TokenIs([t EXCEPT !.escaped = FALSE], a, b, d, "")
           /\ "\\" # "" => TokenIs([t EXCEPT !.escaped = ~ FALSE], a, b, d, "\\")
<1>1. TokenIs(WriteRune(t, ch), a, Append(b, ch), d, e)
  BY DEF TokenIs, WriteRune
<1>2. TokenIs(Flush(t), Ended(a, b), <<>>, d, e)
  BY DEF TokenIs, Flush, Ended
<1>3. TokenIs([t EXCEPT !.escaped = FALSE], a, b, d, "")
  BY DEF TokenIs
<1>4. "\\" # "" => TokenIs([t EXCEPT !.escaped = ~ FALSE], a, b, d, "\\")
  BY DEF TokenIs
<1>5. QED
  BY <1>1, <1>2, <1>3, <1>4, Zenon

\* A delimiter opens or closes.
LEMMA TokenTurns ==
    ASSUME NEW t, NEW a, NEW b, NEW d, NEW e, TokenIs(t, a, b, d, e), NEW x, NEW k, k = Depth(x)
    PROVE  /\ TokenIs([t EXCEPT !.in = x, !.depth = k], a, b, x, e)
           /\ TokenIs([t EXCEPT !.depth = k, !.in = x], a, b, x, e)
BY DEF TokenIs

LEMMA NoDepth == 1 - 1 = 0 /\ 0 = Depth("")
BY DEF Depth

LEMMA TokenStep ==
    ASSUME NEW t, NEW a, NEW b, NEW d, NEW e, TokenIs(t, a, b, d, e), Legal(d, e),
           NEW ch, d = "" => ch # "("
    PROVE  TokenIs(Token(t, ch, FALSE), WordsAfter(a, b, d, ch), WordAfter(b, d, ch),
                   InAfter(d, e, ch), EscapeAfter(d, e, ch))
<1> DEFINE u == Token(t, ch, FALSE)
           w == WriteRune(t, ch)
           more == Append(b, ch)
<1>1. t.in = d /\ (t.escaped <=> e # "") /\ t.depth = Depth(d)
  BY Zenon DEF TokenIs
<1>2. TokenIs(w, a, more, d, e)
  BY TokenChanges, Zenon
<1>3. /\ "\"" \in Quotes /\ "\"" # "" /\ "\\" # "\"" /\ "\\" # "" /\ "\\" \notin Delimiters
      /\ "\\" \notin Gap
  BY Zenon DEF Quotes, Delimiters, Gap, Space
<1>4. d # "(" /\ (e = "" \/ (e = "\\" /\ d = "\""))
  BY Characters, Zenon DEF Legal, Places
<1>5. CASE d = "" /\ ch \in Gap
  <2>1. u = Flush(t)
    BY <1>1, <1>5, Zenon DEF Token
  <2>2. TokenIs(Flush(t), Ended(a, b), <<>>, d, e)
    BY TokenChanges, Zenon
  <2>3. ch \notin Delimiters
    BY <1>5, Zenon DEF Delimiters, Gap, Space
  <2>4. InAfter(d, e, ch) = d /\ EscapeAfter(d, e, ch) = e
    BY <1>3, <1>4, <1>5, <2>3, Zenon DEF InAfter, EscapeAfter
  <2>5. QED
    BY <1>5, <2>1, <2>2, <2>4, Zenon DEF WordsAfter, WordAfter, Parting
<1>6. CASE ~ (d = "" /\ ch \in Gap)
  <2>1. WordsAfter(a, b, d, ch) = a /\ WordAfter(b, d, ch) = more
    BY <1>6, Zenon DEF WordsAfter, WordAfter, Parting
  <2> SUFFICES TokenIs(u, a, more, InAfter(d, e, ch), EscapeAfter(d, e, ch))
    BY <2>1, Zenon
  <2>2. CASE d = "" /\ ch \in Delimiters
    <3>1. u = [w EXCEPT !.in = ch, !.depth = 1]
      BY <1>1, <1>6, <2>2, Zenon DEF Token
    <3>2. 1 = Depth(ch)
      BY <2>2, Characters, Zenon DEF Depth
    <3>3. InAfter(d, e, ch) = ch /\ EscapeAfter(d, e, ch) = "" /\ e = ""
      BY <1>3, <1>4, <2>2, Zenon DEF InAfter, EscapeAfter
    <3> HIDE DEF u, w, more
    <3>4. TokenIs([w EXCEPT !.in = ch, !.depth = 1], a, more, ch, e)
      BY <1>2, <3>2, TokenTurns, Zenon
    <3>5. QED
      BY <3>1, <3>3, <3>4, Zenon
  <2>3. CASE d = "" /\ ch \notin Delimiters
    <3>1. u = w
      BY <1>1, <1>3, <1>4, <1>6, <2>3, Zenon DEF Token
    <3>2. InAfter(d, e, ch) = d /\ EscapeAfter(d, e, ch) = "" /\ e = ""
      BY <1>3, <1>4, <2>3, Zenon DEF InAfter, EscapeAfter
    <3> HIDE DEF u, w, more
    <3>3. QED
      BY <1>2, <3>1, <3>2, Zenon
  <2>4. CASE d # "" /\ e # ""
    <3>1. u = [w EXCEPT !.escaped = FALSE]
      BY <1>1, <2>4, Zenon DEF Token
    <3>2. InAfter(d, e, ch) = d /\ EscapeAfter(d, e, ch) = ""
      BY <2>4, Zenon DEF InAfter, EscapeAfter
    <3> HIDE DEF u, w, more
    <3>3. TokenIs([w EXCEPT !.escaped = FALSE], a, more, d, "")
      BY <1>2, TokenChanges, Zenon
    <3>4. QED
      BY <3>1, <3>2, <3>3, Zenon
  <2>5. CASE d = "\"" /\ e = "" /\ ch = "\\"
    <3>1. u = [w EXCEPT !.escaped = ~ FALSE]
      BY <1>1, <1>3, <2>5, Zenon DEF Token
    <3>2. InAfter(d, e, ch) = d /\ EscapeAfter(d, e, ch) = "\\"
      <4>1. Matching("\"") = "\""
        BY <1>3, Characters, Zenon
      <4>2. QED
        BY <1>3, <2>5, <4>1, Zenon DEF InAfter, EscapeAfter
    <3> HIDE DEF u, w, more
    <3>3. TokenIs([w EXCEPT !.escaped = ~ FALSE], a, more, d, "\\")
      BY <1>2, <1>3, TokenChanges, Zenon
    <3>4. QED
      BY <3>1, <3>2, <3>3, Zenon
  <2>6. CASE d # "" /\ e = "" /\ ~ (d = "\"" /\ ch = "\\") /\ ch = Matching(d)
    <3>1. t.depth = 1
      BY <1>1, <2>6, Zenon DEF Depth
    <3>2. u = [w EXCEPT !.depth = w.depth - 1, !.in = ""]
      BY <1>1, <1>4, <2>6, <3>1, Zenon DEF Token
    <3>3. w.depth = 1
      BY <1>1, <1>2, <3>1, Zenon DEF TokenIs
    <3>4. 1 - 1 = 0 /\ 0 = Depth("")
      BY NoDepth, Zenon
    <3>5. InAfter(d, e, ch) = "" /\ EscapeAfter(d, e, ch) = ""
      BY <2>6, Zenon DEF InAfter, EscapeAfter
    <3> HIDE DEF u, w, more
    <3>6. TokenIs([w EXCEPT !.depth = 0, !.in = ""], a, more, "", e)
      BY <1>2, <3>4, TokenTurns, Zenon
    <3>7. u = [w EXCEPT !.depth = 0, !.in = ""]
      BY <3>2, <3>3, <3>4, Zenon
    <3>8. QED
      BY <2>6, <3>5, <3>6, <3>7, Zenon
  <2>7. CASE d # "" /\ e = "" /\ ~ (d = "\"" /\ ch = "\\") /\ ch # Matching(d)
    <3>1. u = w
      BY <1>1, <1>4, <2>7, Zenon DEF Token
    <3>2. InAfter(d, e, ch) = d /\ EscapeAfter(d, e, ch) = ""
      BY <2>7, Zenon DEF InAfter, EscapeAfter
    <3> HIDE DEF u, w, more
    <3>3. QED
      BY <1>2, <2>7, <3>1, <3>2, Zenon
  <2>8. QED
    BY <2>2, <2>3, <2>4, <2>5, <2>6, <2>7, Zenon
<1>7. QED
  BY <1>5, <1>6, Zenon

\* A text leads the tokenizer there.
Runs(f, s) ==
    /\ f[0] = NoToken
    /\ \A i \in 1 .. Len(s) : f[i] = Token(f[i - 1], s[i], FALSE)
    /\ \A i \in 0 .. Len(s) : DOMAIN f[i] = {"tokens", "buf", "in", "depth", "escaped"}
Leads(s, words, word, d, e) ==
    /\ Legal(d, e)
    /\ \E f : Runs(f, s) /\ TokenIs(f[Len(s)], words, word, d, e)

LEMMA LeadsEmpty == Leads(<<>>, <<>>, <<>>, "", "")
<1> DEFINE f == [i \in 0 .. 0 |-> NoToken]
<1>1. DOMAIN NoToken = {"tokens", "buf", "in", "depth", "escaped"}
  BY DEF NoToken
<1>2. f[0] = NoToken /\ Len(<<>>) = 0 /\ (\A i \in 0 .. 0 : f[i] = NoToken) /\ \A i \in 1 .. 0 : FALSE
  OBVIOUS
<1> HIDE DEF f
<1>3. Runs(f, <<>>)
  BY <1>1, <1>2, Zenon DEF Runs
<1>4. 0 = Depth("")
  BY DEF Depth
<1>5. TokenIs(NoToken, <<>>, <<>>, "", "")
  BY <1>1, <1>4, Zenon DEF TokenIs, NoToken
<1>6. Legal("", "")
  BY Zenon DEF Legal, Places
<1>7. QED
  BY <1>2, <1>3, <1>5, <1>6, Zenon DEF Leads

LEMMA LeadsNext ==
    ASSUME NEW S, NEW s \in Seq(S), NEW ch \in S, NEW a, NEW b, NEW d, NEW e,
           d = "" => ch # "(", Leads(s, a, b, d, e)
    PROVE  Leads(Append(s, ch), WordsAfter(a, b, d, ch), WordAfter(b, d, ch),
                 InAfter(d, e, ch), EscapeAfter(d, e, ch))
<1> DEFINE n == Len(s)
           t == Append(s, ch)
<1>1. PICK f : Runs(f, s) /\ TokenIs(f[Len(s)], a, b, d, e)
  BY Zenon DEF Leads
<1>2. Legal(d, e)
  BY Zenon DEF Leads
<1> DEFINE x == Token(f[n], ch, FALSE)
           Fields == {"tokens", "buf", "in", "depth", "escaped"}
<1>3. TokenIs(x, WordsAfter(a, b, d, ch), WordAfter(b, d, ch),
              InAfter(d, e, ch), EscapeAfter(d, e, ch))
  BY <1>1, <1>2, TokenStep, Zenon
<1>4. DOMAIN x = Fields
  BY <1>3, Zenon DEF TokenIs
<1>5. OneLonger(n, t, s, ch)
  BY AppendedPlaces, Zenon
<1> HIDE DEF x, t, n
<1>6. PICK h : Extends(h, f, n, x)
  BY <1>5, OneMore, Zenon DEF OneLonger
<1>7. \A i \in 0 .. n : h[i] = f[i] /\ DOMAIN f[i] = Fields
  BY <1>1, <1>6, Zenon DEF Extends, Runs, n
<1>8. h[0] = NoToken
  BY <1>1, <1>5, <1>6, Zenon DEF Extends, Runs, OneLonger
<1>9. ASSUME NEW i \in 1 .. n + 1 PROVE h[i] = Token(h[i - 1], t[i], FALSE)
  <2>1. CASE i = n + 1
    BY <1>5, <1>6, <2>1, Zenon DEF Extends, OneLonger, x
  <2>2. CASE i \in 1 .. n
    <3>1. h[i] = f[i] /\ h[i - 1] = f[i - 1] /\ t[i] = s[i]
      BY <1>5, <1>6, <2>2, Zenon DEF Extends, OneLonger
    <3>2. f[i] = Token(f[i - 1], s[i], FALSE)
      BY <1>1, <2>2, Zenon DEF Runs, n
    <3>3. QED
      BY <3>1, <3>2, Zenon
  <2>3. QED
    BY <1>5, <2>1, <2>2, Zenon DEF OneLonger
<1>10. ASSUME NEW i \in 0 .. n + 1 PROVE DOMAIN h[i] = Fields
  <2>1. CASE i = n + 1
    BY <1>4, <1>6, <2>1, Zenon DEF Extends
  <2>2. CASE i \in 0 .. n
    BY <1>7, <2>2, Zenon
  <2>3. QED
    BY <1>5, <2>1, <2>2, Zenon DEF OneLonger
<1>11. Runs(h, t)
  BY <1>5, <1>8, <1>9, <1>10, Zenon DEF Runs, OneLonger
<1>12. Legal(InAfter(d, e, ch), EscapeAfter(d, e, ch))
  BY <1>2, LegalAfter, Zenon
<1>13. h[Len(t)] = x
  BY <1>5, <1>6, Zenon DEF Extends, OneLonger
<1>14. QED
  BY <1>3, <1>11, <1>12, <1>13, Zenon DEF Leads, t

\* Whether a character is the last one matters only to a backslash.
Alike(t, u) == t.tokens = u.tokens /\ t.buf = u.buf /\ t.in = u.in
LEMMA LastIsAlike ==
    ASSUME NEW t, DOMAIN t = {"tokens", "buf", "in", "depth", "escaped"}, NEW ch, NEW last
    PROVE  /\ Alike(Token(t, ch, last), Token(t, ch, FALSE))
           /\ DOMAIN Token(t, ch, last) = {"tokens", "buf", "in", "depth", "escaped"}
<1> DEFINE w == WriteRune(t, ch)
           u == Token(t, ch, last)
           v == Token(t, ch, FALSE)
           Fields == {"tokens", "buf", "in", "depth", "escaped"}
<1>1. DOMAIN w = Fields
  BY DEF WriteRune
<1>2. CASE t.in = "\"" /\ ch = "\\" /\ ~ t.escaped
  <2>1. u = [w EXCEPT !.escaped = ~ last] /\ v = [w EXCEPT !.escaped = ~ FALSE]
    <3>1. t.in # "" /\ ch \notin Gap /\ ch \notin Delimiters
      BY <1>2, Zenon DEF Gap, Delimiters, Space
    <3>2. QED
      BY <1>2, <3>1, Zenon DEF Token
  <2> HIDE DEF u, v, w
  <2>2. Alike(u, v) /\ DOMAIN u = Fields
    BY <1>1, <2>1 DEF Alike
  <2>3. QED
    BY <2>2, Zenon DEF u, v
<1>3. CASE ~ (t.in = "\"" /\ ch = "\\" /\ ~ t.escaped)
  <2>1. u = v
    BY <1>3, Zenon DEF Token
  <2>2. DOMAIN u = Fields
    <3>1. DOMAIN Flush(t) = Fields
      BY DEF Flush
    <3>2. DOMAIN [w EXCEPT !.in = ch, !.depth = 1] = Fields /\ DOMAIN [w EXCEPT !.escaped = FALSE] = Fields
      BY <1>1
    <3>3. DOMAIN [w EXCEPT !.depth = @ + 1] = Fields
      BY <1>1
    <3>4. DOMAIN [w EXCEPT !.depth = @ - 1, !.in = IF t.depth = 1 THEN "" ELSE @] = Fields
      BY <1>1
    <3>5. QED
      BY <1>1, <1>3, <3>1, <3>2, <3>3, <3>4, Zenon DEF Token
  <2>3. QED
    BY <2>1, <2>2, Zenon DEF Alike
<1>4. QED
  BY <1>2, <1>3, Zenon

\* What the tokenizer returns for a text is what the text leads to.
LEMMA LeadsScan ==
    ASSUME NEW S, NEW s \in Seq(S), NEW a, NEW b, NEW d, NEW e, Leads(s, a, b, d, e)
    PROVE  Scan(s).in = d /\ Flush(Scan(s)).tokens = Ended(a, b)
<1>1. PICK g : Runs(g, s) /\ TokenIs(g[Len(s)], a, b, d, e)
  BY Zenon DEF Leads
<1>2. Len(s) \in Nat
  OBVIOUS
<1>3. PICK f : Tokenizing(f, s, Len(s)) /\ Scan(s) = f[Len(s)]
  BY <1>2, ScanSteps, Zenon
<1> DEFINE n == Len(s)
           M == {i \in Nat : i < n => f[i] = g[i]}
<1>4. 0 \in M
  BY <1>1, <1>3, Zenon DEF Runs, Tokenizing
<1>5. ASSUME NEW i \in 1 .. n, i - 1 \in M PROVE i \in M
  <2> SUFFICES ASSUME i < n PROVE f[i] = g[i]
    OBVIOUS
  <2>1. f[i - 1] = g[i - 1] /\ i # n
    BY <1>2, <1>5
  <2>2. f[i] = Token(f[i - 1], s[i], i = n)
    BY <1>3, Zenon DEF Tokenizing
  <2>3. Token(f[i - 1], s[i], i = n) = Token(f[i - 1], s[i], FALSE)
    BY <2>1, Zenon
  <2>4. g[i] = Token(g[i - 1], s[i], FALSE)
    BY <1>1, Zenon DEF Runs
  <2>5. QED
    BY <2>1, <2>2, <2>3, <2>4, Zenon
<1>6. 0 .. n \subseteq M
  <2> HIDE DEF M
  <2> QED BY <1>2, <1>4, <1>5, Along
<1>7. Alike(f[n], g[n]) /\ DOMAIN f[n] = {"tokens", "buf", "in", "depth", "escaped"}
  <2>1. CASE n = 0
    <3>1. f[n] = NoToken /\ g[n] = NoToken
      BY <1>1, <1>3, <2>1, Zenon DEF Runs, Tokenizing
    <3>2. QED
      BY <3>1 DEF Alike, NoToken
  <2>2. CASE n # 0
    <3>1. n \in 1 .. n /\ n - 1 \in 0 .. n /\ n - 1 < n
      BY <1>2, <2>2
    <3>2. f[n - 1] = g[n - 1]
      BY <1>6, <3>1
    <3>3. f[n] = Token(g[n - 1], s[n], n = Len(s))
      BY <1>3, <3>1, <3>2, Zenon DEF Tokenizing
    <3>4. g[n] = Token(g[n - 1], s[n], FALSE)
      BY <1>1, <3>1, Zenon DEF Runs
    <3>5. DOMAIN g[n - 1] = {"tokens", "buf", "in", "depth", "escaped"}
      BY <1>1, <3>1, Zenon DEF Runs
    <3>6. f[n] = Token(g[n - 1], s[n], TRUE)
      BY <3>3, Zenon
    <3>7. QED
      BY <3>4, <3>5, <3>6, LastIsAlike, Zenon
  <2>3. QED
    BY <2>1, <2>2, Zenon
<1>8. Flush(f[n]).tokens = Ended(a, b)
  <2> DEFINE u == f[n]
             v == g[n]
  <2>1. Alike(u, v) /\ DOMAIN u = {"tokens", "buf", "in", "depth", "escaped"}
    BY <1>7
  <2>2. v.tokens = a /\ v.buf = b
    BY <1>1, Zenon DEF TokenIs
  <2> HIDE DEF u, v
  <2>3. Flush(u).tokens = Ended(a, b)
    BY <2>1, <2>2 DEF Alike, Flush, Ended
  <2>4. QED
    BY <2>3, Zenon DEF u
<1>9. QED
  BY <1>1, <1>3, <1>7, <1>8, Zenon DEF Alike, TokenIs

-----------------------------------------------------------------------------
(* No stage ends inside a delimiter.                                       *)

Reaches(s, d, e) == \E words, word : Leads(s, words, word, d, e)

LEMMA ReachesNext ==
    ASSUME NEW S, "(" \notin S, NEW s \in Seq(S), NEW ch \in S, NEW d, NEW e, Reaches(s, d, e)
    PROVE  Reaches(Append(s, ch), InAfter(d, e, ch), EscapeAfter(d, e, ch))
<1>1. ch # "("
  OBVIOUS
<1>2. PICK a, b : Leads(s, a, b, d, e)
  BY Zenon DEF Reaches
<1>3. Leads(Append(s, ch), WordsAfter(a, b, d, ch), WordAfter(b, d, ch),
            InAfter(d, e, ch), EscapeAfter(d, e, ch))
  BY <1>1, <1>2, LeadsNext, Zenon
<1>4. QED
  BY <1>3, Zenon DEF Reaches

LEMMA ReachesLegal ==
    ASSUME NEW s, NEW d, NEW e, Reaches(s, d, e) PROVE Legal(d, e)
BY Zenon DEF Reaches, Leads

LEMMA ReachesScan ==
    ASSUME NEW S, NEW s \in Seq(S), NEW d, NEW e, Reaches(s, d, e)
    PROVE  Scan(s).in = d
<1>1. PICK a, b : Leads(s, a, b, d, e)
  BY Zenon DEF Reaches
<1>2. QED
  BY <1>1, LeadsScan, Zenon

\* A blank moves the tokenizer nowhere.
LEMMA BlankStays ==
    ASSUME NEW d, NEW e, Legal(d, e), NEW ch \in Blank
    PROVE  ch # "(" /\ InAfter(d, e, ch) = d
<1>1. ch \notin Delimiters /\ ch \notin Quotes /\ ch # "(" /\ ch # "]" /\ ch # "}"
  BY Zenon DEF Blank, Delimiters, Quotes, Space, NL
<1>2. d = "" \/ d \in Quotes \/ d \in Brackets
  BY Zenon DEF Legal, Places
<1>3. \A x \in Brackets : Matching(x) = "]" \/ Matching(x) = "}"
  BY Zenon DEF Matching, Brackets
<1>4. \A x \in Quotes : Matching(x) = x
  BY Characters, Zenon
<1>5. d # "" => ch # Matching(d)
  BY <1>1, <1>2, <1>3, <1>4, Zenon
<1>6. QED
  BY <1>1, <1>5, Zenon DEF InAfter

\* So it is where it was after blanks, whatever follows.
LEMMA BlanksFirst ==
    ASSUME NEW S, "(" \notin S, NEW x \in Seq(S), \A i \in 1 .. Len(x) : x[i] \in Blank,
           NEW t \in Seq(S)
    PROVE  \E d, e : Reaches(x \o t, d, e) /\ Reaches(t, d, e)
<1> DEFINE B == S \cap Blank
           N == {y \in Seq(B) : Reaches(y, "", "")}
           M == {y \in Seq(S) : \E d, e : Reaches(x \o y, d, e) /\ Reaches(y, d, e)}
<1>1. Reaches(<<>>, "", "")
  BY LeadsEmpty, Zenon DEF Reaches
<1>2. <<>> \in N
  <2>1. <<>> \in Seq(B)
    OBVIOUS
  <2>2. QED
    BY <1>1, <2>1, Zenon
<1>3. ASSUME NEW y \in Seq(B), NEW c \in B, y \in N PROVE Append(y, c) \in N
  <2>1. Reaches(y, "", "") /\ c \in Blank /\ "(" \notin B
    BY <1>3, Zenon
  <2>2. Append(y, c) \in Seq(B)
    <3> HIDE DEF B
    <3> QED OBVIOUS
  <2>3. Reaches(Append(y, c), InAfter("", "", c), EscapeAfter("", "", c))
    BY <2>1, ReachesNext, Zenon
  <2>4. InAfter("", "", c) = ""
    BY <2>1, ReachesLegal, BlankStays, Zenon
  <2>5. EscapeAfter("", "", c) = ""
    BY Zenon DEF EscapeAfter
  <2>6. QED
    BY <2>3, <2>4, <2>5, <2>2, Zenon
<1>4. Seq(B) \subseteq N
  <2> HIDE DEF N, B
  <2> QED BY <1>2, <1>3, SeqInduction, Zenon
<1>5. x \in Seq(B)
  OBVIOUS
<1>6. Reaches(x, "", "")
  BY <1>4, <1>5, Zenon
<1>7. <<>> \in M
  <2>1. x \o <<>> = x /\ <<>> \in Seq(S)
    OBVIOUS
  <2>2. QED
    BY <1>1, <1>6, <2>1, Zenon
<1>8. ASSUME NEW y \in Seq(S), NEW c \in S, y \in M PROVE Append(y, c) \in M
  <2>1. PICK d, e : Reaches(x \o y, d, e) /\ Reaches(y, d, e)
    BY <1>8, Zenon
  <2>2. x \o y \in Seq(S) /\ Append(y, c) \in Seq(S) /\ x \o Append(y, c) = Append(x \o y, c)
    OBVIOUS
  <2>3. Reaches(Append(y, c), InAfter(d, e, c), EscapeAfter(d, e, c))
    BY <2>1, ReachesNext, Zenon
  <2>4. Reaches(Append(x \o y, c), InAfter(d, e, c), EscapeAfter(d, e, c))
    BY <2>1, <2>2, ReachesNext, Zenon
  <2>5. QED
    BY <2>2, <2>3, <2>4, Zenon
<1>9. Seq(S) \subseteq M
  <2> HIDE DEF M
  <2> QED BY <1>7, <1>8, SeqInduction, Zenon
<1>10. QED
  BY <1>9, Zenon

LEMMA BlanksLast ==
    ASSUME NEW S, "(" \notin S, NEW x \in Seq(S), \A i \in 1 .. Len(x) : x[i] \in Blank,
           NEW t \in Seq(S), NEW d, NEW e, Reaches(t, d, e)
    PROVE  \E k : Reaches(t \o x, d, k)
<1> DEFINE B == S \cap Blank
           M == {y \in Seq(B) : \E k : Reaches(t \o y, d, k)}
<1>1. <<>> \in M
  <2>1. t \o <<>> = t /\ <<>> \in Seq(B)
    OBVIOUS
  <2>2. QED
    BY <2>1, Zenon
<1>2. ASSUME NEW y \in Seq(B), NEW c \in B, y \in M PROVE Append(y, c) \in M
  <2>1. PICK k : Reaches(t \o y, d, k)
    BY <1>2, Zenon
  <2>2. y \in Seq(S)
    OBVIOUS
  <2>3. /\ t \o y \in Seq(S) /\ Append(y, c) \in Seq(B) /\ t \o Append(y, c) = Append(t \o y, c)
        /\ c \in S /\ c \in Blank
    BY <2>2
  <2>4. Reaches(Append(t \o y, c), InAfter(d, k, c), EscapeAfter(d, k, c))
    BY <2>1, <2>3, ReachesNext, Zenon
  <2>5. InAfter(d, k, c) = d
    BY <2>1, <2>3, ReachesLegal, BlankStays, Zenon
  <2>6. QED
    BY <2>3, <2>4, <2>5, Zenon
<1>3. Seq(B) \subseteq M
  <2> HIDE DEF M, B
  <2> QED BY <1>1, <1>2, SeqInduction, Zenon
<1>4. x \in Seq(B)
  OBVIOUS
<1>5. QED
  BY <1>3, <1>4, Zenon

\* Trimming a text opens and closes nothing.
LEMMA TrimReaches ==
    ASSUME NEW S, "(" \notin S, NEW s \in Seq(S), NEW d, NEW e, Reaches(s, d, e)
    PROVE  Scan(TrimSpace(s)).in = d
<1> DEFINE t == TrimSpace(s)
<1>1. t \in Seq(S)
  BY TrimSplits, Zenon
<1>2. PICK x \in Seq(S), y \in Seq(S) : Between(s, x, t, y)
  BY TrimSplits, Zenon
<1> HIDE DEF t
<1>3. /\ s = x \o t \o y /\ \A i \in 1 .. Len(x) : x[i] \in Blank
      /\ \A i \in 1 .. Len(y) : y[i] \in Blank
  BY <1>2, Zenon DEF Between
<1>4. x \o t \in Seq(S)
  BY <1>1
<1>5. PICK j, k : Reaches(x \o t, j, k) /\ Reaches(t, j, k)
  BY <1>1, <1>3, BlanksFirst, Zenon
<1>6. PICK m : Reaches((x \o t) \o y, j, m)
  BY <1>3, <1>4, <1>5, BlanksLast, Zenon
<1>7. Scan(s).in = j
  BY <1>3, <1>6, ReachesScan, Zenon
<1>8. Scan(s).in = d
  BY ReachesScan, Zenon
<1>9. Scan(t).in = j
  BY <1>1, <1>5, ReachesScan, Zenon
<1>10. QED
  BY <1>7, <1>8, <1>9, Zenon DEF t

\* The delimiter that is open for splitPipe, and its escape.
Flags(p, s, q, k, c, e) ==
    /\ DOMAIN p = SplitFields
    /\ (p.single <=> s = 1) /\ (p.double <=> q = 1)
    /\ p.bracket = k /\ p.brace = c
    /\ (p.escaped <=> e # "") /\ ~ p.block
One(d, x) == IF d = x THEN 1 ELSE 0
FlagsAt(p, d, e) == Flags(p, One(d, "'"), One(d, "\""), One(d, "["), One(d, "{"), e)

SingleTurns(q, p) == q = [p EXCEPT !.single = ~ @]
DoubleTurns(q, p) == q = [p EXCEPT !.double = ~ @]
BracketOpens(q, p) == q = [p EXCEPT !.bracket = @ + 1]
BracketCloses(q, p) == q = [p EXCEPT !.bracket = Less(@)]
BraceOpens(q, p) == q = [p EXCEPT !.brace = @ + 1]
BraceCloses(q, p) == q = [p EXCEPT !.brace = Less(@)]
EscapeEnds(q, p, ch) == q = [p EXCEPT !.escaped = FALSE, !.lineStart = (ch = NL)]
EscapeBegins(q, p) == q = [p EXCEPT !.escaped = TRUE, !.lineStart = FALSE]
GoesOn(q, p, raw, i) ==
    q = [p EXCEPT !.block = BlockOpens(p, raw, i), !.lineStart = (raw[i] = NL)]

LEMMA Ones ==
    /\ \A x : One(x, x) = 1
    /\ \A x, y : x # y => One(x, y) = 0
    /\ 0 # 1
BY DEF One

\* What each change does to them.
LEMMA FlagUpdates ==
    ASSUME NEW p, NEW s, NEW x, NEW k, NEW c, NEW e, Flags(p, s, x, k, c, e), NEW q
    PROVE  /\ \A ch : q = Keep(p, ch) => Flags(q, s, x, k, c, e)
           /\ Separated(q, p) => Flags(q, s, x, k, c, e)
           /\ SingleTurns(q, p) /\ s = 0 => Flags(q, 1, x, k, c, e)
           /\ SingleTurns(q, p) /\ s = 1 => Flags(q, 0, x, k, c, e)
           /\ DoubleTurns(q, p) /\ x = 0 => Flags(q, s, 1, k, c, e)
           /\ DoubleTurns(q, p) /\ x = 1 => Flags(q, s, 0, k, c, e)
           /\ BracketOpens(q, p) /\ k = 0 => Flags(q, s, x, 1, c, e)
           /\ BracketCloses(q, p) /\ k \in {0, 1} => Flags(q, s, x, 0, c, e)
           /\ BraceOpens(q, p) /\ c = 0 => Flags(q, s, x, k, 1, e)
           /\ BraceCloses(q, p) /\ c \in {0, 1} => Flags(q, s, x, k, 0, e)
<1>1. \A ch : q = Keep(p, ch) => Flags(q, s, x, k, c, e)
  BY DEF Flags, SplitFields, Keep
<1>2. Separated(q, p) => Flags(q, s, x, k, c, e)
  BY DEF Flags, SplitFields, Separated
<1>0. /\ SingleTurns(q, p) => /\ DOMAIN q = DOMAIN p /\ (q.single <=> ~ p.single)
                             /\ (q.double <=> p.double) /\ q.bracket = p.bracket
                             /\ q.brace = p.brace /\ (q.escaped <=> p.escaped) /\ (q.block <=> p.block)
      /\ DoubleTurns(q, p) => /\ DOMAIN q = DOMAIN p /\ (q.double <=> ~ p.double)
                             /\ (q.single <=> p.single) /\ q.bracket = p.bracket
                             /\ q.brace = p.brace /\ (q.escaped <=> p.escaped) /\ (q.block <=> p.block)
  BY DEF Flags, SplitFields, SingleTurns, DoubleTurns
<1>3. SingleTurns(q, p) /\ s = 0 => Flags(q, 1, x, k, c, e)
  BY <1>0, Ones, Zenon DEF Flags
<1>4. SingleTurns(q, p) /\ s = 1 => Flags(q, 0, x, k, c, e)
  BY <1>0, Ones, Zenon DEF Flags
<1>5. DoubleTurns(q, p) /\ x = 0 => Flags(q, s, 1, k, c, e)
  BY <1>0, Ones, Zenon DEF Flags
<1>6. DoubleTurns(q, p) /\ x = 1 => Flags(q, s, 0, k, c, e)
  BY <1>0, Ones, Zenon DEF Flags
<1>7. Less(0) = 0 /\ Less(1) = 0 /\ 0 + 1 = 1
  BY DEF Less
<1>8. BracketOpens(q, p) /\ k = 0 => Flags(q, s, x, 1, c, e)
  BY <1>7 DEF Flags, SplitFields, BracketOpens
<1>9. BracketCloses(q, p) /\ k \in {0, 1} => Flags(q, s, x, 0, c, e)
  BY <1>7 DEF Flags, SplitFields, BracketCloses
<1>10. BraceOpens(q, p) /\ c = 0 => Flags(q, s, x, k, 1, e)
  BY <1>7 DEF Flags, SplitFields, BraceOpens
<1>11. BraceCloses(q, p) /\ c \in {0, 1} => Flags(q, s, x, k, 0, e)
  BY <1>7 DEF Flags, SplitFields, BraceCloses
<1>12. QED
  BY <1>1, <1>2, <1>3, <1>4, <1>5, <1>6, <1>8, <1>9, <1>10, <1>11, Zenon

LEMMA EscapeUpdates ==
    ASSUME NEW p, NEW s, NEW x, NEW k, NEW c, NEW e, Flags(p, s, x, k, c, e), NEW q
    PROVE  /\ \A ch : EscapeEnds(q, p, ch) => Flags(q, s, x, k, c, "")
           /\ EscapeBegins(q, p) => Flags(q, s, x, k, c, "\\")
           /\ \A raw, i : GoesOn(q, p, raw, i) /\ ~ BlockOpens(p, raw, i) => Flags(q, s, x, k, c, e)
<1>1. \A ch : EscapeEnds(q, p, ch) => Flags(q, s, x, k, c, "")
  BY DEF Flags, SplitFields, EscapeEnds
<1>2. EscapeBegins(q, p) => Flags(q, s, x, k, c, "\\")
  BY DEF Flags, SplitFields, EscapeBegins
<1>3. \A raw, i : GoesOn(q, p, raw, i) /\ ~ BlockOpens(p, raw, i) => Flags(q, s, x, k, c, e)
  BY DEF Flags, SplitFields, GoesOn
<1>4. QED
  BY <1>1, <1>2, <1>3, Zenon

\* A character that is not escaped opens and closes the same for both.
LEMMA CharacterFlags ==
    ASSUME NEW p, NEW d, Legal(d, ""), FlagsAt(p, d, ""), NEW ch, ch # "(",
           d \in Brackets => ch \notin Delimiters
    PROVE  FlagsAt(Character(p, ch), InAfter(d, "", ch), "")
<1> DEFINE q == Character(p, ch)
           k == Keep(p, ch)
<1>1. /\ \A x : One(x, x) = 1
      /\ \A x, y : x # y => One(x, y) = 0
  BY Ones, Zenon
<1>2. 0 # 1
  BY Ones, Zenon
<1>3. d \in {"", "'", "\"", "[", "{"}
  BY Zenon DEF Legal, Places, Quotes, Brackets
<1>4. Flags(k, One(d, "'"), One(d, "\""), One(d, "["), One(d, "{"), "")
  BY <1>1, FlagUpdates, Zenon DEF FlagsAt
<1>5. /\ p.single <=> One(d, "'") = 1
      /\ p.double <=> One(d, "\"") = 1
      /\ p.bracket = One(d, "[") /\ p.brace = One(d, "{")
  BY Zenon DEF FlagsAt, Flags
<1>6. Quoted(p) <=> p.single \/ p.double
  BY Zenon DEF Quoted
<1>7. CASE Separates(p, ch)
  <2>1. Separated(q, p)
    BY <1>7, Zenon DEF Character, Separated
  <2>2. ch = "|" /\ p.bracket = 0 /\ p.brace = 0 /\ ~ p.single /\ ~ p.double
    BY <1>7, Zenon DEF Separates, Flat, Quoted
  <2>3. d = ""
    BY <1>1, <1>2, <1>3, <1>5, <2>2, Zenon
  <2>4. InAfter(d, "", ch) = d
    BY <2>2, <2>3, Zenon DEF InAfter, Delimiters
  <2> HIDE DEF q, k
  <2>5. FlagsAt(q, d, "")
    BY <1>1, <2>1, FlagUpdates, Zenon DEF FlagsAt
  <2>6. QED
    BY <2>4, <2>5, Zenon DEF q
<1>8. CASE ~ Separates(p, ch)
  <2>1. /\ ch = "'" /\ ~ p.double => SingleTurns(q, k)
        /\ ch = "\"" /\ ~ p.single => DoubleTurns(q, k)
        /\ ch = "[" /\ ~ Quoted(p) => BracketOpens(q, k)
        /\ ch = "]" /\ ~ Quoted(p) => BracketCloses(q, k)
        /\ ch = "{" /\ ~ Quoted(p) => BraceOpens(q, k)
        /\ ch = "}" /\ ~ Quoted(p) => BraceCloses(q, k)
        /\ \/ Quoted(p) /\ (ch = "'" => p.double) /\ (ch = "\"" => p.single)
           \/ ch \notin {"'", "\"", "[", "]", "{", "}"}
           => q = k
    BY <1>6, <1>8, Zenon DEF Character, SingleTurns, DoubleTurns, BracketOpens, BracketCloses,
       BraceOpens, BraceCloses
  <2> HIDE DEF q, k
  <2>2. CASE d = ""
    <3>1. ~ p.single /\ ~ p.double /\ ~ Quoted(p)
      BY <1>1, <1>2, <1>5, <1>6, <2>2, Zenon
    <3>2. Flags(k, 0, 0, 0, 0, "") /\ 0 \in {0, 1}
      BY <1>1, <1>4, <2>2, Zenon
    <3>3. InAfter(d, "", ch) = IF ch \in {"'", "\"", "{", "["} THEN ch ELSE ""
      BY <2>2, Zenon DEF InAfter, Delimiters
    <3>4. CASE ch = "'"
      <4>1. Flags(q, 1, 0, 0, 0, "")
        BY <1>2, <2>1, <3>1, <3>2, <3>4, FlagUpdates, Zenon
      <4>2. QED
        BY <1>1, <3>3, <3>4, <4>1, Zenon DEF FlagsAt, q
    <3>5. CASE ch = "\""
      <4>1. Flags(q, 0, 1, 0, 0, "")
        BY <1>2, <2>1, <3>1, <3>2, <3>5, FlagUpdates, Zenon
      <4>2. QED
        BY <1>1, <3>3, <3>5, <4>1, Zenon DEF FlagsAt, q
    <3>6. CASE ch = "["
      <4>1. Flags(q, 0, 0, 1, 0, "")
        BY <1>2, <2>1, <3>1, <3>2, <3>6, FlagUpdates, Zenon
      <4>2. QED
        BY <1>1, <3>3, <3>6, <4>1, Zenon DEF FlagsAt, q
    <3>7. CASE ch = "{"
      <4>1. Flags(q, 0, 0, 0, 1, "")
        BY <1>2, <2>1, <3>1, <3>2, <3>7, FlagUpdates, Zenon
      <4>2. QED
        BY <1>1, <3>3, <3>7, <4>1, Zenon DEF FlagsAt, q
    <3>8. CASE ch \notin {"'", "\"", "{", "["}
      <4>1. Flags(q, 0, 0, 0, 0, "")
        <5>1. BracketCloses(q, k) \/ BraceCloses(q, k) \/ q = k
          BY <2>1, <3>1, <3>8, Zenon
        <5>2. QED
          BY <3>2, <5>1, FlagUpdates, Zenon
      <4>2. QED
        BY <1>1, <2>2, <3>3, <3>8, <4>1, Zenon DEF FlagsAt, q
    <3>9. QED
      BY <3>4, <3>5, <3>6, <3>7, <3>8, Zenon
  <2>3. CASE d = "'"
    <3>1. p.single /\ ~ p.double /\ Quoted(p)
      BY <1>1, <1>2, <1>5, <1>6, <2>3, Zenon
    <3>2. Flags(k, 1, 0, 0, 0, "") /\ 0 \in {0, 1} /\ 1 \in {0, 1}
      BY <1>1, <1>4, <2>3, Zenon
    <3>3. InAfter(d, "", ch) = IF ch = "'" THEN "" ELSE "'"
      BY <2>3, Zenon DEF InAfter, Matching
    <3>4. CASE ch = "'"
      <4>1. Flags(q, 0, 0, 0, 0, "")
        BY <1>2, <2>1, <3>1, <3>2, <3>4, FlagUpdates, Zenon
      <4>2. QED
        BY <1>1, <3>3, <3>4, <4>1, Zenon DEF FlagsAt, q
    <3>5. CASE ch # "'"
      <4>1. q = k
        BY <2>1, <3>1, <3>5, Zenon
      <4>2. QED
        BY <1>1, <3>2, <3>3, <3>5, <4>1, Zenon DEF FlagsAt, q
    <3>6. QED
      BY <3>4, <3>5, Zenon
  <2>4. CASE d = "\""
    <3>1. ~ p.single /\ p.double /\ Quoted(p)
      BY <1>1, <1>2, <1>5, <1>6, <2>4, Zenon
    <3>2. Flags(k, 0, 1, 0, 0, "") /\ 0 \in {0, 1} /\ 1 \in {0, 1}
      BY <1>1, <1>4, <2>4, Zenon
    <3>3. InAfter(d, "", ch) = IF ch = "\"" THEN "" ELSE "\""
      BY <2>4, Zenon DEF InAfter, Matching
    <3>4. CASE ch = "\""
      <4>1. Flags(q, 0, 0, 0, 0, "")
        BY <1>2, <2>1, <3>1, <3>2, <3>4, FlagUpdates, Zenon
      <4>2. QED
        BY <1>1, <3>3, <3>4, <4>1, Zenon DEF FlagsAt, q
    <3>5. CASE ch # "\""
      <4>1. q = k
        BY <2>1, <3>1, <3>5, Zenon
      <4>2. QED
        BY <1>1, <3>2, <3>3, <3>5, <4>1, Zenon DEF FlagsAt, q
    <3>6. QED
      BY <3>4, <3>5, Zenon
  <2>5. CASE d = "["
    <3>1. ~ p.single /\ ~ p.double /\ ~ Quoted(p)
      BY <1>1, <1>2, <1>5, <1>6, <2>5, Zenon
    <3>2. Flags(k, 0, 0, 1, 0, "") /\ 0 \in {0, 1} /\ 1 \in {0, 1}
      BY <1>1, <1>4, <2>5, Zenon
    <3>3. InAfter(d, "", ch) = IF ch = "]" THEN "" ELSE "["
      BY <2>5, Zenon DEF InAfter, Matching
    <3>4. ch \notin {"'", "\"", "{", "["}
      BY <2>5, Zenon DEF Brackets, Delimiters
    <3>5. CASE ch = "]"
      <4>1. Flags(q, 0, 0, 0, 0, "")
        BY <2>1, <3>1, <3>2, <3>5, FlagUpdates, Zenon
      <4>2. QED
        BY <1>1, <3>3, <3>5, <4>1, Zenon DEF FlagsAt, q
    <3>6. CASE ch # "]"
      <4>1. BraceCloses(q, k) \/ q = k
        BY <2>1, <3>1, <3>4, <3>6, Zenon
      <4>2. Flags(q, 0, 0, 1, 0, "")
        BY <3>2, <4>1, FlagUpdates, Zenon
      <4>3. QED
        BY <1>1, <3>3, <3>6, <4>2, Zenon DEF FlagsAt, q
    <3>7. QED
      BY <3>5, <3>6, Zenon
  <2>6. CASE d = "{"
    <3>1. ~ p.single /\ ~ p.double /\ ~ Quoted(p)
      BY <1>1, <1>2, <1>5, <1>6, <2>6, Zenon
    <3>2. Flags(k, 0, 0, 0, 1, "") /\ 0 \in {0, 1} /\ 1 \in {0, 1}
      BY <1>1, <1>4, <2>6, Zenon
    <3>3. InAfter(d, "", ch) = IF ch = "}" THEN "" ELSE "{"
      BY <2>6, Zenon DEF InAfter, Matching
    <3>4. ch \notin {"'", "\"", "{", "["}
      BY <2>6, Zenon DEF Brackets, Delimiters
    <3>5. CASE ch = "}"
      <4>1. Flags(q, 0, 0, 0, 0, "")
        BY <2>1, <3>1, <3>2, <3>5, FlagUpdates, Zenon
      <4>2. QED
        BY <1>1, <3>3, <3>5, <4>1, Zenon DEF FlagsAt, q
    <3>6. CASE ch # "}"
      <4>1. BracketCloses(q, k) \/ q = k
        BY <2>1, <3>1, <3>4, <3>6, Zenon
      <4>2. Flags(q, 0, 0, 0, 1, "")
        BY <3>2, <4>1, FlagUpdates, Zenon
      <4>3. QED
        BY <1>1, <3>3, <3>6, <4>2, Zenon DEF FlagsAt, q
    <3>7. QED
      BY <3>5, <3>6, Zenon
  <2>7. QED
    BY <1>3, <2>2, <2>3, <2>4, <2>5, <2>6, Zenon
<1>9. QED
  BY <1>7, <1>8, Zenon

\* Without "<<" no block opens.
LEMMA NothingOpens ==
    ASSUME NEW S, NEW raw \in Seq(S), NEW i \in 1 .. Len(raw), ~ StartsAt(raw, i, Opening), NEW p
    PROVE  ~ BlockOpens(p, raw, i)
<1> SUFFICES ASSUME BlockOpens(p, raw, i) PROVE StartsAt(raw, i, Opening)
  OBVIOUS
<1>1. i > 1 /\ StartsAt(raw, i - 1, <<"=">> \o Opening)
  BY Zenon DEF BlockOpens
<1> DEFINE o == <<"=">> \o Opening
           s == SubSeq(raw, i - 1, (i - 1) + 3 - 1)
<1>2. Len(o) = 3 /\ o[2] = "<" /\ o[3] = "<" /\ Len(Opening) = 2
  BY DEF Opening
<1> HIDE DEF o
<1>3. (i - 1) + 3 - 1 <= Len(raw) /\ s = o
  BY <1>1, <1>2, Zenon DEF StartsAt, o
<1>4. raw[i] = s[2] /\ raw[i + 1] = s[3]
  BY <1>1, <1>3
<1> HIDE DEF s
<1>5. raw[i] = "<" /\ raw[i + 1] = "<"
  BY <1>2, <1>3, <1>4, Zenon
<1>6. i + 2 - 1 <= Len(raw)
  BY <1>1, <1>3
<1> DEFINE u == SubSeq(raw, i, i + 2 - 1)
<1>7. u \in Seq(S) /\ Len(u) = 2 /\ u[1] = raw[i] /\ u[2] = raw[i + 1]
  BY <1>6
<1> HIDE DEF u
<1>8. u = <<u[1], u[2]>>
  BY <1>7
<1>9. u = Opening
  BY <1>5, <1>7, <1>8, Zenon DEF Opening
<1>10. QED
  BY <1>2, <1>6, <1>9, Zenon DEF StartsAt, u

LEMMA SplitFlags ==
    ASSUME NEW S, NEW raw \in Seq(S), NEW i \in 1 .. Len(raw), ~ StartsAt(raw, i, Opening),
           NEW p, NEW d, NEW e, Legal(d, e), FlagsAt(p, d, e),
           raw[i] # "(", d \in Brackets => raw[i] \notin Delimiters
    PROVE  FlagsAt(Split(p, raw, i), InAfter(d, e, raw[i]), EscapeAfter(d, e, raw[i]))
<1> DEFINE ch == raw[i]
           q == Split(p, raw, i)
           k == Keep(p, ch)
           c == Character(p, ch)
<1>1. ~ p.block /\ (p.escaped <=> e # "") /\ (p.double <=> One(d, "\"") = 1)
  BY Zenon DEF FlagsAt, Flags
<1>2. p.double <=> d = "\""
  BY <1>1, Ones, Zenon
<1>3. Flags(k, One(d, "'"), One(d, "\""), One(d, "["), One(d, "{"), e)
  BY FlagUpdates, Zenon DEF FlagsAt
<1>4. /\ "\"" \in Quotes /\ "\"" # "" /\ "\\" # "\"" /\ "\\" # ""
  BY Zenon DEF Quotes
<1>5. Matching("\"") = "\""
  BY <1>4, Characters, Zenon
<1>6. e = "" \/ (e = "\\" /\ d = "\"")
  BY Zenon DEF Legal
<1>7. CASE e # ""
  <2>1. EscapeEnds(q, k, ch)
    BY <1>1, <1>7, Zenon DEF Split, EscapeEnds
  <2>2. InAfter(d, e, ch) = d /\ EscapeAfter(d, e, ch) = ""
    BY <1>4, <1>6, <1>7, Zenon DEF InAfter, EscapeAfter
  <2> HIDE DEF ch, q, k, c
  <2>3. Flags(q, One(d, "'"), One(d, "\""), One(d, "["), One(d, "{"), "")
    BY <1>3, <2>1, EscapeUpdates, Zenon
  <2>4. QED
    BY <2>2, <2>3, Zenon DEF FlagsAt, ch, q
<1>8. CASE e = "" /\ d = "\"" /\ ch = "\\"
  <2>1. EscapeBegins(q, k)
    BY <1>1, <1>2, <1>8, Zenon DEF Split, EscapeBegins
  <2>2. InAfter(d, e, ch) = d /\ EscapeAfter(d, e, ch) = "\\"
    BY <1>4, <1>5, <1>8, Zenon DEF InAfter, EscapeAfter
  <2> HIDE DEF ch, q, k, c
  <2>3. Flags(q, One(d, "'"), One(d, "\""), One(d, "["), One(d, "{"), "\\")
    BY <1>3, <2>1, EscapeUpdates, Zenon
  <2>4. QED
    BY <2>2, <2>3, Zenon DEF FlagsAt, ch, q
<1>9. CASE e = "" /\ ~ (d = "\"" /\ ch = "\\")
  <2>1. GoesOn(q, c, raw, i)
    BY <1>1, <1>2, <1>9, Zenon DEF Split, GoesOn
  <2>2. EscapeAfter(d, e, ch) = ""
    BY <1>9, Zenon DEF EscapeAfter
  <2>3. FlagsAt(c, InAfter(d, "", ch), "")
    BY <1>9, CharacterFlags, Zenon
  <2>4. ~ BlockOpens(c, raw, i)
    BY NothingOpens, Zenon
  <2> DEFINE x == InAfter(d, "", ch)
  <2> HIDE DEF ch, q, k, c, x
  <2>5. FlagsAt(q, x, "")
    BY <2>1, <2>3, <2>4, EscapeUpdates, Zenon DEF FlagsAt, x
  <2>6. QED
    BY <1>9, <2>2, <2>5, Zenon DEF x, ch, q
<1>10. QED
  BY <1>7, <1>8, <1>9, Zenon

(* Both are at one place: no delimiter is open for splitPipe but the one   *)
(* that is open for the tokenizer, whether it reads the line or the stage, *)
(* and the stages that have ended are whole.                               *)
TogetherAt(p, s, S) ==
    /\ \E d, e : Reaches(s, d, e) /\ Reaches(p.buf, d, e) /\ FlagsAt(p, d, e)
    /\ p.buf \in Seq(S) /\ p.parts \in Seq(Seq(S))
    /\ \A k \in 1 .. Len(p.parts) : Tokenizes(p.parts[k])

LEMMA TogetherNext ==
    ASSUME NEW S, "(" \notin S, NEW raw \in Seq(S), NEW i \in 1 .. Len(raw),
           ~ StartsAt(raw, i, Opening),
           NEW s \in Seq(S), Scan(s).in \in Brackets => raw[i] \notin Delimiters,
           NEW p, TogetherAt(p, s, S)
    PROVE  TogetherAt(Split(p, raw, i), Append(s, raw[i]), S)
<1> DEFINE ch == raw[i]
           q == Split(p, raw, i)
<1>1. PICK d, e : Reaches(s, d, e) /\ Reaches(p.buf, d, e) /\ FlagsAt(p, d, e)
  BY Zenon DEF TogetherAt
<1>2. ch \in S /\ ch # "("
  <2>1. ch \in S
    OBVIOUS
  <2>2. QED
    BY <2>1, Zenon
<1>3. Legal(d, e)
  BY <1>1, ReachesLegal, Zenon
<1>4. d \in Brackets => ch \notin Delimiters
  BY <1>1, ReachesScan, Zenon
<1> DEFINE d2 == InAfter(d, e, ch)
           e2 == EscapeAfter(d, e, ch)
<1>5. FlagsAt(q, d2, e2)
  BY <1>1, <1>2, <1>3, <1>4, SplitFlags, Zenon
<1>6. Reaches(Append(s, ch), d2, e2)
  BY <1>1, <1>2, ReachesNext, Zenon
<1>7. p.buf \in Seq(S) /\ p.parts \in Seq(Seq(S)) /\ \A k \in 1 .. Len(p.parts) : Tokenizes(p.parts[k])
  BY Zenon DEF TogetherAt
<1>8. Cut(p, p.of, p.parts, p.buf)
  BY <1>1, Zenon DEF FlagsAt, Flags, Cut
<1>9. Kept(q, p.of, p.parts, p.buf, ch) \/ (Ends(q, p.of, p.parts, p.buf, ch) /\ Quiet(p))
  BY <1>8, SplitCuts, Zenon
<1>10. CASE Kept(q, p.of, p.parts, p.buf, ch)
  <2>1. q.parts = p.parts /\ q.buf = Append(p.buf, ch)
    BY <1>10, Zenon DEF Kept, Cut
  <2>2. Reaches(Append(p.buf, ch), d2, e2)
    BY <1>1, <1>2, <1>7, ReachesNext, Zenon
  <2> DEFINE b == p.buf
  <2> HIDE DEF b
  <2>3. b \in Seq(S)
    BY <1>7 DEF b
  <2>4. Append(b, ch) \in Seq(S)
    BY <1>2, <2>3
  <2> HIDE DEF ch, q, d2, e2
  <2>5. TogetherAt(q, Append(s, ch), S)
    BY <1>5, <1>6, <1>7, <2>1, <2>2, <2>4, Zenon DEF TogetherAt, b
  <2>6. QED
    BY <2>5, Zenon DEF ch, q
<1>11. CASE Ends(q, p.of, p.parts, p.buf, ch) /\ Quiet(p)
  <2> DEFINE b == p.buf
             x == TrimSpace(b)
             parts == p.parts
  <2>1. ch = "|" /\ q.parts = Append(parts, x) /\ q.buf = <<>>
    BY <1>11, Zenon DEF Ends, Cut
  <2>2. p.bracket = 0 /\ p.brace = 0 /\ ~ p.single /\ ~ p.double /\ ~ p.escaped
    BY <1>11, Zenon DEF Quiet, Flat, Quoted
  <2>3. d = "" /\ e = ""
    <3>1. d \in {"", "'", "\"", "[", "{"}
      BY <1>3, Zenon DEF Legal, Places, Quotes, Brackets
    <3>2. /\ p.single <=> One(d, "'") = 1
          /\ p.double <=> One(d, "\"") = 1
          /\ p.bracket = One(d, "[") /\ p.brace = One(d, "{")
          /\ p.escaped <=> e # ""
      BY <1>1, Zenon DEF FlagsAt, Flags
    <3>3. QED
      BY <2>2, <3>1, <3>2, Ones, Zenon
  <2>4. d2 = "" /\ e2 = ""
    BY <2>1, <2>3, Zenon DEF InAfter, EscapeAfter, Delimiters
  <2>5. Reaches(<<>>, "", "")
    BY LeadsEmpty, Zenon DEF Reaches
  <2>6. Tokenizes(x)
    BY <1>1, <1>7, <2>3, TrimReaches, Zenon DEF Tokenizes
  <2>7. x \in Seq(S)
    BY <1>7, TrimSplits, Zenon
  <2>8. /\ parts \in Seq(Seq(S)) /\ \A k \in 1 .. Len(parts) : Tokenizes(parts[k])
    BY <1>7
  <2> HIDE DEF x, parts, ch, q, d2, e2, b
  <2>9. Append(parts, x) \in Seq(Seq(S)) /\ <<>> \in Seq(S)
    BY <2>7, <2>8
  <2>10. ASSUME NEW k \in 1 .. Len(Append(parts, x)) PROVE Tokenizes(Append(parts, x)[k])
    <3>1. \/ k \in 1 .. Len(parts) /\ Append(parts, x)[k] = parts[k]
          \/ Append(parts, x)[k] = x
      BY <2>7, <2>8, <2>10
    <3>2. QED
      BY <2>6, <2>8, <3>1, Zenon
  <2>11. TogetherAt(q, Append(s, ch), S)
    BY <1>5, <1>6, <2>1, <2>4, <2>5, <2>9, <2>10, Zenon DEF TogetherAt
  <2>12. QED
    BY <2>11, Zenon DEF ch, q
<1>12. QED
  BY <1>9, <1>10, <1>11, Zenon

LEMMA TogetherBegins == ASSUME NEW S PROVE TogetherAt(NoPart, <<>>, S)
<1>1. Reaches(<<>>, "", "")
  BY LeadsEmpty, Zenon DEF Reaches
<1>2. /\ DOMAIN NoPart = SplitFields
      /\ ~ NoPart.single /\ ~ NoPart.double /\ NoPart.bracket = 0 /\ NoPart.brace = 0
      /\ ~ NoPart.escaped /\ ~ NoPart.block
      /\ NoPart.buf = <<>> /\ NoPart.parts = <<>>
  BY DEF NoPart, SplitFields
<1>3. /\ One("", "'") = 0 /\ One("", "\"") = 0 /\ One("", "[") = 0 /\ One("", "{") = 0
  BY Ones, Zenon
<1>4. 0 # 1
  BY Ones, Zenon
<1>5. FlagsAt(NoPart, "", "")
  BY <1>2, <1>3, <1>4, Zenon DEF FlagsAt, Flags
<1>6. <<>> \in Seq(S) /\ <<>> \in Seq(Seq(S)) /\ Len(<<>>) = 0 /\ \A k \in 1 .. 0 : FALSE
  OBVIOUS
<1>7. QED
  BY <1>1, <1>2, <1>5, <1>6, Zenon DEF TogetherAt

(* Where the line has no delimiter left open, no stage has.                *)
LEMMA StagesTokenize ==
    ASSUME NEW S, "(" \notin S, NEW raw \in Seq(S), Tokenizes(raw),
           \A i \in 1 .. Len(raw) : ~ StartsAt(raw, i, Opening),
           \A i \in 1 .. Len(raw) :
               Scan(SubSeq(raw, 1, i - 1)).in \in Brackets => raw[i] \notin Delimiters
    PROVE  \A k \in 1 .. Len(SplitPipe(raw)) : Tokenizes(SplitPipe(raw)[k])
<1>1. Len(raw) \in Nat /\ SubSeq(raw, 1, 0) = <<>> /\ SubSeq(raw, 1, Len(raw)) = raw
  OBVIOUS
<1>2. PICK f : Cutting(f, raw, Len(raw)) /\ Splitting(raw) = f[Len(raw)]
  BY <1>1, SplitSteps, Zenon
<1> DEFINE M == {i \in Nat : i <= Len(raw) => TogetherAt(f[i], SubSeq(raw, 1, i), S)}
<1>3. 0 \in M
  BY <1>1, <1>2, TogetherBegins, Zenon DEF Cutting
<1>4. ASSUME NEW i \in 1 .. Len(raw), i - 1 \in M PROVE i \in M
  <2> DEFINE s == SubSeq(raw, 1, i - 1)
  <2>1. s \in Seq(S) /\ SubSeq(raw, 1, i) = Append(s, raw[i])
    OBVIOUS
  <2>2. TogetherAt(f[i - 1], s, S)
    BY <1>1, <1>4
  <2>3. f[i] = Split(f[i - 1], raw, i)
    BY <1>2, Zenon DEF Cutting
  <2>4. Scan(s).in \in Brackets => raw[i] \notin Delimiters
    BY Zenon
  <2>5. ~ StartsAt(raw, i, Opening)
    BY Zenon
  <2> HIDE DEF s
  <2>6. TogetherAt(f[i], Append(s, raw[i]), S)
    BY <2>1, <2>2, <2>3, <2>4, <2>5, TogetherNext, Zenon
  <2>7. i \in Nat
    OBVIOUS
  <2>8. QED
    BY <2>1, <2>6, <2>7, Zenon
<1>5. 0 .. Len(raw) \subseteq M
  <2> HIDE DEF M
  <2> QED BY <1>1, <1>3, <1>4, Along
<1> DEFINE p == Splitting(raw)
<1>6. TogetherAt(p, raw, S)
  <2>1. Len(raw) \in 0 .. Len(raw) /\ Len(raw) <= Len(raw)
    BY <1>1
  <2>2. TogetherAt(f[Len(raw)], SubSeq(raw, 1, Len(raw)), S)
    BY <1>5, <2>1, Zenon
  <2>3. QED
    BY <1>1, <1>2, <2>2, Zenon
<1> DEFINE b == p.buf
           parts == p.parts
           x == TrimSpace(b)
<1>7. PICK d, e : Reaches(raw, d, e) /\ Reaches(b, d, e)
  BY <1>6, Zenon DEF TogetherAt
<1>8. b \in Seq(S) /\ parts \in Seq(Seq(S)) /\ \A k \in 1 .. Len(parts) : Tokenizes(parts[k])
  BY <1>6, Zenon DEF TogetherAt
<1>9. d = ""
  BY <1>7, ReachesScan, Zenon DEF Tokenizes
<1>10. Tokenizes(x)
  BY <1>7, <1>8, <1>9, TrimReaches, Zenon DEF Tokenizes
<1>11. SplitPipe(raw) = IF b = <<>> THEN parts ELSE Append(parts, x)
  BY Zenon DEF SplitPipe
<1>12. x \in Seq(S)
  BY <1>8, TrimSplits, Zenon
<1> HIDE DEF b, parts, x, p, M
<1>13. ASSUME NEW k \in 1 .. Len(Append(parts, x)) PROVE Tokenizes(Append(parts, x)[k])
  <2>1. \/ k \in 1 .. Len(parts) /\ Append(parts, x)[k] = parts[k]
        \/ Append(parts, x)[k] = x
    BY <1>8, <1>12, <1>13
  <2>2. QED
    BY <1>8, <1>10, <2>1, Zenon
<1>14. QED
  BY <1>8, <1>11, <1>13, Zenon

(* A line of a pipe is cut into its stages: for every line, nothing is     *)
(* lost or reordered, and no stage ends inside a delimiter.                *)
THEOREM SplitKeepsTokensCorrect == TextSpec => []SplitKeepsTokens
<1>1. ASSUME TextTypeOK PROVE SplitKeepsTokens
  <2> DEFINE of == PartOf(text)
             parts == SplitPipe(text)
  <2>1. text \in Seq(STRING)
    BY <1>1 DEF TextTypeOK
  <2>2. /\ \A i \in 1 .. Len(text) : of[i] = 0 => text[i] = "|"
        /\ Dense(FlattenSeq(parts)) =
               Dense(Chosen(text, [i \in 1 .. Len(text) |-> of[i] # 0]))
        /\ parts \in Seq(Seq(STRING))
    BY <2>1, SplitLosesNothing, Zenon
  <2>3. ASSUME Tokenizes(text), Simple(text), ~ Has(text, Opening)
        PROVE  \A k \in 1 .. Len(parts) : Tokenizes(parts[k])
    <3> DEFINE S == STRING \ {"("}
    <3>1. \A i \in 1 .. Len(text) : text[i] # "("
      BY <2>1, <2>3, HasNone, Zenon DEF Simple
    <3>2. \A i \in 1 .. Len(text) : text[i] \in S
      <4>1. \A i \in 1 .. Len(text) : text[i] \in STRING
        BY <2>1
      <4>2. QED
        BY <3>1, <4>1, Zenon
    <3>3. "(" \notin S
      BY Zenon
    <3> HIDE DEF S
    <3>4. text \in Seq(S)
      BY <2>1, <3>2
    <3>5. \A i \in 1 .. Len(text) : ~ StartsAt(text, i, Opening)
      BY <2>3, Zenon DEF Has
    <3>6. \A i \in 1 .. Len(text) :
              Scan(SubSeq(text, 1, i - 1)).in \in Brackets => text[i] \notin Delimiters
      BY <2>3, Zenon DEF Simple, Brackets
    <3>7. QED
      BY <2>3, <3>3, <3>4, <3>5, <3>6, StagesTokenize, Zenon
  <2> HIDE DEF of, parts
  <2>4. ASSUME NEW x \in ToSet(parts) PROVE \E k \in 1 .. Len(parts) : x = parts[k]
    <3>1. DOMAIN parts = 1 .. Len(parts)
      BY <2>2
    <3>2. QED
      BY <2>4, <3>1, Zenon DEF ToSet
  <2>5. QED
    BY <2>2, <2>3, <2>4, Zenon DEF SplitKeepsTokens, of, parts
<1>2. TextSpec => []TextTypeOK
  BY TextTyped
<1>3. QED
  BY <1>1, <1>2, PTL

-----------------------------------------------------------------------------
(* The lines of a text, and the messages that a listener makes of them.     *)

Lining(f, raw, n) ==
    /\ f = [i \in 0 .. n |-> f[i]]
    /\ f[0] = NoLine
    /\ \A i \in 1 .. n : f[i] = ReadString(f[i - 1], raw[i])

\* Reading lines goes from state to state.
LEMMA LinesSteps ==
    ASSUME NEW raw, Len(raw) \in Nat
    PROVE  \E f : Lining(f, raw, Len(raw)) /\ Lines(raw) = f[Len(raw)].lines
<1> DEFINE M == {n \in Nat : \E f : Lining(f, raw, n)}
<1>1. 0 \in M
  <2>1. Lining([i \in 0 .. 0 |-> NoLine], raw, 0)
    BY DEF Lining
  <2>2. QED
    BY <2>1
<1>2. ASSUME NEW n \in Nat, n \in M PROVE n + 1 \in M
  <2>1. PICK f : Lining(f, raw, n)
    BY <1>2
  <2> DEFINE x == ReadString(f[n], raw[n + 1])
             h == [i \in 0 .. n + 1 |-> IF i = n + 1 THEN x ELSE f[i]]
  <2>2. h = [i \in 0 .. n + 1 |-> h[i]] /\ h[0] = NoLine
    BY <2>1 DEF Lining
  <2>3. ASSUME NEW i \in 1 .. n + 1
        PROVE  h[i] = ReadString(h[i - 1], raw[i])
    <3>1. i - 1 \in 0 .. n + 1 /\ i - 1 # n + 1 /\ h[i - 1] = f[i - 1]
      OBVIOUS
    <3>2. CASE i = n + 1
      BY <3>1, <3>2
    <3>3. CASE i # n + 1
      <4>1. i \in 1 .. n /\ h[i] = f[i]
        BY <3>3
      <4>2. QED
        BY <4>1, <3>1, <2>1 DEF Lining
    <3>4. QED
      BY <3>2, <3>3
  <2> HIDE DEF h
  <2>4. Lining(h, raw, n + 1)
    BY <2>2, <2>3 DEF Lining
  <2>5. QED
    BY <2>4
<1>3. Nat \subseteq M
  <2> HIDE DEF M
  <2> QED BY <1>1, <1>2, Induction
<1>4. PICK g : Lining(g, raw, Len(raw))
  BY <1>3
<1> DEFINE Fits(f) == f = [i \in 0 .. Len(raw) |->
                          IF i = 0 THEN NoLine
                          ELSE ReadString(f[i - 1], raw[i])]
           h == CHOOSE f : Fits(f)
<1>5. Fits(g)
  <2> DEFINE e(i) == IF i = 0 THEN NoLine ELSE ReadString(g[i - 1], raw[i])
  <2> HIDE DEF Fits
  <2>1. /\ g = [i \in 0 .. Len(raw) |-> g[i]]
        /\ g[0] = NoLine
        /\ \A i \in 1 .. Len(raw) : g[i] = ReadString(g[i - 1], raw[i])
    BY <1>4 DEF Lining
  <2>2. \A i \in 0 .. Len(raw) : i = 0 \/ i \in 1 .. Len(raw)
    OBVIOUS
  <2>3. \A i \in 1 .. Len(raw) : i # 0
    OBVIOUS
  <2>4. \A i \in 0 .. Len(raw) : g[i] = e(i)
    BY <2>1, <2>2, <2>3, Zenon
  <2> HIDE DEF e
  <2>5. g = [i \in 0 .. Len(raw) |-> e(i)]
    BY <2>1, <2>4
  <2>6. QED
    BY <2>5 DEF e, Fits
<1>6. Fits(h)
  <2> HIDE DEF Fits
  <2> QED BY <1>5, Zenon
<1>7. Lines(raw) = h[Len(raw)].lines
  BY DEF Lines
<1> HIDE DEF h
<1>8. Lining(h, raw, Len(raw))
  BY <1>6 DEF Lining
<1>9. QED
  BY <1>7, <1>8

Composing(f, lines, n) ==
    /\ f = [i \in 0 .. n |-> f[i]]
    /\ f[0] = NoText
    /\ \A i \in 1 .. n : f[i] = ReadLine(f[i - 1], lines[i])

\* So does putting messages together from the lines.
LEMMA MessagesSteps ==
    ASSUME NEW s, NEW lines, lines = Lines(s), Len(lines) \in Nat
    PROVE  \E f : Composing(f, lines, Len(lines)) /\ Messages(s) = f[Len(lines)].done
<1> DEFINE M == {n \in Nat : \E f : Composing(f, lines, n)}
<1>1. 0 \in M
  <2>1. Composing([i \in 0 .. 0 |-> NoText], lines, 0)
    BY DEF Composing
  <2>2. QED
    BY <2>1
<1>2. ASSUME NEW n \in Nat, n \in M PROVE n + 1 \in M
  <2>1. PICK f : Composing(f, lines, n)
    BY <1>2
  <2> DEFINE x == ReadLine(f[n], lines[n + 1])
             h == [i \in 0 .. n + 1 |-> IF i = n + 1 THEN x ELSE f[i]]
  <2>2. h = [i \in 0 .. n + 1 |-> h[i]] /\ h[0] = NoText
    BY <2>1 DEF Composing
  <2>3. ASSUME NEW i \in 1 .. n + 1
        PROVE  h[i] = ReadLine(h[i - 1], lines[i])
    <3>1. i - 1 \in 0 .. n + 1 /\ i - 1 # n + 1 /\ h[i - 1] = f[i - 1]
      OBVIOUS
    <3>2. CASE i = n + 1
      BY <3>1, <3>2
    <3>3. CASE i # n + 1
      <4>1. i \in 1 .. n /\ h[i] = f[i]
        BY <3>3
      <4>2. QED
        BY <4>1, <3>1, <2>1 DEF Composing
    <3>4. QED
      BY <3>2, <3>3
  <2> HIDE DEF h
  <2>4. Composing(h, lines, n + 1)
    BY <2>2, <2>3 DEF Composing
  <2>5. QED
    BY <2>4
<1>3. Nat \subseteq M
  <2> HIDE DEF M
  <2> QED BY <1>1, <1>2, Induction
<1>4. PICK g : Composing(g, lines, Len(lines))
  BY <1>3
<1> DEFINE Fits(f) == f = [i \in 0 .. Len(lines) |->
                          IF i = 0 THEN NoText
                          ELSE ReadLine(f[i - 1], lines[i])]
           h == CHOOSE f : Fits(f)
<1>5. Fits(g)
  <2> DEFINE e(i) == IF i = 0 THEN NoText ELSE ReadLine(g[i - 1], lines[i])
  <2> HIDE DEF Fits
  <2>1. /\ g = [i \in 0 .. Len(lines) |-> g[i]]
        /\ g[0] = NoText
        /\ \A i \in 1 .. Len(lines) : g[i] = ReadLine(g[i - 1], lines[i])
    BY <1>4 DEF Composing
  <2>2. \A i \in 0 .. Len(lines) : i = 0 \/ i \in 1 .. Len(lines)
    OBVIOUS
  <2>3. \A i \in 1 .. Len(lines) : i # 0
    OBVIOUS
  <2>4. \A i \in 0 .. Len(lines) : g[i] = e(i)
    BY <2>1, <2>2, <2>3, Zenon
  <2> HIDE DEF e
  <2>5. g = [i \in 0 .. Len(lines) |-> e(i)]
    BY <2>1, <2>4
  <2>6. QED
    BY <2>5 DEF e, Fits
<1>6. Fits(h)
  <2> HIDE DEF Fits
  <2> QED BY <1>5, Zenon
<1>7. Messages(s) = h[Len(lines)].done
  BY DEF Messages
<1> HIDE DEF h
<1>8. Composing(h, lines, Len(lines))
  BY <1>6 DEF Composing
<1>9. QED
  BY <1>7, <1>8

-----------------------------------------------------------------------------
(* How the blocks lie in a message: one follows a line with a "<<", and    *)
(* ends where a line ends and the next one starts with ">>".               *)

\* The provers do not know that a literal is a string: the ones that texts are
\* written with here.
Char == STRING \cup {"c", Space, "k", "=", "~", "h", "\"", "\\", "r", "t",
                     NL, "<", ">", "[", ",", "]", "\r", "\t"}

LEMMA Among ==
    ASSUME NEW S, NEW T, NEW v \in Seq(S), \A i \in 1 .. Len(v) : v[i] \in S => v[i] \in T
    PROVE  v \in Seq(T)
OBVIOUS

LEMMA OfCharacters == ASSUME NEW v \in Seq(STRING) PROVE v \in Seq(Char)
<1>1. STRING \subseteq Char
  BY Zenon DEF Char
<1>2. \A i \in 1 .. Len(v) : v[i] \in STRING => v[i] \in Char
  BY <1>1, Zenon
<1>3. QED
  BY <1>2, Among, Zenon

Opens(t, j) == j + 1 <= Len(t) /\ t[j] = "<" /\ t[j + 1] = "<"
Closes(t, j) == j + 1 <= Len(t) /\ t[j] = ">" /\ t[j + 1] = ">"

\* The last line that ends at i has a "<<", and no part of a block after it.
Opened(t, c, i) ==
    \E j \in 1 .. i - 1 :
        /\ Opens(t, j)
        /\ \A k \in j .. i : ~ c[k]
        /\ \A k \in j .. i - 1 : t[k] # NL
BeginsOpened(t, c) == \A i \in 1 .. Len(t) - 1 : ~ c[i] /\ c[i + 1] => Opened(t, c, i)
LinesClose(t, c) ==
    \A i \in 1 .. Len(t) - 1 : t[i] = NL /\ ~ c[i + 1] => Closes(t, i + 1) /\ ~ c[i + 2]
EndsWithLine(t, c) == \A i \in 1 .. Len(t) - 1 : c[i] /\ ~ c[i + 1] => t[i] = NL
Shape(t, c) ==
    /\ t \in Seq(Char) /\ c \in Seq(BOOLEAN) /\ Len(c) = Len(t)
    /\ BeginsOpened(t, c) /\ LinesClose(t, c) /\ EndsWithLine(t, c)

\* u follows t.
Joins(t2, t, u) ==
    /\ Len(t2) = Len(t) + Len(u)
    /\ \A i \in 1 .. Len(t) : t2[i] = t[i]
    /\ \A i \in 1 .. Len(u) : t2[Len(t) + i] = u[i]
LEMMA ConcatJoins ==
    ASSUME NEW S, NEW t \in Seq(S), NEW u \in Seq(S)
    PROVE  t \o u \in Seq(S) /\ Joins(t \o u, t, u)
BY DEF Joins

\* A line or a block may follow.
LEMMA ShapeJoin ==
    ASSUME NEW t, NEW c, Shape(t, c), Len(t) >= 1,
           NEW u \in Seq(Char), Len(u) >= 1, \A i \in 1 .. Len(u) - 1 : u[i] # NL,
           NEW v \in Seq(BOOLEAN), Len(v) = Len(u),
           NEW inside \in BOOLEAN, \A i \in 1 .. Len(u) : v[i] = inside,
           inside /\ ~ c[Len(t)] => Opened(t, c, Len(t)),
           ~ inside /\ t[Len(t)] = NL => Closes(u, 1),
           ~ inside /\ c[Len(t)] => t[Len(t)] = NL
    PROVE  Shape(t \o u, c \o v)
<1> DEFINE n == Len(t)
           t2 == t \o u
           c2 == c \o v
<1>1. /\ t \in Seq(Char) /\ c \in Seq(BOOLEAN) /\ Len(c) = n /\ n \in Nat /\ Len(u) \in Nat
      /\ n >= 1 /\ Len(u) >= 1
  BY DEF Shape
<1>2. t2 \in Seq(Char) /\ Joins(t2, t, u)
  BY <1>1, ConcatJoins, Zenon
<1>3. c2 \in Seq(BOOLEAN) /\ Joins(c2, c, v)
  BY <1>1, ConcatJoins, Zenon
<1> HIDE DEF t2, c2
<1>4. /\ Len(t2) = n + Len(u) /\ \A i \in 1 .. n : t2[i] = t[i]
      /\ \A i \in 1 .. Len(u) : t2[n + i] = u[i]
  BY <1>2, Zenon DEF Joins
<1>5. /\ Len(c2) = n + Len(u) /\ \A i \in 1 .. n : c2[i] = c[i]
      /\ \A i \in 1 .. Len(u) : c2[n + i] = v[i]
  BY <1>1, <1>3, Zenon DEF Joins
<1> HIDE DEF n
<1>6. \A i \in 1 .. n : Opened(t, c, i) => Opened(t2, c2, i)
  <2> SUFFICES ASSUME NEW i \in 1 .. n, Opened(t, c, i) PROVE Opened(t2, c2, i)
    OBVIOUS
  <2>1. PICK j \in 1 .. i - 1 : /\ Opens(t, j) /\ \A k \in j .. i : ~ c[k]
                                /\ \A k \in j .. i - 1 : t[k] # NL
    BY Zenon DEF Opened
  <2>2. Opens(t2, j)
    BY <1>1, <1>4, <2>1 DEF Opens, n
  <2>3. \A k \in j .. i : ~ c2[k]
    BY <1>1, <1>5, <2>1
  <2>4. \A k \in j .. i - 1 : t2[k] # NL
    BY <1>1, <1>4, <2>1
  <2>5. QED
    BY <2>2, <2>3, <2>4, Zenon DEF Opened
<1>7. BeginsOpened(t2, c2)
  <2> SUFFICES ASSUME NEW i \in 1 .. Len(t2) - 1, ~ c2[i], c2[i + 1] PROVE Opened(t2, c2, i)
    BY DEF BeginsOpened
  <2>1. CASE i < n
    <3>1. i \in 1 .. Len(t) - 1 /\ i \in 1 .. n /\ i + 1 \in 1 .. n
      BY <1>1, <2>1 DEF n
    <3>2. ~ c[i] /\ c[i + 1]
      BY <1>5, <3>1
    <3>3. Opened(t, c, i)
      BY <3>1, <3>2, Zenon DEF Shape, BeginsOpened
    <3>4. QED
      BY <1>6, <3>1, <3>3
  <2>2. CASE i = n
    <3>1. n \in 1 .. n /\ 1 \in 1 .. Len(u)
      BY <1>1
    <3>2. ~ c[n] /\ inside
      BY <1>5, <2>2, <3>1
    <3>3. Opened(t, c, n)
      BY <3>2 DEF n
    <3>4. QED
      BY <1>6, <2>2, <3>1, <3>3
  <2>3. CASE i > n
    <3>1. i - n \in 1 .. Len(u) /\ i - n + 1 \in 1 .. Len(u) /\ n + (i - n) = i /\ n + (i - n + 1) = i + 1
      BY <1>1, <1>4, <2>3
    <3>2. c2[i] = v[i - n] /\ c2[i + 1] = v[i - n + 1]
      BY <1>5, <3>1
    <3>3. QED
      BY <3>1, <3>2
  <2>4. i < n \/ i = n \/ i > n
    BY <1>1, <1>4
  <2>5. QED
    BY <2>1, <2>2, <2>3, <2>4, Zenon
<1>8. LinesClose(t2, c2)
  <2> SUFFICES ASSUME NEW i \in 1 .. Len(t2) - 1, t2[i] = NL, ~ c2[i + 1]
               PROVE  Closes(t2, i + 1) /\ ~ c2[i + 2]
    BY DEF LinesClose
  <2>1. CASE i < n
    <3>1. i \in 1 .. Len(t) - 1 /\ i \in 1 .. n /\ i + 1 \in 1 .. n
      BY <1>1, <2>1 DEF n
    <3>2. t[i] = NL /\ ~ c[i + 1]
      BY <1>4, <1>5, <3>1
    <3>3. Closes(t, i + 1) /\ ~ c[i + 2]
      BY <3>1, <3>2, Zenon DEF Shape, LinesClose
    <3>4. i + 2 \in 1 .. n /\ t[i + 1] = ">" /\ t[i + 2] = ">"
      BY <1>1, <3>1, <3>3 DEF Closes, n
    <3>5. t2[i + 1] = ">" /\ t2[i + 2] = ">" /\ ~ c2[i + 2]
      BY <1>4, <1>5, <3>1, <3>3, <3>4
    <3>6. QED
      BY <1>1, <1>4, <3>4, <3>5 DEF Closes
  <2>2. CASE i = n
    <3>1. n \in 1 .. n /\ 1 \in 1 .. Len(u)
      BY <1>1
    <3>2. t[n] = NL /\ ~ inside
      BY <1>4, <1>5, <2>2, <3>1
    <3>3. Closes(u, 1)
      BY <3>2 DEF n
    <3>4. 2 \in 1 .. Len(u) /\ u[1] = ">" /\ u[2] = ">"
      BY <1>1, <3>3 DEF Closes
    <3>5. t2[n + 1] = ">" /\ t2[n + 2] = ">" /\ ~ c2[n + 2]
      BY <1>4, <1>5, <3>1, <3>2, <3>4
    <3>6. QED
      BY <1>1, <1>4, <2>2, <3>4, <3>5 DEF Closes
  <2>3. CASE i > n
    <3>1. i - n \in 1 .. Len(u) - 1 /\ i - n \in 1 .. Len(u) /\ n + (i - n) = i
      BY <1>1, <1>4, <2>3
    <3>2. t2[i] = u[i - n]
      BY <1>4, <3>1
    <3>3. QED
      BY <3>1, <3>2
  <2>4. i < n \/ i = n \/ i > n
    BY <1>1, <1>4
  <2>5. QED
    BY <2>1, <2>2, <2>3, <2>4, Zenon
<1>9. EndsWithLine(t2, c2)
  <2> SUFFICES ASSUME NEW i \in 1 .. Len(t2) - 1, c2[i], ~ c2[i + 1] PROVE t2[i] = NL
    BY DEF EndsWithLine
  <2>1. CASE i < n
    <3>1. i \in 1 .. Len(t) - 1 /\ i \in 1 .. n /\ i + 1 \in 1 .. n
      BY <1>1, <2>1 DEF n
    <3>2. c[i] /\ ~ c[i + 1]
      BY <1>5, <3>1
    <3>3. t[i] = NL
      BY <3>1, <3>2, Zenon DEF Shape, EndsWithLine
    <3>4. QED
      BY <1>4, <3>1, <3>3
  <2>2. CASE i = n
    <3>1. n \in 1 .. n /\ 1 \in 1 .. Len(u)
      BY <1>1
    <3>2. c[n] /\ ~ inside
      BY <1>5, <2>2, <3>1
    <3>3. t[n] = NL
      BY <3>2 DEF n
    <3>4. QED
      BY <1>4, <2>2, <3>1, <3>3
  <2>3. CASE i > n
    <3>1. i - n \in 1 .. Len(u) /\ i - n + 1 \in 1 .. Len(u) /\ n + (i - n) = i /\ n + (i - n + 1) = i + 1
      BY <1>1, <1>4, <2>3
    <3>2. c2[i] = v[i - n] /\ c2[i + 1] = v[i - n + 1]
      BY <1>5, <3>1
    <3>3. QED
      BY <3>1, <3>2
  <2>4. i < n \/ i = n \/ i > n
    BY <1>1, <1>4
  <2>5. QED
    BY <2>1, <2>2, <2>3, <2>4, Zenon
<1>10. QED
  BY <1>1, <1>2, <1>3, <1>4, <1>5, <1>7, <1>8, <1>9 DEF Shape, t2, c2

\* Two characters, looked for one by one.
LEMMA StartsWithTwo ==
    ASSUME NEW S, NEW s \in Seq(S), NEW i \in 1 .. Len(s), NEW a, NEW b
    PROVE  StartsAt(s, i, <<a, b>>) <=> i + 1 <= Len(s) /\ s[i] = a /\ s[i + 1] = b
<1> DEFINE o == <<a, b>>
           u == SubSeq(s, i, i + 2 - 1)
<1>1. Len(o) = 2 /\ o[1] = a /\ o[2] = b
  OBVIOUS
<1>2. i + 2 - 1 <= Len(s) <=> i + 1 <= Len(s)
  OBVIOUS
<1>3. ASSUME i + 1 <= Len(s)
      PROVE  u \in Seq(S) /\ Len(u) = 2 /\ u[1] = s[i] /\ u[2] = s[i + 1]
  BY <1>3
<1> HIDE DEF u
<1>4. ASSUME i + 1 <= Len(s), s[i] = a, s[i + 1] = b PROVE u = o
  <2>1. u \in Seq(S) /\ Len(u) = 2 /\ u[1] = a /\ u[2] = b
    BY <1>3, <1>4
  <2>2. u = <<u[1], u[2]>>
    BY <2>1
  <2>3. QED
    BY <2>1, <2>2, Zenon
<1>5. ASSUME i + 1 <= Len(s), u = o PROVE s[i] = a /\ s[i + 1] = b
  <2>1. u[1] = s[i] /\ u[2] = s[i + 1]
    BY <1>3, <1>5
  <2> HIDE DEF o
  <2>2. QED
    BY <1>1, <1>5, <2>1, Zenon
<1>6. StartsAt(s, i, o) <=> i + 2 - 1 <= Len(s) /\ u = o
  <2> HIDE DEF o
  <2> QED BY <1>1, Zenon DEF StartsAt, u
<1>7. QED
  BY <1>2, <1>4, <1>5, <1>6, Zenon

LEMMA StartsOpens ==
    ASSUME NEW S, NEW s \in Seq(S), NEW i \in 1 .. Len(s)
    PROVE  /\ StartsAt(s, i, Opening) <=> Opens(s, i)
           /\ StartsAt(s, i, Closing) <=> Closes(s, i)
<1>1. StartsAt(s, i, <<"<", "<">>) <=> i + 1 <= Len(s) /\ s[i] = "<" /\ s[i + 1] = "<"
  BY StartsWithTwo, Zenon
<1>2. StartsAt(s, i, <<">", ">">>) <=> i + 1 <= Len(s) /\ s[i] = ">" /\ s[i + 1] = ">"
  BY StartsWithTwo, Zenon
<1>3. QED
  BY <1>1, <1>2, Zenon DEF Opening, Closing, Opens, Closes

\* A line that closes a block starts with ">>".
LEMMA ClosingStarts ==
    ASSUME NEW S, NEW s \in Seq(S), ClosesBlock(s)
    PROVE  Closes(s, 1) /\ Len(s) >= 2
<1>1. CASE s = Closing
  BY <1>1 DEF Closing, Closes
<1>2. CASE StartsAt(s, 1, Closing \o <<Space>>)
  <2> DEFINE o == Closing \o <<Space>>
             u == SubSeq(s, 1, 1 + 3 - 1)
  <2>1. Len(o) = 3 /\ o[1] = ">" /\ o[2] = ">"
    BY DEF Closing
  <2> HIDE DEF o
  <2>2. 1 + 3 - 1 <= Len(s) /\ u = o
    BY <1>2, <2>1, Zenon DEF StartsAt, o
  <2>3. u[1] = s[1] /\ u[2] = s[2] /\ Len(s) >= 2 /\ 1 + 1 <= Len(s) /\ 1 + 1 = 2
    BY <2>2
  <2> HIDE DEF u
  <2>4. QED
    BY <2>1, <2>2, <2>3, Zenon DEF Closes
<1>3. QED
  BY <1>1, <1>2, Zenon DEF ClosesBlock

\* Lines are without line ends.
Inline == Char \ {NL}
LEMMA LinesType ==
    ASSUME NEW s \in Seq(Char)
    PROVE  Lines(s) \in Seq(Seq(Inline))
<1>1. Len(s) \in Nat
  OBVIOUS
<1>2. PICK f : Lining(f, s, Len(s)) /\ Lines(s) = f[Len(s)].lines
  BY <1>1, LinesSteps, Zenon
<1> DEFINE At(r) == /\ r \in [lines : Seq(Seq(Inline)), line : Seq(Inline)]
           M == {i \in Nat : At(f[i])}
<1>3. 0 \in M
  <2>1. f[0] = [lines |-> <<>>, line |-> <<>>]
    BY <1>2, Zenon DEF Lining, NoLine
  <2>2. <<>> \in Seq(Inline) /\ <<>> \in Seq(Seq(Inline))
    OBVIOUS
  <2> DEFINE r == f[0]
  <2> HIDE DEF r
  <2>3. At(r)
    BY <2>1, <2>2 DEF r
  <2>4. QED
    BY <2>3 DEF r
<1>4. ASSUME NEW i \in 1 .. Len(s), i - 1 \in M PROVE i \in M
  <2> DEFINE r == f[i - 1]
  <2>1. At(r)
    BY <1>4
  <2>2. f[i] = ReadString(r, s[i]) /\ s[i] \in Char
    <3>1. f[i] = ReadString(r, s[i])
      BY <1>2, Zenon DEF Lining
    <3>2. s[i] \in Char
      OBVIOUS
    <3>3. QED
      BY <3>1, <3>2
  <2> HIDE DEF r
  <2> DEFINE lines == r.lines
             line == r.line
  <2>3. r = [lines |-> lines, line |-> line] /\ lines \in Seq(Seq(Inline)) /\ line \in Seq(Inline)
    BY <2>1
  <2> HIDE DEF lines, line
  <2>4. CASE s[i] = NL
    <3>1. f[i] = [lines |-> Append(lines, WithoutReturn(line)), line |-> <<>>]
      BY <2>2, <2>4, <2>3 DEF ReadString
    <3>2. WithoutReturn(line) \in Seq(Inline)
      BY <2>3 DEF WithoutReturn, Front
    <3> DEFINE x == WithoutReturn(line)
    <3> HIDE DEF x
    <3>3. Append(lines, x) \in Seq(Seq(Inline)) /\ <<>> \in Seq(Inline)
      BY <2>3, <3>2 DEF x
    <3>4. At(f[i])
      BY <3>1, <3>3 DEF x
    <3>5. QED
      BY <3>4
  <2>5. CASE s[i] # NL
    <3>1. f[i] = [lines |-> lines, line |-> Append(line, s[i])] /\ s[i] \in Inline
      BY <2>2, <2>5, <2>3 DEF ReadString, Inline
    <3>2. Append(line, s[i]) \in Seq(Inline)
      BY <2>3, <3>1
    <3>3. At(f[i])
      BY <2>3, <3>1, <3>2
    <3>4. QED
      BY <3>3
  <2>6. QED
    BY <2>4, <2>5
<1>5. 0 .. Len(s) \subseteq M
  <2> HIDE DEF M
  <2> QED BY <1>1, <1>3, <1>4, Along
<1>6. Len(s) \in M
  <2> HIDE DEF M
  <2> QED BY <1>1, <1>5
<1>7. QED
  BY <1>2, <1>6

\* A message whose block is open: the next line is a part of it, or closes it.
First(t, c) == \E j \in 1 .. Len(t) - 1 : Opens(t, j) /\ \A k \in 1 .. j : ~ c[k]
Pending(t, c) ==
    /\ Shape(t, c) /\ Len(t) >= 1 /\ First(t, c)
    /\ IF c[Len(t)] THEN t[Len(t)] = NL ELSE Opened(t, c, Len(t))
Fill(u, inside) == [i \in 1 .. Len(u) |-> inside]

LEMMA FillType ==
    ASSUME NEW S, NEW u \in Seq(S), NEW inside \in BOOLEAN
    PROVE  /\ Fill(u, inside) \in Seq(BOOLEAN) /\ Len(Fill(u, inside)) = Len(u)
           /\ \A i \in 1 .. Len(u) : Fill(u, inside)[i] = inside
BY DEF Fill

\* One line alone has no block.
LEMMA PlainShape ==
    ASSUME NEW u \in Seq(Char), \A i \in 1 .. Len(u) - 1 : u[i] # NL,
           NEW c \in Seq(BOOLEAN), Len(c) = Len(u), \A i \in 1 .. Len(u) : ~ c[i]
    PROVE  Shape(u, c)
<1>1. \A i \in 1 .. Len(u) - 1 : i \in 1 .. Len(u) /\ i + 1 \in 1 .. Len(u)
  OBVIOUS
<1>2. QED
  BY <1>1, Zenon DEF Shape, BeginsOpened, LinesClose, EndsWithLine

LEMMA LineType ==
    ASSUME NEW line \in Seq(Inline), NEW end \in {line, Append(line, NL)}
    PROVE  /\ end \in Seq(Char) /\ Len(end) >= Len(line) /\ Len(line) \in Nat
           /\ \A i \in 1 .. Len(line) : end[i] = line[i] /\ line[i] # NL
           /\ \A i \in 1 .. Len(end) - 1 : end[i] # NL
<1> DEFINE y == NL
<1>1. \A x \in Inline : x \in Char /\ x # y
  BY Zenon DEF Inline, Char
<1>2. y \in Char
  BY Zenon DEF Char
<1> HIDE DEF y, Inline, Char
<1>3. line \in Seq(Char) /\ Len(line) \in Nat /\ \A i \in 1 .. Len(line) : line[i] # y
  BY <1>1
<1>4. CASE end = line
  <2>1. \A i \in 1 .. Len(end) - 1 : i \in 1 .. Len(line)
    BY <1>3, <1>4
  <2>2. Len(end) >= Len(line)
    BY <1>3, <1>4
  <2>3. QED
    BY <1>3, <1>4, <2>1, <2>2, Zenon DEF y
<1>5. CASE end = Append(line, y)
  <2>1. /\ end \in Seq(Char) /\ Len(end) = Len(line) + 1
        /\ \A i \in 1 .. Len(line) : end[i] = line[i]
    BY <1>2, <1>3, <1>5
  <2>2. \A i \in 1 .. Len(end) - 1 : i \in 1 .. Len(line)
    BY <1>3, <2>1
  <2>3. Len(end) >= Len(line)
    BY <1>3, <2>1
  <2>4. QED
    BY <1>3, <2>1, <2>2, <2>3, Zenon DEF y
<1>6. QED
  BY <1>4, <1>5, Zenon DEF y

LEMMA OpensInLine ==
    ASSUME NEW line \in Seq(Inline), Has(line, Opening)
    PROVE  \E j \in 1 .. Len(line) - 1 : Opens(line, j)
<1>1. PICK j \in 1 .. Len(line) : StartsAt(line, j, Opening)
  BY Zenon DEF Has
<1>2. Opens(line, j)
  BY <1>1, StartsOpens, Zenon
<1>3. j \in 1 .. Len(line) - 1
  BY <1>2 DEF Opens
<1>4. QED
  BY <1>2, <1>3

LEMMA PendingBegins ==
    ASSUME NEW line \in Seq(Inline), Has(line, Opening)
    PROVE  Pending(Append(line, NL), Fill(Append(line, NL), FALSE))
<1> DEFINE t == Append(line, NL)
           c == Fill(t, FALSE)
<1>1. /\ t \in Seq(Char) /\ \A i \in 1 .. Len(t) - 1 : t[i] # NL
      /\ \A i \in 1 .. Len(line) : t[i] = line[i] /\ line[i] # NL
  BY LineType, Zenon
<1>2. Len(t) = Len(line) + 1 /\ Len(line) \in Nat
  OBVIOUS
<1>3. PICK j \in 1 .. Len(line) - 1 : Opens(line, j)
  BY OpensInLine, Zenon
<1> HIDE DEF t
<1>4. c \in Seq(BOOLEAN) /\ Len(c) = Len(t) /\ \A i \in 1 .. Len(t) : ~ c[i]
  BY <1>1, FillType
<1> HIDE DEF c
<1>5. Shape(t, c)
  BY <1>1, <1>4, PlainShape, Zenon
<1>6. j \in 1 .. Len(t) - 1 /\ Opens(t, j)
  BY <1>1, <1>2, <1>3 DEF Opens
<1>7. \A k \in 1 .. j : ~ c[k]
  BY <1>2, <1>4
<1>8. \A k \in j .. Len(t) : ~ c[k]
  BY <1>2, <1>4
<1>9. \A k \in j .. Len(t) - 1 : t[k] # NL
  BY <1>1, <1>2
<1>10. First(t, c) /\ Opened(t, c, Len(t))
  BY <1>6, <1>7, <1>8, <1>9, Zenon DEF First, Opened
<1>11. ~ c[Len(t)] /\ Len(t) >= 1
  BY <1>2, <1>4
<1>12. Pending(t, c)
  BY <1>5, <1>10, <1>11, Zenon DEF Pending
<1>13. QED
  BY <1>12 DEF c, t

\* What can follow, and what it leads to.
LEMMA PendingJoins ==
    ASSUME NEW t, NEW c, Pending(t, c), NEW line \in Seq(Inline),
           NEW u \in {line, Append(line, NL)}, Len(u) >= 1,
           NEW inside \in BOOLEAN, ~ inside => Closes(u, 1)
    PROVE  /\ Shape(t \o u, c \o Fill(u, inside)) /\ First(t \o u, c \o Fill(u, inside))
           /\ inside /\ u = Append(line, NL) => Pending(t \o u, c \o Fill(u, inside))
           /\ ~ inside /\ u = line /\ Has(line, Opening)
                  => Pending(t \o u, c \o Fill(u, inside))
<1> DEFINE n == Len(t)
           v == Fill(u, inside)
           t2 == t \o u
           c2 == c \o v
<1>1. /\ t \in Seq(Char) /\ c \in Seq(BOOLEAN) /\ Len(c) = n /\ n >= 1 /\ n \in Nat
  BY DEF Pending, Shape
<1>2. /\ u \in Seq(Char) /\ Len(u) \in Nat
      /\ \A i \in 1 .. Len(u) - 1 : u[i] # NL
      /\ Len(line) \in Nat
      /\ \A i \in 1 .. Len(line) : u[i] = line[i] /\ line[i] # NL
  <2>1. u \in Seq(Char)
    BY LineType, Zenon
  <2>2. Len(u) \in Nat
    BY <2>1
  <2>3. QED
    BY <2>1, <2>2, LineType, Zenon
<1>3. v \in Seq(BOOLEAN) /\ Len(v) = Len(u) /\ \A i \in 1 .. Len(u) : v[i] = inside
  BY <1>2, FillType, Zenon
<1>4. /\ inside /\ ~ c[n] => Opened(t, c, n)
      /\ ~ inside /\ c[n] => t[n] = NL
  BY Zenon DEF Pending
<1> HIDE DEF v
<1>5. Shape(t2, c2)
  BY <1>1, <1>2, <1>3, <1>4, ShapeJoin DEF Pending
<1>6. t2 \in Seq(Char) /\ Joins(t2, t, u)
  BY <1>1, <1>2, ConcatJoins, Zenon
<1>7. c2 \in Seq(BOOLEAN) /\ Joins(c2, c, v)
  BY <1>1, <1>3, ConcatJoins, Zenon
<1> HIDE DEF t2, c2
<1>8. /\ Len(t2) = n + Len(u) /\ \A i \in 1 .. n : t2[i] = t[i]
      /\ \A i \in 1 .. Len(u) : t2[n + i] = u[i]
  BY <1>6, Zenon DEF Joins
<1>9. /\ Len(c2) = n + Len(u) /\ \A i \in 1 .. n : c2[i] = c[i]
      /\ \A i \in 1 .. Len(u) : c2[n + i] = v[i]
  BY <1>1, <1>3, <1>7, Zenon DEF Joins
<1>10. First(t2, c2)
  <2>1. PICK j \in 1 .. n - 1 : Opens(t, j) /\ \A k \in 1 .. j : ~ c[k]
    BY Zenon DEF Pending, First
  <2> HIDE DEF n
  <2>2. j \in 1 .. Len(t2) - 1 /\ Opens(t2, j)
    BY <1>1, <1>2, <1>8, <2>1 DEF Opens
  <2>3. \A k \in 1 .. j : ~ c2[k]
    BY <1>1, <1>9, <2>1
  <2>4. QED
    BY <2>2, <2>3, Zenon DEF First
<1> HIDE DEF n
<1>11. Len(t2) >= 1 /\ t2[Len(t2)] = u[Len(u)] /\ (c2[Len(t2)] <=> inside)
  BY <1>1, <1>2, <1>3, <1>8, <1>9
<1>12. ASSUME inside, u = Append(line, NL) PROVE Pending(t2, c2)
  <2>1. u[Len(u)] = NL
    BY <1>2, <1>12
  <2>2. QED
    BY <1>5, <1>10, <1>11, <1>12, <2>1, Zenon DEF Pending
<1>13. ASSUME ~ inside, u = line, Has(line, Opening) PROVE Pending(t2, c2)
  <2>1. PICK j \in 1 .. Len(line) - 1 : Opens(line, j)
    BY <1>13, OpensInLine, Zenon
  <2>2. n + j \in 1 .. Len(t2) - 1 /\ Opens(t2, n + j)
    BY <1>1, <1>2, <1>8, <1>13, <2>1 DEF Opens
  <2>3. \A k \in n + j .. Len(t2) : k - n \in 1 .. Len(u) /\ n + (k - n) = k
    BY <1>1, <1>2, <1>8, <1>13, <2>1
  <2>4. \A k \in n + j .. Len(t2) : ~ c2[k] /\ t2[k] # NL
    <3> SUFFICES ASSUME NEW k \in n + j .. Len(t2) PROVE ~ c2[k] /\ t2[k] # NL
      OBVIOUS
    <3>1. k - n \in 1 .. Len(u) /\ n + (k - n) = k
      BY <2>3
    <3>2. c2[k] = v[k - n] /\ t2[k] = u[k - n] /\ u[k - n] # NL /\ v[k - n] = inside
      BY <1>2, <1>3, <1>8, <1>9, <1>13, <3>1
    <3>3. QED
      BY <1>13, <3>2
  <2>5. \A k \in n + j .. Len(t2) - 1 : t2[k] # NL
    BY <1>1, <1>8, <2>4
  <2>6. Opened(t2, c2, Len(t2))
    BY <2>2, <2>4, <2>5, Zenon DEF Opened
  <2>7. QED
    BY <1>5, <1>10, <1>11, <1>13, <2>6, Zenon DEF Pending
<1>14. QED
  BY <1>5, <1>10, <1>12, <1>13 DEF t2, c2, v

\* A message as readMessage returns it.
WellMade(t, c) == Shape(t, c) /\ (Len(t) >= 1 => ~ c[1])

LEMMA AnglesAreSolid == "<" \notin Blank /\ ">" \notin Blank
BY Zenon DEF Blank, Space, NL

\* Blanks at the ends are no "<<" and no ">>".
LEMMA ShapeTrims ==
    ASSUME NEW t, NEW c, Shape(t, c), First(t, c) \/ \A k \in 1 .. Len(t) : ~ c[k],
           Solid(t) # {}
    PROVE  WellMade(TrimSpace(t), TrimBeside(t, c))
<1> DEFINE l == Least(Solid(t))
           g == Greatest(Solid(t))
           x == SubSeq(t, l, g)
           y == SubSeq(c, l, g)
<1>1. /\ t \in Seq(Char) /\ c \in Seq(BOOLEAN) /\ Len(c) = Len(t) /\ Len(t) \in Nat
  BY DEF Shape
<1>2. Solid(t) \subseteq 1 .. Len(t)
  BY DEF Solid
<1>3. /\ l \in Solid(t) /\ g \in Solid(t)
      /\ \A j \in Solid(t) : l <= j /\ j <= g
  BY <1>1, <1>2, Extremes, Zenon
<1>4. TrimSpace(t) = x /\ TrimBeside(t, c) = y
  BY Zenon DEF TrimSpace, TrimBeside
<1>5. \A j \in 1 .. Len(t) : t[j] \in {"<", ">"} => l <= j /\ j <= g
  <2>1. \A j \in 1 .. Len(t) : t[j] \in {"<", ">"} => j \in Solid(t)
    BY AnglesAreSolid, Zenon DEF Solid
  <2>2. QED
    BY <1>3, <2>1, Zenon
<1> HIDE DEF l, g
<1>6. l \in 1 .. Len(t) /\ g \in 1 .. Len(t) /\ l <= g
  BY <1>2, <1>3
<1> DEFINE m == l - 1
<1>7. /\ x \in Seq(Char) /\ Len(x) = g - m /\ \A i \in 1 .. Len(x) : x[i] = t[m + i]
      /\ y \in Seq(BOOLEAN) /\ Len(y) = g - m /\ \A i \in 1 .. Len(x) : y[i] = c[m + i]
  BY <1>1, <1>6
<1>8. m \in Nat /\ m < g /\ g <= Len(t)
  BY <1>6
<1>9. \A j \in 1 .. Len(t) : t[j] \in {"<", ">"} => j > m /\ j <= g
  BY <1>5, <1>6
<1> HIDE DEF x, y, m
<1>10. \A i \in 1 .. Len(x) - 1 : /\ i \in 1 .. Len(x) /\ i + 1 \in 1 .. Len(x)
                                  /\ m + i \in 1 .. Len(t) - 1 /\ m + (i + 1) = (m + i) + 1
  BY <1>1, <1>6, <1>7, <1>8
<1>11. BeginsOpened(x, y)
  <2> SUFFICES ASSUME NEW i \in 1 .. Len(x) - 1, ~ y[i], y[i + 1] PROVE Opened(x, y, i)
    BY DEF BeginsOpened
  <2>1. /\ m + i \in 1 .. Len(t) - 1 /\ ~ c[m + i] /\ c[(m + i) + 1]
    BY <1>1, <1>6, <1>7, <1>8, <1>10
  <2>2. Opened(t, c, m + i)
    BY <2>1, Zenon DEF Shape, BeginsOpened
  <2>3. PICK j \in 1 .. (m + i) - 1 : /\ Opens(t, j) /\ \A k \in j .. m + i : ~ c[k]
                                      /\ \A k \in j .. (m + i) - 1 : t[k] # NL
    BY <2>2, Zenon DEF Opened
  <2>4. j + 1 <= Len(t) /\ t[j] = "<" /\ t[j + 1] = "<" /\ j \in 1 .. Len(t)
    BY <1>1, <2>1, <2>3 DEF Opens
  <2>5. j > m
    BY <1>9, <2>4
  <2>6. j - m \in 1 .. i - 1 /\ m + (j - m) = j /\ m + ((j - m) + 1) = j + 1
    BY <1>8, <2>3, <2>5
  <2>7. Opens(x, j - m)
    <3>1. j + 1 <= g
      BY <1>1, <1>9, <2>3, <2>4
    <3>2. m \in Int /\ g \in Int /\ j \in Int /\ j > m
      BY <1>6, <1>8, <2>3, <2>5
    <3>3. j - m \in 1 .. g - m /\ (j - m) + 1 \in 1 .. g - m /\ (j - m) + 1 <= g - m
      BY <3>1, <3>2
    <3>4. j - m \in 1 .. Len(x) /\ (j - m) + 1 \in 1 .. Len(x) /\ (j - m) + 1 <= Len(x)
      BY <1>7, <3>3, Zenon
    <3>5. x[j - m] = t[m + (j - m)] /\ x[(j - m) + 1] = t[m + ((j - m) + 1)]
      BY <1>7, <3>4, Zenon
    <3>6. x[j - m] = t[j] /\ x[(j - m) + 1] = t[j + 1]
      BY <2>6, <3>5, Zenon
    <3>7. QED
      BY <2>4, <3>4, <3>6, Zenon DEF Opens
  <2>8. ASSUME NEW k \in j - m .. i PROVE ~ y[k]
    <3>1. k \in 1 .. Len(x) /\ m + k \in j .. m + i
      BY <1>7, <1>8, <2>6
    <3>2. QED
      BY <1>7, <2>3, <3>1
  <2>9. ASSUME NEW k \in j - m .. i - 1 PROVE x[k] # NL
    <3>1. k \in 1 .. Len(x) /\ m + k \in j .. (m + i) - 1
      BY <1>7, <1>8, <2>6
    <3>2. QED
      BY <1>7, <2>3, <3>1
  <2>10. QED
    BY <2>6, <2>7, <2>8, <2>9, Zenon DEF Opened
<1>12. LinesClose(x, y)
  <2> SUFFICES ASSUME NEW i \in 1 .. Len(x) - 1, x[i] = NL, ~ y[i + 1]
               PROVE  Closes(x, i + 1) /\ ~ y[i + 2]
    BY DEF LinesClose
  <2>1. m + i \in 1 .. Len(t) - 1 /\ t[m + i] = NL /\ ~ c[(m + i) + 1]
    BY <1>1, <1>6, <1>7, <1>8, <1>10
  <2>2. Closes(t, (m + i) + 1) /\ ~ c[(m + i) + 2]
    BY <2>1, Zenon DEF Shape, LinesClose
  <2>3. /\ t[(m + i) + 1] = ">" /\ t[(m + i) + 2] = ">" /\ (m + i) + 2 \in 1 .. Len(t)
    BY <1>1, <2>1, <2>2 DEF Closes
  <2>4. (m + i) + 2 <= g
    BY <1>9, <2>3
  <2>5. i + 1 \in 1 .. Len(x) /\ i + 2 \in 1 .. Len(x)
        /\ m + (i + 1) = (m + i) + 1 /\ m + (i + 2) = (m + i) + 2
    BY <1>1, <1>6, <1>7, <1>8, <1>10, <2>4
  <2>6. x[i + 1] = ">" /\ x[i + 2] = ">" /\ ~ y[i + 2]
    BY <1>7, <2>2, <2>3, <2>5
  <2>7. QED
    BY <1>7, <1>8, <2>5, <2>6 DEF Closes
<1>13. EndsWithLine(x, y)
  <2> SUFFICES ASSUME NEW i \in 1 .. Len(x) - 1, y[i], ~ y[i + 1] PROVE x[i] = NL
    BY DEF EndsWithLine
  <2>1. m + i \in 1 .. Len(t) - 1 /\ c[m + i] /\ ~ c[(m + i) + 1]
    BY <1>1, <1>6, <1>7, <1>8, <1>10
  <2>2. t[m + i] = NL
    BY <2>1, Zenon DEF Shape, EndsWithLine
  <2>3. QED
    BY <1>7, <1>8, <2>2
<1>14. ~ y[1]
  <2>1. ~ c[l]
    <3>1. CASE First(t, c)
      <4>1. PICK j \in 1 .. Len(t) - 1 : Opens(t, j) /\ \A k \in 1 .. j : ~ c[k]
        BY <3>1, Zenon DEF First
      <4>2. t[j] = "<" /\ j \in 1 .. Len(t)
        BY <1>1, <4>1 DEF Opens
      <4>3. l \in 1 .. j
        BY <1>5, <1>6, <4>2
      <4>4. QED
        BY <4>1, <4>3
    <3>2. QED
      BY <1>6, <3>1
  <2>2. m + 1 = l /\ 1 \in 1 .. Len(x)
    BY <1>6, <1>7, <1>8 DEF m
  <2>3. QED
    BY <1>7, <2>1, <2>2
<1>15. WellMade(x, y)
  BY <1>7, <1>11, <1>12, <1>13, <1>14, Zenon DEF WellMade, Shape
<1>16. QED
  BY <1>4, <1>15 DEF x, y

\* readMessage between two lines.
MadeMessages == {m \in [text : Seq(Char), content : Seq(BOOLEAN)] : WellMade(m.text, m.content)}
ListenerFields == {"open", "text", "content", "done"}
ListenerIs(r, o, t, c, d) ==
    /\ DOMAIN r = ListenerFields
    /\ (r.open <=> o) /\ r.text = t /\ r.content = c /\ r.done = d
BetweenLines(r) ==
    \E o, t, c, d :
        /\ ListenerIs(r, o, t, c, d) /\ d \in Seq(MadeMessages)
        /\ IF o THEN Pending(t, c) ELSE t = <<>> /\ c = <<>>

LEMMA TakesUpdates ==
    ASSUME NEW r, NEW o, NEW t, NEW c, NEW d, ListenerIs(r, o, t, c, d), NEW u, NEW inside
    PROVE  /\ ListenerIs(Takes(r, u, inside), o, t \o u, c \o Fill(u, inside), d)
           /\ ListenerIs([Takes(r, u, inside) EXCEPT !.open = TRUE],
                      TRUE, t \o u, c \o Fill(u, inside), d)
<1> DEFINE v == Fill(u, inside)
           q == Takes(r, u, inside)
<1>1. q = [r EXCEPT !.text = @ \o u, !.content = @ \o v]
  BY Zenon DEF Takes, Fill
<1> HIDE DEF v, q
<1>2. ListenerIs(q, o, t \o u, c \o v, d)
  BY <1>1 DEF ListenerIs, ListenerFields
<1>3. /\ DOMAIN [q EXCEPT !.open = TRUE] = DOMAIN q /\ [q EXCEPT !.open = TRUE].open
      /\ [q EXCEPT !.open = TRUE].text = q.text /\ [q EXCEPT !.open = TRUE].content = q.content
      /\ [q EXCEPT !.open = TRUE].done = q.done
  BY <1>2 DEF ListenerIs, ListenerFields
<1>4. QED
  BY <1>2, <1>3, Zenon DEF ListenerIs, q, v

LEMMA CompleteUpdates ==
    ASSUME NEW r, NEW o, NEW t, NEW c, NEW d, ListenerIs(r, o, t, c, d)
    PROVE  ListenerIs(Complete(r), FALSE, <<>>, <<>>,
                   IF Solid(t) = {} THEN d
                   ELSE Append(d, [text |-> TrimSpace(t), content |-> TrimBeside(t, c)]))
BY DEF ListenerIs, ListenerFields, Complete, NoText

LEMMA CompleteBetween ==
    ASSUME NEW r, NEW o, NEW t, NEW c, NEW d, ListenerIs(r, o, t, c, d), d \in Seq(MadeMessages),
           Shape(t, c), First(t, c) \/ \A k \in 1 .. Len(t) : ~ c[k]
    PROVE  BetweenLines(Complete(r))
<1> DEFINE m == [text |-> TrimSpace(t), content |-> TrimBeside(t, c)]
           e == IF Solid(t) = {} THEN d ELSE Append(d, m)
<1>1. ListenerIs(Complete(r), FALSE, <<>>, <<>>, e)
  BY CompleteUpdates, Zenon
<1>2. ASSUME Solid(t) # {} PROVE m \in MadeMessages
  <2>1. WellMade(TrimSpace(t), TrimBeside(t, c))
    BY <1>2, ShapeTrims, Zenon
  <2>2. QED
    BY <2>1 DEF MadeMessages, WellMade, Shape
<1> HIDE DEF m
<1>3. e \in Seq(MadeMessages)
  BY <1>2
<1>4. QED
  BY <1>1, <1>3, Zenon DEF BetweenLines

LEMMA ReadLineBetween ==
    ASSUME NEW r, BetweenLines(r), NEW line \in Seq(Inline)
    PROVE  BetweenLines(ReadLine(r, line))
<1> DEFINE ended == Append(line, NL)
<1>1. PICK o, t, c, d : /\ ListenerIs(r, o, t, c, d) /\ d \in Seq(MadeMessages)
                        /\ IF o THEN Pending(t, c) ELSE t = <<>> /\ c = <<>>
  BY Zenon DEF BetweenLines
<1>2. r.open <=> o
  BY <1>1 DEF ListenerIs
<1>3. /\ line \in Seq(Char) /\ \A i \in 1 .. Len(line) - 1 : line[i] # NL
      /\ ended \in Seq(Char)
  BY LineType, Zenon
<1>4. Len(ended) >= 1
  OBVIOUS
<1> HIDE DEF ended
<1>5. CASE ~ r.open
  <2> DEFINE s == Takes(r, line, FALSE)
             q == [Takes(r, ended, FALSE) EXCEPT !.open = TRUE]
             v == Fill(line, FALSE)
             w == Fill(ended, FALSE)
  <2>1. t = <<>> /\ c = <<>>
    BY <1>1, <1>2, <1>5, Zenon
  <2>2. /\ v \in Seq(BOOLEAN) /\ Len(v) = Len(line) /\ \A i \in 1 .. Len(line) : ~ v[i]
        /\ w \in Seq(BOOLEAN)
    BY <1>3, FillType
  <2>3. /\ ListenerIs(s, o, t \o line, c \o v, d)
        /\ ListenerIs(q, TRUE, t \o ended, c \o w, d)
    BY <1>1, TakesUpdates, Zenon
  <2> HIDE DEF v, w
  <2>4. t \o line = line /\ t \o ended = ended /\ c \o v = v /\ c \o w = w
    BY <1>3, <2>1, <2>2
  <2>5. ListenerIs(s, o, line, v, d) /\ ListenerIs(q, TRUE, ended, w, d)
    BY <2>3, <2>4
  <2>6. CASE Has(line, Opening)
    <3>1. ReadLine(r, line) = q
      BY <1>5, <2>6, Zenon DEF ReadLine, ended
    <3>2. Pending(ended, w)
      BY <2>6, PendingBegins, Zenon DEF ended, w
    <3>3. QED
      BY <1>1, <2>5, <3>1, <3>2, Zenon DEF BetweenLines
  <2>7. CASE ~ Has(line, Opening)
    <3>1. ReadLine(r, line) = Complete(s)
      BY <1>5, <2>7, Zenon DEF ReadLine
    <3>2. Shape(line, v)
      BY <1>3, <2>2, PlainShape, Zenon
    <3> HIDE DEF s
    <3>3. BetweenLines(Complete(s))
      BY <1>1, <2>2, <2>5, <3>2, CompleteBetween, Zenon
    <3>4. QED
      BY <3>1, <3>3, Zenon
  <2>8. QED
    BY <2>6, <2>7, Zenon
<1>6. CASE r.open
  <2>1. Pending(t, c)
    BY <1>1, <1>2, <1>6, Zenon
  <2>2. CASE ~ ClosesBlock(line)
    <3>1. ReadLine(r, line) = Takes(r, ended, TRUE)
      BY <1>6, <2>2, Zenon DEF ReadLine, ended
    <3>2. ListenerIs(Takes(r, ended, TRUE), o, t \o ended, c \o Fill(ended, TRUE), d)
      BY <1>1, TakesUpdates, Zenon
    <3>3. Pending(t \o ended, c \o Fill(ended, TRUE))
      <4>1. ended \in {line, Append(line, NL)} /\ TRUE \in BOOLEAN
        BY Zenon DEF ended
      <4>2. QED
        BY <1>4, <2>1, <4>1, PendingJoins, Zenon DEF ended
    <3>4. QED
      BY <1>1, <1>2, <1>6, <3>1, <3>2, <3>3, Zenon DEF BetweenLines
  <2>3. CASE ClosesBlock(line)
    <3> DEFINE s == Takes(r, line, FALSE)
               v == Fill(line, FALSE)
    <3>1. ListenerIs(s, o, t \o line, c \o v, d)
      BY <1>1, TakesUpdates, Zenon
    <3>2. Closes(line, 1) /\ Len(line) >= 1
      BY <1>3, <2>3, ClosingStarts
    <3>3. /\ Shape(t \o line, c \o v) /\ First(t \o line, c \o v)
          /\ Has(line, Opening) => Pending(t \o line, c \o v)
      <4>1. line \in {line, Append(line, NL)} /\ FALSE \in BOOLEAN
        BY Zenon
      <4>2. QED
        BY <2>1, <3>2, <4>1, PendingJoins, Zenon
    <3> HIDE DEF v
    <3>4. CASE Has(line, Opening)
      <4>1. ReadLine(r, line) = s
        BY <1>6, <2>3, <3>4, Zenon DEF ReadLine
      <4>2. QED
        BY <1>1, <1>2, <1>6, <3>1, <3>3, <3>4, <4>1, Zenon DEF BetweenLines
    <3>5. CASE ~ Has(line, Opening)
      <4>1. ReadLine(r, line) = Complete(s)
        BY <1>6, <2>3, <3>5, Zenon DEF ReadLine
      <4> HIDE DEF s
      <4>2. BetweenLines(Complete(s))
        BY <1>1, <3>1, <3>3, CompleteBetween, Zenon
      <4>3. QED
        BY <4>1, <4>2, Zenon
    <3>6. QED
      BY <3>4, <3>5, Zenon
  <2>4. QED
    BY <2>2, <2>3, Zenon
<1>7. QED
  BY <1>5, <1>6, Zenon

(* Every message that a listener takes from a text is made like that.      *)
LEMMA MessagesWellMade ==
    ASSUME NEW s \in Seq(Char)
    PROVE  Messages(s) \in Seq(MadeMessages)
<1> DEFINE lines == Lines(s)
<1>1. lines \in Seq(Seq(Inline))
  BY LinesType, Zenon
<1> HIDE DEF lines
<1>2. Len(lines) \in Nat
  BY <1>1
<1>3. PICK f : Composing(f, lines, Len(lines)) /\ Messages(s) = f[Len(lines)].done
  BY <1>2, MessagesSteps, Zenon DEF lines
<1> DEFINE M == {i \in Nat : BetweenLines(f[i])}
<1>4. 0 \in M
  <2>1. f[0] = NoText
    BY <1>3, Zenon DEF Composing
  <2>2. <<>> \in Seq(MadeMessages)
    OBVIOUS
  <2>3. ListenerIs(NoText, FALSE, <<>>, <<>>, <<>>)
    BY DEF NoText, ListenerIs, ListenerFields
  <2>4. BetweenLines(NoText)
    BY <2>2, <2>3, Zenon DEF BetweenLines
  <2>5. QED
    BY <2>1, <2>4
<1>5. ASSUME NEW i \in 1 .. Len(lines), i - 1 \in M PROVE i \in M
  <2>1. BetweenLines(f[i - 1]) /\ i \in Nat
    BY <1>5
  <2>2. f[i] = ReadLine(f[i - 1], lines[i])
    BY <1>3, Zenon DEF Composing
  <2>3. lines[i] \in Seq(Inline)
    BY <1>1
  <2>4. BetweenLines(f[i])
    BY <2>1, <2>2, <2>3, ReadLineBetween, Zenon
  <2>5. QED
    BY <2>1, <2>4
<1>6. 0 .. Len(lines) \subseteq M
  <2> HIDE DEF M
  <2> QED BY <1>2, <1>4, <1>5, Along
<1>7. BetweenLines(f[Len(lines)])
  BY <1>2, <1>6
<1>8. PICK o, t, c, d : ListenerIs(f[Len(lines)], o, t, c, d) /\ d \in Seq(MadeMessages)
  BY <1>7, Zenon DEF BetweenLines
<1>9. f[Len(lines)].done = d
  BY <1>8 DEF ListenerIs
<1>10. QED
  BY <1>3, <1>8, <1>9, Zenon

-----------------------------------------------------------------------------
(* What lies outside the blocks of a message, up to each of its characters. *)

OutsideStep(m, i) ==
    Outside(m, i) = IF m.content[i] THEN Outside(m, i - 1)
                    ELSE Append(Outside(m, i - 1), m.text[i])
LEMMA OutsideNext ==
    ASSUME NEW S, NEW m, m.text \in Seq(S), NEW i \in 1 .. Len(m.text)
    PROVE  OutsideStep(m, i)
<1> DEFINE t == m.text
           c == m.content
           s == SubSeq(t, 1, i - 1)
           keep == [k \in 1 .. i - 1 |-> ~ c[k]]
           more == [k \in 1 .. i |-> ~ c[k]]
<1>1. t \in Seq(S) /\ i \in 1 .. Len(t) /\ Len(t) \in Nat
  OBVIOUS
<1> HIDE DEF t, c
<1>2. s \in Seq(S) /\ Len(s) = i - 1 /\ t[i] \in S /\ SubSeq(t, 1, i) = Append(s, t[i])
  BY <1>1
<1>3. \A k \in 1 .. i - 1 : more[k] = keep[k]
  BY <1>1
<1>4. (i - 1) + 1 = i /\ i \in 1 .. i
  BY <1>1
<1>5. more[i] <=> ~ c[i]
  BY <1>4
<1>6. Outside(m, i) = Chosen(SubSeq(t, 1, i), more) /\ Outside(m, i - 1) = Chosen(s, keep)
  BY Zenon DEF Outside, t, c
<1> HIDE DEF s, keep, more
<1>7. ChosenStep(s, t[i], keep, more)
  BY <1>2, <1>3, ChosenNext, Zenon
<1>8. Chosen(Append(s, t[i]), more) = Choose(Chosen(s, keep), t[i], more[i])
  BY <1>2, <1>4, <1>7, Zenon DEF ChosenStep
<1>9. QED
  BY <1>2, <1>5, <1>6, <1>8, Zenon DEF OutsideStep, Choose, t, c

LEMMA OutsideType ==
    ASSUME NEW S, NEW m, m.text \in Seq(S), NEW i \in 0 .. Len(m.text)
    PROVE  Outside(m, i) \in Seq(S) /\ Outside(m, 0) = <<>>
<1>1. SubSeq(m.text, 1, i) \in Seq(S) /\ SubSeq(m.text, 1, 0) = <<>>
  OBVIOUS
<1>2. QED
  BY <1>1, ChosenType, ChosenEmpty, Zenon DEF Outside

\* A character outside the blocks is one of them, and what is outside before it comes before it.
Begins(u, w) == Len(u) <= Len(w) /\ \A k \in 1 .. Len(u) : w[k] = u[k]
Placed(w, u, x) == \E k \in 1 .. Len(w) : SubSeq(w, 1, k - 1) = u /\ w[k] = x
LEMMA BeginsSub ==
    ASSUME NEW S, NEW u \in Seq(S), NEW x \in S, NEW w \in Seq(S), Begins(Append(u, x), w)
    PROVE  Placed(w, u, x)
<1> DEFINE k == Len(u) + 1
           v == Append(u, x)
<1>1. /\ v \in Seq(S) /\ Len(v) = k /\ v[k] = x /\ \A j \in 1 .. k - 1 : v[j] = u[j]
      /\ Len(u) \in Nat /\ Len(u) = k - 1
  OBVIOUS
<1>2. Len(v) <= Len(w) /\ \A j \in 1 .. Len(v) : w[j] = v[j]
  BY Zenon DEF Begins
<1> HIDE DEF v, k
<1>3. k \in 1 .. Len(w) /\ w[k] = x /\ \A j \in 1 .. k - 1 : w[j] = u[j]
  BY <1>1, <1>2
<1> DEFINE y == SubSeq(w, 1, k - 1)
<1>4. y \in Seq(S) /\ Len(y) = k - 1 /\ \A j \in 1 .. Len(y) : y[j] = w[j]
  BY <1>3
<1> HIDE DEF y
<1>5. y = u
  <2>1. Len(y) = Len(u) /\ \A j \in 1 .. Len(y) : y[j] = u[j]
    BY <1>1, <1>3, <1>4
  <2>2. QED
    BY <1>4, <2>1, SeqEqual
<1>6. QED
  BY <1>3, <1>5 DEF y, Placed

LEMMA OutsidePlace ==
    ASSUME NEW S, NEW m, m.text \in Seq(S), NEW i \in 1 .. Len(m.text), ~ m.content[i]
    PROVE  Placed(Outside(m, Len(m.text)), Outside(m, i - 1), m.text[i])
<1> DEFINE t == m.text
           M == {n \in Nat : n >= i => Begins(Outside(m, i), Outside(m, n))}
<1>1. t \in Seq(S) /\ i \in 1 .. Len(t) /\ Len(t) \in Nat
  OBVIOUS
<1> HIDE DEF t
<1>2. \A n \in 0 .. Len(t) : Outside(m, n) \in Seq(S)
  BY OutsideType, Zenon DEF t
<1>3. 0 \in M
  BY <1>1
<1>4. ASSUME NEW n \in 1 .. Len(t), n - 1 \in M PROVE n \in M
  <2> DEFINE u == Outside(m, i)
             w == Outside(m, n)
             x == Outside(m, n - 1)
  <2>1. n - 1 \in 0 .. Len(t) /\ n \in 0 .. Len(t) /\ i \in 0 .. Len(t) /\ n \in Nat
    BY <1>1
  <2>2. u \in Seq(S) /\ w \in Seq(S) /\ x \in Seq(S)
    BY <1>2, <2>1
  <2>3. w = IF m.content[n] THEN x ELSE Append(x, t[n])
    <3>1. OutsideStep(m, n)
      BY <1>1, OutsideNext, Zenon DEF t
    <3>2. QED
      BY <3>1, Zenon DEF OutsideStep, t
  <2>4. CASE n = i
    <3>1. Begins(u, u)
      BY <2>2 DEF Begins
    <3>2. QED
      BY <2>1, <2>4, <3>1
  <2>5. CASE n > i
    <3>1. n - 1 >= i
      BY <1>1, <2>1, <2>5
    <3>2. Begins(u, x)
      BY <1>4, <3>1
    <3> HIDE DEF u, w, x
    <3>3. t[n] \in S
      BY <1>1
    <3>4. Begins(u, w)
      <4>1. CASE m.content[n]
        BY <2>3, <3>2, <4>1
      <4>2. CASE ~ m.content[n]
        <5>1. w = Append(x, t[n])
          BY <2>3, <4>2
        <5>2. Len(w) = Len(x) + 1 /\ \A k \in 1 .. Len(x) : w[k] = x[k]
          BY <2>2, <3>3, <5>1
        <5>3. Len(u) <= Len(x) /\ \A k \in 1 .. Len(u) : x[k] = u[k]
          BY <3>2, Zenon DEF Begins
        <5>4. Len(u) <= Len(w) /\ \A k \in 1 .. Len(u) : w[k] = u[k]
          BY <2>2, <5>2, <5>3
        <5>5. QED
          BY <5>4, Zenon DEF Begins
      <4>3. QED
        BY <4>1, <4>2, Zenon
    <3>5. QED
      BY <2>1, <3>4 DEF u, w
  <2>6. CASE n < i
    BY <1>1, <2>1, <2>6
  <2>7. n = i \/ n > i \/ n < i
    BY <1>1, <2>1
  <2>8. QED
    <3> HIDE DEF M, u, w, x
    <3> QED BY <2>4, <2>5, <2>6, <2>7, Zenon
<1>5. 0 .. Len(t) \subseteq M
  <2> HIDE DEF M
  <2> QED BY <1>1, <1>3, <1>4, Along
<1>6. Begins(Outside(m, i), Outside(m, Len(t)))
  BY <1>1, <1>5
<1>7. OutsideStep(m, i) /\ i - 1 \in 0 .. Len(t) /\ Len(t) \in 0 .. Len(t)
  <2>1. OutsideStep(m, i)
    BY <1>1, OutsideNext, Zenon DEF t
  <2>2. QED
    BY <1>1, <2>1
<1>8. Outside(m, i) = Append(Outside(m, i - 1), t[i])
  BY <1>7, Zenon DEF OutsideStep, t
<1>9. t[i] \in S /\ Outside(m, i - 1) \in Seq(S) /\ Outside(m, Len(t)) \in Seq(S)
  <2>1. t[i] \in S
    BY <1>1
  <2>2. QED
    BY <1>2, <1>7, <2>1, Zenon
<1>10. Begins(Append(Outside(m, i - 1), t[i]), Outside(m, Len(t)))
  BY <1>6, <1>8, Zenon
<1>11. Placed(Outside(m, Len(t)), Outside(m, i - 1), t[i])
  BY <1>9, <1>10, BeginsSub, Zenon
<1>12. QED
  BY <1>11, Zenon DEF t

\* BlocksAreValues, character by character.
Valued(m) ==
    \A i \in 1 .. Len(m.text) :
        /\ Opens(m.text, i) /\ ~ m.content[i]
              => /\ i > 1 /\ m.text[i - 1] = "=" /\ Tokenizes(Outside(m, i - 1))
                 /\ i + 1 < Len(m.text) => m.text[i + 2] = NL \/ m.content[i + 2]
        /\ Closes(m.text, i) /\ m.content[i] => m.text[i - 1] # NL
LEMMA BlocksValued ==
    ASSUME NEW S, NEW m, m.text \in Seq(S), BlocksAreValues(m)
    PROVE  Valued(m) /\ Simple(Outside(m, Len(m.text)))
<1>1. ASSUME NEW i \in 1 .. Len(m.text)
      PROVE  /\ StartsAt(m.text, i, Opening) <=> Opens(m.text, i)
             /\ StartsAt(m.text, i, Closing) <=> Closes(m.text, i)
  BY StartsOpens, Zenon
<1>2. QED
  BY <1>1, Zenon DEF BlocksAreValues, Valued

\* A block begins right after a "<<", or after the end of its line.
LEMMA BlockBeginsNear ==
    ASSUME NEW m, Shape(m.text, m.content), Valued(m), NEW i \in 2 .. Len(m.text),
           ~ m.content[i - 1], m.content[i]
    PROVE  \E j \in {i - 2, i - 3} : j >= 1 /\ Opens(m.text, j) /\ ~ m.content[j]
<1> DEFINE t == m.text
           c == m.content
<1>1. Len(t) \in Nat /\ i - 1 \in 1 .. Len(t) - 1 /\ (i - 1) + 1 = i
  BY DEF Shape
<1>2. Opened(t, c, i - 1)
  BY <1>1, Zenon DEF Shape, BeginsOpened
<1>3. PICK j \in 1 .. (i - 1) - 1 : /\ Opens(t, j) /\ \A k \in j .. i - 1 : ~ c[k]
                                    /\ \A k \in j .. (i - 1) - 1 : t[k] # NL
  BY <1>2, Zenon DEF Opened
<1>4. ~ c[j] /\ j \in 1 .. Len(t)
  BY <1>1, <1>3
<1>5. j + 1 < Len(t) => t[j + 2] = NL \/ c[j + 2]
  BY <1>3, <1>4, Zenon DEF Valued
<1> HIDE DEF t, c
<1>6. ASSUME j + 2 <= i - 2 PROVE FALSE
  <2>1. j + 1 < Len(t) /\ j + 2 \in j .. i - 1 /\ j + 2 \in j .. (i - 1) - 1
    BY <1>1, <1>3, <1>6
  <2>2. QED
    BY <1>3, <1>5, <2>1, Zenon
<1>7. j \in {i - 2, i - 3}
  BY <1>1, <1>3, <1>6
<1>8. QED
  BY <1>3, <1>4, <1>7 DEF t, c

\* splitPipe inside a block.
FlatInside(p) ==
    /\ DOMAIN p = SplitFields
    /\ ~ p.single /\ ~ p.double /\ p.bracket = 0 /\ p.brace = 0 /\ ~ p.escaped /\ p.block
BlockLeaves(q, p) == q = [p EXCEPT !.skip = FALSE, !.block = FALSE, !.lineStart = FALSE]
BlockTurns(q, p) == q = [p EXCEPT !.skip = TRUE]
BlockGoesOn(q, p, ch) == q = [p EXCEPT !.lineStart = (ch = NL)]
LEMMA InsideUpdates ==
    ASSUME NEW p, FlatInside(p), NEW q
    PROVE  /\ \A ch : q = Keep(p, ch) => FlatInside(q) /\ (q.skip <=> p.skip)
                                                       /\ (q.lineStart <=> p.lineStart)
           /\ BlockLeaves(q, p) => FlagsAt(q, "", "") /\ ~ q.skip
           /\ BlockTurns(q, p) => FlatInside(q) /\ q.skip
           /\ \A ch : BlockGoesOn(q, p, ch) =>
                  FlatInside(q) /\ (q.skip <=> p.skip) /\ (q.lineStart <=> ch = NL)
<1>1. \A ch : q = Keep(p, ch) => FlatInside(q) /\ (q.skip <=> p.skip)
                                               /\ (q.lineStart <=> p.lineStart)
  BY DEF FlatInside, SplitFields, Keep
<1>2. BlockLeaves(q, p) => /\ DOMAIN q = SplitFields /\ ~ q.single /\ ~ q.double /\ q.bracket = 0
                           /\ q.brace = 0 /\ ~ q.escaped /\ ~ q.block /\ ~ q.skip
  BY DEF FlatInside, SplitFields, BlockLeaves
<1>3. BlockTurns(q, p) => FlatInside(q) /\ q.skip
  BY DEF FlatInside, SplitFields, BlockTurns
<1>4. \A ch : BlockGoesOn(q, p, ch) =>
                  FlatInside(q) /\ (q.skip <=> p.skip) /\ (q.lineStart <=> ch = NL)
  BY DEF FlatInside, SplitFields, BlockGoesOn
<1>5. /\ One("", "'") = 0 /\ One("", "\"") = 0 /\ One("", "[") = 0 /\ One("", "{") = 0 /\ 0 # 1
  BY Ones, Zenon
<1>6. BlockLeaves(q, p) => FlagsAt(q, "", "") /\ ~ q.skip
  BY <1>2, <1>5, Zenon DEF FlagsAt, Flags
<1>7. QED
  BY <1>1, <1>3, <1>4, <1>6, Zenon

LEMMA SplitInside ==
    ASSUME NEW S, NEW raw \in Seq(S), NEW i \in 1 .. Len(raw), NEW p, FlatInside(p)
    PROVE  LET q == Split(p, raw, i)
           IN  /\ p.skip => FlagsAt(q, "", "") /\ ~ q.skip
               /\ ~ p.skip /\ p.lineStart /\ Closes(raw, i) => FlatInside(q) /\ q.skip
               /\ ~ p.skip /\ ~ (p.lineStart /\ Closes(raw, i))
                     => FlatInside(q) /\ ~ q.skip /\ (q.lineStart <=> raw[i] = NL)
<1> DEFINE q == Split(p, raw, i)
           k == Keep(p, raw[i])
<1>1. FlatInside(k) /\ (k.skip <=> p.skip) /\ (k.lineStart <=> p.lineStart)
  BY InsideUpdates, Zenon
<1>2. BlockEnds(p, raw, i) <=> p.lineStart /\ Closes(raw, i)
  BY StartsOpens, Zenon DEF BlockEnds
<1>3. /\ p.skip => BlockLeaves(q, k)
      /\ ~ p.skip /\ BlockEnds(p, raw, i) => BlockTurns(q, k)
      /\ ~ p.skip /\ ~ BlockEnds(p, raw, i) => BlockGoesOn(q, k, raw[i])
  BY Zenon DEF FlatInside, Split, InBlock, BlockLeaves, BlockTurns, BlockGoesOn
<1> HIDE DEF q, k
<1>4. ASSUME p.skip PROVE FlagsAt(q, "", "") /\ ~ q.skip
  BY <1>1, <1>3, <1>4, InsideUpdates, Zenon
<1>5. ASSUME ~ p.skip, p.lineStart /\ Closes(raw, i) PROVE FlatInside(q) /\ q.skip
  BY <1>1, <1>2, <1>3, <1>5, InsideUpdates, Zenon
<1>6. ASSUME ~ p.skip, ~ (p.lineStart /\ Closes(raw, i))
      PROVE  FlatInside(q) /\ ~ q.skip /\ (q.lineStart <=> raw[i] = NL)
  <2>1. BlockGoesOn(q, k, raw[i])
    BY <1>2, <1>3, <1>6, Zenon
  <2>2. FlatInside(q) /\ (q.skip <=> k.skip) /\ (q.lineStart <=> raw[i] = NL)
    BY <1>1, <2>1, InsideUpdates, Zenon
  <2>3. QED
    BY <1>1, <1>6, <2>2, Zenon
<1>7. QED
  BY <1>4, <1>5, <1>6, Zenon DEF q

\* splitPipe outside: `skip' is for blocks only.
LEMMA SkipUpdates ==
    ASSUME NEW p, DOMAIN p = SplitFields, NEW q
    PROVE  /\ \A ch : q = Keep(p, ch) => DOMAIN q = SplitFields /\ (q.skip <=> p.skip)
           /\ Separated(q, p) => DOMAIN q = SplitFields /\ (q.skip <=> p.skip)
           /\ Marked(q, p) => DOMAIN q = SplitFields /\ (q.skip <=> p.skip)
           /\ \A ch : EscapeEnds(q, p, ch) => (q.skip <=> p.skip)
           /\ EscapeBegins(q, p) => (q.skip <=> p.skip)
           /\ \A raw, i : GoesOn(q, p, raw, i) => (q.skip <=> p.skip)
<1>1. \A ch : q = Keep(p, ch) => DOMAIN q = SplitFields /\ (q.skip <=> p.skip)
  BY DEF Keep, SplitFields
<1>2. Separated(q, p) => DOMAIN q = SplitFields /\ (q.skip <=> p.skip)
  BY DEF Separated, SplitFields
<1>3. Marked(q, p) => DOMAIN q = SplitFields /\ (q.skip <=> p.skip)
  BY DEF Marked, SplitFields
<1>4. \A ch : EscapeEnds(q, p, ch) => (q.skip <=> p.skip)
  BY DEF EscapeEnds, SplitFields
<1>5. EscapeBegins(q, p) => (q.skip <=> p.skip)
  BY DEF EscapeBegins, SplitFields
<1>6. \A raw, i : GoesOn(q, p, raw, i) => (q.skip <=> p.skip)
  BY DEF GoesOn, SplitFields
<1>7. QED
  BY <1>1, <1>2, <1>3, <1>4, <1>5, <1>6, Zenon

LEMMA SplitOutside ==
    ASSUME NEW p, DOMAIN p = SplitFields, ~ p.block, NEW raw, NEW i
    PROVE  Split(p, raw, i).skip <=> p.skip
<1> DEFINE q == Split(p, raw, i)
           k == Keep(p, raw[i])
           c == Character(p, raw[i])
<1>1. DOMAIN k = SplitFields /\ (k.skip <=> p.skip)
  BY SkipUpdates, Zenon
<1>2. Separated(c, p) \/ Marked(c, k) \/ c = k
  BY Zenon DEF Character, Separated, Marked
<1>3. EscapeEnds(q, k, raw[i]) \/ EscapeBegins(q, k) \/ GoesOn(q, c, raw, i)
  BY Zenon DEF Split, EscapeEnds, EscapeBegins, GoesOn
<1> HIDE DEF q, k, c
<1>4. DOMAIN c = SplitFields /\ (c.skip <=> p.skip)
  BY <1>1, <1>2, SkipUpdates, Zenon
<1>5. q.skip <=> p.skip
  BY <1>1, <1>3, <1>4, SkipUpdates, Zenon
<1>6. QED
  BY <1>5, Zenon DEF q

\* A "=<<" that is not inside a value opens a block.
OpensInside(q, p, raw, i) == GoesOn(q, p, raw, i) /\ BlockOpens(p, raw, i) /\ raw[i] # NL
LEMMA OpeningUpdates ==
    ASSUME NEW p, FlagsAt(p, "", ""), NEW q, NEW raw, NEW i, OpensInside(q, p, raw, i)
    PROVE  FlatInside(q) /\ ~ q.lineStart
<1>1. /\ One("", "'") = 0 /\ One("", "\"") = 0 /\ One("", "[") = 0 /\ One("", "{") = 0 /\ 0 # 1
  BY Ones, Zenon
<1>2. /\ DOMAIN p = SplitFields /\ ~ p.single /\ ~ p.double /\ p.bracket = 0 /\ p.brace = 0
      /\ ~ p.escaped
  BY <1>1, Zenon DEF FlagsAt, Flags
<1>3. QED
  BY <1>2 DEF OpensInside, GoesOn, FlatInside, SplitFields

LEMMA StartsBefore ==
    ASSUME NEW S, NEW s \in Seq(S), NEW i \in 2 .. Len(s), i + 1 <= Len(s),
           NEW a, NEW b, NEW c, s[i - 1] = a, s[i] = b, s[i + 1] = c
    PROVE  StartsAt(s, i - 1, <<a>> \o <<b, c>>)
<1> DEFINE u == SubSeq(s, i - 1, (i - 1) + 3 - 1)
<1>1. u \in Seq(S) /\ Len(u) = 3 /\ u[1] = a /\ u[2] = b /\ u[3] = c
  OBVIOUS
<1>2. a \in S /\ b \in S /\ c \in S /\ (i - 1) + 3 - 1 <= Len(s)
  OBVIOUS
<1>3. /\ <<a>> \in Seq(S) /\ Len(<<a>>) = 1 /\ <<a>>[1] = a
      /\ <<b, c>> \in Seq(S) /\ Len(<<b, c>>) = 2 /\ <<b, c>>[1] = b /\ <<b, c>>[2] = c
  BY <1>2
<1> DEFINE x == <<a>>
           y == <<b, c>>
<1> HIDE DEF u, x, y
<1>4. x \o y \in Seq(S) /\ Len(x \o y) = 3
      /\ (x \o y)[1] = a /\ (x \o y)[2] = b /\ (x \o y)[3] = c
  BY <1>3 DEF x, y
<1>5. \A k \in 1 .. Len(u) : u[k] = (x \o y)[k]
  <2>1. \A k \in 1 .. Len(u) : k = 1 \/ k = 2 \/ k = 3
    BY <1>1
  <2>2. QED
    BY <1>1, <1>4, <2>1
<1>6. u = x \o y
  BY <1>1, <1>4, <1>5, SeqEqual
<1>7. QED
  BY <1>2, <1>4, <1>6, Zenon DEF StartsAt, u, x, y

EqualSign == "="
LEMMA SplitOpens ==
    ASSUME NEW S, NEW raw \in Seq(S), NEW i \in 2 .. Len(raw), i > 1, Opens(raw, i),
           raw[i - 1] = EqualSign, NEW p, FlagsAt(p, "", "")
    PROVE  FlatInside(Split(p, raw, i)) /\ ~ Split(p, raw, i).lineStart
<1> DEFINE q == Split(p, raw, i)
           k == Keep(p, raw[i])
<1>1. /\ One("", "'") = 0 /\ One("", "\"") = 0 /\ One("", "[") = 0 /\ One("", "{") = 0 /\ 0 # 1
  BY Ones, Zenon
<1>2. FlagsAt(k, "", "")
  BY FlagUpdates, Zenon DEF FlagsAt
<1>3. /\ ~ p.block /\ ~ p.escaped /\ ~ p.single /\ ~ p.double
      /\ ~ k.single /\ ~ k.double /\ k.bracket = 0 /\ k.brace = 0
  BY <1>1, <1>2, Zenon DEF FlagsAt, Flags
<1>4. /\ raw[i] = "<" /\ raw[i + 1] = "<" /\ i + 1 <= Len(raw)
  BY Zenon DEF Opens
<1>5. raw[i] \notin {"|", "'", "\"", "[", "]", "{", "}", "\\", NL}
  BY <1>4, Zenon DEF NL
<1>6. Character(p, raw[i]) = k
  BY <1>5, Zenon DEF Character, Separates
<1>7. Split(p, raw, i) = [Character(p, raw[i]) EXCEPT !.block = BlockOpens(Character(p, raw[i]), raw, i),
                                                      !.lineStart = (raw[i] = NL)]
  BY <1>3, <1>5, Zenon DEF Split
<1>8. GoesOn(q, k, raw, i)
  BY <1>6, <1>7, Zenon DEF GoesOn
<1>9. StartsAt(raw, i - 1, <<"=">> \o Opening)
  <2>1. StartsAt(raw, i - 1, <<EqualSign>> \o <<"<", "<">>)
    BY <1>4, StartsBefore, Zenon
  <2>2. QED
    BY <2>1, Zenon DEF Opening, EqualSign
<1>10. BlockOpens(k, raw, i)
  BY <1>3, <1>9, Zenon DEF BlockOpens, Flat, Quoted
<1>11. OpensInside(q, k, raw, i)
  BY <1>5, <1>8, <1>10, Zenon DEF OpensInside
<1> HIDE DEF q, k
<1>12. FlatInside(q) /\ ~ q.lineStart
  BY <1>2, <1>11, OpeningUpdates, Zenon
<1>13. QED
  BY <1>12, Zenon DEF q

\* No value is open before or after an angle or the end of a line.
LEMMA AnglesPass ==
    ASSUME NEW ch \in {"<", ">", NL}
    PROVE  InAfter("", "", ch) = "" /\ EscapeAfter("", "", ch) = ""
BY Zenon DEF InAfter, EscapeAfter, Delimiters, NL

LEMMA AnglesReach ==
    ASSUME NEW S, "(" \notin S, NEW s \in Seq(S), NEW ch \in S, ch \in {"<", ">", NL},
           Reaches(s, "", "")
    PROVE  Reaches(Append(s, ch), "", "")
<1>1. Reaches(Append(s, ch), InAfter("", "", ch), EscapeAfter("", "", ch))
  BY ReachesNext, Zenon
<1>2. QED
  BY <1>1, AnglesPass, Zenon

LEMMA EndsWithin ==
    ASSUME NEW S, NEW t \in Seq(S)
    PROVE  Len(t) \in 0 .. Len(t)
OBVIOUS

\* What a message is written with outside its blocks.
Unnested == Char \ {"("}
FitToSplit(m) ==
    /\ m.text \in Seq(Char) /\ m.content \in Seq(BOOLEAN) /\ WellMade(m.text, m.content)
    /\ Valued(m) /\ Simple(Outside(m, Len(m.text)))
LEMMA OutsideIsSimple ==
    ASSUME NEW m, FitToSplit(m), NEW i \in 1 .. Len(m.text), ~ m.content[i]
    PROVE  /\ m.text[i] \in Unnested
           /\ Scan(Outside(m, i - 1)).in \in Brackets => m.text[i] \notin Delimiters
<1> DEFINE w == Outside(m, Len(m.text))
           u == Outside(m, i - 1)
           x == m.text[i]
<1>1. m.text \in Seq(Char) /\ ~ Has(w, <<"(">>)
      /\ \A k \in 1 .. Len(w) : Scan(SubSeq(w, 1, k - 1)).in \in {"[", "{"} => w[k] \notin Delimiters
  BY Zenon DEF FitToSplit, Simple
<1>2. Len(m.text) \in 0 .. Len(m.text)
  BY <1>1, EndsWithin, Zenon
<1>3. w \in Seq(Char)
  BY <1>1, <1>2, OutsideType, Zenon
<1>4. Placed(w, u, x)
  BY <1>1, OutsidePlace, Zenon
<1>5. x \in Char
  <2> DEFINE t == m.text
  <2> HIDE DEF t
  <2>1. t \in Seq(Char) /\ i \in 1 .. Len(t)
    BY <1>1 DEF t
  <2>2. t[i] \in Char
    BY <2>1
  <2>3. QED
    BY <2>2 DEF t
<1> HIDE DEF w, u, x
<1>6. PICK k \in 1 .. Len(w) : SubSeq(w, 1, k - 1) = u /\ w[k] = x
  BY <1>4, Zenon DEF Placed
<1>7. x # "("
  BY <1>1, <1>3, <1>6, HasNone, Zenon
<1>8. Scan(u).in \in {"[", "{"} => x \notin Delimiters
  BY <1>1, <1>6, Zenon
<1>9. QED
  BY <1>5, <1>7, <1>8, Zenon DEF Unnested, Brackets, u, x

LEMMA OutsideUnnested ==
    ASSUME NEW m, FitToSplit(m), NEW i \in 1 .. Len(m.text), Outside(m, i - 1) \in Seq(Unnested)
    PROVE  Outside(m, i) \in Seq(Unnested)
<1>1. OutsideStep(m, i)
  BY OutsideNext, Zenon DEF FitToSplit
<1>2. CASE m.content[i]
  BY <1>1, <1>2, Zenon DEF OutsideStep
<1>3. CASE ~ m.content[i]
  <2> DEFINE u == Outside(m, i - 1)
             x == m.text[i]
  <2>1. x \in Unnested
    BY <1>3, OutsideIsSimple, Zenon
  <2>2. Outside(m, i) = Append(u, x)
    BY <1>1, <1>3, Zenon DEF OutsideStep
  <2>3. u \in Seq(Unnested)
    OBVIOUS
  <2> HIDE DEF u, x
  <2>4. QED
    BY <2>1, <2>2, <2>3
<1>4. QED
  BY <1>2, <1>3, Zenon

\* Where splitPipe is after i characters of such a message.
NoneOpensAt(t, i) == \A j \in {i - 2, i - 1, i} : j >= 1 => ~ Opens(t, j)
OutsideAt(m, p, i) ==
    /\ \E d, e : FlagsAt(p, d, e) /\ Reaches(Outside(m, i), d, e)
    /\ ~ p.skip /\ (i >= 1 => ~ m.content[i]) /\ NoneOpensAt(m.text, i)
Angle1(m, p, i) == ~ m.content[i] /\ Opens(m.text, i) /\ ~ p.skip /\ ~ p.lineStart
Angle2(m, p, i) == /\ i >= 2 /\ ~ m.content[i] /\ ~ m.content[i - 1] /\ Opens(m.text, i - 1)
                   /\ ~ p.skip /\ ~ p.lineStart
Within(m, p, i) == /\ m.content[i] \/ m.text[i] = NL
                   /\ ~ p.skip /\ (p.lineStart <=> m.text[i] = NL)
Leaving(m, p, i) == /\ ~ m.content[i] /\ i + 1 <= Len(m.text) /\ ~ m.content[i + 1]
                    /\ m.text[i] = ">" /\ m.text[i + 1] = ">" /\ p.skip
InsideAt(m, p, i) ==
    /\ FlatInside(p) /\ Reaches(Outside(m, i), "", "") /\ i >= 1
    /\ Angle1(m, p, i) \/ Angle2(m, p, i) \/ Within(m, p, i) \/ Leaving(m, p, i)
PhaseAt(m, p, i) ==
    Outside(m, i) \in Seq(Unnested) /\ (OutsideAt(m, p, i) \/ InsideAt(m, p, i))

\* Outside the blocks.
LEMMA OutsidePhase ==
    ASSUME NEW m, FitToSplit(m), NEW i \in 1 .. Len(m.text), NEW p,
           Outside(m, i - 1) \in Seq(Unnested), OutsideAt(m, p, i - 1)
    PROVE  LET q == Split(p, m.text, i)
           IN  ~ m.content[i] /\ (OutsideAt(m, q, i) \/ InsideAt(m, q, i))
<1> DEFINE t == m.text
           c == m.content
           u == Outside(m, i - 1)
           q == Split(p, t, i)
<1>1. t \in Seq(Char) /\ Shape(t, c) /\ Valued(m) /\ (Len(t) >= 1 => ~ c[1])
  BY Zenon DEF FitToSplit, WellMade, Shape
<1>2. Len(t) \in Nat /\ i \in 1 .. Len(t) /\ Len(t) >= 1
  BY <1>1
<1>3. ~ c[i]
  <2> SUFFICES ASSUME c[i] PROVE FALSE
    OBVIOUS
  <2>1. i # 1
    BY <1>1, <1>2
  <2>2. i \in 2 .. Len(t) /\ i - 1 >= 1
    BY <1>2, <2>1
  <2>3. ~ c[i - 1]
    BY <2>2, Zenon DEF OutsideAt
  <2>4. PICK j \in {i - 2, i - 3} : j >= 1 /\ Opens(t, j)
    BY <1>1, <2>2, <2>3, BlockBeginsNear, Zenon
  <2>5. j \in {(i - 1) - 2, (i - 1) - 1, i - 1}
    BY <1>2, <2>4
  <2>6. QED
    BY <2>4, <2>5, Zenon DEF OutsideAt, NoneOpensAt
<1>4. t[i] \in Unnested /\ (Scan(u).in \in Brackets => t[i] \notin Delimiters)
  BY <1>3, OutsideIsSimple, Zenon
<1>5. Outside(m, i) = Append(u, t[i])
  <2>1. OutsideStep(m, i)
    BY <1>1, OutsideNext, Zenon
  <2>2. QED
    BY <1>3, <2>1, Zenon DEF OutsideStep
<1>6. "(" \notin Unnested
  BY Zenon DEF Unnested
<1>7. PICK d, e : FlagsAt(p, d, e) /\ Reaches(u, d, e)
  BY Zenon DEF OutsideAt
<1>8. Legal(d, e) /\ Scan(u).in = d
  <2>1. Legal(d, e)
    BY <1>7, ReachesLegal, Zenon
  <2>2. Scan(u).in = d
    BY <1>7, ReachesScan, Zenon
  <2>3. QED
    BY <2>1, <2>2, Zenon
<1>9. Reaches(Outside(m, i), InAfter(d, e, t[i]), EscapeAfter(d, e, t[i]))
  BY <1>4, <1>5, <1>6, <1>7, ReachesNext, Zenon
<1>10. DOMAIN p = SplitFields /\ ~ p.block
  BY <1>7, Zenon DEF FlagsAt, Flags
<1>11. ~ q.skip
  BY <1>10, SplitOutside, Zenon DEF OutsideAt
<1>12. CASE ~ Opens(t, i)
  <2>1. FlagsAt(q, InAfter(d, e, t[i]), EscapeAfter(d, e, t[i]))
    <3>1. ~ StartsAt(t, i, Opening)
      BY <1>1, <1>12, StartsOpens, Zenon
    <3>2. t[i] # "("
      BY <1>4, <1>6, Zenon
    <3>3. d \in Brackets => t[i] \notin Delimiters
      BY <1>4, <1>8, Zenon
    <3>4. QED
      BY <1>1, <1>7, <1>8, <3>1, <3>2, <3>3, SplitFlags, Zenon
  <2>2. NoneOpensAt(t, i)
    <3>1. \A j \in {i - 2, i - 1, i} : j \in {(i - 1) - 2, (i - 1) - 1, i - 1} \/ j = i
      BY <1>2
    <3>2. QED
      BY <1>12, <3>1, Zenon DEF OutsideAt, NoneOpensAt
  <2>3. OutsideAt(m, q, i)
    BY <1>3, <1>9, <1>11, <2>1, <2>2, Zenon DEF OutsideAt
  <2>4. QED
    BY <1>3, <2>3, Zenon
<1>13. CASE Opens(t, i)
  <2>1. i > 1 /\ t[i - 1] = "=" /\ Tokenizes(u)
    BY <1>1, <1>3, <1>13, Zenon DEF Valued
  <2>2. d = ""
    BY <1>8, <2>1, Zenon DEF Tokenizes
  <2>3. e = ""
    BY <1>8, <2>2, Zenon DEF Legal
  <2>4. FlagsAt(p, "", "")
    BY <1>7, <2>2, <2>3, Zenon
  <2>5. FlatInside(q) /\ ~ q.lineStart
    <3> DEFINE x == t[i - 1]
    <3>1. x = EqualSign
      BY <2>1, Zenon DEF EqualSign
    <3>2. i \in 2 .. Len(t)
      <4>1. i > 1
        BY <2>1, Zenon
      <4> HIDE DEF t
      <4>2. QED
        BY <1>2, <4>1
    <3>3. QED
      BY <1>1, <1>13, <2>1, <2>4, <3>1, <3>2, SplitOpens, Zenon
  <2>6. t[i] = "<"
    BY <1>13, Zenon DEF Opens
  <2>7. t[i] \in {"<", ">", NL}
    BY <2>6, Zenon
  <2>8. Reaches(Outside(m, i), "", "")
    BY <1>9, <2>2, <2>3, <2>7, AnglesPass, Zenon
  <2>9. i >= 1
    BY <1>2
  <2>10. Angle1(m, q, i)
    BY <1>3, <1>11, <1>13, <2>5, Zenon DEF Angle1
  <2>11. InsideAt(m, q, i)
    BY <2>5, <2>8, <2>9, <2>10, Zenon DEF InsideAt
  <2>12. QED
    BY <1>3, <2>11, Zenon
<1>14. QED
  BY <1>12, <1>13, Zenon

LEMMA PlaceWithin ==
    ASSUME NEW S, NEW t \in Seq(S), NEW i \in 2 .. Len(t)
    PROVE  /\ i \in 1 .. Len(t) /\ i >= 1 /\ i >= 2 /\ i - 1 >= 1
           /\ i - 1 \in 1 .. Len(t) - 1 /\ (i - 1) + 1 = i /\ (i - 1) + 2 = i + 1
           /\ (i - 1) - 1 = i - 2 /\ (i - 2) + 2 = i /\ (i - 2) + 1 = i - 1
           /\ (i - 2) + 1 < Len(t) /\ (i - 1 >= 2 => i - 2 \in 1 .. Len(t))
OBVIOUS

LEMMA FitTyped == ASSUME NEW m, FitToSplit(m) PROVE m.text \in Seq(Char)
BY Zenon DEF FitToSplit

\* From one character of a block to the next.
LEMMA InsideReaches ==
    ASSUME NEW m, FitToSplit(m), NEW i \in 1 .. Len(m.text),
           Outside(m, i - 1) \in Seq(Unnested), Reaches(Outside(m, i - 1), "", ""),
           m.content[i] \/ m.text[i] \in {"<", ">", NL}
    PROVE  Reaches(Outside(m, i), "", "")
<1>1. OutsideStep(m, i)
  BY OutsideNext, Zenon DEF FitToSplit
<1>2. CASE m.content[i]
  BY <1>1, <1>2, Zenon DEF OutsideStep
<1>3. CASE ~ m.content[i]
  <2>1. m.text[i] \in Unnested
    BY <1>3, OutsideIsSimple, Zenon
  <2>2. Outside(m, i) = Append(Outside(m, i - 1), m.text[i])
    BY <1>1, <1>3, Zenon DEF OutsideStep
  <2>3. "(" \notin Unnested
    BY Zenon DEF Unnested
  <2>4. m.text[i] \in {"<", ">", NL}
    BY <1>3, Zenon
  <2>5. QED
    BY <2>1, <2>2, <2>3, <2>4, AnglesReach, Zenon
<1>4. QED
  BY <1>2, <1>3, Zenon

\* The second angle of an opening is outside the block it opens.
LEMMA SecondAngle ==
    ASSUME NEW m, FitToSplit(m), NEW i \in 2 .. Len(m.text),
           Opens(m.text, i - 1), ~ m.content[i - 1]
    PROVE  m.text[i] = "<" /\ ~ m.content[i]
<1> DEFINE t == m.text
           c == m.content
<1>1. t \in Seq(Char) /\ Shape(t, c) /\ Valued(m)
  BY Zenon DEF FitToSplit, WellMade
<1>2. t[i - 1] = "<" /\ t[i] = "<"
  <2>1. (i - 1) + 1 = i
    OBVIOUS
  <2>2. QED
    BY <2>1, Zenon DEF Opens
<1>3. ~ c[i]
  <2> SUFFICES ASSUME c[i] PROVE FALSE
    OBVIOUS
  <2>1. PICK j \in {i - 2, i - 3} : j >= 1 /\ Opens(t, j) /\ ~ c[j]
    BY <1>1, BlockBeginsNear, Zenon
  <2>2. i - 1 \in 1 .. Len(t) /\ (i - 1) - 1 = i - 2
    OBVIOUS
  <2>3. t[i - 2] = EqualSign
    BY <1>1, <2>2, Zenon DEF Valued, EqualSign
  <2>4. j = i - 2 \/ j + 1 = i - 2
    BY <2>1
  <2>5. t[i - 2] = "<"
    BY <2>1, <2>4, Zenon DEF Opens
  <2>6. "<" # EqualSign
    BY Zenon DEF EqualSign
  <2>7. QED
    BY <2>3, <2>5, <2>6, Zenon
<1>4. QED
  BY <1>2, <1>3, Zenon

LEMMA FromAngle1 ==
    ASSUME NEW m, FitToSplit(m), NEW i \in 2 .. Len(m.text), NEW p,
           Outside(m, i - 1) \in Seq(Unnested), FlatInside(p), Reaches(Outside(m, i - 1), "", ""),
           Angle1(m, p, i - 1)
    PROVE  InsideAt(m, Split(p, m.text, i), i)
<1> DEFINE q == Split(p, m.text, i)
<1>1. m.text \in Seq(Char) /\ i \in 1 .. Len(m.text) /\ i >= 1 /\ i >= 2
  BY FitTyped, PlaceWithin, Zenon
<1>2. m.text[i] = "<" /\ ~ m.content[i]
  BY SecondAngle, Zenon DEF Angle1
<1>3. FlatInside(q) /\ ~ q.skip /\ (q.lineStart <=> m.text[i] = NL)
  BY <1>1, SplitInside, Zenon DEF Angle1
<1>4. "<" # NL /\ "<" \in {"<", ">", NL}
  BY Zenon DEF NL
<1>5. Reaches(Outside(m, i), "", "")
  BY <1>1, <1>2, <1>4, InsideReaches, Zenon
<1>6. QED
  BY <1>1, <1>2, <1>3, <1>4, <1>5, Zenon DEF InsideAt, Angle1, Angle2

LEMMA FromAngle2 ==
    ASSUME NEW m, FitToSplit(m), NEW i \in 2 .. Len(m.text), NEW p,
           Outside(m, i - 1) \in Seq(Unnested), FlatInside(p), Reaches(Outside(m, i - 1), "", ""),
           Angle2(m, p, i - 1)
    PROVE  InsideAt(m, Split(p, m.text, i), i)
<1> DEFINE q == Split(p, m.text, i)
<1>1. m.text \in Seq(Char) /\ i \in 1 .. Len(m.text) /\ i >= 1
  BY FitTyped, PlaceWithin, Zenon
<1>2. FlatInside(q) /\ ~ q.skip /\ (q.lineStart <=> m.text[i] = NL)
  BY <1>1, SplitInside, Zenon DEF Angle2
<1>3. /\ (i - 1) - 1 = i - 2 /\ (i - 2) + 2 = i
      /\ (i - 1 >= 2 => i - 2 \in 1 .. Len(m.text)) /\ (i - 2) + 1 < Len(m.text)
  BY <1>1, PlaceWithin, Zenon
<1>4. m.text[i] = NL \/ m.content[i]
  BY <1>3, Zenon DEF Angle2, FitToSplit, Valued
<1>5. NL \in {"<", ">", NL}
  OBVIOUS
<1>6. Reaches(Outside(m, i), "", "")
  BY <1>1, <1>4, <1>5, InsideReaches, Zenon
<1>7. QED
  BY <1>1, <1>2, <1>4, <1>6, Zenon DEF InsideAt, Within

LEMMA FromWithin ==
    ASSUME NEW m, FitToSplit(m), NEW i \in 2 .. Len(m.text), NEW p,
           Outside(m, i - 1) \in Seq(Unnested), FlatInside(p), Reaches(Outside(m, i - 1), "", ""),
           Within(m, p, i - 1)
    PROVE  InsideAt(m, Split(p, m.text, i), i)
<1> DEFINE q == Split(p, m.text, i)
           t == m.text
           c == m.content
<1>1. t \in Seq(Char) /\ i \in 1 .. Len(t) /\ i >= 1
  BY FitTyped, PlaceWithin, Zenon
<1>2. Shape(t, c) /\ Valued(m)
  BY Zenon DEF FitToSplit, WellMade
<1>3. CASE c[i]
  <2>1. ~ (p.lineStart /\ Closes(t, i))
    BY <1>1, <1>2, <1>3, Zenon DEF Within, Valued
  <2>2. FlatInside(q) /\ ~ q.skip /\ (q.lineStart <=> t[i] = NL)
    BY <1>1, <2>1, SplitInside, Zenon DEF Within
  <2>3. Reaches(Outside(m, i), "", "")
    BY <1>1, <1>3, InsideReaches, Zenon
  <2>4. QED
    BY <1>1, <1>3, <2>2, <2>3, Zenon DEF InsideAt, Within
<1>4. CASE ~ c[i]
  <2>1. i - 1 \in 1 .. Len(t) - 1 /\ (i - 1) + 1 = i /\ (i - 1) + 2 = i + 1
    BY <1>1, PlaceWithin, Zenon
  <2>2. t[i - 1] = NL
    BY <1>2, <1>4, <2>1, Zenon DEF Within, Shape, EndsWithLine
  <2>3. Closes(t, i) /\ ~ c[i + 1]
    BY <1>2, <1>4, <2>1, <2>2, Zenon DEF Shape, LinesClose
  <2>4. FlatInside(q) /\ q.skip
    BY <1>1, <2>2, <2>3, SplitInside, Zenon DEF Within
  <2>5. t[i] = ">" /\ t[i + 1] = ">" /\ i + 1 <= Len(t) /\ ">" \in {"<", ">", NL}
    BY <2>3, Zenon DEF Closes
  <2>6. Reaches(Outside(m, i), "", "")
    BY <1>1, <2>5, InsideReaches, Zenon
  <2>7. QED
    BY <1>1, <1>4, <2>3, <2>4, <2>5, <2>6, Zenon DEF InsideAt, Leaving
<1>5. QED
  BY <1>3, <1>4, Zenon

LEMMA FromLeaving ==
    ASSUME NEW m, FitToSplit(m), NEW i \in 2 .. Len(m.text), NEW p,
           Outside(m, i - 1) \in Seq(Unnested), FlatInside(p), Reaches(Outside(m, i - 1), "", ""),
           Leaving(m, p, i - 1)
    PROVE  OutsideAt(m, Split(p, m.text, i), i)
<1> DEFINE q == Split(p, m.text, i)
<1>1. m.text \in Seq(Char) /\ i \in 1 .. Len(m.text) /\ i >= 1
  BY FitTyped, PlaceWithin, Zenon
<1>2. (i - 1) + 1 = i /\ (i - 2) + 1 = i - 1
  BY <1>1, PlaceWithin, Zenon
<1>3. ~ m.content[i] /\ m.text[i - 1] = ">" /\ m.text[i] = ">" /\ p.skip /\ ">" # "<"
  BY <1>2, Zenon DEF Leaving
<1>4. FlagsAt(q, "", "") /\ ~ q.skip
  BY <1>1, <1>3, SplitInside, Zenon
<1>5. ">" \in {"<", ">", NL}
  OBVIOUS
<1>6. Reaches(Outside(m, i), "", "")
  BY <1>1, <1>3, <1>5, InsideReaches, Zenon
<1>7. NoneOpensAt(m.text, i)
  BY <1>2, <1>3, Zenon DEF NoneOpensAt, Opens
<1>8. QED
  BY <1>3, <1>4, <1>6, <1>7, Zenon DEF OutsideAt

LEMMA InsidePhase ==
    ASSUME NEW m, FitToSplit(m), NEW i \in 2 .. Len(m.text), NEW p,
           Outside(m, i - 1) \in Seq(Unnested), InsideAt(m, p, i - 1)
    PROVE  LET q == Split(p, m.text, i) IN OutsideAt(m, q, i) \/ InsideAt(m, q, i)
<1>1. FlatInside(p) /\ Reaches(Outside(m, i - 1), "", "")
  BY Zenon DEF InsideAt
<1>2. CASE Angle1(m, p, i - 1)
  BY <1>1, <1>2, FromAngle1, Zenon
<1>3. CASE Angle2(m, p, i - 1)
  BY <1>1, <1>3, FromAngle2, Zenon
<1>4. CASE Within(m, p, i - 1)
  BY <1>1, <1>4, FromWithin, Zenon
<1>5. CASE Leaving(m, p, i - 1)
  BY <1>1, <1>5, FromLeaving, Zenon
<1>6. QED
  BY <1>2, <1>3, <1>4, <1>5, Zenon DEF InsideAt

\* What is assigned to the stages after i characters, the characters of blocks among them.
WholeAt(c, p, i) ==
    \E of, parts, buf :
        /\ Cut(p, of, parts, buf)
        /\ of \in Seq(Nat) /\ parts \in Seq(Seq(Char)) /\ buf \in Seq(Char) /\ Len(of) = i
        /\ \A k \in 1 .. i : c[k] => of[k] # 0

LEMMA WholeNext ==
    ASSUME NEW c, NEW i \in Nat, i >= 1, NEW p, WholeAt(c, p, i - 1), NEW raw, raw[i] \in Char,
           c[i] => ~ Quiet(p)
    PROVE  WholeAt(c, Split(p, raw, i), i)
<1> DEFINE q == Split(p, raw, i)
           ch == raw[i]
<1>1. PICK of, parts, buf :
          /\ Cut(p, of, parts, buf)
          /\ of \in Seq(Nat) /\ parts \in Seq(Seq(Char)) /\ buf \in Seq(Char) /\ Len(of) = i - 1
          /\ \A k \in 1 .. i - 1 : c[k] => of[k] # 0
  BY Zenon DEF WholeAt
<1>2. Kept(q, of, parts, buf, ch) \/ (Ends(q, of, parts, buf, ch) /\ Quiet(p))
  BY <1>1, SplitCuts, Zenon
<1>3. ch \in Char
  OBVIOUS
<1> HIDE DEF q, ch
<1>4. CASE Kept(q, of, parts, buf, ch)
  <2> DEFINE n == Len(parts) + 1
  <2>1. n \in Nat /\ n # 0
    BY <1>1
  <2> HIDE DEF n
  <2>2. /\ Append(of, n) \in Seq(Nat) /\ Len(Append(of, n)) = i /\ Append(buf, ch) \in Seq(Char)
        /\ \A k \in 1 .. i : c[k] => Append(of, n)[k] # 0
    BY <1>1, <1>3, <2>1
  <2>3. Cut(q, Append(of, n), parts, Append(buf, ch))
    BY <1>4, Zenon DEF Kept, n
  <2>4. QED
    BY <1>1, <2>2, <2>3, Zenon DEF WholeAt, q
<1>5. CASE Ends(q, of, parts, buf, ch) /\ Quiet(p)
  <2> DEFINE x == TrimSpace(buf)
  <2>1. Cut(q, Append(of, 0), Append(parts, x), <<>>)
    BY <1>5, Zenon DEF Ends
  <2>2. x \in Seq(Char)
    BY <1>1, TrimSplits, Zenon
  <2>3. ~ c[i]
    BY <1>5, Zenon
  <2> HIDE DEF x
  <2>4. /\ Append(of, 0) \in Seq(Nat) /\ Len(Append(of, 0)) = i
        /\ Append(parts, x) \in Seq(Seq(Char)) /\ <<>> \in Seq(Char)
        /\ \A k \in 1 .. i : c[k] => Append(of, 0)[k] # 0
    BY <1>1, <2>2, <2>3
  <2>5. QED
    BY <2>1, <2>4, Zenon DEF WholeAt, q
<1>6. QED
  BY <1>2, <1>4, <1>5, Zenon

LEMMA PhaseBegins ==
    ASSUME NEW m, FitToSplit(m)
    PROVE  PhaseAt(m, NoPart, 0) /\ WholeAt(m.content, NoPart, 0)
<1>1. Outside(m, 0) = <<>>
  <2>1. m.text \in Seq(Char)
    BY FitTyped, Zenon
  <2>2. Len(m.text) \in 0 .. Len(m.text)
    BY <2>1, EndsWithin, Zenon
  <2>3. QED
    BY <2>1, <2>2, OutsideType, Zenon
<1>2. \E d, e : FlagsAt(NoPart, d, e) /\ Reaches(<<>>, d, e)
  BY TogetherBegins, Zenon DEF TogetherAt
<1>3. ~ NoPart.skip
  BY DEF NoPart
<1>4. NoneOpensAt(m.text, 0)
  <2>1. \A j \in {0 - 2, 0 - 1, 0} : ~ (j >= 1)
    OBVIOUS
  <2>2. QED
    BY <2>1, Zenon DEF NoneOpensAt
<1>5. ~ (0 >= 1) /\ <<>> \in Seq(Unnested)
  OBVIOUS
<1>6. Cut(NoPart, <<>>, <<>>, <<>>)
  BY DEF Cut, NoPart, SplitFields
<1>7. /\ <<>> \in Seq(Nat) /\ <<>> \in Seq(Seq(Char)) /\ <<>> \in Seq(Char) /\ Len(<<>>) = 0
      /\ \A k \in 1 .. 0 : FALSE
  OBVIOUS
<1>8. WholeAt(m.content, NoPart, 0)
  BY <1>6, <1>7, Zenon DEF WholeAt
<1>9. QED
  BY <1>1, <1>2, <1>3, <1>4, <1>5, <1>8, Zenon DEF PhaseAt, OutsideAt

LEMMA PhaseNext ==
    ASSUME NEW m, FitToSplit(m), NEW i \in 1 .. Len(m.text), NEW p,
           PhaseAt(m, p, i - 1), WholeAt(m.content, p, i - 1)
    PROVE  PhaseAt(m, Split(p, m.text, i), i) /\ WholeAt(m.content, Split(p, m.text, i), i)
<1> DEFINE q == Split(p, m.text, i)
<1>1. m.text \in Seq(Char)
  BY FitTyped, Zenon
<1>2. m.text[i] \in Char /\ i \in Nat /\ i >= 1
  BY <1>1
<1>3. Outside(m, i - 1) \in Seq(Unnested)
  BY Zenon DEF PhaseAt
<1>4. Outside(m, i) \in Seq(Unnested)
  BY <1>3, OutsideUnnested, Zenon
<1>5. ASSUME InsideAt(m, p, i - 1)
      PROVE  (OutsideAt(m, q, i) \/ InsideAt(m, q, i)) /\ ~ Quiet(p)
  <2>1. i - 1 >= 1 /\ FlatInside(p)
    BY <1>5, Zenon DEF InsideAt
  <2>2. i \in 2 .. Len(m.text)
    BY <1>1, <2>1
  <2>3. OutsideAt(m, q, i) \/ InsideAt(m, q, i)
    BY <1>3, <1>5, <2>2, InsidePhase, Zenon
  <2>4. ~ Quiet(p)
    BY <2>1, Zenon DEF FlatInside, Quiet
  <2>5. QED
    BY <2>3, <2>4, Zenon
<1>6. ASSUME OutsideAt(m, p, i - 1)
      PROVE  (OutsideAt(m, q, i) \/ InsideAt(m, q, i)) /\ ~ m.content[i]
  BY <1>3, <1>6, OutsidePhase, Zenon
<1>7. (OutsideAt(m, q, i) \/ InsideAt(m, q, i)) /\ (m.content[i] => ~ Quiet(p))
  BY <1>5, <1>6, Zenon DEF PhaseAt
<1>8. WholeAt(m.content, q, i)
  BY <1>2, <1>7, WholeNext, Zenon
<1>9. QED
  BY <1>4, <1>7, <1>8, Zenon DEF PhaseAt

\* So no character of a block separates the stages of a pipe.
LEMMA BlocksAssigned ==
    ASSUME NEW m, FitToSplit(m), NEW k \in 1 .. Len(m.text), m.content[k]
    PROVE  PartOf(m.text)[k] # 0
<1> DEFINE t == m.text
<1>1. t \in Seq(Char)
  BY FitTyped, Zenon
<1>2. Len(t) \in Nat /\ Len(t) \in 0 .. Len(t)
  BY <1>1
<1>3. PICK f : Cutting(f, t, Len(t)) /\ Splitting(t) = f[Len(t)]
  BY <1>2, SplitSteps, Zenon
<1> DEFINE M == {i \in Nat : i <= Len(t) => PhaseAt(m, f[i], i) /\ WholeAt(m.content, f[i], i)}
<1>4. 0 \in M
  <2>1. f[0] = NoPart /\ 0 \in Nat
    BY <1>3, Zenon DEF Cutting
  <2>2. QED
    BY <2>1, PhaseBegins, Zenon
<1>5. ASSUME NEW i \in 1 .. Len(t), i - 1 \in M PROVE i \in M
  <2>1. i \in Nat /\ i - 1 <= Len(t)
    BY <1>2
  <2>2. PhaseAt(m, f[i - 1], i - 1) /\ WholeAt(m.content, f[i - 1], i - 1)
    BY <1>5, <2>1, Zenon
  <2>3. f[i] = Split(f[i - 1], t, i)
    BY <1>3, Zenon DEF Cutting
  <2>4. QED
    BY <2>1, <2>2, <2>3, PhaseNext, Zenon
<1>6. 0 .. Len(t) \subseteq M
  <2> HIDE DEF M
  <2> QED BY <1>2, <1>4, <1>5, Along
<1>7. WholeAt(m.content, Splitting(t), Len(t))
  <2>1. Len(t) <= Len(t)
    BY <1>2
  <2>2. QED
    BY <1>2, <1>3, <1>6, <2>1, Zenon
<1>8. QED
  BY <1>7, Zenon DEF WholeAt, Cut, PartOf

(* The two scanners that know blocks agree: for every line a node writes,  *)
(* splitPipe is inside a block wherever the listener that read the message *)
(* was, so that no "|" of a block's text cuts it in two.                   *)
THEOREM BlocksStayWholeCorrect == TextSpec => []BlocksStayWhole
<1>1. ASSUME TextTypeOK PROVE BlocksStayWhole
  <2> DEFINE made == Messages(text)
  <2>1. text \in Seq(STRING)
    BY <1>1 DEF TextTypeOK
  <2>2. made \in Seq(MadeMessages)
    BY <2>1, OfCharacters, MessagesWellMade, Zenon
  <2> HIDE DEF made
  <2>3. ASSUME NEW m \in ToSet(made) PROVE m \in MadeMessages
    <3>1. DOMAIN made = 1 .. Len(made) /\ \A k \in 1 .. Len(made) : made[k] \in MadeMessages
      BY <2>2
    <3>2. QED
      BY <2>3, <3>1, Zenon DEF ToSet
  <2>4. ASSUME NEW m \in MadeMessages, BlocksAreValues(m) PROVE FitToSplit(m)
    <3>1. m.text \in Seq(Char) /\ m.content \in Seq(BOOLEAN) /\ WellMade(m.text, m.content)
      <4>1. m \in [text : Seq(Char), content : Seq(BOOLEAN)] /\ WellMade(m.text, m.content)
        BY Zenon DEF MadeMessages
      <4>2. QED
        BY <4>1
    <3>2. Valued(m) /\ Simple(Outside(m, Len(m.text)))
      BY <2>4, <3>1, BlocksValued, Zenon
    <3>3. QED
      BY <3>1, <3>2, Zenon DEF FitToSplit
  <2>5. ASSUME NEW m \in ToSet(made), BlocksAreValues(m), NEW k \in 1 .. Len(m.text), m.content[k]
        PROVE  PartOf(m.text)[k] # 0
    BY <2>3, <2>4, <2>5, BlocksAssigned, Zenon
  <2>6. QED
    BY <2>5, Zenon DEF BlocksStayWhole, made
<1>2. TextSpec => []TextTypeOK
  BY TextTyped
<1>3. QED
  BY <1>1, <1>2, PTL

-----------------------------------------------------------------------------
(* Where the tokenizer is after a value that was written.                  *)

DoubleQuote == "\""
Backslash == "\\"

\* The tokenizer takes x for a part of the word it reads, with d open before and after.
LeadsOn(x, d, S) ==
    \A s \in Seq(S), b \in Seq(S) : \A a :
        Leads(s, a, b, d, "") => Leads(s \o x, a, b \o x, d, "")

Ordinary(d, ch) ==
    \/ d = "" /\ ch \notin Gap \cup Delimiters
    \/ d = DoubleQuote /\ ch \notin {DoubleQuote, Backslash}

LEMMA OrdinaryStays ==
    ASSUME NEW d, NEW ch, Ordinary(d, ch)
    PROVE  /\ (d = "" => ch # "(") /\ ~ Parting(d, ch)
           /\ InAfter(d, "", ch) = d /\ EscapeAfter(d, "", ch) = ""
<1>1. /\ "\"" \in Quotes /\ "\"" # "" /\ "(" \in Delimiters
  BY Zenon DEF Quotes, Delimiters
<1>2. Matching("\"") = "\""
  BY <1>1, Characters, Zenon
<1>3. CASE d = "" /\ ch \notin Gap \cup Delimiters
  BY <1>1, <1>3, Zenon DEF Parting, InAfter, EscapeAfter
<1>4. CASE d = DoubleQuote /\ ch \notin {DoubleQuote, Backslash}
  BY <1>1, <1>2, <1>4, Zenon DEF Parting, InAfter, EscapeAfter, DoubleQuote, Backslash
<1>5. QED
  BY <1>3, <1>4, Zenon DEF Ordinary

LEMMA LeadsOnEmpty == ASSUME NEW S, NEW d PROVE LeadsOn(<<>>, d, S)
<1>1. \A s \in Seq(S) : s \o <<>> = s
  OBVIOUS
<1>2. QED
  BY <1>1, Zenon DEF LeadsOn

LEMMA ConcatAgain ==
    ASSUME NEW S, NEW s \in Seq(S), NEW x \in Seq(S), NEW y \in Seq(S)
    PROVE  Joined(s \o (x \o y), s \o x, y) /\ s \o x \in Seq(S)
<1>1. s \o (x \o y) = (s \o x) \o y
  OBVIOUS
<1>2. QED
  BY <1>1 DEF Joined

LEMMA LeadsOnNext ==
    ASSUME NEW S, NEW x \in Seq(S), NEW ch \in S, NEW d, Ordinary(d, ch), LeadsOn(x, d, S)
    PROVE  LeadsOn(Append(x, ch), d, S)
<1> SUFFICES ASSUME NEW s \in Seq(S), NEW b \in Seq(S), NEW a, Leads(s, a, b, d, "")
             PROVE  Leads(s \o Append(x, ch), a, b \o Append(x, ch), d, "")
  BY Zenon DEF LeadsOn
<1> DEFINE t == s \o x
           w == b \o x
<1>1. Leads(t, a, w, d, "")
  BY Zenon DEF LeadsOn
<1>2. t \in Seq(S)
  BY ConcatAgain, Zenon
<1>3. Assoc(s, x, ch) /\ Assoc(b, x, ch)
  BY AppendConcat, Zenon
<1> HIDE DEF t, w
<1>4. Leads(Append(t, ch), WordsAfter(a, w, d, ch), WordAfter(w, d, ch),
            InAfter(d, "", ch), EscapeAfter(d, "", ch))
  BY <1>1, <1>2, OrdinaryStays, LeadsNext, Zenon
<1>5. Leads(Append(t, ch), a, Append(w, ch), d, "")
  <2>1. ~ Parting(d, ch) /\ InAfter(d, "", ch) = d /\ EscapeAfter(d, "", ch) = ""
    BY OrdinaryStays, Zenon
  <2>2. QED
    BY <1>4, <2>1, Zenon DEF WordsAfter, WordAfter
<1>6. QED
  BY <1>3, <1>5, Zenon DEF Assoc, t, w

LEMMA LeadsOnAll ==
    ASSUME NEW S, NEW d, NEW x \in Seq({ch \in S : Ordinary(d, ch)})
    PROVE  x \in Seq(S) /\ LeadsOn(x, d, S)
<1> DEFINE Fit == {ch \in S : Ordinary(d, ch)}
           M == {y \in Seq(Fit) : y \in Seq(S) /\ LeadsOn(y, d, S)}
<1>1. <<>> \in M
  <2>1. <<>> \in Seq(Fit) /\ <<>> \in Seq(S)
    OBVIOUS
  <2>2. QED
    BY <2>1, LeadsOnEmpty, Zenon
<1>2. ASSUME NEW y \in Seq(Fit), NEW ch \in Fit, y \in M PROVE Append(y, ch) \in M
  <2>1. ch \in S /\ Ordinary(d, ch)
    OBVIOUS
  <2>2. LeadsOn(y, d, S) /\ y \in Seq(S)
    BY <1>2
  <2>3. LeadsOn(Append(y, ch), d, S)
    BY <2>1, <2>2, LeadsOnNext, Zenon
  <2> HIDE DEF Fit
  <2>4. Append(y, ch) \in Seq(Fit) /\ Append(y, ch) \in Seq(S)
    BY <2>1, <2>2
  <2>5. QED
    BY <2>3, <2>4, Zenon
<1>3. Seq(Fit) \subseteq M
  <2> HIDE DEF M, Fit
  <2> QED BY <1>1, <1>2, SeqInduction, Zenon
<1>4. QED
  BY <1>3, Zenon

LEMMA LeadsOnConcat ==
    ASSUME NEW S, NEW x \in Seq(S), NEW y \in Seq(S), NEW d, LeadsOn(x, d, S), LeadsOn(y, d, S)
    PROVE  LeadsOn(x \o y, d, S)
<1> SUFFICES ASSUME NEW s \in Seq(S), NEW b \in Seq(S), NEW a, Leads(s, a, b, d, "")
             PROVE  Leads(s \o (x \o y), a, b \o (x \o y), d, "")
  BY Zenon DEF LeadsOn
<1>1. Joined(s \o (x \o y), s \o x, y) /\ s \o x \in Seq(S)
  BY ConcatAgain, Zenon
<1>2. Joined(b \o (x \o y), b \o x, y) /\ b \o x \in Seq(S)
  BY ConcatAgain, Zenon
<1>3. Leads(s \o x, a, b \o x, d, "")
  BY Zenon DEF LeadsOn
<1>4. Leads((s \o x) \o y, a, (b \o x) \o y, d, "")
  BY <1>1, <1>2, <1>3, Zenon DEF LeadsOn
<1>5. QED
  BY <1>1, <1>2, <1>4, Zenon DEF Joined

\* An escape, in double quotes.
Twice(s, x, y) == s \o <<x, y>> = Append(Append(s, x), y)
LEMMA AppendTwice ==
    ASSUME NEW S, NEW s \in Seq(S), NEW x \in S, NEW y \in S
    PROVE  Twice(s, x, y) /\ Append(s, x) \in Seq(S)
<1>1. s \o <<x, y>> = Append(Append(s, x), y) /\ Append(s, x) \in Seq(S)
  OBVIOUS
<1>2. QED
  BY <1>1 DEF Twice

LEMMA LeadsOnEscape ==
    ASSUME NEW S, Backslash \in S, NEW ch \in S
    PROVE  LeadsOn(<<Backslash, ch>>, DoubleQuote, S)
<1> DEFINE d == DoubleQuote
           bs == Backslash
<1> SUFFICES ASSUME NEW s \in Seq(S), NEW b \in Seq(S), NEW a, Leads(s, a, b, d, "")
             PROVE  Leads(s \o <<bs, ch>>, a, b \o <<bs, ch>>, d, "")
  BY Zenon DEF LeadsOn
<1>1. /\ d # "" /\ "\\" # "" /\ "\\" # "\"" /\ "\"" \in Quotes
  BY Zenon DEF DoubleQuote, Quotes
<1>2. /\ ~ Parting(d, bs) /\ InAfter(d, "", bs) = d /\ EscapeAfter(d, "", bs) = "\\"
      /\ ~ Parting(d, ch) /\ InAfter(d, "\\", ch) = d /\ EscapeAfter(d, "\\", ch) = ""
  <2>1. Matching("\"") = "\""
    BY <1>1, Characters, Zenon
  <2>2. QED
    BY <1>1, <2>1, Zenon DEF Parting, InAfter, EscapeAfter, DoubleQuote, Backslash
<1>3. /\ Twice(s, bs, ch) /\ Append(s, bs) \in Seq(S) /\ Twice(b, bs, ch)
  BY AppendTwice, Zenon
<1>4. Leads(Append(s, bs), a, Append(b, bs), d, "\\")
  <2>1. Leads(Append(s, bs), WordsAfter(a, b, d, bs), WordAfter(b, d, bs),
              InAfter(d, "", bs), EscapeAfter(d, "", bs))
    BY <1>1, LeadsNext, Zenon
  <2>2. QED
    BY <1>2, <2>1, Zenon DEF WordsAfter, WordAfter
<1> DEFINE t == Append(s, bs)
           w == Append(b, bs)
<1> HIDE DEF t, w
<1>5. Leads(Append(t, ch), a, Append(w, ch), d, "")
  <2>1. t \in Seq(S) /\ Leads(t, a, w, d, "\\")
    BY <1>3, <1>4, Zenon DEF t, w
  <2>2. Leads(Append(t, ch), WordsAfter(a, w, d, ch), WordAfter(w, d, ch),
              InAfter(d, "\\", ch), EscapeAfter(d, "\\", ch))
    BY <1>1, <2>1, LeadsNext, Zenon
  <2>3. QED
    BY <1>2, <2>2, Zenon DEF WordsAfter, WordAfter
<1>6. QED
  BY <1>3, <1>5, Zenon DEF Twice, t, w

\* A value in double quotes.
Wrapped(s, q, x) == s \o (<<q>> \o x \o <<q>>) = Append(Append(s, q) \o x, q)
LEMMA AppendWrapped ==
    ASSUME NEW S, NEW s \in Seq(S), NEW q \in S, NEW x \in Seq(S)
    PROVE  /\ Wrapped(s, q, x) /\ Append(s, q) \in Seq(S) /\ Append(s, q) \o x \in Seq(S)
           /\ <<q>> \o x \o <<q>> \in Seq(S)
<1>1. s \o (<<q>> \o x \o <<q>>) = Append(Append(s, q) \o x, q)
  OBVIOUS
<1>2. /\ Append(s, q) \in Seq(S) /\ Append(s, q) \o x \in Seq(S)
      /\ <<q>> \o x \o <<q>> \in Seq(S)
  OBVIOUS
<1>3. QED
  BY <1>1, <1>2 DEF Wrapped

LEMMA LeadsOnQuoted ==
    ASSUME NEW S, DoubleQuote \in S, NEW x \in Seq(S), LeadsOn(x, DoubleQuote, S)
    PROVE  InQuotes(x) \in Seq(S) /\ LeadsOn(InQuotes(x), "", S)
<1> DEFINE q == DoubleQuote
           y == <<q>> \o x \o <<q>>
<1>1. InQuotes(x) = y
  BY Zenon DEF InQuotes, DoubleQuote
<1>2. y \in Seq(S)
  <2>1. <<>> \in Seq(S)
    OBVIOUS
  <2>2. QED
    BY <2>1, AppendWrapped, Zenon
<1>3. /\ ~ Parting("", q) /\ InAfter("", "", q) = q /\ EscapeAfter("", "", q) = ""
      /\ ~ Parting(q, q) /\ InAfter(q, "", q) = "" /\ EscapeAfter(q, "", q) = ""
      /\ q # "("
  <2>1. /\ "\"" \in Quotes /\ "\"" # "" /\ "\"" \in Delimiters /\ "\"" \notin Gap /\ "\"" # "\\"
        /\ "\"" # "("
    BY Zenon DEF Quotes, Delimiters, Gap, Space
  <2>2. Matching("\"") = "\""
    BY <2>1, Characters, Zenon
  <2>3. QED
    BY <2>1, <2>2, Zenon DEF Parting, InAfter, EscapeAfter, DoubleQuote
<1>4. ASSUME NEW s \in Seq(S), NEW b \in Seq(S), NEW a, Leads(s, a, b, "", "")
      PROVE  Leads(s \o y, a, b \o y, "", "")
  <2> DEFINE t == Append(s, q)
             w == Append(b, q)
  <2>1. /\ Wrapped(s, q, x) /\ t \in Seq(S) /\ t \o x \in Seq(S)
        /\ Wrapped(b, q, x) /\ w \in Seq(S)
    BY AppendWrapped, Zenon
  <2>2. Leads(t, WordsAfter(a, b, "", q), WordAfter(b, "", q), InAfter("", "", q), EscapeAfter("", "", q))
    BY <1>3, <1>4, LeadsNext, Zenon
  <2>3. Leads(t, a, w, q, "")
    BY <1>3, <2>2, Zenon DEF WordsAfter, WordAfter
  <2>4. Leads(t \o x, a, w \o x, q, "")
    BY <2>1, <2>3, Zenon DEF LeadsOn
  <2> DEFINE u == t \o x
             v == w \o x
  <2> HIDE DEF t, w, u, v
  <2>5. Leads(Append(u, q), WordsAfter(a, v, q, q), WordAfter(v, q, q), InAfter(q, "", q), EscapeAfter(q, "", q))
    BY <1>3, <2>1, <2>4, LeadsNext, Zenon DEF u, v
  <2>6. Leads(Append(u, q), a, Append(v, q), "", "")
    BY <1>3, <2>5, Zenon DEF WordsAfter, WordAfter
  <2>7. QED
    BY <2>1, <2>6, Zenon DEF Wrapped, t, w, u, v
<1>5. LeadsOn(y, "", S)
  BY <1>4, Zenon DEF LeadsOn
<1>6. QED
  BY <1>1, <1>2, <1>5, Zenon

\* The reader of escapes is, after s, at the text u, and has a backslash pending or not.
UnescapeIs(r, u, pending) ==
    DOMAIN r = {"text", "escaped"} /\ r.text = u /\ (r.escaped <=> pending)
UnescapeNext(r, ch, more) ==
    IF r.escaped THEN [text |-> r.text \o Plain(ch), escaped |-> FALSE]
    ELSE IF ch = Backslash /\ more THEN [r EXCEPT !.escaped = TRUE]
    ELSE [r EXCEPT !.text = Append(@, ch)]
NoEscape == [text |-> <<>>, escaped |-> FALSE]
UnescapeRuns(f, s) ==
    /\ f[0] = NoEscape
    /\ \A i \in 1 .. Len(s) : f[i] = UnescapeNext(f[i - 1], s[i], TRUE)
UnescapesTo(s, u, pending) ==
    \E f : UnescapeRuns(f, s) /\ UnescapeIs(f[Len(s)], u, pending)

LEMMA UnescapesEmpty == UnescapesTo(<<>>, <<>>, FALSE)
<1> DEFINE f == [i \in 0 .. 0 |-> NoEscape]
<1>1. f[0] = NoEscape /\ Len(<<>>) = 0 /\ \A i \in 1 .. 0 : FALSE
  OBVIOUS
<1>2. UnescapeIs(NoEscape, <<>>, FALSE)
  BY DEF UnescapeIs, NoEscape
<1> HIDE DEF f
<1>3. UnescapeRuns(f, <<>>) /\ UnescapeIs(f[Len(<<>>)], <<>>, FALSE)
  BY <1>1, <1>2, Zenon DEF UnescapeRuns
<1>4. QED
  BY <1>3, Zenon DEF UnescapesTo

LEMMA UnescapesNext ==
    ASSUME NEW S, NEW s \in Seq(S), NEW ch \in S, NEW u, NEW pending \in BOOLEAN,
           UnescapesTo(s, u, pending)
    PROVE  /\ pending => UnescapesTo(Append(s, ch), u \o Plain(ch), FALSE)
           /\ ~ pending /\ ch = Backslash => UnescapesTo(Append(s, ch), u, TRUE)
           /\ ~ pending /\ ch # Backslash => UnescapesTo(Append(s, ch), Append(u, ch), FALSE)
<1> DEFINE n == Len(s)
           t == Append(s, ch)
<1>1. PICK f : UnescapeRuns(f, s) /\ UnescapeIs(f[n], u, pending)
  BY Zenon DEF UnescapesTo
<1> DEFINE x == UnescapeNext(f[n], ch, TRUE)
<1>2. n \in Nat /\ Len(t) = n + 1 /\ t[n + 1] = ch /\ \A i \in 1 .. n : t[i] = s[i]
  OBVIOUS
<1>3. PICK h : Extends(h, f, n, x)
  BY <1>2, OneMore, Zenon
<1>4. /\ \A i \in 1 .. n + 1 : i = n + 1 \/ i \in 1 .. n
      /\ \A i \in 1 .. n : i - 1 \in 0 .. n /\ i \in 0 .. n
      /\ (n + 1) - 1 = n /\ n \in 0 .. n /\ 0 \in 0 .. n
  BY <1>2
<1> HIDE DEF x, t, n
<1>5. h[0] = NoEscape
  BY <1>1, <1>3, <1>4, Zenon DEF Extends, UnescapeRuns
<1>6. ASSUME NEW i \in 1 .. n + 1 PROVE h[i] = UnescapeNext(h[i - 1], t[i], TRUE)
  <2>1. CASE i = n + 1
    BY <1>2, <1>3, <1>4, <2>1, Zenon DEF Extends, x
  <2>2. CASE i \in 1 .. n
    BY <1>1, <1>2, <1>3, <1>4, <2>2, Zenon DEF Extends, UnescapeRuns, n
  <2>3. QED
    BY <1>4, <2>1, <2>2, Zenon
<1>7. UnescapeRuns(h, t)
  BY <1>2, <1>5, <1>6, Zenon DEF UnescapeRuns
<1>8. h[Len(t)] = x
  BY <1>2, <1>3, Zenon DEF Extends
<1>9. DOMAIN f[n] = {"text", "escaped"} /\ f[n].text = u /\ (f[n].escaped <=> pending)
  BY <1>1, Zenon DEF UnescapeIs
<1>10. ASSUME NEW v, NEW q \in BOOLEAN, UnescapeIs(x, v, q) PROVE UnescapesTo(t, v, q)
  BY <1>7, <1>8, <1>10, Zenon DEF UnescapesTo
<1>11. CASE pending
  <2>1. x = [text |-> u \o Plain(ch), escaped |-> FALSE]
    BY <1>9, <1>11, Zenon DEF UnescapeNext, x
  <2>2. UnescapeIs(x, u \o Plain(ch), FALSE)
    <3> DEFINE v == u \o Plain(ch)
    <3> HIDE DEF v
    <3>1. x = [text |-> v, escaped |-> FALSE]
      BY <2>1 DEF v
    <3>2. UnescapeIs(x, v, FALSE)
      BY <3>1 DEF UnescapeIs
    <3>3. QED
      BY <3>2 DEF v
  <2>3. QED
    BY <1>10, <1>11, <2>2, Zenon DEF t
<1>12. CASE ~ pending /\ ch = Backslash
  <2>1. x = [f[n] EXCEPT !.escaped = TRUE]
    BY <1>9, <1>12, Zenon DEF UnescapeNext, x
  <2>2. UnescapeIs(x, u, TRUE)
    BY <1>9, <2>1 DEF UnescapeIs
  <2>3. QED
    BY <1>10, <1>12, <2>2, Zenon DEF t
<1>13. CASE ~ pending /\ ch # Backslash
  <2>1. x = [f[n] EXCEPT !.text = Append(@, ch)]
    BY <1>9, <1>13, Zenon DEF UnescapeNext, x
  <2>2. UnescapeIs(x, Append(u, ch), FALSE)
    BY <1>9, <1>13, <2>1 DEF UnescapeIs
  <2>3. QED
    BY <1>10, <1>13, <2>2, Zenon DEF t
<1>14. QED
  BY <1>11, <1>12, <1>13, Zenon DEF t

\* What it returns, unless a backslash comes last.
LEMMA UnescapeReturns ==
    ASSUME NEW S, NEW s \in Seq(S), NEW u, UnescapesTo(s, u, FALSE)
    PROVE  Unescape(s) = u
<1> DEFINE n == Len(s)
           Fits(f) == f = [i \in 0 .. Len(s) |->
                          IF i = 0 THEN NoEscape
                          ELSE UnescapeNext(f[i - 1], s[i], i < Len(s))]
           h == CHOOSE f : Fits(f)
<1>1. PICK f : UnescapeRuns(f, s) /\ UnescapeIs(f[n], u, FALSE)
  BY Zenon DEF UnescapesTo
<1>2. n \in Nat
  OBVIOUS
<1>3. ASSUME NEW i \in 1 .. n PROVE f[i] = UnescapeNext(f[i - 1], s[i], i < n)
  <2>1. f[i] = UnescapeNext(f[i - 1], s[i], TRUE)
    BY <1>1, Zenon DEF UnescapeRuns
  <2>2. CASE i < n
    BY <2>1, <2>2, Zenon
  <2>3. CASE i = n
    <3>1. ~ f[i].escaped
      BY <1>1, <2>3, Zenon DEF UnescapeIs
    <3>2. ~ (~ f[i - 1].escaped /\ s[i] = Backslash)
      <4> SUFFICES ASSUME ~ f[i - 1].escaped, s[i] = Backslash PROVE FALSE
        OBVIOUS
      <4> DEFINE r == f[i - 1]
      <4>1. f[i] = [r EXCEPT !.escaped = TRUE]
        BY <2>1, Zenon DEF UnescapeNext
      <4>2. DOMAIN f[i] = {"text", "escaped"}
        BY <1>1, <2>3, Zenon DEF UnescapeIs
      <4> HIDE DEF r
      <4>3. f[i].escaped
        BY <4>1, <4>2
      <4>4. QED
        BY <3>1, <4>3, Zenon
    <3>3. QED
      BY <2>1, <3>2, Zenon DEF UnescapeNext
  <2>4. i < n \/ i = n
    BY <1>2
  <2>5. QED
    BY <2>2, <2>3, <2>4, Zenon
<1> DEFINE g == [i \in 0 .. n |-> f[i]]
<1>4. Fits(g)
  <2> DEFINE e(i) == IF i = 0 THEN NoEscape ELSE UnescapeNext(g[i - 1], s[i], i < Len(s))
  <2> HIDE DEF Fits
  <2>1. f[0] = NoEscape
    BY <1>1, Zenon DEF UnescapeRuns
  <2>2. \A i \in 0 .. n : i = 0 \/ i \in 1 .. n
    BY <1>2
  <2>3. \A i \in 1 .. n : i # 0 /\ i - 1 \in 0 .. n /\ i \in 0 .. n
    BY <1>2
  <2>4. \A i \in 0 .. n : g[i] = f[i]
    OBVIOUS
  <2>5. ASSUME NEW i \in 0 .. n PROVE g[i] = e(i)
    BY <1>3, <2>1, <2>2, <2>3, <2>4, Zenon
  <2> HIDE DEF e
  <2>6. g = [i \in 0 .. Len(s) |-> e(i)]
    <3>1. g = [i \in 0 .. Len(s) |-> g[i]]
      BY <2>4
    <3> HIDE DEF g
    <3>2. QED
      BY <2>5, <3>1
  <2>7. QED
    BY <2>6 DEF e, Fits
<1>5. Fits(h)
  <2> HIDE DEF Fits, g
  <2> QED BY <1>4, Zenon
<1>6. Unescape(s) = h[Len(s)].text
  BY DEF Unescape, NoEscape, UnescapeNext, Backslash
<1> HIDE DEF h
<1>7. h[0] = NoEscape /\ \A i \in 1 .. n : h[i] = UnescapeNext(h[i - 1], s[i], i < n)
  <2> DEFINE step(q, i) == UnescapeNext(q, s[i], i < n)
  <2> HIDE DEF step
  <2>1. h = [i \in 0 .. n |-> IF i = 0 THEN NoEscape ELSE step(h[i - 1], i)]
    BY <1>5, Zenon DEF step
  <2>2. h[0] = NoEscape /\ \A i \in 1 .. n : h[i] = step(h[i - 1], i)
    BY <1>2, <2>1
  <2>3. QED
    BY <2>2, Zenon DEF step
<1>8. Same(h, f, n)
  <2>1. f[0] = NoEscape
    BY <1>1, Zenon DEF UnescapeRuns
  <2>2. TakesSameSteps(h, f, n)
    BY <1>3, <1>7, <2>1, Zenon DEF TakesSameSteps
  <2>3. QED
    BY <1>2, <2>2, SameSteps, Zenon
<1>9. n \in 0 .. n
  BY <1>2
<1>10. h[n] = f[n]
  BY <1>8, <1>9, Zenon DEF Same
<1>11. QED
  BY <1>1, <1>6, <1>10, Zenon DEF UnescapeIs

\* It leaves a text alone that has no backslash.
LEMMA UnescapePlain ==
    ASSUME NEW S, NEW v \in Seq(S), \A i \in 1 .. Len(v) : v[i] # Backslash
    PROVE  UnescapesTo(v, v, FALSE)
<1> DEFINE Fit == S \ {Backslash}
           M == {y \in Seq(Fit) : UnescapesTo(y, y, FALSE)}
<1>1. <<>> \in Seq(Fit)
  OBVIOUS
<1>2. <<>> \in M
  BY <1>1, UnescapesEmpty, Zenon
<1>3. ASSUME NEW y \in Seq(Fit), NEW ch \in Fit, y \in M PROVE Append(y, ch) \in M
  <2>1. ch # Backslash
    OBVIOUS
  <2>2. UnescapesTo(Append(y, ch), Append(y, ch), FALSE)
    BY <1>3, <2>1, UnescapesNext, Zenon
  <2> HIDE DEF Fit
  <2>3. Append(y, ch) \in Seq(Fit)
    OBVIOUS
  <2>4. QED
    BY <2>2, <2>3, Zenon
<1>4. v \in Seq(Fit)
  <2> DEFINE bs == Backslash
  <2> HIDE DEF bs
  <2>1. v \in Seq(S \ {bs})
    <3>1. \A i \in 1 .. Len(v) : v[i] # bs
      BY DEF bs
    <3>2. QED
      BY <3>1
  <2>2. QED
    BY <2>1 DEF bs
<1>5. Seq(Fit) \subseteq M
  <2> HIDE DEF M, Fit
  <2> QED BY <1>2, <1>3, SeqInduction, Zenon
<1>6. QED
  BY <1>4, <1>5, Zenon

\* An escape is one for the reader, too, and what needs none is no quote.
EscapeForms(ch) ==
    \/ \E y \in Char : Escape(ch) = <<Backslash, y>> /\ Plain(y) = <<ch>>
    \/ Escape(ch) = <<ch>> /\ Ordinary(DoubleQuote, ch)
LEMMA Escapes == ASSUME NEW ch PROVE EscapeForms(ch)
<1>1. CASE ch = "\\"
  <2>1. Backslash \in Char /\ Escape(ch) = <<Backslash, Backslash>>
    BY <1>1, Zenon DEF Char, Escape, Backslash
  <2>2. Plain(Backslash) = <<ch>>
    BY <1>1, Zenon DEF Plain, Backslash
  <2>3. QED
    BY <2>1, <2>2, Zenon DEF EscapeForms
<1>2. CASE ch = "\""
  <2>1. DoubleQuote \in Char /\ Escape(ch) = <<Backslash, DoubleQuote>>
    BY <1>2, Zenon DEF Char, Escape, Backslash, DoubleQuote
  <2>2. Plain(DoubleQuote) = <<ch>>
    BY <1>2, Zenon DEF Plain, DoubleQuote
  <2>3. QED
    BY <2>1, <2>2, Zenon DEF EscapeForms
<1>3. CASE ch = "\r"
  <2>1. "r" \in Char /\ Escape(ch) = <<Backslash, "r">>
    BY <1>3, Zenon DEF Char, Escape, Backslash
  <2>2. Plain("r") = <<ch>>
    BY <1>3, Zenon DEF Plain
  <2>3. QED
    BY <2>1, <2>2, Zenon DEF EscapeForms
<1>4. CASE ch = "\t"
  <2>1. "t" \in Char /\ Escape(ch) = <<Backslash, "t">>
    BY <1>4, Zenon DEF Char, Escape, Backslash
  <2>2. Plain("t") = <<ch>>
    BY <1>4, Zenon DEF Plain
  <2>3. QED
    BY <2>1, <2>2, Zenon DEF EscapeForms
<1>5. CASE ch \notin {"\\", "\"", "\r", "\t"}
  <2>1. Escape(ch) = <<ch>>
    BY <1>5, Zenon DEF Escape
  <2>2. Ordinary(DoubleQuote, ch)
    BY <1>5, Zenon DEF Ordinary, DoubleQuote, Backslash
  <2>3. QED
    BY <2>1, <2>2, Zenon DEF EscapeForms
<1>6. QED
  BY <1>1, <1>2, <1>3, <1>4, <1>5, Zenon

LEMMA EscapeType == ASSUME NEW ch \in STRING PROVE Escape(ch) \in Seq(Char)
<1>1. ch \in Char /\ Backslash \in Char
  BY Zenon DEF Char, Backslash
<1>2. ASSUME NEW S, NEW x \in S, NEW y \in S PROVE <<x, y>> \in Seq(S) /\ <<x>> \in Seq(S)
  OBVIOUS
<1>3. CASE Escape(ch) = <<ch>>
  BY <1>1, <1>2, <1>3, Zenon
<1>4. ASSUME NEW y \in Char, Escape(ch) = <<Backslash, y>> PROVE Escape(ch) \in Seq(Char)
  BY <1>1, <1>2, <1>4, Zenon
<1>5. QED
  BY <1>3, <1>4, Escapes, Zenon DEF EscapeForms

Escaped(v) == FlattenSeq([i \in 1 .. Len(v) |-> Escape(v[i])])
LEMMA EscapedEmpty == Escaped(<<>>) = <<>>
<1>1. Escaped(<<>>) = FlattenSeq(<<>>)
  <2>1. [i \in 1 .. Len(<<>>) |-> Escape(<<>>[i])] = <<>>
    OBVIOUS
  <2>2. QED
    BY <2>1, Zenon DEF Escaped
<1>2. FlattenSeq(<<>>) = <<>>
  BY DEF FlattenSeq
<1>3. QED
  BY <1>1, <1>2, Zenon

LEMMA AppendsOne ==
    ASSUME NEW S, NEW s \in Seq(S), NEW ch \in S
    PROVE  Joined(Append(s, ch), s, <<ch>>) /\ Append(s, ch) \in Seq(S)
<1>1. Append(s, ch) = s \o <<ch>> /\ Append(s, ch) \in Seq(S)
  OBVIOUS
<1>2. QED
  BY <1>1 DEF Joined

LEMMA EscapedNext ==
    ASSUME NEW S, NEW T, \A x \in S : Escape(x) \in Seq(T), NEW v \in Seq(S), NEW ch \in S
    PROVE  Joined(Escaped(Append(v, ch)), Escaped(v), Escape(ch)) /\ Escaped(v) \in Seq(T)
<1> DEFINE t == Append(v, ch)
           e == [x \in S |-> Escape(x)]
           seqs == [i \in 1 .. Len(v) |-> Escape(v[i])]
           more == [i \in 1 .. Len(t) |-> Escape(t[i])]
           X == Seq(T)
<1>1. e \in [S -> X] /\ \A x \in S : e[x] = Escape(x)
  OBVIOUS
<1>2. /\ Len(v) \in Nat /\ t \in Seq(S) /\ Len(t) = Len(v) + 1 /\ t[Len(v) + 1] = ch
      /\ \A i \in 1 .. Len(v) : t[i] = v[i] /\ v[i] \in S
  OBVIOUS
<1>3. seqs = [i \in 1 .. Len(v) |-> e[v[i]]] /\ more = [i \in 1 .. Len(t) |-> e[t[i]]]
  BY <1>1, <1>2
<1> HIDE DEF e, X, t, seqs, more
<1>4. seqs \in Seq(X) /\ Len(seqs) = Len(v) /\ e[ch] \in X
  BY <1>1, <1>2, <1>3
<1>5. more = Append(seqs, e[ch])
  BY <1>1, <1>2, <1>3, <1>4
<1>6. FlatAppend(seqs, e[ch])
  BY <1>4, FlattenNext, Zenon DEF X
<1>7. FlattenSeq(more) = FlattenSeq(seqs) \o e[ch]
  BY <1>5, <1>6, Zenon DEF FlatAppend
<1>8. FlattenSeq(seqs) \in Seq(T)
  BY <1>4, FlattenType, Zenon DEF X
<1>9. QED
  BY <1>1, <1>7, <1>8, Zenon DEF Joined, Escaped, seqs, more, t

\* A value with its escapes is text in quotes, and its reader undoes them.
LEMMA EscapedReads ==
    ASSUME NEW v \in Seq(STRING)
    PROVE  /\ Escaped(v) \in Seq(Char) /\ LeadsOn(Escaped(v), DoubleQuote, Char)
           /\ UnescapesTo(Escaped(v), v, FALSE)
<1> DEFINE Good(y) == /\ Escaped(y) \in Seq(Char) /\ LeadsOn(Escaped(y), DoubleQuote, Char)
                      /\ UnescapesTo(Escaped(y), y, FALSE)
           M == {y \in Seq(STRING) : Good(y)}
<1>1. <<>> \in M
  <2>1. <<>> \in Seq(STRING) /\ <<>> \in Seq(Char)
    OBVIOUS
  <2>2. QED
    BY <2>1, EscapedEmpty, LeadsOnEmpty, UnescapesEmpty, Zenon
<1>2. ASSUME NEW y \in Seq(STRING), NEW ch \in STRING, Good(y) PROVE Good(Append(y, ch))
  <2> DEFINE w == Escaped(y)
  <2>1. Escaped(Append(y, ch)) = w \o Escape(ch)
    BY EscapeType, EscapedNext, Zenon DEF Joined
  <2>2. w \in Seq(Char) /\ LeadsOn(w, DoubleQuote, Char) /\ UnescapesTo(w, y, FALSE)
    BY <1>2, Zenon
  <2>3. ch \in Char /\ Backslash \in Char
    BY Zenon DEF Char, Backslash
  <2> HIDE DEF w, Good
  <2>4. CASE Escape(ch) = <<ch>> /\ Ordinary(DoubleQuote, ch)
    <3>1. w \o <<ch>> = Append(w, ch) /\ Append(w, ch) \in Seq(Char)
      BY <2>2, <2>3, AppendsOne, Zenon DEF Joined
    <3>2. LeadsOn(Append(w, ch), DoubleQuote, Char)
      BY <2>2, <2>3, <2>4, LeadsOnNext, Zenon
    <3>3. ch # Backslash
      <4>1. DoubleQuote # ""
        BY Zenon DEF DoubleQuote
      <4>2. QED
        BY <2>4, <4>1, Zenon DEF Ordinary
    <3>4. UnescapesTo(Append(w, ch), Append(y, ch), FALSE)
      BY <2>2, <2>3, <3>3, UnescapesNext, Zenon
    <3>5. QED
      BY <2>1, <2>4, <3>1, <3>2, <3>4, Zenon DEF Good
  <2>5. ASSUME NEW z \in Char, Escape(ch) = <<Backslash, z>>, Plain(z) = <<ch>>
        PROVE  Good(Append(y, ch))
    <3> DEFINE x == Append(w, Backslash)
    <3>1. Twice(w, Backslash, z) /\ x \in Seq(Char)
      BY <2>2, <2>3, AppendTwice, Zenon
    <3>2. UnescapesTo(x, y, TRUE)
      BY <2>2, <2>3, UnescapesNext, Zenon
    <3>3. UnescapesTo(Append(x, z), y \o Plain(z), FALSE)
      BY <3>1, <3>2, UnescapesNext, Zenon
    <3>4. y \o <<ch>> = Append(y, ch)
      BY AppendsOne, Zenon DEF Joined
    <3>5. UnescapesTo(w \o Escape(ch), Append(y, ch), FALSE)
      BY <2>5, <3>1, <3>3, <3>4, Zenon DEF Twice
    <3>6. LeadsOn(<<Backslash, z>>, DoubleQuote, Char)
      BY <2>3, LeadsOnEscape, Zenon
    <3>7. Escape(ch) \in Seq(Char)
      BY EscapeType, Zenon
    <3>8. LeadsOn(w \o Escape(ch), DoubleQuote, Char)
      BY <2>2, <2>5, <3>6, <3>7, LeadsOnConcat, Zenon
    <3>9. w \o Escape(ch) \in Seq(Char)
      BY <2>2, <3>7, ConcatAgain, Zenon
    <3>10. QED
      BY <2>1, <3>5, <3>8, <3>9, Zenon DEF Good
  <2>6. QED
    BY <2>4, <2>5, Escapes, Zenon DEF EscapeForms
<1>3. Seq(STRING) \subseteq M
  <2>1. ASSUME NEW y \in Seq(STRING), NEW ch \in STRING, y \in M PROVE Append(y, ch) \in M
    <3>1. Append(y, ch) \in Seq(STRING)
      BY AppendsOne, Zenon
    <3>2. Good(y)
      BY <2>1, Zenon
    <3>3. QED
      BY <1>2, <3>1, <3>2, Zenon
  <2> HIDE DEF M, Good
  <2>2. QED
    BY <1>1, <2>1, SeqInduction, Zenon
<1>4. QED
  BY <1>3, Zenon

\* Taking off the quotes.
Unwrapped(z, q, y) ==
    /\ Len(z) >= 2 /\ z[1] = q /\ z[Len(z)] = q
    /\ SubSeq(z, 2, Len(z) - 1) = y
LEMMA Unwraps ==
    ASSUME NEW S, NEW q \in S, NEW y \in Seq(S)
    PROVE  Unwrapped(<<q>> \o y \o <<q>>, q, y)
<1> DEFINE z == <<q>> \o y \o <<q>>
<1>1. /\ z \in Seq(S) /\ Len(z) = Len(y) + 2 /\ Len(y) \in Nat /\ z[1] = q /\ z[Len(y) + 2] = q
      /\ \A i \in 1 .. Len(y) : z[i + 1] = y[i]
  OBVIOUS
<1> HIDE DEF z
<1> DEFINE x == SubSeq(z, 2, Len(z) - 1)
<1>2. x \in Seq(S) /\ Len(x) = Len(y) /\ \A i \in 1 .. Len(y) : x[i] = z[i + 1]
  BY <1>1
<1> HIDE DEF x
<1>3. x = y
  BY <1>1, <1>2, SeqEqual
<1>4. Len(z) >= 2 /\ z[Len(z)] = q
  BY <1>1
<1>5. QED
  BY <1>1, <1>3, <1>4, Zenon DEF Unwrapped, x, z

LEMMA UnquoteReads ==
    ASSUME NEW S, DoubleQuote \in S, NEW y \in Seq(S), NEW v, UnescapesTo(y, v, FALSE)
    PROVE  UnquoteValue(InQuotes(y)) = v
<1> DEFINE q == DoubleQuote
           z == <<q>> \o y \o <<q>>
<1>1. Unwrapped(z, q, y)
  BY Unwraps, Zenon
<1>2. InQuotes(y) = z /\ q = "\""
  BY Zenon DEF InQuotes, DoubleQuote
<1> HIDE DEF z
<1>3. UnquoteValue(z) = Unescape(y)
  BY <1>1, <1>2, Zenon DEF UnquoteValue, Enclosed, Unwrapped
<1>4. Unescape(y) = v
  BY UnescapeReturns, Zenon
<1>5. QED
  BY <1>2, <1>3, <1>4, Zenon

\* A character of a word, and one that ends it.
LEMMA LeadsWord ==
    ASSUME NEW S, NEW s \in Seq(S), NEW a, NEW b, Leads(s, a, b, "", ""),
           NEW ch \in S, Ordinary("", ch)
    PROVE  Leads(Append(s, ch), a, Append(b, ch), "", "")
<1>1. /\ ("" = "" => ch # "(") /\ ~ Parting("", ch)
      /\ InAfter("", "", ch) = "" /\ EscapeAfter("", "", ch) = ""
  BY OrdinaryStays, Zenon
<1>2. Leads(Append(s, ch), WordsAfter(a, b, "", ch), WordAfter(b, "", ch),
            InAfter("", "", ch), EscapeAfter("", "", ch))
  BY <1>1, LeadsNext, Zenon
<1>3. QED
  BY <1>1, <1>2, Zenon DEF WordsAfter, WordAfter

LEMMA LeadsGap ==
    ASSUME NEW S, NEW s \in Seq(S), NEW a, NEW b, Leads(s, a, b, "", ""), NEW ch \in S, ch \in Gap
    PROVE  Leads(Append(s, ch), Ended(a, b), <<>>, "", "")
<1>1. ch \notin Delimiters /\ ch # "("
  BY Zenon DEF Gap, Delimiters, Space
<1>2. "" # "\""
  BY Zenon
<1>3. Parting("", ch) /\ InAfter("", "", ch) = "" /\ EscapeAfter("", "", ch) = ""
  BY <1>1, <1>2, Zenon DEF Parting, InAfter, EscapeAfter
<1>4. Leads(Append(s, ch), WordsAfter(a, b, "", ch), WordAfter(b, "", ch),
            InAfter("", "", ch), EscapeAfter("", "", ch))
  BY <1>1, LeadsNext, Zenon
<1>5. QED
  BY <1>3, <1>4, Zenon DEF WordsAfter, WordAfter

\* Characters before and after a value.
Framed(c, g, k, e, x, t, h, S) ==
    /\ <<c, g, k, e>> \o x \o <<g, t, h>> =
           Append(Append(Append(Append(Append(Append(Append(<<>>, c), g), k), e) \o x, g), t), h)
    /\ <<>> \in Seq(S)
    /\ <<c, g, k, e>> \o x \o <<g, t, h>> \in Seq(S)
FourInARow(c, g, t, h) == <<c, g, t, h>> = Append(Append(Append(Append(<<>>, c), g), t), h)
LEMMA FourAppended ==
    ASSUME NEW S, NEW c \in S, NEW g \in S, NEW t \in S, NEW h \in S
    PROVE  FourInARow(c, g, t, h)
BY DEF FourInARow

ThreeInARow(g, t, h) == <<g, t, h>> = Append(Append(Append(<<>>, g), t), h)
LEMMA ThreeAppended ==
    ASSUME NEW S, NEW g \in S, NEW t \in S, NEW h \in S
    PROVE  ThreeInARow(g, t, h)
BY DEF ThreeInARow

LEMMA OneCharacter == ASSUME NEW S, NEW ch \in S PROVE Append(<<>>, ch) \in Seq(S)
OBVIOUS

LEMMA Frames ==
    ASSUME NEW S, NEW c \in S, NEW g \in S, NEW k \in S, NEW e \in S, NEW t \in S, NEW h \in S,
           NEW x \in Seq(S)
    PROVE  Framed(c, g, k, e, x, t, h, S)
<1> DEFINE y == <<c, g, k, e>>
           z == <<g, t, h>>
<1>1. /\ y = Append(Append(Append(Append(<<>>, c), g), k), e) /\ y \in Seq(S)
      /\ z = Append(Append(Append(<<>>, g), t), h) /\ z \in Seq(S) /\ <<>> \in Seq(S)
  <2>1. y \in Seq(S) /\ z \in Seq(S) /\ <<>> \in Seq(S)
    OBVIOUS
  <2>2. /\ y = Append(Append(Append(Append(<<>>, c), g), k), e)
        /\ z = Append(Append(Append(<<>>, g), t), h)
    <3>1. FourInARow(c, g, k, e)
      BY FourAppended, Zenon
    <3>2. ThreeInARow(g, t, h)
      BY ThreeAppended, Zenon
    <3>3. QED
      BY <3>1, <3>2 DEF FourInARow, ThreeInARow
  <2>3. QED
    BY <2>1, <2>2
<1> HIDE DEF y, z
<1> DEFINE w == y \o x
<1>2. w \in Seq(S) /\ w \o z \in Seq(S)
  BY <1>1
<1> HIDE DEF w
<1>3. w \o z = Append(Append(Append(w, g), t), h)
  BY <1>1, <1>2
<1>4. QED
  BY <1>1, <1>2, <1>3, Zenon DEF Framed, w, y, z

LEMMA Longer ==
    ASSUME NEW S, NEW s \in Seq(S), NEW x \in S, NEW y \in Seq(S)
    PROVE  /\ Append(s, x) # <<>> /\ Append(s, x) \o y # <<>>
           /\ Append(s, x) \in Seq(S) /\ Append(s, x) \o y \in Seq(S)
OBVIOUS

MiddleOf(r, w) == Len(r) = 3 /\ r[2] = w
LEMMA MiddleOfThree ==
    ASSUME NEW S, NEW c \in S, NEW w \in S, NEW t \in S
    PROVE  MiddleOf(Append(Append(Append(<<>>, c), w), t), w)
BY DEF MiddleOf

Middle(words, x) == Len(words) = 3 /\ SubSeq(words[2], 3, Len(words[2])) = x
LEMMA SecondOfThree ==
    ASSUME NEW S, NEW c \in Seq(S), NEW k \in S, NEW e \in S, NEW x \in Seq(S),
           NEW last \in Seq(S), NEW words,
           words = Append(Append(Append(<<>>, c), Append(Append(<<>>, k), e) \o x), last)
    PROVE  Middle(words, x)
<1> DEFINE w == Append(Append(<<>>, k), e) \o x
<1>1. /\ w \in Seq(S) /\ Len(w) = Len(x) + 2 /\ Len(x) \in Nat
      /\ \A i \in 1 .. Len(x) : w[i + 2] = x[i]
  OBVIOUS
<1> DEFINE y == SubSeq(w, 3, Len(w))
<1>2. words = Append(Append(Append(<<>>, c), w), last)
  OBVIOUS
<1> HIDE DEF w
<1>3. y \in Seq(S) /\ Len(y) = Len(x) /\ \A i \in 1 .. Len(x) : y[i] = w[i + 2]
  BY <1>1
<1> HIDE DEF y
<1>4. y = x
  BY <1>1, <1>3, SeqEqual
<1>5. Len(words) = 3 /\ words[2] = w
  <2>1. MiddleOf(Append(Append(Append(<<>>, c), w), last), w)
    BY <1>1, MiddleOfThree, Zenon
  <2>2. QED
    BY <1>2, <2>1, Zenon DEF MiddleOf
<1>6. QED
  BY <1>4, <1>5, Zenon DEF y, Middle

FrameScan(line, S, c, k, e, x) ==
    \E last \in Seq(S) :
        /\ Scan(line).in = ""
        /\ Flush(Scan(line)).tokens =
               Append(Append(Append(<<>>, Append(<<>>, c)), Append(Append(<<>>, k), e) \o x), last)
LEMMA FrameLeads ==
    ASSUME NEW S, NEW c \in S, NEW g \in S, NEW k \in S, NEW e \in S, NEW t \in S, NEW h \in S,
           g \in Gap, \A ch \in {c, k, e, t, h} : Ordinary("", ch),
           NEW x \in Seq(S), LeadsOn(x, "", S)
    PROVE  FrameScan(<<c, g, k, e>> \o x \o <<g, t, h>>, S, c, k, e, x)
<1> DEFINE line == <<c, g, k, e>> \o x \o <<g, t, h>>
           n == <<>>
           s1 == Append(n, c)
           s2 == Append(s1, g)
           s3 == Append(s2, k)
           s4 == Append(s3, e)
           s5 == s4 \o x
           s6 == Append(s5, g)
           s7 == Append(s6, t)
           s8 == Append(s7, h)
           a1 == Append(n, s1)
           b1 == Append(n, k)
           b2 == Append(b1, e)
           b3 == b2 \o x
           a2 == Append(a1, b3)
           d1 == Append(n, t)
           d2 == Append(d1, h)
           a3 == Append(a2, d2)
<1>1. n \in Seq(S) /\ line \in Seq(S) /\ line = s8
  <2>1. Framed(c, g, k, e, x, t, h, S)
    BY Frames, Zenon
  <2>2. QED
    BY <2>1, Zenon DEF Framed
<1>2. s1 \in Seq(S) /\ s1 # <<>> /\ b1 \in Seq(S) /\ d1 \in Seq(S)
  BY <1>1, Longer, Zenon
<1>3. s2 \in Seq(S) /\ b2 \in Seq(S) /\ d2 \in Seq(S) /\ d2 # <<>> /\ b3 \in Seq(S) /\ b3 # <<>>
  BY <1>1, <1>2, Longer, Zenon
<1>4. s3 \in Seq(S)
  BY <1>3, Longer, Zenon
<1>5. s4 \in Seq(S) /\ s5 \in Seq(S)
  BY <1>4, Longer, Zenon
<1>6. s6 \in Seq(S)
  BY <1>5, Longer, Zenon
<1>7. s7 \in Seq(S)
  BY <1>6, Longer, Zenon
<1>8. Leads(n, n, n, "", "")
  BY LeadsEmpty, Zenon
<1> HIDE DEF line, s1, s2, s3, s4, s5, s6, s7, s8, a1, b1, b2, b3, a2, d1, d2, a3
<1>9. Leads(s1, n, s1, "", "")
  BY <1>1, <1>8, LeadsWord, Zenon DEF s1
<1>10. Leads(s2, a1, n, "", "")
  BY <1>2, <1>9, LeadsGap, Zenon DEF s2, a1, Ended
<1>11. Leads(s3, a1, b1, "", "")
  BY <1>3, <1>10, LeadsWord, Zenon DEF s3, b1
<1>12. Leads(s4, a1, b2, "", "")
  BY <1>4, <1>11, LeadsWord, Zenon DEF s4, b2
<1>13. Leads(s5, a1, b3, "", "")
  BY <1>3, <1>5, <1>12, Zenon DEF LeadsOn, s5, b3
<1>14. Leads(s6, a2, n, "", "")
  <2>1. Leads(s6, Ended(a1, b3), <<>>, "", "")
    BY <1>5, <1>13, LeadsGap, Zenon DEF s6
  <2>2. QED
    BY <1>3, <2>1, Zenon DEF Ended, a2
<1>15. Leads(s7, a2, d1, "", "")
  BY <1>6, <1>14, LeadsWord, Zenon DEF s7, d1
<1>16. Leads(s8, a2, d2, "", "")
  BY <1>7, <1>15, LeadsWord, Zenon DEF s8, d2
<1>17. Scan(line).in = "" /\ Flush(Scan(line)).tokens = a3
  <2>1. Scan(line).in = "" /\ Flush(Scan(line)).tokens = Ended(a2, d2)
    BY <1>1, <1>16, LeadsScan, Zenon
  <2>2. QED
    BY <1>3, <2>1, Zenon DEF Ended, a3
<1>18. QED
  BY <1>3, <1>17, Zenon DEF a3, a2, a1, b3, b2, b1, s1, line, FrameScan

(* What LineWith writes reads as what it was.                              *)
LEMMA LineReads ==
    ASSUME NEW x \in Seq(Char), LeadsOn(x, "", Char), NEW v, UnquoteValue(x) = v
    PROVE  ReadsAs(LineWith(x), v)
<1> DEFINE line == LineWith(x)
           words == Tokenize(line)
<1>1. line = <<"c", Space, "k", "=">> \o x \o <<Space, "~", "h">>
  BY Zenon DEF LineWith
<1>2. /\ "c" \in Char /\ Space \in Char /\ "k" \in Char /\ "=" \in Char /\ "~" \in Char /\ "h" \in Char
      /\ Space \in Gap
  BY Zenon DEF Char, Gap
<1>3. \A ch \in {"c", "k", "=", "~", "h"} : Ordinary("", ch)
  BY Zenon DEF Ordinary, Gap, Delimiters, Space
<1> HIDE DEF line, words
<1>4. FrameScan(line, Char, "c", "k", "=", x)
  <2>1. FrameScan(<<"c", Space, "k", "=">> \o x \o <<Space, "~", "h">>, Char, "c", "k", "=", x)
    BY <1>2, <1>3, FrameLeads, Zenon
  <2>2. QED
    BY <1>1, <2>1, Zenon
<1>5. PICK last \in Seq(Char) :
          /\ Scan(line).in = ""
          /\ Flush(Scan(line)).tokens =
                 Append(Append(Append(<<>>, Append(<<>>, "c")), Append(Append(<<>>, "k"), "=") \o x), last)
  BY <1>4, Zenon DEF FrameScan
<1>6. words = Append(Append(Append(<<>>, Append(<<>>, "c")), Append(Append(<<>>, "k"), "=") \o x), last)
  BY <1>5, Zenon DEF Tokenize, Tokenizes, words
<1>7. Append(<<>>, "c") \in Seq(Char)
  BY <1>2, OneCharacter, Zenon
<1>8. Middle(words, x)
  BY <1>2, <1>6, <1>7, SecondOfThree, Zenon
<1>9. QED
  BY <1>8, Zenon DEF ReadsAs, Middle, line, words

\* A value of one line that out.Pair writes reads as what it was.
LEMMA PairReads ==
    ASSUME NEW v \in Seq(STRING), ~ Has(v, <<NL>>)
    PROVE  ReadsAs(LineWith(PairValue(v)), v)
<1> DEFINE y == Escaped(v)
<1>1. /\ y \in Seq(Char) /\ LeadsOn(y, DoubleQuote, Char) /\ UnescapesTo(y, v, FALSE)
  BY EscapedReads, Zenon
<1>2. PairValue(v) = InQuotes(y)
  BY Zenon DEF PairValue, Escaped
<1>3. DoubleQuote \in Char
  BY Zenon DEF Char, DoubleQuote
<1> HIDE DEF y
<1>4. InQuotes(y) \in Seq(Char) /\ LeadsOn(InQuotes(y), "", Char)
  BY <1>1, <1>3, LeadsOnQuoted, Zenon
<1>5. UnquoteValue(InQuotes(y)) = v
  BY <1>1, <1>3, UnquoteReads, Zenon
<1>6. QED
  BY <1>2, <1>4, <1>5, LineReads, Zenon

\* One that needs no escapes is text in quotes, and unquoted as it is.
LEMMA OrdinaryLeads ==
    ASSUME NEW v \in Seq(Char), NEW d, \A i \in 1 .. Len(v) : Ordinary(d, v[i])
    PROVE  LeadsOn(v, d, Char)
<1> DEFINE Fit == {ch \in Char : Ordinary(d, ch)}
<1>1. \A i \in 1 .. Len(v) : v[i] \in Char => v[i] \in Fit
  BY Zenon
<1> HIDE DEF Fit
<1>3. v \in Seq(Fit)
  BY <1>1, Among, Zenon
<1>4. QED
  BY <1>3, LeadsOnAll, Zenon DEF Fit

LEMMA TameQuoted ==
    ASSUME NEW v \in Seq(STRING), Tame(v)
    PROVE  /\ InQuotes(v) \in Seq(Char) /\ LeadsOn(InQuotes(v), "", Char)
           /\ UnquoteValue(InQuotes(v)) = v
<1>1. \A i \in 1 .. Len(v) : v[i] # DoubleQuote /\ v[i] # Backslash
  BY HasNone, Zenon DEF Tame, DoubleQuote, Backslash
<1>2. \A i \in 1 .. Len(v) : Ordinary(DoubleQuote, v[i])
  BY <1>1, Zenon DEF Ordinary
<1>3. v \in Seq(Char) /\ LeadsOn(v, DoubleQuote, Char)
  BY <1>2, OfCharacters, OrdinaryLeads, Zenon
<1>4. UnescapesTo(v, v, FALSE)
  BY <1>1, UnescapePlain, Zenon
<1>5. DoubleQuote \in Char
  BY Zenon DEF Char, DoubleQuote
<1>6. QED
  BY <1>3, <1>4, <1>5, LeadsOnQuoted, UnquoteReads, Zenon

\* Stringify writes it with quotes just when they are needed.
LEMMA Encloses ==
    ASSUME NEW s, NEW q, Enclosed(s, q), NEW S, s \in Seq(S)
    PROVE  1 \in 1 .. Len(s) /\ s[1] = q
BY DEF Enclosed

LEMMA TameReads ==
    ASSUME NEW v \in Seq(STRING), Tame(v)
    PROVE  ReadsAs(LineWith(StringifyValue(v)), v)
<1>1. CASE Has(v, <<Space>>)
  <2>1. StringifyValue(v) = InQuotes(v)
    BY <1>1, Zenon DEF StringifyValue
  <2>2. QED
    BY <2>1, TameQuoted, LineReads, Zenon
<1>2. CASE ~ Has(v, <<Space>>)
  <2>1. StringifyValue(v) = v
    BY <1>2, Zenon DEF StringifyValue
  <2>2. \A i \in 1 .. Len(v) : v[i] \notin Delimiters \cup Gap
    BY <1>2, Zenon DEF Tame
  <2>3. \A i \in 1 .. Len(v) : Ordinary("", v[i])
    BY <2>2, Zenon DEF Ordinary
  <2>4. v \in Seq(Char) /\ LeadsOn(v, "", Char)
    BY <2>3, OfCharacters, OrdinaryLeads, Zenon
  <2>5. "\"" \in Delimiters /\ "'" \in Delimiters
    BY Zenon DEF Delimiters
  <2>6. ~ Enclosed(v, "\"") /\ ~ Enclosed(v, "'")
    BY <2>2, <2>5, Encloses, Zenon
  <2>7. UnquoteValue(v) = v
    BY <2>6, Zenon DEF UnquoteValue
  <2>8. QED
    BY <2>1, <2>4, <2>7, LineReads, Zenon
<1>3. QED
  BY <1>1, <1>2, Zenon

\* An array: its brackets, the commas in it, and its words.
LEMMA TrimsNothing ==
    ASSUME NEW S, NEW s \in Seq(S), Len(s) >= 1, s[1] \notin Blank, s[Len(s)] \notin Blank
    PROVE  TrimSpace(s) = s
<1> DEFINE n == Len(s)
           Solids == Solid(s)
           a == Least(Solids)
           b == Greatest(Solids)
<1>1. n \in Nat /\ Solids \subseteq 1 .. n /\ 1 \in Solids /\ n \in Solids
  BY DEF Solid
<1>2. TrimSpace(s) = SubSeq(s, a, b)
  BY <1>1, Zenon DEF TrimSpace, TrimBeside
<1> HIDE DEF Solids
<1>3. a \in Solids /\ b \in Solids /\ a <= 1 /\ n <= b
  BY <1>1, Extremes, Zenon
<1>4. a = 1 /\ b = n
  <2> HIDE DEF a, b
  <2> QED BY <1>1, <1>3
<1>5. SubSeq(s, 1, n) = s
  OBVIOUS
<1>6. QED
  BY <1>2, <1>4, <1>5, Zenon

InBrackets(y, a, b, S) ==
    LET s == <<a>> \o y \o <<b>>
    IN  /\ s \in Seq(S) /\ Len(s) >= 1 /\ s[1] = a /\ s[Len(s)] = b
        /\ s # <<>> /\ Tail(s) # <<>> /\ Last(Tail(s)) = b /\ Front(Tail(s)) = y
LEMMA Bracketed ==
    ASSUME NEW S, NEW y \in Seq(S), NEW a \in S, NEW b \in S
    PROVE  InBrackets(y, a, b, S)
<1> DEFINE s == <<a>> \o y \o <<b>>
           t == Tail(s)
           u == Front(t)
<1>1. /\ s \in Seq(S) /\ Len(s) = Len(y) + 2 /\ Len(y) \in Nat /\ s[1] = a /\ s[Len(y) + 2] = b
      /\ \A i \in 1 .. Len(y) : s[i + 1] = y[i]
  OBVIOUS
<1> HIDE DEF s
<1>2. s # <<>> /\ t \in Seq(S) /\ Len(t) = Len(y) + 1 /\ \A i \in 1 .. Len(y) + 1 : t[i] = s[i + 1]
  BY <1>1
<1> HIDE DEF t
<1>3. t # <<>> /\ Last(t) = b /\ u \in Seq(S) /\ Len(u) = Len(y) /\ \A i \in 1 .. Len(y) : u[i] = t[i]
  BY <1>1, <1>2 DEF Last, Front
<1> HIDE DEF u
<1>4. \A i \in 1 .. Len(y) : u[i] = y[i]
  BY <1>1, <1>2, <1>3
<1>5. u = y
  BY <1>3, <1>4, SeqEqual
<1>6. Len(s) >= 1 /\ s[Len(s)] = b
  BY <1>1
<1>7. QED
  BY <1>1, <1>2, <1>3, <1>5, <1>6, Zenon DEF InBrackets, s, t, u

Comma(w, c, g) == w \o (<<c, g>> \o w)
Spaced(w, g) == Append(Append(w, g), g) \o w
WithoutCommas(b, c, g) == [i \in 1 .. Len(b) |-> IF b[i] = c THEN g ELSE b[i]]
LEMMA CommasGo ==
    ASSUME NEW S, NEW c \in S, NEW g \in S, NEW w \in Seq(S), \A i \in 1 .. Len(w) : w[i] # c
    PROVE  /\ WithoutCommas(Comma(w, c, g), c, g) = Spaced(w, g)
           /\ Comma(w, c, g) \in Seq(S)
<1> DEFINE n == Len(w)
           b == Comma(w, c, g)
           x == WithoutCommas(b, c, g)
           y == Spaced(w, g)
<1>1. /\ n \in Nat /\ b \in Seq(S) /\ Len(b) = n + 2 + n
      /\ b[n + 1] = c /\ b[n + 2] = g
      /\ \A i \in 1 .. n : b[i] = w[i] /\ b[n + 2 + i] = w[i]
  BY DEF Comma
<1>2. /\ y \in Seq(S) /\ Len(y) = n + 2 + n
      /\ y[n + 1] = g /\ y[n + 2] = g
      /\ \A i \in 1 .. n : y[i] = w[i] /\ y[n + 2 + i] = w[i]
  BY DEF Spaced
<1> HIDE DEF b, y
<1>3. x \in Seq(S) /\ Len(x) = n + 2 + n
      /\ \A i \in 1 .. n + 2 + n : x[i] = IF b[i] = c THEN g ELSE b[i]
  BY <1>1 DEF WithoutCommas
<1> HIDE DEF x
<1>4. ASSUME NEW i \in 1 .. n + 2 + n PROVE x[i] = y[i]
  <2>1. CASE i \in 1 .. n
    BY <1>1, <1>2, <1>3, <2>1
  <2>2. CASE i = n + 1 \/ i = n + 2
    BY <1>1, <1>2, <1>3, <2>2
  <2>3. ASSUME NEW k \in 1 .. n, i = n + 2 + k PROVE x[i] = y[i]
    <3>1. b[i] = w[k] /\ y[i] = w[k] /\ w[k] # c /\ x[i] = IF b[i] = c THEN g ELSE b[i]
      BY <1>1, <1>2, <1>3, <2>3
    <3>2. QED
      BY <3>1
  <2>4. i \in 1 .. n \/ i = n + 1 \/ i = n + 2 \/ \E k \in 1 .. n : i = n + 2 + k
    <3>1. ASSUME i > n + 2 PROVE i - n - 2 \in 1 .. n /\ i = n + 2 + (i - n - 2)
      BY <1>1, <3>1
    <3>2. i \in 1 .. n \/ i = n + 1 \/ i = n + 2 \/ i > n + 2
      BY <1>1
    <3>3. QED
      BY <3>1, <3>2
  <2>5. QED
    BY <2>1, <2>2, <2>3, <2>4
<1>5. x = y
  BY <1>2, <1>3, <1>4, SeqEqual
<1>6. QED
  BY <1>1, <1>5 DEF x, y, b

\* The elements of an array in a text.
LEMMA TwoFlattened ==
    ASSUME NEW S, NEW x \in Seq(S), NEW y \in Seq(S)
    PROVE  Joined(FlattenSeq(Append(Append(<<>>, x), y)), x, y)
<1> DEFINE X == Seq(S)
           e == <<>>
           a == Append(e, x)
<1>1. e \in Seq(X) /\ a \in Seq(X) /\ <<>> \o x = x
  OBVIOUS
<1>2. FlatAppend(e, x) /\ FlatAppend(a, y) /\ FlattenSeq(e) = <<>>
  BY <1>1, FlattenNext, FlattenType, Zenon
<1>3. QED
  BY <1>1, <1>2, Zenon DEF FlatAppend, Joined

LEMMA FromNothing == ASSUME NEW S, NEW x \in Seq(S) PROVE <<>> \in Seq(S) /\ Joined(x, <<>>, x)
<1>1. <<>> \in Seq(S) /\ x = <<>> \o x
  OBVIOUS
<1>2. QED
  BY <1>1 DEF Joined

TwoWords(w) == Append(Append(<<>>, w), w)
LEMMA SpacedTokens ==
    ASSUME NEW w \in Seq(Char), LeadsOn(w, "", Char), w # <<>>
    PROVE  Tokenize(Spaced(w, Space)) = TwoWords(w)
<1> DEFINE n == <<>>
           s1 == Append(w, Space)
           s2 == Append(s1, Space)
           s3 == s2 \o w
           a1 == Append(n, w)
           a2 == Append(a1, w)
<1>1. Space \in Char /\ Space \in Gap
  BY Zenon DEF Char, Gap
<1>2. n \in Seq(Char) /\ Joined(w, n, w)
  BY FromNothing, Zenon
<1>3. s1 \in Seq(Char)
  BY <1>1, AppendsOne, Zenon
<1>4. s2 \in Seq(Char)
  BY <1>1, <1>3, AppendsOne, Zenon
<1>5. s3 \in Seq(Char)
  BY <1>4, ConcatAgain, Zenon
<1>6. Leads(n, n, n, "", "")
  BY LeadsEmpty, Zenon
<1>7. Leads(w, n, w, "", "")
  <2>1. Leads(n \o w, n, n \o w, "", "")
    BY <1>2, <1>6, Zenon DEF LeadsOn
  <2>2. QED
    BY <1>2, <2>1, Zenon DEF Joined
<1>8. Leads(s1, a1, n, "", "")
  BY <1>1, <1>7, LeadsGap, Zenon DEF Ended
<1> HIDE DEF s1, a1
<1>9. Leads(s2, a1, n, "", "")
  BY <1>1, <1>3, <1>8, LeadsGap, Zenon DEF Ended
<1> HIDE DEF s2
<1>10. Leads(s3, a1, n \o w, "", "")
  BY <1>2, <1>4, <1>9, Zenon DEF LeadsOn
<1>11. Leads(s3, a1, w, "", "")
  BY <1>2, <1>10, Zenon DEF Joined
<1> HIDE DEF s3
<1>12. Scan(s3).in = "" /\ Flush(Scan(s3)).tokens = Ended(a1, w)
  BY <1>5, <1>11, LeadsScan, Zenon
<1>13. Tokenize(s3) = a2
  BY <1>12, Zenon DEF Tokenize, Tokenizes, Ended
<1>14. Spaced(w, Space) = s3
  BY Zenon DEF Spaced, s3, s2, s1
<1>15. QED
  BY <1>13, <1>14, Zenon DEF TwoWords, a1

\* What is in quotes is a word with no comma.
LEMMA QuotedWord ==
    ASSUME NEW S, NEW q \in S, NEW v \in Seq(S), NEW c, c # q, \A i \in 1 .. Len(v) : v[i] # c
    PROVE  LET w == <<q>> \o v \o <<q>>
           IN  w \in Seq(S) /\ w # <<>> /\ \A i \in 1 .. Len(w) : w[i] # c
<1> DEFINE w == <<q>> \o v \o <<q>>
<1>1. /\ w \in Seq(S) /\ Len(w) = Len(v) + 2 /\ Len(v) \in Nat /\ w[1] = q /\ w[Len(v) + 2] = q
      /\ \A i \in 1 .. Len(v) : w[i + 1] = v[i]
  OBVIOUS
<1> HIDE DEF w
<1>2. ASSUME NEW i \in 1 .. Len(w) PROVE w[i] # c
  <2>1. CASE i = 1 \/ i = Len(v) + 2
    BY <1>1, <2>1
  <2>2. CASE i # 1 /\ i # Len(v) + 2
    <3>1. i - 1 \in 1 .. Len(v) /\ (i - 1) + 1 = i
      BY <1>1, <2>2
    <3>2. w[i] = v[i - 1]
      BY <1>1, <3>1
    <3>3. QED
      BY <3>1, <3>2
  <2>3. QED
    BY <2>1, <2>2
<1>3. QED
  BY <1>1, <1>2 DEF w

\* Two values.
Both(f, x) == [k \in 1 .. Len(f) |-> UnquoteValue(f[k])] = <<x, x>>
LEMMA UnquoteBoth ==
    ASSUME NEW S, NEW w \in S, NEW x, UnquoteValue(w) = x
    PROVE  Both(TwoWords(w), x)
<1> DEFINE f == TwoWords(w)
<1>1. Len(f) = 2 /\ f[1] = w /\ f[2] = w
  BY DEF TwoWords
<1> HIDE DEF f
<1>2. [k \in 1 .. Len(f) |-> UnquoteValue(f[k])] = <<x, x>>
  BY <1>1
<1>3. QED
  BY <1>2 DEF Both, f

ArrayText(w) == <<"[">> \o Comma(w, ",", Space) \o <<"]">>
LEMMA ArrayWritten ==
    ASSUME NEW v, NEW w \in Seq(Char), w = InQuotes(v)
    PROVE  ArrayOf(<<v, v>>) = ArrayText(w)
<1> DEFINE x == <<",", Space>> \o w
           values == <<v, v>>
           F(k) == IF k = 1 THEN InQuotes(values[k]) ELSE <<",", Space>> \o InQuotes(values[k])
           f == [k \in 1 .. Len(values) |-> F(k)]
<1>1. Len(values) = 2 /\ values[1] = v /\ values[2] = v /\ 1 # 2
  OBVIOUS
<1> HIDE DEF values
<1>2. F(1) = w /\ F(2) = x
  BY <1>1, Zenon
<1> HIDE DEF F
<1>3. ASSUME NEW S, NEW a \in S, NEW b \in S, a = F(1), b = F(2), Len(values) = 2
      PROVE  [k \in 1 .. Len(values) |-> F(k)] = Append(Append(<<>>, a), b)
  BY <1>3
<1>4. x \in Seq(Char)
  <2>1. "," \in Char /\ Space \in Char
    BY Zenon DEF Char
  <2>2. ASSUME NEW S, NEW a \in S, NEW b \in S, NEW s \in Seq(S) PROVE <<a, b>> \o s \in Seq(S)
    OBVIOUS
  <2>3. QED
    BY <2>1, <2>2, Zenon
<1> HIDE DEF x, f
<1>5. f = Append(Append(<<>>, w), x)
  BY <1>1, <1>2, <1>3, <1>4, Zenon DEF f
<1>6. FlattenSeq(f) = w \o x
  BY <1>4, <1>5, TwoFlattened, Zenon DEF Joined
<1>7. ArrayOf(values) = <<"[">> \o FlattenSeq(f) \o <<"]">>
  BY Zenon DEF ArrayOf, f, F
<1>8. QED
  BY <1>6, <1>7, Zenon DEF ArrayText, Comma, x, values

LEMMA ArrayReads ==
    ASSUME NEW v \in Seq(STRING), Tame(v), ~ Has(v, <<",">>)
    PROVE  ArrayToStrings(ArrayOf(<<v, v>>)) = <<v, v>>
<1> DEFINE w == InQuotes(v)
           y == Comma(w, ",", Space)
           s == ArrayText(w)
<1>1. w \in Seq(Char) /\ LeadsOn(w, "", Char) /\ UnquoteValue(w) = v
  BY TameQuoted, Zenon
<1>2. /\ DoubleQuote \in Char /\ "," \in Char /\ "," # DoubleQuote /\ Space \in Char
      /\ "[" \in Char /\ "]" \in Char /\ "[" \notin Blank /\ "]" \notin Blank
  BY Zenon DEF Char, DoubleQuote, Blank, Space, NL
<1>3. w # <<>> /\ \A i \in 1 .. Len(w) : w[i] # ","
  <2>1. \A i \in 1 .. Len(v) : v[i] # ","
    BY HasNone, Zenon
  <2>2. v \in Seq(Char)
    BY OfCharacters, Zenon
  <2>3. w = <<DoubleQuote>> \o v \o <<DoubleQuote>>
    BY Zenon DEF InQuotes, DoubleQuote
  <2>4. QED
    BY <1>2, <2>1, <2>2, <2>3, QuotedWord, Zenon
<1>4. ArrayOf(<<v, v>>) = s
  BY <1>1, ArrayWritten, Zenon
<1> HIDE DEF w
<1>5. WithoutCommas(y, ",", Space) = Spaced(w, Space) /\ y \in Seq(Char)
  BY <1>1, <1>2, <1>3, CommasGo, Zenon
<1> HIDE DEF y
<1>6. InBrackets(y, "[", "]", Char)
  BY <1>2, <1>5, Bracketed, Zenon
<1>7. s = <<"[">> \o y \o <<"]">>
  BY Zenon DEF ArrayText, y
<1> HIDE DEF s
<1>8. /\ s \in Seq(Char) /\ Len(s) >= 1 /\ s[1] = "[" /\ s[Len(s)] = "]"
      /\ s # <<>> /\ Tail(s) # <<>> /\ Last(Tail(s)) = "]" /\ Front(Tail(s)) = y
  BY <1>6, <1>7, Zenon DEF InBrackets
<1>9. TrimSpace(s) = s
  BY <1>2, <1>8, TrimsNothing, Zenon
<1>10. Tokenize([i \in 1 .. Len(y) |-> IF y[i] = "," THEN Space ELSE y[i]]) = TwoWords(w)
  <2>1. Tokenize(WithoutCommas(y, ",", Space)) = TwoWords(w)
    BY <1>1, <1>3, <1>5, SpacedTokens, Zenon
  <2>2. QED
    BY <2>1, Zenon DEF WithoutCommas
<1>11. Both(TwoWords(w), v)
  BY <1>1, UnquoteBoth, Zenon
<1>12. ArrayToStrings(s) = [k \in 1 .. Len(TwoWords(w)) |-> UnquoteValue(TwoWords(w)[k])]
  BY <1>8, <1>9, <1>10, Zenon DEF ArrayToStrings
<1>13. QED
  BY <1>4, <1>11, <1>12, Zenon DEF Both

-----------------------------------------------------------------------------
(* A value of several lines: what a listener makes of the line with it.    *)

\* After s, the lines are `lines' and `line' has begun.
LinesRun(f, s) ==
    /\ f[0] = NoLine
    /\ \A i \in 1 .. Len(s) : f[i] = ReadString(f[i - 1], s[i])
LinesAre(s, lines, line) ==
    \E f : LinesRun(f, s) /\ f[Len(s)] = [lines |-> lines, line |-> line]

LEMMA LinesAreEmpty == LinesAre(<<>>, <<>>, <<>>)
<1> DEFINE f == [i \in 0 .. 0 |-> NoLine]
<1>1. f[0] = NoLine /\ Len(<<>>) = 0 /\ \A i \in 1 .. 0 : FALSE
  OBVIOUS
<1> HIDE DEF f
<1>2. LinesRun(f, <<>>) /\ f[Len(<<>>)] = [lines |-> <<>>, line |-> <<>>]
  BY <1>1, Zenon DEF LinesRun, NoLine
<1>3. QED
  BY <1>2, Zenon DEF LinesAre

\* One more step of a reading.
LineMoves(x, ch, lines, line) ==
    /\ ch = NL => x = [lines |-> Append(lines, WithoutReturn(line)), line |-> <<>>]
    /\ ch # NL => x = [lines |-> lines, line |-> Append(line, ch)]
LEMMA ReadStringMoves ==
    ASSUME NEW lines, NEW line, NEW r, r = [lines |-> lines, line |-> line], NEW ch
    PROVE  LineMoves(ReadString(r, ch), ch, lines, line)
<1>1. r.lines = lines /\ r.line = line
  OBVIOUS
<1>2. [r EXCEPT !.line = Append(@, ch)] = [lines |-> lines, line |-> Append(line, ch)]
  BY <1>1
<1>3. QED
  BY <1>1, <1>2, Zenon DEF ReadString, LineMoves

LEMMA LinesAreNext ==
    ASSUME NEW S, NEW s \in Seq(S), NEW ch \in S, NEW lines, NEW line, LinesAre(s, lines, line)
    PROVE  /\ ch # NL => LinesAre(Append(s, ch), lines, Append(line, ch))
           /\ ch = NL => LinesAre(Append(s, ch), Append(lines, WithoutReturn(line)), <<>>)
<1> DEFINE n == Len(s)
           t == Append(s, ch)
<1>1. PICK f : LinesRun(f, s) /\ f[n] = [lines |-> lines, line |-> line]
  BY Zenon DEF LinesAre
<1> DEFINE x == ReadString(f[n], ch)
<1>2. OneLonger(n, t, s, ch)
  BY AppendedPlaces, Zenon
<1> HIDE DEF x, t, n
<1>3. PICK h : Extends(h, f, n, x)
  BY <1>2, OneMore, Zenon DEF OneLonger
<1>4. h[0] = NoLine
  BY <1>1, <1>2, <1>3, Zenon DEF Extends, LinesRun, OneLonger
<1>5. ASSUME NEW i \in 1 .. n + 1 PROVE h[i] = ReadString(h[i - 1], t[i])
  <2>1. CASE i = n + 1
    BY <1>2, <1>3, <2>1, Zenon DEF Extends, x, OneLonger
  <2>2. CASE i \in 1 .. n
    BY <1>1, <1>2, <1>3, <2>2, Zenon DEF Extends, LinesRun, n, OneLonger
  <2>3. QED
    BY <1>2, <2>1, <2>2, Zenon DEF OneLonger
<1>6. LinesRun(h, t) /\ h[Len(t)] = x
  BY <1>2, <1>3, <1>4, <1>5, Zenon DEF LinesRun, Extends, OneLonger
<1>7. /\ ch = NL => x = [lines |-> Append(lines, WithoutReturn(line)), line |-> <<>>]
      /\ ch # NL => x = [lines |-> lines, line |-> Append(line, ch)]
  <2>1. LineMoves(x, ch, lines, line)
    BY <1>1, ReadStringMoves, Zenon DEF x
  <2>2. QED
    BY <2>1, Zenon DEF LineMoves
<1>8. QED
  BY <1>6, <1>7, Zenon DEF LinesAre, t

LEMMA LinesAreLines ==
    ASSUME NEW S, NEW s \in Seq(S), NEW lines, NEW line, LinesAre(s, lines, line)
    PROVE  Lines(s) = lines
<1> DEFINE n == Len(s)
<1>1. PICK f : LinesRun(f, s) /\ f[n] = [lines |-> lines, line |-> line]
  BY Zenon DEF LinesAre
<1>2. n \in Nat /\ n \in 0 .. n
  OBVIOUS
<1>3. PICK g : Lining(g, s, n) /\ Lines(s) = g[n].lines
  BY <1>2, LinesSteps, Zenon
<1>4. TakesSameSteps(f, g, n)
  BY <1>1, <1>3, Zenon DEF TakesSameSteps, LinesRun, Lining
<1>5. f[n] = g[n]
  BY <1>2, <1>4, SameSteps, Zenon DEF Same
<1>6. f[n].lines = lines
  BY <1>1
<1>7. QED
  BY <1>3, <1>5, <1>6, Zenon

\* The listener is at r after `lines'.
Composed(f, lines) ==
    /\ f[0] = NoText
    /\ \A i \in 1 .. Len(lines) : f[i] = ReadLine(f[i - 1], lines[i])
Composes(lines, r) == \E f : Composed(f, lines) /\ f[Len(lines)] = r

LEMMA ComposesEmpty == Composes(<<>>, NoText)
<1> DEFINE f == [i \in 0 .. 0 |-> NoText]
<1>1. f[0] = NoText /\ Len(<<>>) = 0 /\ \A i \in 1 .. 0 : FALSE
  OBVIOUS
<1> HIDE DEF f
<1>2. Composed(f, <<>>) /\ f[Len(<<>>)] = NoText
  BY <1>1, Zenon DEF Composed
<1>3. QED
  BY <1>2, Zenon DEF Composes

LEMMA ComposesNext ==
    ASSUME NEW S, NEW lines \in Seq(S), NEW line \in S, NEW r, Composes(lines, r)
    PROVE  Composes(Append(lines, line), ReadLine(r, line))
<1> DEFINE n == Len(lines)
           t == Append(lines, line)
<1>1. PICK f : Composed(f, lines) /\ f[n] = r
  BY Zenon DEF Composes
<1> DEFINE x == ReadLine(f[n], line)
<1>2. OneLonger(n, t, lines, line)
  BY AppendedPlaces, Zenon
<1> HIDE DEF x, t, n
<1>3. PICK h : Extends(h, f, n, x)
  BY <1>2, OneMore, Zenon DEF OneLonger
<1>4. h[0] = NoText
  BY <1>1, <1>2, <1>3, Zenon DEF Extends, Composed, OneLonger
<1>5. ASSUME NEW i \in 1 .. n + 1 PROVE h[i] = ReadLine(h[i - 1], t[i])
  <2>1. CASE i = n + 1
    BY <1>2, <1>3, <2>1, Zenon DEF Extends, x, OneLonger
  <2>2. CASE i \in 1 .. n
    BY <1>1, <1>2, <1>3, <2>2, Zenon DEF Extends, Composed, n, OneLonger
  <2>3. QED
    BY <1>2, <2>1, <2>2, Zenon DEF OneLonger
<1>6. Composed(h, t) /\ h[Len(t)] = x
  BY <1>2, <1>3, <1>4, <1>5, Zenon DEF Composed, Extends, OneLonger
<1>7. x = ReadLine(r, line)
  BY <1>1, Zenon DEF x
<1>8. QED
  BY <1>6, <1>7, Zenon DEF Composes, t

LEMMA ComposesMessages ==
    ASSUME NEW S, NEW s, NEW lines \in Seq(S), lines = Lines(s), NEW r, Composes(lines, r)
    PROVE  Messages(s) = r.done
<1> DEFINE n == Len(lines)
<1>1. PICK f : Composed(f, lines) /\ f[n] = r
  BY Zenon DEF Composes
<1>2. n \in Nat /\ n \in 0 .. n
  OBVIOUS
<1>3. PICK g : Composing(g, lines, n) /\ Messages(s) = g[n].done
  BY <1>2, MessagesSteps, Zenon
<1> HIDE DEF n
<1>4. TakesSameSteps(f, g, n)
  <2>1. f[0] = g[0]
    BY <1>1, <1>3, Zenon DEF Composed, Composing
  <2>2. \A i \in 1 .. n : f[i - 1] = g[i - 1] => f[i] = g[i]
    BY <1>1, <1>3, Zenon DEF Composed, Composing, n
  <2>3. QED
    BY <2>1, <2>2, Zenon DEF TakesSameSteps
<1>5. Same(f, g, n)
  BY <1>2, <1>4, SameSteps, Zenon
<1>6. f[n] = g[n]
  BY <1>2, <1>5, Zenon DEF Same
<1>7. QED
  BY <1>1, <1>3, <1>6, Zenon

\* What a line does to the listener: it joins the text, or it completes a message.
Grown(q, r, u) == q.open /\ q.text = r.text \o u /\ q.done = r.done
Completed(q, r, line) ==
    /\ q.text = <<>>
    /\ \/ Solid(r.text \o line) = {} /\ q.done = r.done
       \/ \E m : m.text = TrimSpace(r.text \o line) /\ q.done = Append(r.done, m)

LEMMA ListenerTyped ==
    ASSUME NEW r, BetweenLines(r)
    PROVE  /\ r.text \in Seq(Char) /\ r.done \in Seq(MadeMessages)
           /\ ListenerIs(r, r.open, r.text, r.content, r.done)
<1>1. PICK o, t, c, d : /\ ListenerIs(r, o, t, c, d) /\ d \in Seq(MadeMessages)
                        /\ IF o THEN Pending(t, c) ELSE t = <<>> /\ c = <<>>
  BY Zenon DEF BetweenLines
<1>2. t \in Seq(Char)
  <2>1. CASE o
    BY <1>1, <2>1, Zenon DEF Pending, Shape
  <2>2. CASE ~ o
    <3>1. t = <<>>
      BY <1>1, <2>2, Zenon
    <3>2. QED
      BY <3>1
  <2>3. QED
    BY <2>1, <2>2
<1>3. QED
  BY <1>1, <1>2, Zenon DEF ListenerIs

LEMMA TakesGrows ==
    ASSUME NEW r, BetweenLines(r), NEW u, NEW inside
    PROVE  /\ r.open => Grown(Takes(r, u, inside), r, u)
           /\ Grown([Takes(r, u, inside) EXCEPT !.open = TRUE], r, u)
           /\ Completed(Complete(Takes(r, u, inside)), r, u)
<1> DEFINE q == Takes(r, u, inside)
           p == [q EXCEPT !.open = TRUE]
           t == r.text \o u
           c == r.content \o Fill(u, inside)
           d == r.done
           m == [text |-> TrimSpace(t), content |-> TrimBeside(t, c)]
           e == IF Solid(t) = {} THEN d ELSE Append(d, m)
<1>1. ListenerIs(r, r.open, r.text, r.content, d)
  BY ListenerTyped, Zenon
<1>2. ListenerIs(q, r.open, t, c, d) /\ ListenerIs(p, TRUE, t, c, d)
  BY <1>1, TakesUpdates, Zenon
<1> HIDE DEF q, p, t, c
<1>3. ListenerIs(Complete(q), FALSE, <<>>, <<>>, e)
  BY <1>2, CompleteUpdates, Zenon
<1>4. m.text = TrimSpace(t)
  BY Zenon
<1> HIDE DEF m
<1>5. Completed(Complete(q), r, u)
  BY <1>3, <1>4, Zenon DEF Completed, ListenerIs, t
<1>6. Grown(p, r, u) /\ (r.open => Grown(q, r, u))
  BY <1>2, Zenon DEF Grown, ListenerIs, t
<1>7. QED
  BY <1>5, <1>6, Zenon DEF p, q

LEMMA ReadLineForms ==
    ASSUME NEW r, BetweenLines(r), NEW line
    PROVE  LET q == ReadLine(r, line)
           IN  /\ r.open /\ ~ ClosesBlock(line) => Grown(q, r, Append(line, NL))
               /\ ~ r.open /\ Has(line, Opening) => Grown(q, r, Append(line, NL))
               /\ r.open /\ ClosesBlock(line) /\ Has(line, Opening) => Grown(q, r, line)
               /\ ~ Has(line, Opening) /\ (r.open => ClosesBlock(line)) => Completed(q, r, line)
<1>1. /\ \A u, inside : r.open => Grown(Takes(r, u, inside), r, u)
      /\ \A u, inside : Grown([Takes(r, u, inside) EXCEPT !.open = TRUE], r, u)
      /\ \A u, inside : Completed(Complete(Takes(r, u, inside)), r, u)
  BY TakesGrows, Zenon
<1>2. QED
  BY <1>1, Zenon DEF ReadLine

\* No message is longer than n, and the text it comes from is not.
NoLonger(r, n) == \A k \in 1 .. Len(r.done) : Len(r.done[k].text) <= n
LEMMA TrimIsShorter ==
    ASSUME NEW S, NEW s \in Seq(S)
    PROVE  TrimSpace(s) \in Seq(S) /\ Len(TrimSpace(s)) <= Len(s)
<1>1. PICK a \in Seq(S), b \in Seq(S) : Between(s, a, TrimSpace(s), b)
  BY TrimSplits, Zenon
<1> DEFINE t == TrimSpace(s)
<1>2. t \in Seq(S)
  BY TrimSplits, Zenon
<1>3. s = a \o t \o b
  BY <1>1, Zenon DEF Between
<1> HIDE DEF t
<1>4. Len(t) <= Len(s)
  BY <1>2, <1>3
<1>5. QED
  BY <1>2, <1>4 DEF t

LEMMA CompletedNoLonger ==
    ASSUME NEW q, NEW r, NEW line, Completed(q, r, line), NEW n \in Nat, NoLonger(r, n),
           r.text \o line \in Seq(Char), Len(r.text \o line) <= n,
           NEW T, r.done \in Seq(T)
    PROVE  NoLonger(q, n)
<1> DEFINE t == r.text \o line
           x == TrimSpace(t)
<1>1. x \in Seq(Char) /\ Len(x) <= Len(t)
  BY TrimIsShorter, Zenon
<1>2. Len(x) <= n
  <2> HIDE DEF x, t
  <2>1. Len(x) \in Nat /\ Len(t) \in Nat /\ Len(t) <= n
    BY <1>1 DEF t
  <2>2. QED
    BY <1>1, <2>1
<1> HIDE DEF x, t
<1>3. CASE q.done = r.done
  BY <1>3, Zenon DEF NoLonger
<1>4. ASSUME NEW m, m.text = x, q.done = Append(r.done, m) PROVE NoLonger(q, n)
  <2> DEFINE d == r.done
             e == q.done
  <2>1. /\ Len(e) = Len(d) + 1 /\ Len(d) \in Nat /\ e[Len(d) + 1] = m
        /\ \A k \in 1 .. Len(d) : e[k] = d[k]
    BY <1>4
  <2>2. \A k \in 1 .. Len(d) : Len(d[k].text) <= n
    BY Zenon DEF NoLonger
  <2> HIDE DEF d, e
  <2>3. \A k \in 1 .. Len(e) : k = Len(d) + 1 \/ k \in 1 .. Len(d)
    BY <2>1
  <2>4. ASSUME NEW k \in 1 .. Len(e) PROVE Len(e[k].text) <= n
    BY <1>2, <1>4, <2>1, <2>2, <2>3, Zenon
  <2>5. QED
    BY <2>4, Zenon DEF NoLonger, e
<1>5. QED
  BY <1>3, <1>4, Zenon DEF Completed, x, t

\* The line with a value of several lines.
LineOf(a, b, c, d, e, n, f, g, h, v) ==
    <<a, b, c, d>> \o (<<e, e>> \o <<n>> \o v \o <<n>> \o <<f, f>>) \o <<b, g, h>> =
        (Append(<<a, b, c, d, e, e>>, n) \o Append(v, n)) \o <<f, f, b, g, h>>
LEMMA LineParts ==
    ASSUME NEW S, NEW a \in S, NEW b \in S, NEW c \in S, NEW d \in S, NEW e \in S, NEW n \in S,
           NEW f \in S, NEW g \in S, NEW h \in S, NEW v \in Seq(S)
    PROVE  LineOf(a, b, c, d, e, n, f, g, h, v)
<1>1. <<a, b, c, d>> \o (<<e, e>> \o <<n>> \o v \o <<n>> \o <<f, f>>) \o <<b, g, h>> =
        (Append(<<a, b, c, d, e, e>>, n) \o Append(v, n)) \o <<f, f, b, g, h>>
  OBVIOUS
<1>2. QED
  BY <1>1 DEF LineOf

\* Where two characters stand together, when there is one more.
TwoTogether(s, a, b) == \E i \in 1 .. Len(s) : i + 1 <= Len(s) /\ s[i] = a /\ s[i + 1] = b
LEMMA HasTwo ==
    ASSUME NEW S, NEW s \in Seq(S), NEW a, NEW b
    PROVE  Has(s, <<a, b>>) <=> TwoTogether(s, a, b)
BY StartsWithTwo, Zenon DEF Has, TwoTogether

LEMMA TwoTogetherNext ==
    ASSUME NEW S, NEW s \in Seq(S), NEW ch \in S, NEW a, NEW b
    PROVE  TwoTogether(Append(s, ch), a, b) <=>
               TwoTogether(s, a, b) \/ (ch = b /\ s # <<>> /\ Last(s) = a)
<1> DEFINE n == Len(s)
           t == Append(s, ch)
<1>1. /\ n \in Nat /\ Len(t) = n + 1 /\ t[n + 1] = ch /\ \A i \in 1 .. n : t[i] = s[i]
      /\ (s # <<>> <=> n >= 1) /\ Last(s) = s[n]
  BY DEF Last
<1> HIDE DEF t, n
<1>2. ASSUME TwoTogether(s, a, b) PROVE TwoTogether(t, a, b)
  <2>1. PICK i \in 1 .. n : i + 1 <= n /\ s[i] = a /\ s[i + 1] = b
    BY <1>2 DEF TwoTogether, n
  <2>2. i \in 1 .. Len(t) /\ i + 1 <= Len(t) /\ t[i] = a /\ t[i + 1] = b
    BY <1>1, <2>1
  <2>3. QED
    BY <2>2 DEF TwoTogether
<1>3. ASSUME ch = b, s # <<>>, Last(s) = a PROVE TwoTogether(t, a, b)
  <2>1. n \in 1 .. Len(t) /\ n + 1 <= Len(t) /\ t[n] = a /\ t[n + 1] = b
    <3>1. n >= 1 /\ s[n] = a /\ ch = b
      BY <1>1, <1>3, Zenon
    <3>2. n \in 1 .. n /\ n \in 1 .. Len(t) /\ n + 1 <= Len(t)
      BY <1>1, <3>1
    <3>3. t[n] = s[n]
      BY <1>1, <3>2, Zenon
    <3>4. QED
      BY <1>1, <3>1, <3>2, <3>3
  <2>2. QED
    BY <2>1 DEF TwoTogether
<1>4. ASSUME TwoTogether(t, a, b), ~ TwoTogether(s, a, b)
      PROVE  ch = b /\ s # <<>> /\ Last(s) = a
  <2>1. PICK i \in 1 .. Len(t) : i + 1 <= Len(t) /\ t[i] = a /\ t[i + 1] = b
    BY <1>4 DEF TwoTogether
  <2>2. CASE i + 1 <= n
    <3>1. i \in 1 .. n /\ s[i] = a /\ s[i + 1] = b
      BY <1>1, <2>1, <2>2
    <3>2. QED
      BY <1>4, <2>2, <3>1 DEF TwoTogether, n
  <2>3. CASE i = n
    BY <1>1, <2>1, <2>3
  <2>4. i + 1 <= n \/ i = n
    BY <1>1, <2>1
  <2>5. QED
    BY <2>2, <2>3, <2>4
<1>5. QED
  BY <1>2, <1>3, <1>4 DEF t

\* Characters of one line.
LEMMA LinesAreMore ==
    ASSUME NEW s \in Seq(Char), NEW lines, NEW line \in Seq(Char), LinesAre(s, lines, line),
           NEW x \in Seq(Inline)
    PROVE  LinesAre(s \o x, lines, line \o x) /\ s \o x \in Seq(Char)
<1> DEFINE M == {y \in Seq(Inline) : LinesAre(s \o y, lines, line \o y) /\ s \o y \in Seq(Char)}
<1>1. <<>> \in M
  <2>1. <<>> \in Seq(Inline) /\ s \o <<>> = s /\ line \o <<>> = line
    OBVIOUS
  <2>2. QED
    BY <2>1, Zenon
<1>2. ASSUME NEW y \in Seq(Inline), NEW ch \in Inline, y \in M PROVE Append(y, ch) \in M
  <2>1. LinesAre(s \o y, lines, line \o y) /\ s \o y \in Seq(Char)
    BY <1>2, Zenon
  <2>2. ch \in Char /\ ch # NL /\ \A i \in 1 .. Len(y) : y[i] \in Inline => y[i] \in Char
    BY Zenon DEF Inline
  <2>3. y \in Seq(Char) /\ Append(y, ch) \in Seq(Inline)
    BY <2>2, Among, AppendsOne, Zenon
  <2>4. Assoc(s, y, ch) /\ Assoc(line, y, ch)
    BY <2>2, <2>3, AppendConcat, Zenon
  <2>5. LinesAre(Append(s \o y, ch), lines, Append(line \o y, ch)) /\ Append(s \o y, ch) \in Seq(Char)
    BY <2>1, <2>2, LinesAreNext, AppendsOne, Zenon
  <2>6. QED
    BY <2>3, <2>4, <2>5, Zenon DEF Assoc
<1>3. Seq(Inline) \subseteq M
  <2> HIDE DEF M
  <2> QED BY <1>1, <1>2, SeqInduction, Zenon
<1>4. QED
  BY <1>3, Zenon

\* The end of a line.
LEMMA WithReturn ==
    ASSUME NEW S, NEW line \in Seq(S)
    PROVE  LET x == WithoutReturn(line)
           IN  /\ x \in Seq(S)
               /\ line # <<>> /\ Last(line) = "\r" => Len(x) + 1 = Len(line)
               /\ line = <<>> \/ Last(line) # "\r" => x = line
<1> DEFINE x == WithoutReturn(line)
           y == Front(line)
<1>1. ASSUME line # <<>> PROVE y \in Seq(S) /\ Len(y) + 1 = Len(line)
  <2>1. Len(line) \in Nat /\ Len(line) >= 1
    BY <1>1
  <2>2. y = SubSeq(line, 1, Len(line) - 1)
    BY Zenon DEF Front
  <2> DEFINE m == Len(line) - 1
  <2>3. m \in Nat /\ m <= Len(line) /\ m + 1 = Len(line)
    BY <2>1
  <2> HIDE DEF m, y
  <2>4. SubSeq(line, 1, m) \in Seq(S) /\ Len(SubSeq(line, 1, m)) = m
    BY <2>3
  <2>5. QED
    BY <2>2, <2>3, <2>4, Zenon DEF m
<1> HIDE DEF y
<1>2. CASE line # <<>> /\ Last(line) = "\r"
  BY <1>1, <1>2, Zenon DEF WithoutReturn, y
<1>3. CASE ~ (line # <<>> /\ Last(line) = "\r")
  BY <1>3, Zenon DEF WithoutReturn
<1>4. QED
  BY <1>2, <1>3, Zenon

BlockHead == <<"c", Space, "k", "=", "<", "<">>
BlockFoot == <<">", ">", Space, "~", "h">>
BlockStart == Append(BlockHead, NL)

SixInARow(s, S, e) ==
    /\ s \in Seq(S) /\ s # <<>> /\ Last(s) = e /\ 5 \in 1 .. Len(s) /\ 5 + 1 <= Len(s)
    /\ s[5] = e /\ s[5 + 1] = e
LEMMA SixTyped ==
    ASSUME NEW S, NEW a \in S, NEW b \in S, NEW c \in S, NEW d \in S, NEW e \in S
    PROVE  SixInARow(<<a, b, c, d, e, e>>, S, e)
<1> DEFINE s == <<a, b, c, d, e, e>>
<1>1. s \in Seq(S) /\ s # <<>> /\ Len(s) = 6 /\ s[5] = e /\ s[6] = e
  OBVIOUS
<1> HIDE DEF s
<1>2. Last(s) = e /\ 5 \in 1 .. Len(s) /\ 5 + 1 <= Len(s) /\ s[5 + 1] = e
  BY <1>1 DEF Last
<1>3. QED
  BY <1>1, <1>2 DEF SixInARow, s

FiveInARow(s, S, f, b, g, h) ==
    /\ s \in Seq(S) /\ Len(s) = 5
    /\ StartsAt(s, 1, <<f, f>> \o <<b>>)
    /\ \A i \in 1 .. Len(s) : s[i] \in {f, b, g, h}
LEMMA FiveTyped ==
    ASSUME NEW S, NEW f \in S, NEW b \in S, NEW g \in S, NEW h \in S
    PROVE  FiveInARow(<<f, f, b, g, h>>, S, f, b, g, h)
<1> DEFINE s == <<f, f, b, g, h>>
           p == <<f, f>> \o <<b>>
           x == SubSeq(s, 1, 1 + Len(p) - 1)
<1>1. /\ s \in Seq(S) /\ Len(s) = 5 /\ s[1] = f /\ s[2] = f /\ s[3] = b /\ s[4] = g /\ s[5] = h
  OBVIOUS
<1>2. p \in Seq(S) /\ Len(p) = 3 /\ p[1] = f /\ p[2] = f /\ p[3] = b
  OBVIOUS
<1> HIDE DEF s, p
<1>3. x \in Seq(S) /\ Len(x) = 3 /\ x[1] = f /\ x[2] = f /\ x[3] = b /\ 1 + Len(p) - 1 <= Len(s)
  BY <1>1, <1>2
<1> HIDE DEF x
<1>4. \A i \in 1 .. Len(x) : x[i] = p[i]
  BY <1>2, <1>3
<1>5. x = p
  BY <1>2, <1>3, <1>4, SeqEqual
<1>6. StartsAt(s, 1, p)
  BY <1>3, <1>5, Zenon DEF StartsAt, x
<1>7. \A i \in 1 .. Len(s) : s[i] \in {f, b, g, h}
  BY <1>1
<1>8. QED
  BY <1>1, <1>6, <1>7, Zenon DEF FiveInARow, s, p

LEMMA BlockParts ==
    /\ BlockHead \in Seq(Inline) /\ BlockHead \in Seq(Char) /\ Has(BlockHead, Opening)
    /\ WithoutReturn(BlockHead) = BlockHead
    /\ BlockStart \in Seq(Char)
    /\ BlockFoot \in Seq(Inline) /\ Len(BlockFoot) = 5
    /\ ClosesBlock(BlockFoot) /\ ~ Has(BlockFoot, Opening) /\ WithoutReturn(BlockFoot) = BlockFoot
<1>1. /\ "c" \in Inline /\ Space \in Inline /\ "k" \in Inline /\ "=" \in Inline /\ "<" \in Inline
      /\ ">" \in Inline /\ "~" \in Inline /\ "h" \in Inline
  BY Zenon DEF Inline, Char, NL, Space
<1>2. SixInARow(BlockHead, Inline, "<")
  BY <1>1, SixTyped, Zenon DEF BlockHead
<1>3. FiveInARow(BlockFoot, Inline, ">", Space, "~", "h")
  BY <1>1, FiveTyped, Zenon DEF BlockFoot
<1>4. BlockHead \in Seq(Inline) /\ BlockFoot \in Seq(Inline) /\ Len(BlockFoot) = 5
  BY <1>2, <1>3, Zenon DEF SixInARow, FiveInARow
<1>5. NL \in Char /\ \A ch \in Inline : ch \in Char
  BY Zenon DEF Char, Inline
<1>6. BlockHead \in Seq(Char)
  <2>1. \A i \in 1 .. Len(BlockHead) : BlockHead[i] \in Inline => BlockHead[i] \in Char
    BY <1>5, Zenon
  <2>2. QED
    BY <1>4, <2>1, Among, Zenon
<1>7. BlockStart \in Seq(Char)
  BY <1>5, <1>6, AppendsOne, Zenon DEF BlockStart
<1>8. Has(BlockHead, Opening)
  <2>1. TwoTogether(BlockHead, "<", "<")
    BY <1>2, Zenon DEF SixInARow, TwoTogether
  <2>2. QED
    BY <1>4, <2>1, HasTwo, Zenon DEF Opening
<1>9. WithoutReturn(BlockHead) = BlockHead
  <2>1. Last(BlockHead) # "\r"
    BY <1>2, Zenon DEF SixInARow
  <2>2. QED
    BY <2>1, Zenon DEF WithoutReturn
<1>10. ClosesBlock(BlockFoot)
  BY <1>3, Zenon DEF FiveInARow, ClosesBlock, Closing
<1>11. \A i \in 1 .. Len(BlockFoot) : BlockFoot[i] # "<" /\ BlockFoot[i] # "\r"
  <2>1. \A ch \in {">", Space, "~", "h"} : ch # "<" /\ ch # "\r"
    BY Zenon DEF Space
  <2>2. QED
    BY <1>3, <2>1, Zenon DEF FiveInARow
<1>12. ~ Has(BlockFoot, Opening)
  <2>1. ~ TwoTogether(BlockFoot, "<", "<")
    BY <1>11, Zenon DEF TwoTogether
  <2>2. QED
    BY <1>4, <2>1, HasTwo, Zenon DEF Opening
<1>13. WithoutReturn(BlockFoot) = BlockFoot
  <2>1. Len(BlockFoot) \in 1 .. Len(BlockFoot)
    BY <1>4
  <2>2. Last(BlockFoot) # "\r"
    BY <1>11, <2>1, Zenon DEF Last
  <2>3. QED
    BY <2>2, Zenon DEF WithoutReturn
<1>14. QED
  BY <1>4, <1>6, <1>7, <1>8, <1>9, <1>10, <1>12, <1>13, Zenon

\* The value, a character at a time.
ReadsTo(y, lines, line, r) ==
    /\ y \in Seq(Char) /\ lines \in Seq(Seq(Inline)) /\ line \in Seq(Inline) /\ BetweenLines(r)
    /\ LinesAre(y, lines, line)
    /\ \E all \in Seq(Seq(Inline)) : LinesAre(BlockStart \o y, all, line) /\ Composes(all, r)
    /\ IF line = <<>> THEN y = <<>> \/ Last(y) = NL ELSE y # <<>> /\ Last(y) = Last(line)

\* No line of the value ends the block, or changes.
Unclosed(lines) == \A k \in 1 .. Len(lines) : ~ ClosesBlock(lines[k])
Unchanged(y, lines) == Unclosed(lines) /\ ~ TwoTogether(y, "\r", NL)

\* Then the listener has everything; and if not, it has less.
HasAll(y, line, r) == r.open /\ r.done = <<>> /\ r.text \o line = BlockStart \o y
HasLess(y, line, r) ==
    LET n == Len(BlockStart) + Len(y)
    IN  NoLonger(r, n) /\ Len(r.text) + Len(line) + 1 <= n
KeepsUp(y) ==
    \E lines, line, r :
        /\ ReadsTo(y, lines, line, r)
        /\ IF Unchanged(y, lines) THEN HasAll(y, line, r) ELSE HasLess(y, line, r)

LEMMA ListenerBegins == BetweenLines(NoText) /\ ~ NoText.open /\ NoText.text = <<>> /\ NoText.done = <<>>
<1>1. <<>> \in Seq(MadeMessages)
  OBVIOUS
<1>2. ListenerIs(NoText, FALSE, <<>>, <<>>, <<>>)
  BY DEF NoText, ListenerIs, ListenerFields
<1>3. QED
  BY <1>1, <1>2, Zenon DEF BetweenLines, ListenerIs

LEMMA EmptyIn == ASSUME NEW S PROVE <<>> \in Seq(S)
OBVIOUS

LEMMA JoinsNothing ==
    ASSUME NEW S, NEW s \in Seq(S)
    PROVE  /\ <<>> \in Seq(S) /\ Joined(s, s, <<>>) /\ Joined(s, <<>>, s)
<1>1. <<>> \in Seq(S) /\ s = s \o <<>> /\ s = <<>> \o s
  OBVIOUS
<1>2. QED
  BY <1>1 DEF Joined

LEMMA NothingTogether == ASSUME NEW a, NEW b PROVE ~ TwoTogether(<<>>, a, b) /\ Unclosed(<<>>)
<1>1. \A i \in 1 .. Len(<<>>) : FALSE
  OBVIOUS
<1>2. QED
  BY <1>1, Zenon DEF TwoTogether, Unclosed

LEMMA KeepsUpBegins == KeepsUp(<<>>)
<1> DEFINE n == <<>>
           r == ReadLine(NoText, BlockHead)
           all == Append(n, BlockHead)
<1>1. /\ n \in Seq(Char) /\ n \in Seq(Inline) /\ n \in Seq(Seq(Inline))
  BY EmptyIn, Zenon
<1>2. LinesAre(n \o BlockHead, n, n \o BlockHead) /\ n \o BlockHead \in Seq(Char)
  BY <1>1, BlockParts, LinesAreEmpty, LinesAreMore, Zenon
<1>3. Joined(BlockHead, n, BlockHead)
  BY BlockParts, JoinsNothing, Zenon
<1>4. LinesAre(BlockHead, n, BlockHead)
  BY <1>2, <1>3, Zenon DEF Joined
<1>5. LinesAre(BlockStart, all, n)
  <2>1. NL \in Char
    BY Zenon DEF Char
  <2>2. LinesAre(Append(BlockHead, NL), Append(n, WithoutReturn(BlockHead)), n)
    BY <1>4, <2>1, BlockParts, LinesAreNext, Zenon
  <2>3. QED
    BY <2>2, BlockParts, Zenon DEF BlockStart
<1>6. Composes(all, r) /\ all \in Seq(Seq(Inline))
  BY <1>1, BlockParts, ComposesEmpty, ComposesNext, AppendsOne, Zenon
<1>7. BetweenLines(r)
  BY BlockParts, ListenerBegins, ReadLineBetween, Zenon
<1>8. Grown(r, NoText, BlockStart)
  BY BlockParts, ListenerBegins, ReadLineForms, Zenon DEF BlockStart
<1> HIDE DEF r, all
<1>9. Joined(BlockStart, BlockStart, n) /\ Joined(BlockStart, n, BlockStart)
  BY BlockParts, JoinsNothing, Zenon
<1>10. r.open /\ r.text = BlockStart /\ r.done = n
  BY <1>8, <1>9, ListenerBegins, Zenon DEF Grown, Joined
<1>11. HasAll(n, n, r)
  BY <1>9, <1>10, Zenon DEF HasAll, Joined
<1>12. ReadsTo(n, n, n, r)
  BY <1>1, <1>5, <1>6, <1>7, <1>9, LinesAreEmpty, Zenon DEF ReadsTo, Joined
<1>13. Unchanged(n, n)
  BY NothingTogether, Zenon DEF Unchanged
<1>14. QED
  BY <1>11, <1>12, <1>13, Zenon DEF KeepsUp

\* Lengths of what grows.
LEMMA LengthNext ==
    ASSUME NEW S, NEW s \in Seq(S), NEW ch \in S
    PROVE  /\ Len(s) \in Nat /\ Len(Append(s, ch)) = Len(s) + 1
           /\ Append(s, ch) # <<>> /\ Last(Append(s, ch)) = ch
           /\ Append(s, ch) \in Seq(S)
<1>1. /\ Len(s) \in Nat /\ Len(Append(s, ch)) = Len(s) + 1
      /\ Append(s, ch) \in Seq(S)
  OBVIOUS
<1>2. Append(s, ch) # <<>> /\ Last(Append(s, ch)) = ch
  BY DEF Last
<1>3. QED
  BY <1>1, <1>2

Lengthened(s, t, ch, S) ==
    /\ t \in Seq(S) /\ t # <<>> /\ Last(t) = ch /\ Len(s) \in Nat /\ Len(t) = Len(s) + 1
LEMMA AppendGrows ==
    ASSUME NEW S, NEW s \in Seq(S), NEW ch \in S
    PROVE  Lengthened(s, Append(s, ch), ch, S)
<1> DEFINE t == Append(s, ch)
<1>1. /\ t \in Seq(S) /\ t # <<>> /\ Last(t) = ch /\ Len(s) \in Nat /\ Len(t) = Len(s) + 1
  BY LengthNext, Zenon
<1> HIDE DEF t
<1>2. Lengthened(s, t, ch, S)
  BY <1>1, Zenon DEF Lengthened
<1>3. QED
  BY <1>2, Zenon DEF t

LEMMA LongerAllowed ==
    ASSUME NEW r, NEW n \in Nat, NEW m \in Nat, n <= m, NoLonger(r, n),
           r.done \in Seq(MadeMessages)
    PROVE  NoLonger(r, m)
<1> DEFINE d == r.done
<1>1. \A k \in 1 .. Len(d) : d[k].text \in Seq(Char)
  <2>1. \A k \in 1 .. Len(d) : d[k] \in MadeMessages
    OBVIOUS
  <2>2. \A x \in MadeMessages : x \in [text : Seq(Char), content : Seq(BOOLEAN)]
    BY Zenon DEF MadeMessages
  <2>3. \A x \in [text : Seq(Char), content : Seq(BOOLEAN)] : x.text \in Seq(Char)
    OBVIOUS
  <2>4. QED
    BY <2>1, <2>2, <2>3, Zenon
<1>2. \A k \in 1 .. Len(d) : Len(d[k].text) <= n
  BY Zenon DEF NoLonger
<1> HIDE DEF d
<1>3. ASSUME NEW k \in 1 .. Len(d) PROVE Len(d[k].text) <= m
  <2> DEFINE x == d[k].text
  <2>1. x \in Seq(Char) /\ Len(x) <= n
    BY <1>1, <1>2
  <2> HIDE DEF x
  <2>2. Len(x) \in Nat
    BY <2>1
  <2>3. Len(x) <= m
    BY <2>1, <2>2
  <2>4. QED
    BY <2>3 DEF x
<1>4. QED
  BY <1>3 DEF NoLonger, d

LEMMA KeepsUpWithin ==
    ASSUME NEW y \in Seq(Char), NEW ch \in Char, ch # NL, KeepsUp(y)
    PROVE  KeepsUp(Append(y, ch))
<1> DEFINE z == Append(y, ch)
<1>1. PICK lines, line, r :
        /\ ReadsTo(y, lines, line, r)
        /\ IF Unchanged(y, lines) THEN HasAll(y, line, r) ELSE HasLess(y, line, r)
  BY Zenon DEF KeepsUp
<1>2. /\ lines \in Seq(Seq(Inline)) /\ line \in Seq(Inline) /\ BetweenLines(r)
      /\ LinesAre(y, lines, line)
  BY <1>1, Zenon DEF ReadsTo
<1>3. PICK all \in Seq(Seq(Inline)) : LinesAre(BlockStart \o y, all, line) /\ Composes(all, r)
  BY <1>1, Zenon DEF ReadsTo
<1> DEFINE more == Append(line, ch)
<1>4. ch \in Inline
  BY Zenon DEF Inline
<1>5. /\ z \in Seq(Char) /\ z # <<>> /\ Last(z) = ch /\ Len(y) \in Nat /\ Len(z) = Len(y) + 1
      /\ more \in Seq(Inline) /\ more # <<>> /\ Last(more) = ch
      /\ Len(line) \in Nat /\ Len(more) = Len(line) + 1
  <2>1. /\ z \in Seq(Char) /\ z # <<>> /\ Last(z) = ch /\ Len(y) \in Nat /\ Len(z) = Len(y) + 1
    <3>1. Lengthened(y, z, ch, Char)
      BY AppendGrows, Zenon
    <3> HIDE DEF z
    <3>2. QED
      BY <3>1, Zenon DEF Lengthened
  <2>2. /\ more \in Seq(Inline) /\ more # <<>> /\ Last(more) = ch
        /\ Len(line) \in Nat /\ Len(more) = Len(line) + 1
    <3>1. line \in Seq(Inline)
      BY <1>2, Zenon
    <3>2. Lengthened(line, more, ch, Inline)
      BY <1>4, <3>1, AppendGrows, Zenon
    <3> HIDE DEF more
    <3>3. QED
      BY <3>2, Zenon DEF Lengthened
  <2>3. QED
    BY <2>1, <2>2, Zenon
<1>6. BlockStart \o y \in Seq(Char) /\ Assoc(BlockStart, y, ch)
  BY BlockParts, ConcatJoins, AppendConcat, Zenon
<1>7. LinesAre(z, lines, more)
  BY <1>2, LinesAreNext, Zenon
<1>8. LinesAre(Append(BlockStart \o y, ch), all, more)
  BY <1>3, <1>6, LinesAreNext, Zenon
<1>9. LinesAre(BlockStart \o z, all, more)
  BY <1>6, <1>8, Zenon DEF Assoc
<1>10. ReadsTo(z, lines, more, r)
  BY <1>2, <1>3, <1>5, <1>7, <1>9, Zenon DEF ReadsTo
<1>11. Unchanged(z, lines) <=> Unchanged(y, lines)
  BY TwoTogetherNext, Zenon DEF Unchanged
<1>12. r.text \in Seq(Char) /\ r.done \in Seq(MadeMessages)
  BY <1>2, ListenerTyped, Zenon
<1>13. ASSUME HasAll(y, line, r) PROVE HasAll(z, more, r)
  <2>1. line \in Seq(Char)
    <3>1. \A i \in 1 .. Len(line) : line[i] \in Inline => line[i] \in Char
      BY Zenon DEF Inline
    <3>2. QED
      BY <1>2, <3>1, Among, Zenon
  <2>2. Assoc(r.text, line, ch)
    BY <1>12, <2>1, AppendConcat, Zenon
  <2>3. QED
    BY <1>6, <1>13, <2>2, Zenon DEF HasAll, Assoc
<1>14. ASSUME HasLess(y, line, r) PROVE HasLess(z, more, r)
  <2> DEFINE b == Len(BlockStart)
             t == Len(r.text)
  <2>1. b \in Nat /\ t \in Nat
    BY <1>12, BlockParts, LengthNext, Zenon
  <2>2. NoLonger(r, b + Len(y)) /\ t + Len(line) + 1 <= b + Len(y)
    BY <1>14, Zenon DEF HasLess
  <2> HIDE DEF b, t, z, more
  <2>3. t + Len(more) + 1 <= b + Len(z) /\ b + Len(y) <= b + Len(z) /\ b + Len(y) \in Nat /\ b + Len(z) \in Nat
    BY <1>5, <2>1, <2>2
  <2>4. NoLonger(r, b + Len(z))
    BY <1>12, <2>2, <2>3, LongerAllowed, Zenon
  <2>5. QED
    BY <2>3, <2>4, Zenon DEF HasLess, b, t
<1>15. QED
  BY <1>1, <1>10, <1>11, <1>13, <1>14, Zenon DEF KeepsUp

LEMMA InlineIsChar == ASSUME NEW line \in Seq(Inline) PROVE line \in Seq(Char) /\ Len(line) \in Nat
<1>1. \A i \in 1 .. Len(line) : line[i] \in Inline => line[i] \in Char
  BY Zenon DEF Inline
<1>2. line \in Seq(Char)
  BY <1>1, Among, Zenon
<1>3. QED
  BY <1>2

LEMMA LengthJoins ==
    ASSUME NEW S, NEW s \in Seq(S), NEW t \in Seq(S)
    PROVE  s \o t \in Seq(S) /\ Len(s \o t) = Len(s) + Len(t) /\ Len(s) \in Nat /\ Len(t) \in Nat
OBVIOUS

\* A line leaves less, when it closes a block or when something is missing already.
LEMMA LineLess ==
    ASSUME NEW r, BetweenLines(r), NEW x \in Seq(Inline), NEW n \in Nat, NoLonger(r, n),
           Len(r.text) + Len(x) <= n,
           Len(r.text) + Len(x) + 1 <= n \/ (r.open /\ ClosesBlock(x))
    PROVE  NoLonger(ReadLine(r, x), n) /\ Len(ReadLine(r, x).text) <= n
<1> DEFINE q == ReadLine(r, x)
           t == r.text
           more == Append(x, NL)
<1>1. t \in Seq(Char) /\ r.done \in Seq(MadeMessages)
  BY ListenerTyped, Zenon
<1>2. x \in Seq(Char) /\ Len(x) \in Nat
  BY InlineIsChar, Zenon
<1>3. NL \in Char
  BY Zenon DEF Char
<1>4. more \in Seq(Char) /\ Len(more) = Len(x) + 1
  <2>1. Lengthened(x, more, NL, Char)
    BY <1>2, <1>3, AppendGrows, Zenon
  <2> HIDE DEF more
  <2>2. QED
    BY <2>1, Zenon DEF Lengthened
<1>5. /\ r.open /\ ~ ClosesBlock(x) => Grown(q, r, more)
      /\ ~ r.open /\ Has(x, Opening) => Grown(q, r, more)
      /\ r.open /\ ClosesBlock(x) /\ Has(x, Opening) => Grown(q, r, x)
      /\ ~ Has(x, Opening) /\ (r.open => ClosesBlock(x)) => Completed(q, r, x)
  BY ReadLineForms, Zenon
<1> HIDE DEF q, more
<1>6. ASSUME NEW u \in Seq(Char), Grown(q, r, u), Len(t) + Len(u) <= n
      PROVE  NoLonger(q, n) /\ Len(q.text) <= n
  <2>1. q.text = t \o u /\ q.done = r.done
    BY <1>6, Zenon DEF Grown
  <2> HIDE DEF t
  <2>2. Len(t \o u) = Len(t) + Len(u)
    BY <1>1, LengthJoins
  <2>3. Len(q.text) <= n
    BY <1>6, <2>1, <2>2
  <2>4. NoLonger(q, n)
    BY <2>1, Zenon DEF NoLonger
  <2>5. QED
    BY <2>3, <2>4
<1>7. ASSUME Completed(q, r, x) PROVE NoLonger(q, n) /\ Len(q.text) <= n
  <2>1. t \o x \in Seq(Char) /\ Len(t \o x) = Len(t) + Len(x)
    BY <1>1, <1>2, LengthJoins
  <2>2. Len(t \o x) <= n
    BY <2>1
  <2>3. NoLonger(q, n)
    BY <1>1, <1>7, <2>1, <2>2, CompletedNoLonger, Zenon
  <2>4. q.text = <<>>
    BY <1>7, Zenon DEF Completed
  <2>5. Len(q.text) <= n
    BY <2>4
  <2>6. QED
    BY <2>3, <2>5
<1>8. ASSUME r.open, ClosesBlock(x) PROVE NoLonger(q, n) /\ Len(q.text) <= n
  BY <1>2, <1>5, <1>6, <1>7, <1>8, Zenon
<1>9. ASSUME ~ (r.open /\ ClosesBlock(x)) PROVE NoLonger(q, n) /\ Len(q.text) <= n
  <2>1. Len(t) + Len(x) + 1 <= n
    BY <1>9, Zenon
  <2>2. Len(t) + Len(more) <= n
    <3>1. Len(t) \in Nat
      BY <1>1
    <3> HIDE DEF t
    <3>2. QED
      BY <1>2, <1>4, <2>1, <3>1
  <2>3. QED
    BY <1>4, <1>5, <1>6, <1>7, <1>9, <2>2, Zenon
<1>10. QED
  BY <1>8, <1>9, Zenon DEF q

LEMMA UnclosedNext ==
    ASSUME NEW S, NEW lines \in Seq(S), NEW x \in S
    PROVE  Unclosed(Append(lines, x)) <=> Unclosed(lines) /\ ~ ClosesBlock(x)
<1> DEFINE n == Len(lines)
           t == Append(lines, x)
<1>1. OneLonger(n, t, lines, x)
  BY AppendedPlaces, Zenon
<1>2. ASSUME NEW k \in 1 .. n PROVE k \in 1 .. n + 1 /\ n \in Nat
  OBVIOUS
<1>3. n + 1 \in 1 .. n + 1
  OBVIOUS
<1> HIDE DEF t, n
<1>4. QED
  BY <1>1, <1>2, <1>3, Zenon DEF Unclosed, OneLonger, t, n

Sizes(b, t, l, x, y) == b \in Nat /\ t \in Nat /\ l \in Nat /\ x \in Nat /\ y \in Nat
LEMMA SizesFit ==
    ASSUME NEW b, NEW t, NEW l, NEW x, NEW y, Sizes(b, t, l, x, y)
    PROVE  /\ b + y \in Nat /\ b + (y + 1) \in Nat /\ b + y <= b + (y + 1)
           /\ x + 1 = l /\ t + l = b + y => t + x <= b + y /\ t + x + 1 <= b + y
           /\ x = l /\ t + l = b + y => t + x <= b + y
           /\ (x = l \/ x + 1 = l) /\ t + l + 1 <= b + y => t + x <= b + y /\ t + x + 1 <= b + y
           /\ \A n : n \in Nat /\ n <= b + y => n + 0 + 1 <= b + (y + 1)
BY DEF Sizes

LEMMA LengthIn == ASSUME NEW S, NEW s \in Seq(S) PROVE Len(s) \in Nat
OBVIOUS

LEMMA KeepsUpAtEnd ==
    ASSUME NEW y \in Seq(Char), KeepsUp(y)
    PROVE  KeepsUp(Append(y, NL))
<1> DEFINE z == Append(y, NL)
<1>1. PICK lines, line, r :
        /\ ReadsTo(y, lines, line, r)
        /\ IF Unchanged(y, lines) THEN HasAll(y, line, r) ELSE HasLess(y, line, r)
  BY Zenon DEF KeepsUp
<1>2. /\ lines \in Seq(Seq(Inline)) /\ line \in Seq(Inline) /\ BetweenLines(r)
      /\ LinesAre(y, lines, line)
  BY <1>1, Zenon DEF ReadsTo
<1>3. PICK all \in Seq(Seq(Inline)) : LinesAre(BlockStart \o y, all, line) /\ Composes(all, r)
  BY <1>1, Zenon DEF ReadsTo
<1> DEFINE x == WithoutReturn(line)
           q == ReadLine(r, x)
           lines2 == Append(lines, x)
           all2 == Append(all, x)
           cut == line # <<>> /\ Last(line) = "\r"
<1>4. /\ x \in Seq(Inline)
      /\ cut => Len(x) + 1 = Len(line)
      /\ ~ cut => x = line
  BY <1>2, WithReturn, Zenon
<1>5. NL \in Char /\ NL # "\r"
  BY Zenon DEF Char, NL
<1>6. /\ z \in Seq(Char) /\ z # <<>> /\ Last(z) = NL /\ Len(y) \in Nat /\ Len(z) = Len(y) + 1
  <2>1. Lengthened(y, z, NL, Char)
    BY <1>5, AppendGrows, Zenon
  <2> HIDE DEF z
  <2>2. QED
    BY <2>1, Zenon DEF Lengthened
<1>7. BlockStart \o y \in Seq(Char) /\ Assoc(BlockStart, y, NL)
  BY <1>5, BlockParts, ConcatJoins, AppendConcat, Zenon
<1>8. LinesAre(z, lines2, <<>>)
  BY <1>2, <1>5, LinesAreNext, Zenon
<1>9. LinesAre(Append(BlockStart \o y, NL), all2, <<>>)
  BY <1>3, <1>5, <1>7, LinesAreNext, Zenon
<1> HIDE DEF x
<1>10. lines2 \in Seq(Seq(Inline)) /\ all2 \in Seq(Seq(Inline)) /\ Composes(all2, q)
  BY <1>2, <1>3, <1>4, AppendsOne, ComposesNext, Zenon
<1>11. BetweenLines(q)
  BY <1>2, <1>4, ReadLineBetween, Zenon
<1>12. Unclosed(lines2) <=> Unclosed(lines) /\ ~ ClosesBlock(x)
  BY <1>2, <1>4, UnclosedNext, Zenon
<1> HIDE DEF lines2, all2
<1>13. ReadsTo(z, lines2, <<>>, q)
  <2>1. LinesAre(BlockStart \o z, all2, <<>>)
    BY <1>7, <1>9, Zenon DEF Assoc
  <2>2. <<>> \in Seq(Inline)
    BY EmptyIn, Zenon
  <2> HIDE DEF q, z
  <2>3. QED
    BY <1>6, <1>8, <1>10, <1>11, <2>1, <2>2, Zenon DEF ReadsTo
<1>14. TwoTogether(z, "\r", NL) <=> TwoTogether(y, "\r", NL) \/ cut
  <2>1. TwoTogether(z, "\r", NL) <=>
            TwoTogether(y, "\r", NL) \/ (NL = NL /\ y # <<>> /\ Last(y) = "\r")
    BY <1>5, TwoTogetherNext, Zenon
  <2>2. IF line = <<>> THEN y = <<>> \/ Last(y) = NL ELSE y # <<>> /\ Last(y) = Last(line)
    BY <1>1, Zenon DEF ReadsTo
  <2>3. QED
    BY <1>5, <2>1, <2>2, Zenon
<1>15. Unchanged(z, lines2) <=> Unchanged(y, lines) /\ ~ cut /\ ~ ClosesBlock(x)
  BY <1>12, <1>14, Zenon DEF Unchanged
<1>16. /\ r.text \in Seq(Char) /\ r.done \in Seq(MadeMessages)
       /\ q.text \in Seq(Char) /\ q.done \in Seq(MadeMessages)
  BY <1>2, <1>11, ListenerTyped, Zenon
<1>17. line \in Seq(Char) /\ Len(line) \in Nat /\ Len(x) \in Nat
  BY <1>2, <1>4, InlineIsChar, Zenon
<1>18. ASSUME Unchanged(z, lines2) PROVE HasAll(z, <<>>, q)
  <2>1. HasAll(y, line, r) /\ x = line /\ ~ ClosesBlock(x)
    BY <1>1, <1>4, <1>15, <1>18, Zenon
  <2>2. Grown(q, r, Append(x, NL))
    BY <1>2, <2>1, ReadLineForms, Zenon DEF HasAll
  <2>3. Assoc(r.text, line, NL)
    BY <1>5, <1>16, <1>17, AppendConcat, Zenon
  <2>4. q.text = BlockStart \o z
    BY <1>7, <2>1, <2>2, <2>3, Zenon DEF HasAll, Grown, Assoc
  <2>5. Joined(q.text, q.text, <<>>)
    BY <1>16, JoinsNothing, Zenon
  <2>6. QED
    BY <2>1, <2>2, <2>4, <2>5, Zenon DEF HasAll, Grown, Joined
<1>19. ASSUME ~ Unchanged(z, lines2) PROVE HasLess(z, <<>>, q)
  <2> DEFINE b == Len(BlockStart)
             t == Len(r.text)
             n == b + Len(y)
             e == <<>>
  <2>1. b \in Nat /\ t \in Nat /\ Len(q.text) \in Nat
    BY <1>16, BlockParts, LengthIn, Zenon
  <2>2. Sizes(b, t, Len(line), Len(x), Len(y))
    BY <1>6, <1>17, <2>1, Zenon DEF Sizes
  <2>3. x = line \/ Len(x) + 1 = Len(line)
    BY <1>4, Zenon
  <2>4. /\ NoLonger(r, n) /\ t + Len(x) <= n
        /\ t + Len(x) + 1 <= n \/ (r.open /\ ClosesBlock(x))
    <3>1. CASE Unchanged(y, lines)
      <4>1. r.open /\ r.done = <<>> /\ r.text \o line = BlockStart \o y
        BY <1>1, <3>1, Zenon DEF HasAll
      <4>2. Len(r.text \o line) = t + Len(line) /\ Len(BlockStart \o y) = n
        BY <1>16, <1>17, BlockParts, LengthJoins, Zenon
      <4>3. t + Len(line) = n
        BY <4>1, <4>2, Zenon
      <4>4. \A k \in 1 .. Len(<<>>) : FALSE
        OBVIOUS
      <4>5. NoLonger(r, n)
        BY <4>1, <4>4, Zenon DEF NoLonger
      <4>6. CASE cut
        BY <1>4, <2>2, <4>3, <4>5, <4>6, SizesFit, Zenon
      <4>7. CASE ~ cut
        <5>1. x = line /\ ClosesBlock(x)
          BY <1>4, <1>15, <1>19, <3>1, <4>7, Zenon
        <5>2. QED
          BY <2>2, <4>1, <4>3, <4>5, <5>1, SizesFit, Zenon
      <4>8. QED
        BY <4>6, <4>7, Zenon
    <3>2. CASE ~ Unchanged(y, lines)
      <4>1. NoLonger(r, n) /\ t + Len(line) + 1 <= n
        BY <1>1, <3>2, Zenon DEF HasLess
      <4>2. QED
        BY <2>2, <2>3, <4>1, SizesFit, Zenon
    <3>3. QED
      BY <3>1, <3>2, Zenon
  <2>5. /\ n \in Nat /\ b + (Len(y) + 1) \in Nat /\ n <= b + (Len(y) + 1)
        /\ \A m : m \in Nat /\ m <= n => m + 0 + 1 <= b + (Len(y) + 1)
    BY <2>2, SizesFit, Zenon
  <2>6. NoLonger(q, n) /\ Len(q.text) <= n
    BY <1>2, <1>4, <2>4, <2>5, LineLess, Zenon
  <2>7. Len(q.text) + 0 + 1 <= b + (Len(y) + 1)
    BY <2>1, <2>5, <2>6, Zenon
  <2>8. NoLonger(q, b + (Len(y) + 1))
    BY <1>16, <2>5, <2>6, LongerAllowed, Zenon
  <2>9. Len(e) = 0
    OBVIOUS
  <2> HIDE DEF e
  <2>10. HasLess(z, e, q)
    BY <1>6, <2>7, <2>8, <2>9, Zenon DEF HasLess
  <2>11. QED
    BY <2>10 DEF e
<1>20. QED
  BY <1>13, <1>18, <1>19, Zenon DEF KeepsUp

LEMMA KeepsUpAlways == ASSUME NEW y \in Seq(Char) PROVE KeepsUp(y)
<1> DEFINE M == {s \in Seq(Char) : KeepsUp(s)}
<1>1. <<>> \in M
  BY EmptyIn, KeepsUpBegins, Zenon
<1>2. ASSUME NEW s \in Seq(Char), NEW ch \in Char, s \in M PROVE Append(s, ch) \in M
  <2>1. KeepsUp(s) /\ Append(s, ch) \in Seq(Char)
    BY <1>2, AppendsOne, Zenon
  <2>2. KeepsUp(Append(s, ch))
    BY <2>1, KeepsUpWithin, KeepsUpAtEnd, Zenon
  <2>3. QED
    BY <2>1, <2>2, Zenon
<1>3. Seq(Char) \subseteq M
  <2> HIDE DEF M
  <2> QED BY <1>1, <1>2, SeqInduction, Zenon
<1>4. QED
  BY <1>3, Zenon

\* The last line closes the block.
LEMMA BlockHeard ==
    ASSUME NEW x \in Seq(Char), NEW lines, NEW line, NEW r, ReadsTo(x, lines, line, r), line = <<>>
    PROVE  /\ Lines(x) = lines
           /\ \E q : /\ Completed(q, r, BlockFoot) /\ q.done \in Seq(MadeMessages)
                     /\ Messages(Append((BlockStart \o x) \o BlockFoot, NL)) = q.done
<1> DEFINE s == BlockStart \o x
           t == s \o BlockFoot
           z == Append(t, NL)
           q == ReadLine(r, BlockFoot)
           e == <<>>
<1>1. /\ BetweenLines(r) /\ LinesAre(x, lines, line)
  BY Zenon DEF ReadsTo
<1>2. PICK all \in Seq(Seq(Inline)) : LinesAre(s, all, e) /\ Composes(all, r)
  BY Zenon DEF ReadsTo
<1> DEFINE all2 == Append(all, BlockFoot)
<1>3. Lines(x) = lines
  BY <1>1, LinesAreLines, Zenon
<1>4. s \in Seq(Char) /\ e \in Seq(Char)
  BY BlockParts, ConcatJoins, EmptyIn, Zenon
<1> HIDE DEF s
<1>5. LinesAre(t, all, e \o BlockFoot) /\ t \in Seq(Char)
  BY <1>2, <1>4, BlockParts, LinesAreMore, Zenon
<1>6. Joined(BlockFoot, e, BlockFoot)
  BY BlockParts, JoinsNothing, Zenon
<1>7. NL \in Char
  BY Zenon DEF Char
<1> HIDE DEF t
<1>8. LinesAre(z, Append(all, WithoutReturn(BlockFoot)), e) /\ z \in Seq(Char)
  <2>1. LinesAre(t, all, BlockFoot)
    BY <1>5, <1>6, Zenon DEF Joined
  <2>2. QED
    BY <1>5, <1>7, <2>1, LinesAreNext, AppendsOne, Zenon
<1>9. LinesAre(z, all2, e)
  BY <1>8, BlockParts, Zenon
<1>10. all2 \in Seq(Seq(Inline)) /\ Composes(all2, q)
  BY <1>2, BlockParts, AppendsOne, ComposesNext, Zenon
<1> HIDE DEF all2, z, q
<1>11. Lines(z) = all2
  BY <1>8, <1>9, LinesAreLines, Zenon
<1>12. Messages(z) = q.done
  BY <1>10, <1>11, ComposesMessages, Zenon
<1>13. Completed(q, r, BlockFoot)
  BY <1>1, BlockParts, ReadLineForms, Zenon DEF q
<1>14. BetweenLines(q)
  BY <1>1, BlockParts, ReadLineBetween, Zenon DEF q
<1>15. q.done \in Seq(MadeMessages)
  BY <1>14, ListenerTyped, Zenon
<1>16. Messages(Append((BlockStart \o x) \o BlockFoot, NL)) = q.done
  BY <1>12, Zenon DEF s, t, z
<1>17. QED
  BY <1>3, <1>13, <1>15, <1>16, Zenon

\* The message is the line, or every message is shorter.
Texts(d) == [k \in 1 .. Len(d) |-> d[k].text]
LEMMA OneText ==
    ASSUME NEW d, NEW T, d \in Seq(T), NEW m, d = Append(<<>>, m), NEW x, m.text = x
    PROVE  Texts(d) = <<x>>
<1>1. Len(d) = 1 /\ d[1] = m
  OBVIOUS
<1> DEFINE f == [k \in 1 .. Len(d) |-> d[k].text]
<1>2. f = <<x>>
  BY <1>1
<1>3. QED
  BY <1>2 DEF Texts

LEMMA NotOneText ==
    ASSUME NEW d, NEW T, d \in Seq(T), NEW x, Texts(d) = <<x>>
    PROVE  1 \in 1 .. Len(d) /\ d[1].text = x
<1> DEFINE f == [k \in 1 .. Len(d) |-> d[k].text]
<1>1. f = <<x>>
  BY DEF Texts
<1>2. Len(d) \in Nat
  OBVIOUS
<1>3. DOMAIN f = 1 .. Len(d) /\ DOMAIN <<x>> = 1 .. 1
  OBVIOUS
<1> HIDE DEF f
<1>4. 1 .. Len(d) = 1 .. 1
  BY <1>1, <1>3
<1>5. 1 \in 1 .. Len(d)
  BY <1>4
<1>6. f[1] = x
  BY <1>1
<1>7. QED
  BY <1>5, <1>6 DEF f

LEMMA LastIn == ASSUME NEW S, NEW s \in Seq(S), s # <<>> PROVE Last(s) \in S
BY DEF Last

EndsOf(s, a, h) == Len(s) >= 1 /\ s[1] = a /\ s[Len(s)] = h /\ 1 \in 1 .. Len(s)
LEMMA LineEnds ==
    ASSUME NEW S, NEW a \in S, NEW b \in S, NEW c \in S, NEW d \in S, NEW g \in S, NEW h \in S,
           NEW w \in Seq(S)
    PROVE  /\ EndsOf(<<a, b, c, d>> \o w \o <<b, g, h>>, a, h)
           /\ <<a, b, c, d>> \o w \o <<b, g, h>> \in Seq(S)
<1> DEFINE s == <<a, b, c, d>> \o w \o <<b, g, h>>
<1>1. /\ s \in Seq(S) /\ Len(s) = Len(w) + 7 /\ Len(w) \in Nat /\ s[1] = a /\ s[Len(w) + 7] = h
  OBVIOUS
<1> HIDE DEF s
<1>2. EndsOf(s, a, h)
  BY <1>1 DEF EndsOf
<1>3. QED
  BY <1>1, <1>2 DEF s

LEMMA FootIsLonger ==
    ASSUME NEW b \in Nat, NEW t \in Nat, NEW x \in Nat, t + 0 + 1 <= b + x
    PROVE  /\ b + x \in Nat /\ b + x + 4 \in Nat /\ b + x <= b + x + 4
           /\ t + 5 <= b + x + 4 /\ ~ (b + x + 5 <= b + x + 4)
OBVIOUS

(* A value of several lines is read whole if no line of it closes the      *)
(* block or loses a carriage return, and only then.                        *)
LEMMA BlockReads ==
    ASSUME NEW v \in Seq(STRING), Has(v, <<NL>>)
    PROVE  ReadWhole(LineWith(PairValue(v)))
               <=> /\ \A line \in ToSet(Lines(Append(v, NL))) : ~ ClosesBlock(line)
                   /\ ~ Has(Append(v, NL), <<"\r", NL>>)
<1> DEFINE x == Append(v, NL)
           s == BlockStart \o x
           whole == s \o BlockFoot
           b == Len(BlockStart)
           n == b + Len(x)
           got == Messages(Append(whole, NL))
<1>1. /\ "c" \in Char /\ Space \in Char /\ "k" \in Char /\ "=" \in Char /\ "<" \in Char
      /\ ">" \in Char /\ "~" \in Char /\ "h" \in Char /\ NL \in Char
      /\ "c" \notin Blank /\ "h" \notin Blank
  BY Zenon DEF Char, Blank, Space, NL
<1>2. v \in Seq(Char)
  BY OfCharacters, Zenon
<1>3. x \in Seq(Char) /\ x # <<>> /\ Last(x) = NL /\ Len(x) \in Nat
  <2>1. Lengthened(v, x, NL, Char)
    BY <1>1, <1>2, AppendGrows, Zenon
  <2> HIDE DEF x
  <2>2. QED
    BY <2>1, LengthIn, Zenon DEF Lengthened
<1> DEFINE w == Opening \o <<NL>> \o v \o <<NL>> \o Closing
           line0 == LineWith(w)
<1>4. PairValue(v) = w
  BY Zenon DEF PairValue
<1>5. line0 = whole
  <2>1. LineOf("c", Space, "k", "=", "<", NL, ">", "~", "h", v)
    BY <1>1, <1>2, LineParts, Zenon
  <2>2. QED
    BY <2>1, Zenon DEF LineOf, LineWith, Opening, Closing, BlockStart, BlockHead, BlockFoot
<1>6. EndsOf(line0, "c", "h") /\ line0 \in Seq(Char)
  <2>1. w \in Seq(Char)
    <3>1. ASSUME NEW S, NEW e \in S, NEW m \in S, NEW f \in S, NEW y \in Seq(S)
          PROVE  <<e, e>> \o <<m>> \o y \o <<m>> \o <<f, f>> \in Seq(S)
      OBVIOUS
    <3>2. QED
      BY <1>1, <1>2, <3>1, Zenon DEF Opening, Closing
  <2> HIDE DEF w
  <2>2. QED
    BY <1>1, <2>1, LineEnds, Zenon DEF LineWith
<1> HIDE DEF x, w, line0
<1>7. s \in Seq(Char) /\ Len(s) = n /\ b \in Nat
  BY <1>3, BlockParts, LengthJoins, Zenon
<1>8. PICK lines, line, r :
        /\ ReadsTo(x, lines, line, r)
        /\ IF Unchanged(x, lines) THEN HasAll(x, line, r) ELSE HasLess(x, line, r)
  BY <1>3, KeepsUpAlways, Zenon DEF KeepsUp
<1>9. line = <<>>
  <2>1. line \in Seq(Inline) /\ (line # <<>> => Last(x) = Last(line))
    BY <1>8, Zenon DEF ReadsTo
  <2>2. line # <<>> => Last(line) \in Inline
    BY <2>1, LastIn, Zenon
  <2>3. QED
    BY <1>3, <2>1, <2>2, Zenon DEF Inline
<1>10. lines \in Seq(Seq(Inline)) /\ BetweenLines(r)
  BY <1>8, Zenon DEF ReadsTo
<1>11. PICK q : /\ Completed(q, r, BlockFoot) /\ q.done \in Seq(MadeMessages) /\ got = q.done
  BY <1>3, <1>8, <1>9, BlockHeard, Zenon
<1>12. Lines(x) = lines
  BY <1>3, <1>8, <1>9, BlockHeard, Zenon
<1>13. r.text \in Seq(Char) /\ r.done \in Seq(MadeMessages)
  BY <1>10, ListenerTyped, Zenon
<1>14. Unchanged(x, lines) <=> /\ \A u \in ToSet(Lines(x)) : ~ ClosesBlock(u)
                               /\ ~ Has(x, <<"\r", NL>>)
  <2>1. DOMAIN lines = 1 .. Len(lines)
    BY <1>10
  <2>2. Unclosed(lines) <=> \A u \in ToSet(lines) : ~ ClosesBlock(u)
    BY <2>1, Zenon DEF Unclosed, ToSet
  <2>3. QED
    BY <1>3, <1>12, <2>2, HasTwo, Zenon DEF Unchanged
<1>15. ReadWhole(whole) <=> Texts(got) = <<whole>>
  BY Zenon DEF ReadWhole, Texts
<1> HIDE DEF got, s
<1>16. ASSUME Unchanged(x, lines) PROVE Texts(got) = <<whole>>
  <2>1. r.done = <<>> /\ r.text \o line = s
    BY <1>8, <1>16, Zenon DEF HasAll, s
  <2>2. Joined(r.text, r.text, <<>>)
    BY <1>13, JoinsNothing, Zenon
  <2>3. r.text = s
    BY <1>9, <2>1, <2>2, Zenon DEF Joined
  <2>4. EndsOf(whole, "c", "h") /\ whole \in Seq(Char)
    BY <1>5, <1>6, Zenon
  <2> HIDE DEF whole
  <2>5. TrimSpace(whole) = whole
    BY <1>1, <2>4, TrimsNothing, Zenon DEF EndsOf
  <2>6. 1 \in Solid(whole)
    BY <1>1, <2>4, Zenon DEF EndsOf, Solid
  <2>7. r.text \o BlockFoot = whole
    BY <2>3, Zenon DEF whole
  <2>8. PICK m : m.text = whole /\ q.done = Append(<<>>, m)
    BY <1>11, <2>1, <2>5, <2>6, <2>7, Zenon DEF Completed
  <2>9. QED
    BY <1>11, <2>8, OneText, Zenon
<1>17. ASSUME ~ Unchanged(x, lines), Texts(got) = <<whole>> PROVE FALSE
  <2> DEFINE t == Len(r.text)
             e == <<>>
  <2>1. NoLonger(r, n) /\ t + Len(e) + 1 <= n
    BY <1>8, <1>9, <1>17, Zenon DEF HasLess
  <2>2. Len(e) = 0
    OBVIOUS
  <2> HIDE DEF e
  <2>3. t + 0 + 1 <= n
    BY <2>1, <2>2, Zenon
  <2>4. t \in Nat
    BY <1>13, LengthIn, Zenon
  <2>5. n \in Nat /\ n + 4 \in Nat /\ n <= n + 4 /\ t + 5 <= n + 4 /\ ~ (n + 5 <= n + 4)
    BY <1>3, <1>7, <2>3, <2>4, FootIsLonger, Zenon
  <2>6. NoLonger(r, n + 4)
    BY <1>13, <2>1, <2>5, LongerAllowed, Zenon
  <2>7. BlockFoot \in Seq(Char) /\ Len(BlockFoot) = 5
    BY BlockParts, InlineIsChar, Zenon
  <2>8. r.text \o BlockFoot \in Seq(Char) /\ Len(r.text \o BlockFoot) = t + 5
    BY <1>13, <2>7, LengthJoins, Zenon
  <2>9. NoLonger(q, n + 4)
    BY <1>11, <1>13, <2>5, <2>6, <2>8, CompletedNoLonger, Zenon
  <2>10. Len(whole) = n + 5
    <3>1. Len(whole) = Len(s) + Len(BlockFoot)
      BY <1>7, <2>7, LengthJoins, Zenon
    <3>2. QED
      BY <1>7, <2>7, <3>1, Zenon
  <2> HIDE DEF whole
  <2>11. 1 \in 1 .. Len(q.done) /\ q.done[1].text = whole
    BY <1>11, <1>17, NotOneText, Zenon
  <2>12. Len(whole) <= n + 4
    BY <2>9, <2>11, Zenon DEF NoLonger
  <2>13. QED
    BY <2>5, <2>10, <2>12, Zenon
<1>18. ReadWhole(line0) <=> Unchanged(x, lines)
  BY <1>5, <1>15, <1>16, <1>17, Zenon
<1>19. QED
  BY <1>4, <1>14, <1>18, Zenon DEF line0, x

-----------------------------------------------------------------------------
(* ValuesSurvive: a value that the hub writes on a line reads as what it   *)
(* was, if it is quoted and escaped, or is a block that no line of it      *)
(* closes, or needs no escapes.                                            *)
THEOREM ValuesSurviveCorrect == TextSpec => []ValuesSurvive
<1>1. ASSUME TextTypeOK PROVE ValuesSurvive
  <2>1. text \in Seq(STRING)
    BY <1>1 DEF TextTypeOK
  <2>2. QED
    BY <2>1, PairReads, BlockReads, TameReads, ArrayReads, Zenon DEF ValuesSurvive
<1>2. TextSpec => []TextTypeOK
  BY TextTyped
<1>3. QED
  BY <1>1, <1>2, PTL
=============================================================================
