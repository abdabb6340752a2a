----------------------------- MODULE Responses -----------------------------
(***************************************************************************)
(* The response table of the bus: bus/responses.go with the two calls that *)
(* drive it, Bus.Request and Bus.Response (bus/bus.go).                    *)
(*                                                                         *)
(* A request message is one member of Request.  The goroutine that carries *)
(* it (a node's listener, a pipe, Hyphae, the permission manager) runs     *)
(* responses.request, then api.request, then, if that failed,              *)
(* responses.cancel.  The goroutine that carries an answer runs            *)
(* responses.response.  Each of the table's methods runs under r.mu, so    *)
(* each is one step; api.request, which may prompt the user for minutes    *)
(* and launch a process, is the time spent in phase "routing".             *)
(*                                                                         *)
(* A table entry result{nodeid, expiresAt} is represented by the request   *)
(* that wrote it: nodeid is that request's actor and expiresAt its         *)
(* deadline.  Every deadline is the same ten seconds after acceptance, so  *)
(* requests expire in the order they were accepted.                        *)
(*                                                                         *)
(* That answers to a request come from its target only is an assumption    *)
(* about nodes: responses.response goes by the handle and does not look at *)
(* who sends it.                                                           *)
(***************************************************************************)
EXTENDS Naturals, Sequences, FiniteSets

CONSTANTS
    Node,        \* ids that may be registered on the bus
    Handle,      \* handles a request may carry
    Reserved,    \* handles that read as "n/a" to responses.response
    Request,     \* request messages
    HandlesOf,   \* the handles each request may have been given
    MaxAnswers,  \* bound: answers the target of one request sends
    NoRequest    \* no entry in the table

ASSUME ResponsesAssumption ==
    /\ NoRequest \notin Request
    /\ Reserved \subseteq Handle
    /\ HandlesOf \in [Request -> SUBSET Handle]
    /\ MaxAnswers \in Nat

VARIABLES
    nodes,      \* r.nodes: the registered ids
    responses,  \* r.responses: handle -> the request that wrote the entry
    held,       \* r.mu was left locked
    phase,      \* where the goroutine carrying each request is
    handle,     \* msg.Handle() of each request
    actor,      \* msg.Actor() of each request
    accepted,   \* the requests that entered the table, oldest first
    lapsed,     \* how many of them are past their deadline
    answered,   \* how many answers the target of each request has sent
    replies     \* the answers that consumed an entry: the request that had
                \* written it, and the request the sender was answering

vars == <<nodes, responses, held, phase, handle, actor, accepted, lapsed,
          answered, replies>>

\* An answer credited to one request, sent for one, handed out if the credited
\* request's node was still registered.
Reply == [credit : Request, for : Request, delivered : BOOLEAN]

TypeOK ==
    /\ nodes \in SUBSET Node
    /\ responses \in [Handle -> Request \cup {NoRequest}]
    /\ held \in BOOLEAN
    /\ phase \in [Request -> {"new", "refused", "routing", "routed", "failed"}]
    /\ handle \in [Request -> Handle]
    /\ actor \in [Request -> Node]
    /\ accepted \in Seq(Request)
    /\ lapsed \in 0 .. Len(accepted)
    /\ answered \in [Request -> 0 .. MaxAnswers]
    /\ replies \in Seq(Reply)

-----------------------------------------------------------------------------
(* Reading the table.                                                      *)

\* time.Now() is past the deadline of the entry r wrote.
Expired(r) == \E i \in 1 .. lapsed : accepted[i] = r

\* (A slip the properties rule out: a handle is always taken to be free.)
NeverInUse(h) == FALSE

\* The handle is taken: it has an entry, and the entry has not expired.
InUse(h) == responses[h] # NoRequest /\ ~ Expired(responses[h])

\* An answer has consumed the entry of r.
Credited(r) == \E i \in DOMAIN replies : replies[i].credit = r

\* The request is in the table's care: accepted, and not given up.
InFlight(r) == phase[r] \in {"routing", "routed"}

-----------------------------------------------------------------------------
(* The handles and actors of the messages are fixed from the start.        *)

Init ==
    /\ nodes = Node
    /\ responses = [h \in Handle |-> NoRequest]
    /\ held = FALSE
    /\ phase = [r \in Request |-> "new"]
    /\ handle \in {f \in [Request -> Handle] : \A r \in Request : f[r] \in HandlesOf[r]}
    /\ actor \in [Request -> Node]
    /\ accepted = << >>
    /\ lapsed = 0
    /\ answered = [r \in Request |-> 0]
    /\ replies = << >>

Register(n) ==
    /\ ~ held
    /\ nodes' = nodes \cup {n}
    /\ UNCHANGED <<responses, held, phase, handle, actor, accepted, lapsed,
                   answered, replies>>

Unregister(n) ==
    /\ ~ held
    /\ nodes' = nodes \ {n}
    /\ UNCHANGED <<responses, held, phase, handle, actor, accepted, lapsed,
                   answered, replies>>

\* responses.request of a handle with a live entry: HandleInUse.
Refuse(r) ==
    /\ phase[r] = "new"
    /\ ~ held
    /\ InUse(handle[r])
    /\ phase' = [phase EXCEPT ![r] = "refused"]
    /\ UNCHANGED <<nodes, responses, held, handle, actor, accepted, lapsed,
                   answered, replies>>

\* (A slip: accepting a request also purges the expired entries.)
AcceptAndPurge(r) ==
    /\ phase[r] = "new"
    /\ ~ held
    /\ ~ InUse(handle[r])
    /\ responses' = [h \in Handle |->
                        IF h = handle[r] THEN r
                        ELSE IF InUse(h) THEN responses[h] ELSE NoRequest]
    /\ phase' = [phase EXCEPT ![r] = "routing"]
    /\ accepted' = Append(accepted, r)
    /\ UNCHANGED <<nodes, held, handle, actor, lapsed, answered, replies>>

\* responses.request of a free or expired handle: the entry is (over)written.
Accept(r) ==
    /\ phase[r] = "new"
    /\ ~ held
    /\ ~ InUse(handle[r])
    /\ responses' = [responses EXCEPT ![handle[r]] = r]
    /\ phase' = [phase EXCEPT ![r] = "routing"]
    /\ accepted' = Append(accepted, r)
    /\ UNCHANGED <<nodes, held, handle, actor, lapsed, answered, replies>>

\* api.request succeeds: the target holds the request.  No table access.
Route(r) ==
    /\ phase[r] = "routing"
    /\ phase' = [phase EXCEPT ![r] = "routed"]
    /\ UNCHANGED <<nodes, responses, held, handle, actor, accepted, lapsed,
                   answered, replies>>

\* api.request fails: Bus.Request cancels by handle, whoever's entry is there.
Cancel(r) ==
    /\ phase[r] = "routing"
    /\ ~ held
    /\ responses' = [responses EXCEPT ![handle[r]] = NoRequest]
    /\ phase' = [phase EXCEPT ![r] = "failed"]
    /\ UNCHANGED <<nodes, held, handle, actor, accepted, lapsed, answered,
                   replies>>

\* The target of r answers, and nobody else does; it may answer more than once.
Answers(r) ==
    /\ phase[r] = "routed"
    /\ answered[r] < MaxAnswers
    /\ ~ held
    /\ answered' = [answered EXCEPT ![r] = @ + 1]

\* responses.response of the handle "n/a" returns with r.mu locked.
RespondReserved(r) ==
    /\ Answers(r)
    /\ handle[r] \in Reserved
    /\ held' = TRUE
    /\ UNCHANGED <<nodes, responses, phase, handle, actor, accepted, lapsed,
                   replies>>

\* responses.response of a handle without an entry: "handle not mapped".
RespondUnmapped(r) ==
    /\ Answers(r)
    /\ handle[r] \notin Reserved
    /\ responses[handle[r]] = NoRequest
    /\ UNCHANGED <<nodes, responses, held, phase, handle, actor, accepted,
                   lapsed, replies>>

\* (Slips: the entry outlives its answer; the answer goes to the request that
\* entered the table last.)
RespondKeepingEntry(r) ==
    LET credit == responses[handle[r]]
    IN  /\ Answers(r)
        /\ handle[r] \notin Reserved
        /\ credit # NoRequest
        /\ replies' = Append(replies,
                             [credit |-> credit, for |-> r,
                              delivered |-> actor[credit] \in nodes])
        /\ UNCHANGED <<nodes, responses, held, phase, handle, actor, accepted,
                       lapsed>>
RespondToLast(r) ==
    LET credit == accepted[Len(accepted)]
    IN  /\ Answers(r)
        /\ handle[r] \notin Reserved
        /\ responses[handle[r]] # NoRequest
        /\ responses' = [responses EXCEPT ![handle[r]] = NoRequest]
        /\ replies' = Append(replies,
                             [credit |-> credit, for |-> r,
                              delivered |-> actor[credit] \in nodes])
        /\ UNCHANGED <<nodes, held, phase, handle, actor, accepted, lapsed>>

\* responses.response: the entry is deleted, expired or not, and the answer
\* goes to the entry's node, if that is still registered.
Respond(r) ==
    LET credit == responses[handle[r]]
    IN  /\ Answers(r)
        /\ handle[r] \notin Reserved
        /\ credit # NoRequest
        /\ responses' = [responses EXCEPT ![handle[r]] = NoRequest]
        /\ replies' = Append(replies,
                             [credit |-> credit, for |-> r,
                              delivered |-> actor[credit] \in nodes])
        /\ UNCHANGED <<nodes, held, phase, handle, actor, accepted, lapsed>>

\* Ten seconds have passed since the oldest unexpired acceptance.
Lapse ==
    /\ lapsed < Len(accepted)
    /\ lapsed' = lapsed + 1
    /\ UNCHANGED <<nodes, responses, held, phase, handle, actor, accepted,
                   answered, replies>>

Next ==
    \/ \E n \in Node : Register(n) \/ Unregister(n)
    \/ \E r \in Request :
          \/ Refuse(r)
          \/ Accept(r)
          \/ Route(r)
          \/ Cancel(r)
          \/ RespondReserved(r)
          \/ RespondUnmapped(r)
          \/ Respond(r)
    \/ Lapse

Spec == Init /\ [][Next]_vars

-----------------------------------------------------------------------------
(* What the table promises whatever handles the nodes choose.              *)

(* A request is never answered twice, however many answers its target (or  *)
(* the target of another request with its handle) sends: response deletes  *)
(* the entry under the lock before the answer is handed to the node.       *)
AnsweredOnce ==
    \A i, j \in DOMAIN replies :
        replies[i].credit = replies[j].credit => i = j

(* A request that is in flight, unanswered and within its ten seconds owns *)
(* its handle, so its target's answer will find it.  It can lose it in one *)
(* way: a request with the same handle outlived its own entry (in a        *)
(* prompt, say), failed only then, and cancelled by handle; a request that *)
(* lost its entry so may in turn cancel the entry of the next.             *)
OwnsHandle ==
    \A r \in Request :
        InFlight(r) /\ ~ Expired(r) /\ ~ Credited(r) =>
            \/ responses[handle[r]] = r
            \/ \E s \in Request \ {r} :
                  /\ handle[s] = handle[r]
                  /\ phase[s] = "failed"
                  /\ Expired(s) \/ Credited(s)

-----------------------------------------------------------------------------
(* What it promises a request whose handle no other request may carry, as  *)
(* the counters of the pipes, Hyphae, Nodes and the permission manager     *)
(* ensure for theirs, whatever the nodes do with the other handles.        *)

Own ==
    {r \in Request :
        \A s \in Request \ {r} : HandlesOf[r] \cap HandlesOf[s] = {}}

(* Such a request is credited with exactly the answers sent for it, though *)
(* response looks at nothing but the handle.                               *)
ReplyMatches ==
    \A i \in DOMAIN replies :
        {replies[i].credit, replies[i].for} \cap Own # {} =>
            replies[i].credit = replies[i].for

(* Until its target answers, such a request in flight keeps its entry:     *)
(* even an answer that comes after the deadline finds its way back, and no *)
(* late cancellation takes the entry away.                                 *)
LateReplyFindsEntry ==
    \A r \in Own :
        InFlight(r) /\ ~ Credited(r) => responses[handle[r]] = r

(* The goroutine that carried such a request never reports an error for it *)
(* once an answer was handed out, nor does an answer follow the error.     *)
ReplyOrError == \A r \in Own : phase[r] = "failed" => ~ Credited(r)

(* Seen from its sender, such a request is an exchange that ends at most   *)
(* once.                                                                   *)
Status ==
    [r \in Own |->
        IF Credited(r) THEN "answered"
        ELSE IF InFlight(r) THEN "open" ELSE phase[r]]

Abstract == INSTANCE Exchange WITH Request <- Own, status <- Status

(* The table implements the exchange: an answer or an error ends it, and   *)
(* nothing happens to it afterwards.                                       *)
ExchangeSpec == Abstract!Spec
=============================================================================
