------------------------------- MODULE Topics -------------------------------
(***************************************************************************)
(* Topics: who announces them and who is subscribed to them                *)
(* (bus/broadcast.go with its index of abbreviations, Abbreviations.tla),  *)
(* the requests that change subscriptions (spore/topic.go), and the way of *)
(* a publication from its node's listener (nodes/node.go) or a stage of a  *)
(* pipe (bus/pipe.go) to the subscribers.                                  *)
(*                                                                         *)
(* A manifest announces one topic here and does not change (Routing.tla    *)
(* has the index with manifests that do).  Each method of broadcast holds  *)
(* b.mu from end to end, but for the delivery of a publication, which      *)
(* works on a list that was made under the lock.  SPORE serves each        *)
(* request in a goroutine of its own, so two requests of a node may take   *)
(* effect in either order.                                                 *)
(***************************************************************************)
EXTENDS Abbreviations, Sequences

Seqs == INSTANCE SequencesExt

CONSTANTS
    Announcer,      \* nodes whose manifest announces a topic
    Topic,          \* the full name of the topic of each
    Ends,           \* the dot-suffixes of each key, which are keys
    Short,          \* topic.Name: the name without the node's id
    Client,         \* nodes that subscribe
    Uses,           \* the keys that each writes in its requests
    Patient,        \* those that wait for an answer before they ask again
    Grants,         \* allowances of each client
    Benign,         \* m.benignTopics, which holds names without the node's id
    Staying,        \* clients that announce nothing, and are there all the time
    Job,            \* goroutines serving topic.subscribe and topic.unsubscribe
    Publisher,      \* the announcer whose publications are followed
    Piped,          \* those that are stages of pipes, each in a goroutine
    MaxClaims,      \* bound: occurrences of a name in a list of contenders
    MaxEntries,     \* bound: entries of one topic
    MaxPublications \* bound: publications of the publisher

ASSUME TopicsAssumption ==
    /\ None \notin Name /\ None \notin Client
    /\ Ends \in [Key -> SUBSET Key]
    /\ \A f \in Name : f \in Key /\ KeysOf[f] = Ends[f]
    /\ \A k \in Key : \A e \in Ends[k] : Ends[e] \subseteq Ends[k]
    /\ Topic \in [Announcer -> Name]
    /\ \A m, n \in Announcer : Topic[m] = Topic[n] => m = n
    /\ Short \in [Name -> Key] /\ \A f \in Name : Short[f] \in KeysOf[f]
    /\ Uses \in [Client -> SUBSET Key] /\ Grants \in [Client -> SUBSET Key]
    /\ Patient \subseteq Client /\ Staying \subseteq Client \ Announcer
    /\ Publisher \in Announcer /\ MaxPublications \in Nat
    /\ Piped \subseteq 1 .. MaxPublications

VARIABLES
    nodes,         \* b.nodes
    subscriptions, \* b.subscriptions: name -> subscribers, in order
    job,           \* where each goroutine is
    books,         \* what each patient client is subscribed to, by its answers
    publication    \* where each publication is

index == <<abbreviations, collisions>>
clients == <<subscriptions, job, books>>
topicsVars == <<nodes, index, clients, publication>>

Publication == 1 .. MaxPublications
NoJob == [op |-> "none", client |-> None, key |-> None]
Unsent == [at |-> "none", meant |-> None, steady |-> FALSE, left |-> 0]
Sent == [Unsent EXCEPT !.at = "sent"]

TopicsTypeOK ==
    /\ nodes \in SUBSET (Announcer \cup Client)
    /\ abbreviations \in [Key -> Name \cup {None}]
    /\ collisions \in [Key -> [Name -> Nat]]
    /\ subscriptions \in [Name -> Seq(Client)]
    /\ job \in [Job -> [op : {"none", "subscribe", "permitted", "subscribed",
                              "unsubscribe", "unsubscribed"},
                        client : Client \cup {None}, key : Key \cup {None}]]
    /\ books \in [Patient -> [Key -> Nat]]
    /\ publication \in [Publication ->
          [at : {"none", "checked", "delivering", "sent"},
           meant : Name \cup {None}, steady : BOOLEAN, left : Nat]]

-----------------------------------------------------------------------------
TopicsInit ==
    /\ nodes = Staying
    /\ abbreviations = [k \in Key |-> None]
    /\ collisions = [k \in Key |-> Nobody]
    /\ subscriptions = [f \in Name |-> <<>>]
    /\ job = [j \in Job |-> NoJob]
    /\ books = [c \in Patient |-> [k \in Key |-> 0]]
    /\ publication = [i \in Publication |-> Unsent]

-----------------------------------------------------------------------------
(* The bus, at each connection and at the end of a node.                   *)

Register(n) ==
    /\ \A k \in Key, f \in Name : collisions[k][f] < MaxClaims
    /\ nodes' = nodes \cup {n}
    /\ IF n \in Announcer THEN Add(Topic[n]) ELSE UNCHANGED index
    /\ UNCHANGED <<clients, publication>>

\* The publications that n had registered for are no longer steady.
Unsettle(n) ==
    publication' = IF n = Publisher
                   THEN [i \in Publication |-> [publication[i] EXCEPT !.steady = FALSE]]
                   ELSE publication

\* What the node is subscribed to, and who is subscribed to it, stays.
Unregister(n) ==
    /\ n \in nodes \ Staying
    /\ nodes' = nodes \ {n}
    /\ IF n \in Announcer THEN Remove(Topic[n]) ELSE UNCHANGED index
    /\ Unsettle(n)
    /\ UNCHANGED clients

-----------------------------------------------------------------------------
(* topicSubscribe and topicUnsubscribe, each in a goroutine.               *)

Asks(j, c, op, k) ==
    /\ job[j] = NoJob
    /\ c \in nodes
    /\ c \in Patient => \A i \in Job : job[i].client # c
    /\ job' = [job EXCEPT ![j] = [op |-> op, client |-> c, key |-> k]]
    /\ UNCHANGED <<nodes, index, subscriptions, books, publication>>

\* (A slip: it is enough that both end alike.)
CanIfAlike(c, k) ==
    k \in Benign \/ \E g \in Grants[c] : Ends[g] \cap Ends[k] # {}

\* permissions.Can of the key as it was written, and not of what it means; an
\* allowance covers the keys that end with it.  (System nodes and permits are
\* in Permissions.tla.)
Can(c, k) == k \in Benign \/ \E g \in Grants[c] : g \in Ends[k]

Answered(j) == job' = [job EXCEPT ![j] = NoJob]

Check(j) ==
    /\ job[j].op = "subscribe"
    /\ IF Can(job[j].client, job[j].key)
       THEN job' = [job EXCEPT ![j].op = "permitted"]
       ELSE Answered(j)
    /\ UNCHANGED <<nodes, index, subscriptions, books, publication>>

\* An error leaves everything as it was.
Refused(j) ==
    /\ job[j].op \in {"permitted", "unsubscribe"}
    /\ Resolve(job[j].key) = None
    /\ Answered(j)
    /\ UNCHANGED <<nodes, index, subscriptions, books, publication>>

\* bus.Subscribe: one more entry, also for a node that has one.
Subscribe(j) ==
    LET f == Resolve(job[j].key)
    IN  /\ job[j].op = "permitted"
        /\ f # None
        /\ Len(subscriptions[f]) < MaxEntries
        /\ subscriptions' = [subscriptions EXCEPT ![f] = Append(@, job[j].client)]
        /\ job' = [job EXCEPT ![j].op = "subscribed"]
        /\ UNCHANGED <<nodes, index, books, publication>>

\* (A slip: the last entry goes, whose ever it is.)
WithoutLast(s, c) == Seqs!Front(s)

FirstEntry(s, c) ==
    CHOOSE i \in DOMAIN s : s[i] = c /\ \A e \in 1 .. i - 1 : s[e] # c
WithoutOne(s, c) ==
    IF c \in Seqs!ToSet(s) THEN Seqs!RemoveAt(s, FirstEntry(s, c)) ELSE s

\* bus.Unsubscribe: the first entry goes, and none is no error.
Unsubscribe(j) ==
    LET f == Resolve(job[j].key)
    IN  /\ job[j].op = "unsubscribe"
        /\ f # None
        /\ subscriptions' = [subscriptions EXCEPT ![f] = WithoutOne(@, job[j].client)]
        /\ job' = [job EXCEPT ![j].op = "unsubscribed"]
        /\ UNCHANGED <<nodes, index, books, publication>>

\* The answer, by which a client that waits for it counts.
Tell(j) ==
    LET c == job[j].client
        k == job[j].key
    IN  /\ job[j].op \in {"subscribed", "unsubscribed"}
        /\ books' = IF c \notin Patient THEN books
                    ELSE [books EXCEPT ![c][k] = IF job[j].op = "subscribed" THEN @ + 1
                                                 ELSE IF @ > 0 THEN @ - 1 ELSE 0]
        /\ Answered(j)
        /\ UNCHANGED <<nodes, index, subscriptions, publication>>

-----------------------------------------------------------------------------
(* A publication of the publisher, in its listener or in a pipe.           *)

\* The listener comes to a message when it is done with the one before; a pipe
\* is in a goroutine of its own, and comes to its stage whenever it does.
Ready(i) ==
    i \in Piped \/ \A d \in Publication \ Piped : d < i => publication[d].at = "sent"

Go(i, to) == publication' = [publication EXCEPT ![i] = to]

\* The name that is published must be that of a topic in the manifest, without
\* the node's id; others are refused, here and in a pipe.  (`steady' tells
\* whether the publisher has been registered ever since.)
Publish(i) ==
    /\ publication[i] = Unsent
    /\ Ready(i)
    /\ Go(i, [Unsent EXCEPT !.at = "checked", !.steady = (Publisher \in nodes)])
    /\ UNCHANGED <<nodes, index, clients>>

\* What is to be done yet of a publication of f, if only for `left' of those
\* who were subscribed and registered.
Yet(i, f, left) ==
    IF left = 0 THEN Sent
    ELSE [publication[i] EXCEPT !.at = "delivering", !.meant = f, !.left = left]

Reached(f) == {e \in DOMAIN subscriptions[f] : subscriptions[f][e] \in nodes}

\* bus.Broadcast up to the end of its lock.  Of a topic that is ambiguous or
\* unknown nobody gets anything.
Broadcast(i) ==
    LET f == Resolve(Short[Topic[Publisher]])
    IN  /\ publication[i].at = "checked"
        /\ Go(i, IF f = None THEN Sent ELSE Yet(i, f, Cardinality(Reached(f))))
        /\ UNCHANGED <<nodes, index, clients>>

\* node.Receive of one subscriber after the other, whether it fails or not.
Deliver(i) ==
    /\ publication[i].at = "delivering"
    /\ Go(i, Yet(i, publication[i].meant, publication[i].left - 1))
    /\ UNCHANGED <<nodes, index, clients>>

-----------------------------------------------------------------------------
Serves(j) == Check(j) \/ Refused(j) \/ Subscribe(j) \/ Unsubscribe(j) \/ Tell(j)
Publishes(i) == Publish(i) \/ Broadcast(i) \/ Deliver(i)

TopicsNext ==
    \/ \E n \in Announcer \cup Client : Register(n) \/ Unregister(n)
    \/ \E j \in Job, c \in Client, op \in {"subscribe", "unsubscribe"} :
          \E k \in Uses[c] : Asks(j, c, op, k)
    \/ \E j \in Job : Serves(j)
    \/ \E i \in Publication : Publishes(i)

-----------------------------------------------------------------------------
\* c writes full names that no longer name ends with.
Exact(c) ==
    \A k \in Uses[c] : k \in Name /\ \A f \in Name \ {k} : k \notin KeysOf[f]
Entries(c, f) == Cardinality({e \in DOMAIN subscriptions[f] : subscriptions[f][e] = c})
Waits(c) == \E j \in Job : job[j].client = c

(* The table has as many entries of a node as the answers it was given     *)
(* add up to, whoever else comes, goes, subscribes or leaves, as long as   *)
(* the node waits for its answers and uses full names.                     *)
CopiesAsSubscribed ==
    \A c \in Patient : Exact(c) /\ ~ Waits(c) =>
        \A k \in Uses[c] : Entries(c, k) = books[c][k]

(* What a node is subscribed to is covered by an allowance of its own, or  *)
(* by a benign topic, although the permission is checked of a key, and the *)
(* key may come to mean another topic before the subscription.             *)
SubscribedWithinGrant ==
    \A f \in Name : \A c \in Seqs!ToSet(subscriptions[f]) :
        \/ Grants[c] \cap KeysOf[f] # {}
        \/ Benign \cap KeysOf[f] # {}

(* A publication by a node that has been registered since before it was    *)
(* checked goes to the subscribers of its own topic, or to nobody,         *)
(* whichever other nodes announce the same name, and wherever the node's   *)
(* other publications are.                                                 *)
OwnTopicOnly ==
    /\ TopicsTypeOK
    /\ \A i \in Publication :
          publication[i].at = "delivering" /\ publication[i].steady
              => publication[i].meant = Topic[Publisher]
=============================================================================
