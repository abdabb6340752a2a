---------------------------- MODULE FanoutProofs ----------------------------
(***************************************************************************)
(* What subscribers and witnesses get, for any number of announcers,       *)
(* clients, witnesses, goroutines, publications and messages.              *)
(***************************************************************************)
EXTENDS Fanout, AbbreviationsProofs, FiniteSetTheorems, WellFoundedInduction,
        SequenceTheorems, FunctionTheorems

-----------------------------------------------------------------------------
(* Lists with one entry more or less.                                      *)

\* A set of numbers has a least one.
LEMMA Least ==
    ASSUME NEW S \in SUBSET Nat, S # {}
    PROVE  \E i \in S : \A e \in S : i <= e
<1> DEFINE R == {ss \in Nat \X Nat : ss[1] < ss[2]}
<1>1. OpToRel(<, Nat) = R
  BY Zenon DEF OpToRel
<1>2. IsWellFoundedOn(R, Nat)
  BY <1>1, NatLessThanWellFounded, Zenon
<1>3. \A a, b \in Nat : a < b => <<a, b>> \in R
  OBVIOUS
<1> HIDE DEF R
<1>4. \E i \in S : \A e \in S : ~ (<<e, i>> \in R)
  BY <1>2, WFMin, Zenon
<1>5. \E i \in S : \A e \in S : ~ (e < i)
  BY <1>3, <1>4, Zenon
<1>6. QED
  BY <1>5

Positions(s, c) == {e \in DOMAIN s : s[e] = c}
Count(s, c) == Cardinality(Positions(s, c))

\* The entries of a list can be counted.
LEMMA CountType ==
    ASSUME NEW s \in Seq(Client), NEW c
    PROVE  /\ IsFiniteSet(Positions(s, c))
           /\ Count(s, c) \in Nat
           /\ Count(s, c) = 0 <=> \A e \in DOMAIN s : s[e] # c
<1>1. DOMAIN s = 1 .. Len(s) /\ Len(s) \in Nat
  OBVIOUS
<1>2. IsFiniteSet(1 .. Len(s))
  BY <1>1, FS_Interval
<1>3. Positions(s, c) \in SUBSET (1 .. Len(s))
  BY <1>1 DEF Positions
<1>4. IsFiniteSet(Positions(s, c))
  BY <1>2, <1>3, FS_Subset
<1>5. Count(s, c) = 0 <=> Positions(s, c) = {}
  BY <1>4, FS_EmptySet DEF Count
<1>6. QED
  BY <1>4, <1>5, FS_CardinalityType DEF Count, Positions

\* One entry more.
LEMMA AppendCounts ==
    ASSUME NEW s \in Seq(Client), NEW d \in Client, NEW c
    PROVE  Count(Append(s, d), c) = IF c = d THEN Count(s, c) + 1 ELSE Count(s, c)
<1> DEFINE t == Append(s, d)
           n == Len(s) + 1
<1>1. /\ t \in Seq(Client) /\ DOMAIN t = DOMAIN s \cup {n} /\ n \notin DOMAIN s
      /\ t[n] = d /\ \A e \in DOMAIN s : t[e] = s[e]
  <2>1. DOMAIN s = 1 .. Len(s) /\ Len(s) \in Nat
    BY LenProperties
  <2>2. /\ t \in Seq(Client) /\ Len(t) = n /\ t[n] = d
        /\ \A e \in 1 .. Len(s) : t[e] = s[e]
    BY AppendProperties
  <2>3. DOMAIN t = 1 .. n
    BY <2>2, LenProperties
  <2> HIDE DEF t
  <2>4. QED
    BY <2>1, <2>2, <2>3
<1> HIDE DEF t, n
<1>2. CASE c = d
  <2>1. Positions(t, c) = Positions(s, c) \cup {n} /\ n \notin Positions(s, c)
    BY <1>1, <1>2 DEF Positions
  <2>2. IsFiniteSet(Positions(s, c)) /\ Count(s, c) \in Nat
    BY CountType
  <2>3. Cardinality(Positions(s, c) \cup {n}) = Cardinality(Positions(s, c)) + 1
    BY <2>1, <2>2, FS_AddElement
  <2>4. Count(t, c) = Count(s, c) + 1
    BY <2>1, <2>3 DEF Count
  <2>5. QED
    BY <1>2, <2>4 DEF t
<1>3. CASE c # d
  <2>1. Positions(t, c) = Positions(s, c)
    BY <1>1, <1>3 DEF Positions
  <2>2. QED
    BY <1>3, <2>1 DEF Count, t
<1>4. QED
  BY <1>2, <1>3

\* What is at each place after one entry was removed.
LEMMA RemovedAt ==
    ASSUME NEW s \in Seq(Client), NEW i \in DOMAIN s
    PROVE  LET t == Seqs!RemoveAt(s, i)
           IN  /\ t \in Seq(Client) /\ Len(t) = Len(s) - 1
               /\ \A e \in DOMAIN t : t[e] = IF e < i THEN s[e] ELSE s[e + 1]
<1> DEFINE u == SubSeq(s, 1, i - 1)
           v == SubSeq(s, i + 1, Len(s))
<1>1. /\ i \in 1 .. Len(s) /\ Len(s) \in Nat /\ i \in Nat
      /\ \A e \in 1 .. Len(s) : s[e] \in Client
  OBVIOUS
<1>2. /\ u \in Seq(Client) /\ Len(u) = i - 1
      /\ \A e \in 1 .. i - 1 : u[e] = s[e]
  BY <1>1, SubSeqProperties
<1>3. /\ v \in Seq(Client) /\ Len(v) = Len(s) - i
      /\ \A e \in 1 .. Len(s) - i : v[e] = s[i + e]
  <2>1. /\ v \in Seq(Client)
        /\ Len(v) = IF i + 1 <= Len(s) THEN Len(s) - (i + 1) + 1 ELSE 0
        /\ \A e \in 1 .. Len(s) - (i + 1) + 1 : v[e] = s[(i + 1) + e - 1]
    <3>1. \A e \in i + 1 .. Len(s) : s[e] \in Client
      BY <1>1
    <3>2. i + 1 \in Int /\ Len(s) \in Int
      BY <1>1
    <3>3. QED
      BY <3>1, <3>2, SubSeqProperties
  <2>2. \A e \in 1 .. Len(s) - i : (i + 1) + e - 1 = i + e
    BY <1>1
  <2>3. Len(s) - (i + 1) + 1 = Len(s) - i
    BY <1>1
  <2>4. QED
    BY <1>1, <2>1, <2>2, <2>3
<1> HIDE DEF u, v
<1>4. /\ u \o v \in Seq(Client) /\ Len(u \o v) = Len(u) + Len(v)
      /\ \A e \in 1 .. Len(u) + Len(v) :
            (u \o v)[e] = IF e <= Len(u) THEN u[e] ELSE v[e - Len(u)]
  BY <1>2, <1>3, ConcatProperties
<1>5. ASSUME NEW e \in 1 .. Len(s) - 1
      PROVE  (u \o v)[e] = IF e < i THEN s[e] ELSE s[e + 1]
  <2>1. CASE e < i
    <3>1. e \in 1 .. i - 1 /\ e <= Len(u) /\ e \in 1 .. Len(u) + Len(v)
      BY <1>1, <1>2, <1>3, <2>1
    <3>2. (u \o v)[e] = u[e] /\ u[e] = s[e]
      BY <1>2, <1>4, <3>1
    <3>3. QED
      BY <2>1, <3>2
  <2>2. CASE ~ (e < i)
    <3>1. e - (i - 1) \in 1 .. Len(s) - i /\ i + (e - (i - 1)) = e + 1
      BY <1>1, <2>2
    <3>2. e \in 1 .. Len(u) + Len(v) /\ ~ (e <= Len(u)) /\ Len(u) = i - 1
      BY <1>1, <1>2, <1>3, <2>2
    <3>3. (u \o v)[e] = v[e - Len(u)]
      BY <1>4, <3>2
    <3>4. v[e - (i - 1)] = s[i + (e - (i - 1))]
      BY <1>3, <3>1
    <3>5. (u \o v)[e] = s[e + 1]
      BY <3>1, <3>2, <3>3, <3>4
    <3>6. QED
      BY <2>2, <3>5
  <2>3. QED
    BY <2>1, <2>2
<1>6. Seqs!RemoveAt(s, i) = u \o v
  BY DEF Seqs!RemoveAt, u, v
<1>7. DOMAIN (u \o v) = 1 .. Len(s) - 1 /\ Len(u \o v) = Len(s) - 1
  BY <1>1, <1>2, <1>3, <1>4
<1>8. ASSUME NEW e \in DOMAIN (u \o v)
      PROVE  (u \o v)[e] = IF e < i THEN s[e] ELSE s[e + 1]
  BY <1>5, <1>7
<1>9. QED
  BY <1>4, <1>6, <1>7, <1>8

\* One entry less.
LEMMA RemoveCounts ==
    ASSUME NEW s \in Seq(Client), NEW i \in DOMAIN s, NEW c
    PROVE  Count(Seqs!RemoveAt(s, i), c) =
              IF c = s[i] THEN Count(s, c) - 1 ELSE Count(s, c)
<1> DEFINE t == Seqs!RemoveAt(s, i)
           P == Positions(s, c) \ {i}
           Q == Positions(t, c)
           F == [e \in P |-> IF e < i THEN e ELSE e - 1]
<1>1. /\ i \in 1 .. Len(s) /\ DOMAIN s = 1 .. Len(s)
      /\ Len(s) \in Nat /\ i \in Nat
  OBVIOUS
<1>2. /\ DOMAIN t = 1 .. Len(s) - 1
      /\ \A e \in 1 .. Len(s) - 1 : t[e] = IF e < i THEN s[e] ELSE s[e + 1]
  BY <1>1, RemovedAt
<1> HIDE DEF t
<1>3. ASSUME NEW e \in P
      PROVE  F[e] \in Q
  <2>1. e \in 1 .. Len(s) /\ e # i /\ s[e] = c
    BY <1>1 DEF Positions
  <2>2. F[e] = IF e < i THEN e ELSE e - 1
    OBVIOUS
  <2>3. F[e] \in 1 .. Len(s) - 1 /\ t[F[e]] = c
    BY <1>1, <1>2, <2>1, <2>2
  <2>4. QED
    BY <1>2, <2>3 DEF Positions
<1>4. \A e, g \in P : F[e] = F[g] => e = g
  BY <1>1 DEF Positions
<1>5. ASSUME NEW q \in Q
      PROVE  \E e \in P : F[e] = q
  <2>1. q \in 1 .. Len(s) - 1 /\ t[q] = c
    BY <1>2 DEF Positions
  <2>2. CASE q < i
    <3>1. q \in P
      BY <1>1, <1>2, <2>1, <2>2 DEF Positions
    <3>2. QED
      BY <2>2, <3>1
  <2>3. CASE ~ (q < i)
    <3>1. q + 1 \in P
      BY <1>1, <1>2, <2>1, <2>3 DEF Positions
    <3>2. F[q + 1] = q
      BY <1>1, <2>1, <2>3, <3>1
    <3>3. QED
      BY <3>1, <3>2
  <2>4. QED
    BY <2>2, <2>3
<1>6. F \in [P -> Q]
  BY <1>3
<1> HIDE DEF F
<1>7. F \in Bijection(P, Q)
  BY <1>4, <1>5, <1>6, Fun_IsBij
<1>8. ExistsBijection(P, Q)
  BY <1>7, Fun_ExistsBij
<1> HIDE DEF Q
<1>9. /\ IsFiniteSet(Positions(s, c))
      /\ IsFiniteSet(P)
      /\ Cardinality(P) = IF i \in Positions(s, c)
                          THEN Cardinality(Positions(s, c)) - 1
                          ELSE Cardinality(Positions(s, c))
  BY CountType, FS_RemoveElement
<1> HIDE DEF P
<1>10. Cardinality(Q) = Cardinality(P)
  BY <1>8, <1>9, FS_Bijection
<1>11. i \in Positions(s, c) <=> c = s[i]
  BY DEF Positions
<1>12. QED
  BY <1>9, <1>10, <1>11 DEF Count, Q, t

\* The loop of unsubscribe finds the first entry, if there is one.
LEMMA FirstEntryFound ==
    ASSUME NEW s \in Seq(Client), NEW c \in Seqs!ToSet(s)
    PROVE  FirstEntry(s, c) \in DOMAIN s /\ s[FirstEntry(s, c)] = c
<1> DEFINE S == {e \in DOMAIN s : s[e] = c}
<1>1. S \in SUBSET Nat /\ S # {}
  BY DEF Seqs!ToSet
<1>2. PICK i \in S : \A e \in S : i <= e
  BY <1>1, Least
<1>3. \A e \in 1 .. i - 1 : s[e] # c
  BY <1>1, <1>2
<1>4. QED
  BY <1>2, <1>3 DEF FirstEntry

\* What unsubscribe leaves of a list.
LEMMA WithoutOneCounts ==
    ASSUME NEW s \in Seq(Client), NEW d \in Client
    PROVE  /\ WithoutOne(s, d) \in Seq(Client)
           /\ Seqs!ToSet(WithoutOne(s, d)) \subseteq Seqs!ToSet(s)
           /\ \A c \in Client : Count(WithoutOne(s, d), c) =
                 IF c = d /\ Count(s, c) > 0 THEN Count(s, c) - 1 ELSE Count(s, c)
<1>1. CASE d \notin Seqs!ToSet(s)
  <2>1. Count(s, d) = 0
    BY <1>1, CountType DEF Seqs!ToSet
  <2>2. QED
    BY <1>1, <2>1 DEF WithoutOne
<1>2. CASE d \in Seqs!ToSet(s)
  <2> DEFINE i == FirstEntry(s, d)
             t == Seqs!RemoveAt(s, i)
  <2>1. i \in DOMAIN s /\ s[i] = d
    BY <1>2, FirstEntryFound
  <2> HIDE DEF i
  <2>2. WithoutOne(s, d) = t
    BY <1>2 DEF WithoutOne, i
  <2>3. /\ t \in Seq(Client) /\ Len(t) = Len(s) - 1
        /\ \A e \in DOMAIN t : t[e] = IF e < i THEN s[e] ELSE s[e + 1]
    BY <2>1, RemovedAt
  <2>4. \A c \in Client : Count(t, c) = IF c = s[i] THEN Count(s, c) - 1 ELSE Count(s, c)
    BY <2>1, RemoveCounts
  <2> HIDE DEF t
  <2>5. Seqs!ToSet(t) \subseteq Seqs!ToSet(s)
    <3>1. ASSUME NEW e \in DOMAIN t PROVE t[e] \in Seqs!ToSet(s)
      <4>1. e \in DOMAIN s /\ e + 1 \in DOMAIN s
        BY <2>3
      <4>2. QED
        BY <2>3, <4>1 DEF Seqs!ToSet
    <3>2. QED
      BY <3>1 DEF Seqs!ToSet
  <2>6. Count(s, d) # 0 /\ Count(s, d) \in Nat
    BY <2>1, CountType
  <2>7. QED
    BY <2>1, <2>2, <2>3, <2>4, <2>5, <2>6
<1>3. QED
  BY <1>1, <1>2

-----------------------------------------------------------------------------
(* Subscriptions and publications.                                         *)

\* The index of topics claims those of the registered announcers.
TopicsExact ==
    \A k \in Key : Claimants(k) =
        {f \in Name : k \in KeysOf[f] /\ \E n \in Announcer \cap nodes : Topic[n] = f}

\* A job is about a key that its client writes, and is permitted what it checked.
JobInv ==
    \A j \in Job : job[j].op # "none" =>
        /\ job[j].client \in Client /\ job[j].key \in Uses[job[j].client]
        /\ job[j].op = "permitted" => Can(job[j].client, job[j].key)

\* As long as the publisher stays registered, a publication that goes to
\* somebody is of its topic.
PublicationInv ==
    \A i \in Publication :
        /\ publication[i].at = "delivering" =>
              publication[i].left > 0 /\ publication[i].meant \in Name
        /\ publication[i].at \in {"checked", "delivering"} /\ publication[i].steady =>
              Publisher \in nodes
        /\ publication[i].at = "delivering" /\ publication[i].steady =>
              publication[i].meant = Topic[Publisher]

\* No job of c on k has come as far as that.
Untold(c, k, op) ==
    \A j \in Job : ~ (job[j].client = c /\ job[j].key = k /\ job[j].op = op)

\* What the answers add up to, but for the one that is due.
CopiesInv ==
    \A c \in Patient :
        /\ \A i, j \in Job : job[i].client = c /\ job[j].client = c => i = j
        /\ Exact(c) => \A k \in Uses[c] :
              /\ Untold(c, k, "subscribed") /\ Untold(c, k, "unsubscribed") =>
                    Entries(c, k) = books[c][k]
              /\ ~ Untold(c, k, "subscribed") => Entries(c, k) = books[c][k] + 1
              /\ ~ Untold(c, k, "unsubscribed") =>
                    Entries(c, k) = IF books[c][k] > 0 THEN books[c][k] - 1 ELSE 0

TopicsInv ==
    /\ TopicsTypeOK
    /\ IndexSound
    /\ TopicsExact
    /\ JobInv
    /\ SubscribedWithinGrant
    /\ PublicationInv
    /\ CopiesInv

\* The entries of a client for a topic.
LEMMA EntriesCount ==
    \A c, f : Entries(c, f) = Count(subscriptions[f], c)
BY DEF Entries, Count, Positions

\* Initially nobody announces, asks or publishes.
LEMMA TopicsInvInit == TopicsInit => TopicsInv
<1> SUFFICES ASSUME TopicsInit PROVE TopicsInv
  OBVIOUS
<1> USE TopicsAssumption DEF TopicsInit
<1>1. TopicsTypeOK
  BY DEF TopicsTypeOK, NoJob, Unsent, Nobody, Publication
<1>2. IndexSound /\ TopicsExact
  <2>1. IndexSound /\ \A k \in Key : Claimants(k) = {}
    BY EmptyIndex
  <2>2. Announcer \cap nodes = {}
    OBVIOUS
  <2>3. QED
    BY <2>1, <2>2 DEF TopicsExact
<1>3. JobInv /\ SubscribedWithinGrant
  BY DEF JobInv, NoJob, SubscribedWithinGrant, Seqs!ToSet
<1>4. PublicationInv
  BY DEF PublicationInv, Unsent, Publication
<1>5. CopiesInv
  <2>1. \A c \in Client, f \in Name : Entries(c, f) = 0
    <3>1. \A f \in Name : subscriptions[f] \in Seq(Client) /\ DOMAIN subscriptions[f] = {}
      OBVIOUS
    <3>2. QED
      BY <3>1, CountType, EntriesCount
  <2>2. \A j \in Job : job[j].client = None /\ job[j].op = "none"
    BY DEF NoJob
  <2>3. \A c \in Client : Exact(c) => Uses[c] \subseteq Name
    BY DEF Exact
  <2>4. QED
    BY <2>1, <2>2, <2>3 DEF CopiesInv, Untold
<1>6. QED
  BY <1>1, <1>2, <1>3, <1>4, <1>5 DEF TopicsInv

\* Steps that leave the index, or the jobs, or the publications alone.
LEMMA IndexUnchanged ==
    ASSUME IndexSound, TopicsExact, UNCHANGED <<nodes, index>>
    PROVE  IndexSound' /\ TopicsExact'
BY DEF index, IndexSound, IndexTypeOK, TopicsExact, Claimants, Contested

\* Subscriptions depend on what the clients did, whoever announces what.
LEMMA ClientsUnchanged ==
    ASSUME JobInv, SubscribedWithinGrant, CopiesInv, UNCHANGED clients
    PROVE  JobInv' /\ SubscribedWithinGrant' /\ CopiesInv'
<1>1. \A c, f : Entries(c, f)' = Entries(c, f)
  BY DEF clients, Entries
<1>2. QED
  BY <1>1 DEF clients, JobInv, Can, SubscribedWithinGrant, CopiesInv, Untold, Exact

\* Publications depend on themselves and on who is registered.
LEMMA PublicationsUnchanged ==
    ASSUME PublicationInv, UNCHANGED <<nodes, publication>>
    PROVE  PublicationInv'
BY DEF PublicationInv

\* A node comes, with its topic, or goes.
LEMMA RegistrationKeeps ==
    ASSUME TopicsInv, NEW n \in Announcer \cup Client, Register(n) \/ Unregister(n)
    PROVE  TopicsInv'
<1> USE TopicsAssumption
<1>1. UNCHANGED clients
  BY DEF Register, Unregister
<1>2. JobInv' /\ SubscribedWithinGrant' /\ CopiesInv'
  BY <1>1, ClientsUnchanged DEF TopicsInv
<1>3. CASE n \notin Announcer
  <2>1. UNCHANGED index /\ Announcer \cap nodes' = Announcer \cap nodes
        /\ UNCHANGED publication
    BY <1>3 DEF Register, Unregister, Unsettle
  <2>2. IndexSound' /\ TopicsExact'
    BY <2>1 DEF index, TopicsInv, IndexSound, IndexTypeOK, TopicsExact, Claimants,
       Contested
  <2>3. Publisher \in nodes' <=> Publisher \in nodes
    BY <2>1
  <2>4. PublicationInv'
    BY <1>1, <2>1, <2>3 DEF TopicsInv, PublicationInv
  <2>5. TopicsTypeOK'
    BY <1>1, <2>1, <2>2 DEF TopicsInv, TopicsTypeOK, clients, index, Register, Unregister
  <2>6. QED
    BY <1>2, <2>2, <2>4, <2>5 DEF TopicsInv
<1>4. CASE n \in Announcer /\ Register(n)
  <2>1. /\ nodes' = nodes \cup {n} /\ Add(Topic[n]) /\ UNCHANGED publication
        /\ Topic[n] \in Name
    BY <1>4 DEF Register
  <2>2. /\ IndexSound'
        /\ \A k \in Key : Claimants(k)' =
              IF k \in KeysOf[Topic[n]] THEN Claimants(k) \cup {Topic[n]} ELSE Claimants(k)
    BY <2>1, AddClaims DEF TopicsInv
  <2>3. \A f : (\E m \in Announcer \cap nodes' : Topic[m] = f) <=>
               (f = Topic[n] \/ \E m \in Announcer \cap nodes : Topic[m] = f)
    BY <1>4, <2>1
  <2>4. ASSUME NEW k \in Key
        PROVE  Claimants(k)' = {f \in Name : k \in KeysOf[f] /\
                                   \E m \in Announcer \cap nodes' : Topic[m] = f}
    <3>1. Claimants(k) = {f \in Name : k \in KeysOf[f] /\
                             \E m \in Announcer \cap nodes : Topic[m] = f}
      BY DEF TopicsInv, TopicsExact
    <3> DEFINE Before(f) == \E m \in Announcer \cap nodes : Topic[m] = f
               After(f) == \E m \in Announcer \cap nodes' : Topic[m] = f
    <3>2. \A f : After(f) <=> f = Topic[n] \/ Before(f)
      BY <2>3
    <3>3. Claimants(k) = {f \in Name : k \in KeysOf[f] /\ Before(f)}
      BY <3>1
    <3> HIDE DEF Before, After
    <3>4. Claimants(k)' = {f \in Name : k \in KeysOf[f] /\ After(f)}
      BY <2>1, <2>2, <3>2, <3>3
    <3>5. QED
      BY <3>4 DEF After
  <2>41. TopicsExact'
    BY <2>4 DEF TopicsExact
  <2>5. PublicationInv'
    BY <1>1, <2>1 DEF TopicsInv, PublicationInv
  <2>6. TopicsTypeOK'
    BY <1>1, <2>1, <2>2 DEF TopicsInv, TopicsTypeOK, clients, IndexSound, IndexTypeOK
  <2>7. QED
    BY <1>2, <2>2, <2>41, <2>5, <2>6 DEF TopicsInv
<1>5. CASE n \in Announcer /\ Unregister(n)
  <2>1. /\ nodes' = nodes \ {n} /\ Remove(Topic[n]) /\ Unsettle(n)
        /\ Topic[n] \in Name
    BY <1>5 DEF Unregister
  <2>2. /\ IndexSound'
        /\ \A k \in Key : Claimants(k)' =
              IF k \in KeysOf[Topic[n]] THEN Claimants(k) \ {Topic[n]} ELSE Claimants(k)
    BY <2>1, RemoveClaims DEF TopicsInv
  <2>3. \A f : (\E m \in Announcer \cap nodes' : Topic[m] = f) <=>
               (f # Topic[n] /\ \E m \in Announcer \cap nodes : Topic[m] = f)
    BY <1>5, <2>1
  <2>4. ASSUME NEW k \in Key
        PROVE  Claimants(k)' = {f \in Name : k \in KeysOf[f] /\
                                   \E m \in Announcer \cap nodes' : Topic[m] = f}
    <3>1. Claimants(k) = {f \in Name : k \in KeysOf[f] /\
                             \E m \in Announcer \cap nodes : Topic[m] = f}
      BY DEF TopicsInv, TopicsExact
    <3> DEFINE Before(f) == \E m \in Announcer \cap nodes : Topic[m] = f
               After(f) == \E m \in Announcer \cap nodes' : Topic[m] = f
    <3>2. \A f : After(f) <=> f # Topic[n] /\ Before(f)
      BY <2>3
    <3>3. Claimants(k) = {f \in Name : k \in KeysOf[f] /\ Before(f)}
      BY <3>1
    <3> HIDE DEF Before, After
    <3>4. Claimants(k)' = {f \in Name : k \in KeysOf[f] /\ After(f)}
      BY <2>1, <2>2, <3>2, <3>3
    <3>5. QED
      BY <3>4 DEF After
  <2>41. TopicsExact'
    BY <2>4 DEF TopicsExact
  <2>5. \A i \in Publication :
           /\ publication'[i].at = publication[i].at
           /\ publication'[i].left = publication[i].left
           /\ publication'[i].meant = publication[i].meant
           /\ publication'[i].steady \in BOOLEAN
           /\ publication'[i].steady => publication[i].steady /\ n # Publisher
    <3>1. CASE n = Publisher
      <4> SUFFICES ASSUME NEW i \in Publication
                   PROVE  /\ publication'[i].at = publication[i].at
                          /\ publication'[i].left = publication[i].left
                          /\ publication'[i].meant = publication[i].meant
                          /\ publication'[i].steady = FALSE
        BY <3>1
      <4>1. publication[i] \in [at : {"none", "checked", "delivering", "sent"},
               meant : Name \cup {None}, steady : BOOLEAN, left : Nat]
        BY DEF TopicsInv, TopicsTypeOK
      <4>2. publication'[i] = [publication[i] EXCEPT !.steady = FALSE]
        BY <2>1, <3>1 DEF Unsettle
      <4>3. QED
        BY <4>1, <4>2
    <3>2. CASE n # Publisher
      BY <2>1, <3>2 DEF Unsettle, TopicsInv, TopicsTypeOK
    <3>3. QED
      BY <3>1, <3>2
  <2>6. PublicationInv'
    BY <1>1, <2>1, <2>5 DEF TopicsInv, PublicationInv
  <2>7. TopicsTypeOK'
    <3>1. publication' \in [Publication ->
             [at : {"none", "checked", "delivering", "sent"},
              meant : Name \cup {None}, steady : BOOLEAN, left : Nat]]
      <4> DEFINE P == [at : {"none", "checked", "delivering", "sent"},
                       meant : Name \cup {None}, steady : BOOLEAN, left : Nat]
      <4>1. publication \in [Publication -> P]
        BY DEF TopicsInv, TopicsTypeOK
      <4>2. ASSUME NEW i \in Publication
            PROVE  [publication[i] EXCEPT !.steady = FALSE] \in P
        <5>1. publication[i] \in P
          BY <4>1
        <5>2. QED
          BY <5>1
      <4>3. publication' = publication \/ publication' =
               [i \in Publication |-> [publication[i] EXCEPT !.steady = FALSE]]
        BY <2>1 DEF Unsettle
      <4> HIDE DEF P
      <4>4. publication' \in [Publication -> P]
        BY <4>1, <4>2, <4>3
      <4>5. QED
        BY <4>4 DEF P
    <3>2. QED
      BY <1>1, <2>1, <2>2, <3>1 DEF TopicsInv, TopicsTypeOK, clients, IndexSound,
         IndexTypeOK
  <2>8. QED
    BY <1>2, <2>2, <2>41, <2>6, <2>7 DEF TopicsInv
<1>6. QED
  BY <1>3, <1>4, <1>5

\* What a key means to a job: a topic that ends with it, and that topic itself
\* if the client writes full names.
LEMMA ResolveMeans ==
    ASSUME TopicsInv, NEW j \in Job, job[j].op # "none", Resolve(job[j].key) # None
    PROVE  LET f == Resolve(job[j].key)
           IN  /\ f \in Name /\ job[j].key \in KeysOf[f]
               /\ Exact(job[j].client) => f = job[j].key
<1>1. job[j].client \in Client /\ job[j].key \in Uses[job[j].client]
  BY DEF TopicsInv, JobInv
<1>2. job[j].key \in Key
  BY <1>1, TopicsAssumption
<1> DEFINE f == Resolve(job[j].key)
<1>3. f \in Name /\ Claimants(job[j].key) = {f}
  BY <1>2, ResolvesToClaimant DEF TopicsInv
<1>4. job[j].key \in KeysOf[f]
  BY <1>2, <1>3 DEF TopicsInv, TopicsExact
<1>5. QED
  BY <1>1, <1>3, <1>4 DEF Exact

\* A job that nothing was done for yet, or that is done with.
LEMMA JobMoves ==
    ASSUME TopicsInv, NEW j \in Job, NEW to,
           job' = [job EXCEPT ![j] = to],
           to = NoJob \/ (to.client = job[j].client /\ to.key = job[j].key),
           to.op \notin {"subscribed", "unsubscribed"},
           job[j].op \notin {"subscribed", "unsubscribed"},
           UNCHANGED <<subscriptions, books>>
    PROVE  CopiesInv'
<1>1. \A i \in Job : job'[i] = IF i = j THEN to ELSE job[i]
  BY DEF TopicsInv, TopicsTypeOK
<1>2. \A c, f : Entries(c, f)' = Entries(c, f)
  BY DEF Entries
<1>3. \A c \in Client : c # None
  BY TopicsAssumption
<1>4. \A c, k : /\ Untold(c, k, "subscribed")' <=> Untold(c, k, "subscribed")
                /\ Untold(c, k, "unsubscribed")' <=> Untold(c, k, "unsubscribed")
  BY <1>1 DEF Untold
<1>5. \A c \in Patient, i \in Job : job'[i].client = c => job[i].client = c
  BY <1>1, <1>3, TopicsAssumption DEF NoJob
<1>6. QED
  BY <1>2, <1>4, <1>5 DEF TopicsInv, CopiesInv, Exact

\* A request that starts has no effect yet.
LEMMA AsksKeeps ==
    ASSUME TopicsInv, NEW j \in Job, NEW c \in Client,
           NEW op \in {"subscribe", "unsubscribe"}, NEW k \in Uses[c], Asks(j, c, op, k)
    PROVE  TopicsInv'
<1> USE TopicsAssumption
<1> DEFINE to == [op |-> op, client |-> c, key |-> k]
<1>1. /\ job' = [job EXCEPT ![j] = to] /\ job[j] = NoJob
      /\ c \in Patient => \A i \in Job : job[i].client # c
      /\ UNCHANGED <<nodes, index, subscriptions, books, publication>>
  BY DEF Asks
<1>2. \A i \in Job : job'[i] = IF i = j THEN to ELSE job[i]
  BY <1>1 DEF TopicsInv, TopicsTypeOK
<1>3. IndexSound' /\ TopicsExact' /\ PublicationInv'
  BY <1>1, IndexUnchanged, PublicationsUnchanged DEF TopicsInv
<1>4. TopicsTypeOK'
  BY <1>1, <1>2 DEF TopicsInv, TopicsTypeOK, index
<1>5. JobInv'
  BY <1>2 DEF TopicsInv, JobInv, Can
<1>6. SubscribedWithinGrant'
  BY <1>1 DEF TopicsInv, SubscribedWithinGrant
<1>7. CopiesInv'
  <2>1. \A d, f : Entries(d, f)' = Entries(d, f)
    BY <1>1 DEF Entries
  <2>2. \A d, f : /\ Untold(d, f, "subscribed")' <=> Untold(d, f, "subscribed")
                  /\ Untold(d, f, "unsubscribed")' <=> Untold(d, f, "unsubscribed")
    BY <1>1, <1>2 DEF Untold, NoJob
  <2>3. \A d \in Patient : \A i, h \in Job :
           job'[i].client = d /\ job'[h].client = d => i = h
    BY <1>1, <1>2 DEF TopicsInv, CopiesInv
  <2>4. QED
    BY <1>1, <2>1, <2>2, <2>3 DEF TopicsInv, CopiesInv, Exact
<1>8. QED
  BY <1>3, <1>4, <1>5, <1>6, <1>7 DEF TopicsInv

\* The permission is checked, or the request comes to nothing.
LEMMA CheckKeeps ==
    ASSUME TopicsInv, NEW j \in Job, Check(j) \/ Refused(j)
    PROVE  TopicsInv'
<1> USE TopicsAssumption
<1> DEFINE to == IF job'[j] = NoJob THEN NoJob ELSE [job[j] EXCEPT !.op = "permitted"]
<1>1. UNCHANGED <<nodes, index, subscriptions, books, publication>>
  BY DEF Check, Refused
<1>2. /\ job[j].op \in {"subscribe", "permitted", "unsubscribe"}
      /\ job' = [job EXCEPT ![j] = to]
      /\ to = NoJob \/ (to.client = job[j].client /\ to.key = job[j].key
                         /\ to.op = "permitted" /\ Can(job[j].client, job[j].key)
                         /\ job[j].op = "subscribe")
  <2>1. CASE Refused(j)
    BY <2>1 DEF Refused, Answered, TopicsInv, TopicsTypeOK
  <2>2. CASE Check(j) /\ ~ Can(job[j].client, job[j].key)
    BY <2>2 DEF Check, Answered, TopicsInv, TopicsTypeOK
  <2>3. CASE Check(j) /\ Can(job[j].client, job[j].key)
    <3>1. job' = [job EXCEPT ![j].op = "permitted"] /\ job[j].op = "subscribe"
      BY <2>3 DEF Check
    <3>2. job[j] \in [op : {"none", "subscribe", "permitted", "subscribed",
                           "unsubscribe", "unsubscribed"},
                     client : Client \cup {None}, key : Key \cup {None}]
      BY DEF TopicsInv, TopicsTypeOK
    <3>3. job'[j] = [job[j] EXCEPT !.op = "permitted"]
      BY <3>1 DEF TopicsInv, TopicsTypeOK
    <3>4. job'[j].op = "permitted" /\ NoJob.op = "none"
      BY <3>2, <3>3 DEF NoJob
    <3>5. to = [job[j] EXCEPT !.op = "permitted"]
      BY <3>4
    <3>6. job' = [job EXCEPT ![j] = to]
      BY <3>1, <3>5
    <3>7. QED
      BY <2>3, <3>1, <3>2, <3>5, <3>6
  <2>4. QED
    BY <2>1, <2>2, <2>3
<1> HIDE DEF to
<1>3. \A i \in Job : job'[i] = IF i = j THEN to ELSE job[i]
  BY <1>2 DEF TopicsInv, TopicsTypeOK
<1>4. IndexSound' /\ TopicsExact' /\ PublicationInv'
  BY <1>1, IndexUnchanged, PublicationsUnchanged DEF TopicsInv
<1>5. TopicsTypeOK'
  <2>1. to \in [op : {"none", "subscribe", "permitted", "subscribed",
                     "unsubscribe", "unsubscribed"},
               client : Client \cup {None}, key : Key \cup {None}]
    BY <1>2 DEF to, NoJob, TopicsInv, TopicsTypeOK
  <2>2. QED
    BY <1>1, <1>2, <2>1 DEF TopicsInv, TopicsTypeOK, index
<1>6. JobInv'
  BY <1>2, <1>3 DEF TopicsInv, JobInv, Can, NoJob
<1>7. SubscribedWithinGrant'
  BY <1>1 DEF TopicsInv, SubscribedWithinGrant
<1>8. to.op \notin {"subscribed", "unsubscribed"}
  BY <1>2 DEF NoJob
<1>9. CopiesInv'
  BY <1>1, <1>2, <1>8, JobMoves
<1>10. QED
  BY <1>4, <1>5, <1>6, <1>7, <1>9 DEF TopicsInv

\* The table changes in one entry, of the topic that the key means.
LEMMA SubscriptionsKeep ==
    ASSUME TopicsInv, NEW j \in Job, Subscribe(j) \/ Unsubscribe(j)
    PROVE  TopicsInv'
<1> USE TopicsAssumption
<1> DEFINE d == job[j].client
           key == job[j].key
           f == Resolve(key)
           op == job'[j].op
<1>1. /\ UNCHANGED <<nodes, index, books, publication>>
      /\ job[j].op \in {"permitted", "unsubscribe"} /\ f # None
  BY DEF Subscribe, Unsubscribe
<1>2. /\ d \in Client /\ key \in Uses[d] /\ key \in Key /\ f \in Name
      /\ key \in KeysOf[f]
      /\ Exact(d) => f = key
  BY <1>1, ResolveMeans DEF TopicsInv, JobInv
<1>3. /\ job[j] \in [op : {"none", "subscribe", "permitted", "subscribed",
                           "unsubscribe", "unsubscribed"},
                     client : Client \cup {None}, key : Key \cup {None}]
      /\ subscriptions[f] \in Seq(Client)
  BY <1>2 DEF TopicsInv, TopicsTypeOK
<1>4. /\ \A i \in Job \ {j} : job'[i] = job[i]
      /\ job'[j].client = d /\ job'[j].key = key
      /\ op \in {"subscribed", "unsubscribed"}
      /\ op = "subscribed" <=> job[j].op = "permitted"
      /\ job' \in [Job -> [op : {"none", "subscribe", "permitted", "subscribed",
                                "unsubscribe", "unsubscribed"},
                          client : Client \cup {None}, key : Key \cup {None}]]
  <2>1. CASE Subscribe(j)
    BY <1>3, <2>1 DEF Subscribe, TopicsInv, TopicsTypeOK
  <2>2. CASE Unsubscribe(j)
    BY <1>3, <2>2 DEF Unsubscribe, TopicsInv, TopicsTypeOK
  <2>3. QED
    BY <2>1, <2>2
<1>5. /\ \A g \in Name \ {f} : subscriptions'[g] = subscriptions[g]
      /\ subscriptions' \in [Name -> Seq(Client)]
      /\ Seqs!ToSet(subscriptions'[f]) \subseteq
            Seqs!ToSet(subscriptions[f]) \cup (IF op = "subscribed" THEN {d} ELSE {})
      /\ \A c \in Client : Count(subscriptions'[f], c) =
            IF c # d THEN Count(subscriptions[f], c)
            ELSE IF op = "subscribed" THEN Count(subscriptions[f], c) + 1
            ELSE IF Count(subscriptions[f], c) > 0 THEN Count(subscriptions[f], c) - 1
            ELSE 0
      /\ \A c \in Client : Count(subscriptions[f], c) \in Nat
  <2> DEFINE s == subscriptions[f]
  <2>1. CASE Subscribe(j)
    <3>1. subscriptions' = [subscriptions EXCEPT ![f] = Append(s, d)]
      BY <2>1 DEF Subscribe
    <3>2. subscriptions'[f] = Append(s, d) /\ Append(s, d) \in Seq(Client)
      BY <1>2, <1>3, <3>1 DEF TopicsInv, TopicsTypeOK
    <3>3. op = "subscribed"
      BY <1>4, <2>1 DEF Subscribe
    <3>4. \A c \in Client : Count(subscriptions'[f], c) =
             IF c = d THEN Count(s, c) + 1 ELSE Count(s, c)
      BY <1>2, <1>3, <3>2, AppendCounts
    <3>5. Seqs!ToSet(Append(s, d)) \subseteq Seqs!ToSet(s) \cup {d}
      BY <1>2, <1>3, AppendProperties DEF Seqs!ToSet
    <3>6. \A c \in Client : Count(s, c) \in Nat
      BY <1>3, CountType
    <3>7. /\ \A g \in Name \ {f} : subscriptions'[g] = subscriptions[g]
          /\ subscriptions' \in [Name -> Seq(Client)]
      BY <3>1, <3>2 DEF TopicsInv, TopicsTypeOK
    <3>8. QED
      BY <3>2, <3>3, <3>4, <3>5, <3>6, <3>7
  <2>2. CASE Unsubscribe(j)
    <3>1. subscriptions' = [subscriptions EXCEPT ![f] = WithoutOne(s, d)]
      BY <2>2 DEF Unsubscribe
    <3>2. /\ subscriptions'[f] = WithoutOne(s, d) /\ WithoutOne(s, d) \in Seq(Client)
          /\ Seqs!ToSet(WithoutOne(s, d)) \subseteq Seqs!ToSet(s)
          /\ \A c \in Client : Count(WithoutOne(s, d), c) =
                IF c = d /\ Count(s, c) > 0 THEN Count(s, c) - 1 ELSE Count(s, c)
      BY <1>2, <1>3, <3>1, WithoutOneCounts DEF TopicsInv, TopicsTypeOK
    <3>3. op = "unsubscribed"
      BY <1>4, <2>2 DEF Unsubscribe
    <3>4. \A c \in Client : Count(s, c) \in Nat
      BY <1>3, CountType
    <3>5. /\ \A g \in Name \ {f} : subscriptions'[g] = subscriptions[g]
          /\ subscriptions' \in [Name -> Seq(Client)]
      BY <3>1, <3>2 DEF TopicsInv, TopicsTypeOK
    <3>6. QED
      BY <3>2, <3>3, <3>4, <3>5
  <2>3. QED
    BY <2>1, <2>2
<1>6. IndexSound' /\ TopicsExact' /\ PublicationInv'
  BY <1>1, IndexUnchanged, PublicationsUnchanged DEF TopicsInv
<1>7. TopicsTypeOK'
  BY <1>1, <1>4, <1>5 DEF TopicsInv, TopicsTypeOK, index
<1>8. JobInv'
  <2> SUFFICES ASSUME NEW i \in Job, job'[i].op # "none"
               PROVE  /\ job'[i].client \in Client
                      /\ job'[i].key \in Uses[job'[i].client]
                      /\ job'[i].op = "permitted" => Can(job'[i].client, job'[i].key)
    BY DEF JobInv, Can
  <2>1. CASE i = j
    BY <1>2, <1>4, <2>1
  <2>2. CASE i # j
    BY <1>4, <2>2 DEF TopicsInv, JobInv
  <2>3. QED
    BY <2>1, <2>2
<1>9. SubscribedWithinGrant'
  <2> SUFFICES ASSUME NEW g \in Name, NEW c \in Seqs!ToSet(subscriptions'[g])
               PROVE  Grants[c] \cap KeysOf[g] # {} \/ Benign \cap KeysOf[g] # {}
    BY DEF SubscribedWithinGrant, Seqs!ToSet
  <2>1. CASE c \in Seqs!ToSet(subscriptions[g])
    BY <2>1 DEF TopicsInv, SubscribedWithinGrant
  <2>2. CASE g = f /\ c = d /\ op = "subscribed"
    <3>1. Can(d, key)
      BY <1>4, <2>2 DEF TopicsInv, JobInv
    <3>2. Ends[key] \subseteq KeysOf[f]
      BY <1>2
    <3>3. CASE key \in Benign
      BY <1>2, <2>2, <3>3
    <3>4. CASE \E r \in Grants[d] : r \in Ends[key]
      BY <2>2, <3>2, <3>4
    <3>5. QED
      BY <3>1, <3>3, <3>4 DEF Can
  <2>3. QED
    BY <1>5, <2>1, <2>2
<1>10. ASSUME NEW c \in Patient, Exact(c), NEW k \in Uses[c]
       PROVE  /\ Untold(c, k, "subscribed")' /\ Untold(c, k, "unsubscribed")' =>
                    Entries(c, k)' = books[c][k]
              /\ ~ Untold(c, k, "subscribed")' => Entries(c, k)' = books[c][k] + 1
              /\ ~ Untold(c, k, "unsubscribed")' =>
                    Entries(c, k)' = IF books[c][k] > 0 THEN books[c][k] - 1 ELSE 0
  <2>1. k \in Name /\ c \in Client /\ books[c][k] \in Nat
    BY <1>10 DEF Exact, TopicsInv, TopicsTypeOK
  <2>2. \A i \in Job : job[i].client = c /\ d = c => i = j
    BY DEF TopicsInv, CopiesInv
  <2> /\ Entries(c, k) = Count(subscriptions[k], c)
      /\ Entries(c, k)' = Count(subscriptions'[k], c)
    BY DEF Entries, Count, Positions
  <2>3. CASE c = d /\ k = key
    <3>1. Untold(c, k, "subscribed") /\ Untold(c, k, "unsubscribed")
      BY <1>1, <2>2, <2>3 DEF Untold
    <3>2. Entries(c, k) = books[c][k] /\ f = k
      BY <1>2, <1>10, <2>3, <3>1 DEF TopicsInv, CopiesInv
    <3>3. /\ Untold(c, k, "subscribed")' <=> op # "subscribed"
          /\ Untold(c, k, "unsubscribed")' <=> op # "unsubscribed"
      BY <1>4, <2>2, <2>3 DEF Untold
    <3>4. QED
      BY <1>4, <1>5, <2>1, <2>3, <3>2, <3>3
  <2>4. CASE ~ (c = d /\ k = key)
    <3>1. Entries(c, k)' = Entries(c, k)
      <4>1. CASE c # d /\ k = f
        BY <1>5, <2>1, <4>1
      <4>2. CASE c = d \/ k # f
        <5>1. k # f
          BY <1>2, <1>10, <2>4, <4>2
        <5>2. QED
          BY <1>5, <2>1, <5>1
      <4>3. QED
        BY <4>1, <4>2
    <3>2. /\ Untold(c, k, "subscribed")' <=> Untold(c, k, "subscribed")
          /\ Untold(c, k, "unsubscribed")' <=> Untold(c, k, "unsubscribed")
      <4>1. \A i \in Job, o \in {"subscribed", "unsubscribed"} :
               (job'[i].client = c /\ job'[i].key = k /\ job'[i].op = o) <=>
               (job[i].client = c /\ job[i].key = k /\ job[i].op = o)
        BY <1>1, <1>4, <2>4
      <4>2. QED
        BY <4>1 DEF Untold
    <3>3. QED
      BY <1>10, <3>1, <3>2 DEF TopicsInv, CopiesInv
  <2>5. QED
    BY <2>3, <2>4
<1>11. CopiesInv'
  <2>1. \A c \in Patient : \A i, h \in Job :
           job'[i].client = c /\ job'[h].client = c => i = h
    <3>1. \A i \in Job : job'[i].client = job[i].client
      BY <1>4
    <3>2. QED
      BY <3>1 DEF TopicsInv, CopiesInv
  <2>2. \A c : Exact(c)' <=> Exact(c)
    BY DEF Exact
  <2>3. QED
    BY <1>1, <1>10, <2>1, <2>2 DEF CopiesInv
<1>12. QED
  BY <1>6, <1>7, <1>8, <1>9, <1>11 DEF TopicsInv

\* The answer settles what was due.
LEMMA TellKeeps ==
    ASSUME TopicsInv, NEW j \in Job, Tell(j)
    PROVE  TopicsInv'
<1> USE TopicsAssumption
<1> DEFINE d == job[j].client
           key == job[j].key
<1>1. /\ UNCHANGED <<nodes, index, subscriptions, publication>>
      /\ job[j].op \in {"subscribed", "unsubscribed"}
      /\ job' = [job EXCEPT ![j] = NoJob]
  BY DEF Tell, Answered
<1>2. d \in Client /\ key \in Uses[d] /\ key \in Key
  BY <1>1 DEF TopicsInv, JobInv
<1>3. \A i \in Job : job'[i] = IF i = j THEN NoJob ELSE job[i]
  BY <1>1 DEF TopicsInv, TopicsTypeOK
<1>4. /\ books' \in [Patient -> [Key -> Nat]]
      /\ \A c \in Patient, k \in Key :
            books'[c][k] = IF c = d /\ k = key
                           THEN IF job[j].op = "subscribed" THEN books[c][k] + 1
                                ELSE IF books[c][k] > 0 THEN books[c][k] - 1 ELSE 0
                           ELSE books[c][k]
  <2>1. CASE d \notin Patient
    BY <2>1 DEF Tell, TopicsInv, TopicsTypeOK
  <2>2. CASE d \in Patient
    <3> DEFINE n == IF job[j].op = "subscribed" THEN books[d][key] + 1
                    ELSE IF books[d][key] > 0 THEN books[d][key] - 1 ELSE 0
    <3>1. books \in [Patient -> [Key -> Nat]]
      BY DEF TopicsInv, TopicsTypeOK
    <3>2. books' = [books EXCEPT ![d][key] = n]
      BY <2>2 DEF Tell
    <3>3. n \in Nat
      BY <1>2, <2>2, <3>1
    <3>4. QED
      BY <1>2, <2>2, <3>1, <3>2, <3>3
  <2>3. QED
    BY <2>1, <2>2
<1>5. IndexSound' /\ TopicsExact' /\ PublicationInv'
  BY <1>1, IndexUnchanged, PublicationsUnchanged DEF TopicsInv
<1>6. TopicsTypeOK'
  <2>1. job' \in [Job -> [op : {"none", "subscribe", "permitted", "subscribed",
                              "unsubscribe", "unsubscribed"},
                        client : Client \cup {None}, key : Key \cup {None}]]
    BY <1>1 DEF NoJob, TopicsInv, TopicsTypeOK
  <2>2. QED
    BY <1>1, <1>4, <2>1 DEF TopicsInv, TopicsTypeOK, index
<1>7. JobInv'
  BY <1>3 DEF TopicsInv, JobInv, Can, NoJob
<1>8. SubscribedWithinGrant'
  BY <1>1 DEF TopicsInv, SubscribedWithinGrant
<1>9. ASSUME NEW c \in Patient, Exact(c), NEW k \in Uses[c]
      PROVE  /\ Untold(c, k, "subscribed")' /\ Untold(c, k, "unsubscribed")' =>
                   Entries(c, k)' = books'[c][k]
             /\ ~ Untold(c, k, "subscribed")' => Entries(c, k)' = books'[c][k] + 1
             /\ ~ Untold(c, k, "unsubscribed")' =>
                   Entries(c, k)' = IF books'[c][k] > 0 THEN books'[c][k] - 1 ELSE 0
  <2>1. c \in Client /\ c # None /\ k \in Key /\ Entries(c, k)' = Entries(c, k)
    BY <1>1 DEF Entries
  <2>2. \A i \in Job : job[i].client = c /\ d = c => i = j
    BY DEF TopicsInv, CopiesInv
  <2>3. CASE c = d /\ k = key
    <3>1. Untold(c, k, "subscribed")' /\ Untold(c, k, "unsubscribed")'
      BY <1>3, <2>1, <2>2, <2>3 DEF Untold, NoJob
    <3>2. /\ job[j].op = "subscribed" => Entries(c, k) = books[c][k] + 1
          /\ job[j].op = "unsubscribed" =>
                Entries(c, k) = IF books[c][k] > 0 THEN books[c][k] - 1 ELSE 0
      BY <1>9, <2>3 DEF TopicsInv, CopiesInv, Untold
    <3>3. QED
      BY <1>1, <1>4, <2>1, <2>3, <3>1, <3>2
  <2>4. CASE ~ (c = d /\ k = key)
    <3>1. /\ Untold(c, k, "subscribed")' <=> Untold(c, k, "subscribed")
          /\ Untold(c, k, "unsubscribed")' <=> Untold(c, k, "unsubscribed")
      BY <1>3, <2>1, <2>4 DEF Untold, NoJob
    <3>2. books'[c][k] = books[c][k]
      BY <1>4, <2>1, <2>4
    <3>3. QED
      BY <1>9, <2>1, <3>1, <3>2 DEF TopicsInv, CopiesInv
  <2>5. QED
    BY <2>3, <2>4
<1>10. CopiesInv'
  <2>1. \A c \in Patient : \A i, h \in Job :
           job'[i].client = c /\ job'[h].client = c => i = h
    BY <1>3 DEF TopicsInv, CopiesInv, NoJob
  <2>2. \A c : Exact(c)' <=> Exact(c)
    BY DEF Exact
  <2>3. QED
    BY <1>9, <2>1, <2>2 DEF CopiesInv
<1>11. QED
  BY <1>5, <1>6, <1>7, <1>8, <1>10 DEF TopicsInv

\* Publications, by the listener and by pipes.
LEMMA PublishesKeep ==
    ASSUME TopicsInv, NEW i \in Publication, Publishes(i)
    PROVE  TopicsInv'
<1> USE TopicsAssumption
<1> DEFINE Whole == [at : {"none", "checked", "delivering", "sent"},
                     meant : Name \cup {None}, steady : BOOLEAN, left : Nat]
<1>1. UNCHANGED <<nodes, index, clients>>
  BY DEF Publishes, Publish, Broadcast, Deliver
<1>2. IndexSound' /\ TopicsExact' /\ JobInv' /\ SubscribedWithinGrant' /\ CopiesInv'
  BY <1>1, IndexUnchanged, ClientsUnchanged DEF TopicsInv
<1>3. /\ publication \in [Publication -> Whole]
      /\ Unsent \in Whole /\ Sent \in Whole /\ Sent.at = "sent" /\ Unsent.at = "none"
      /\ publication[i] \in Whole
  <2>1. publication \in [Publication -> Whole]
    BY DEF TopicsInv, TopicsTypeOK
  <2>3. Unsent \in Whole /\ Unsent.at = "none"
    BY DEF Unsent
  <2>4. ASSUME NEW r \in Whole
        PROVE  [r EXCEPT !.at = "sent"] \in Whole /\ [r EXCEPT !.at = "sent"].at = "sent"
    OBVIOUS
  <2>5. Sent \in Whole /\ Sent.at = "sent"
    <3> HIDE DEF Whole
    <3>1. QED
      BY <2>3, <2>4, Zenon DEF Sent
  <2>6. publication[i] \in Whole
    BY <2>1
  <2>7. QED
    BY <2>1, <2>3, <2>5, <2>6
<1>4. ASSUME NEW to \in Whole, publication' = [publication EXCEPT ![i] = to],
             to.at = "delivering" => to.left > 0 /\ to.meant \in Name,
             to.at \in {"checked", "delivering"} /\ to.steady => Publisher \in nodes,
             to.at = "delivering" /\ to.steady => to.meant = Topic[Publisher]
      PROVE  TopicsInv'
  <2>1. \A h \in Publication : publication'[h] = IF h = i THEN to ELSE publication[h]
    BY <1>3, <1>4
  <2>2. TopicsTypeOK'
    <3>1. publication' \in [Publication -> Whole]
      <4> HIDE DEF Whole
      <4>1. QED
        BY <1>3, <1>4
    <3>2. QED
      BY <1>1, <3>1 DEF TopicsInv, TopicsTypeOK, index, clients
  <2>3. PublicationInv'
    <3> SUFFICES ASSUME NEW h \in Publication
                 PROVE  /\ publication'[h].at = "delivering" =>
                              publication'[h].left > 0 /\ publication'[h].meant \in Name
                        /\ publication'[h].at \in {"checked", "delivering"}
                              /\ publication'[h].steady => Publisher \in nodes'
                        /\ publication'[h].at = "delivering" /\ publication'[h].steady =>
                              publication'[h].meant = Topic[Publisher]
      BY DEF PublicationInv, Publication
    <3>1. CASE h = i
      BY <1>1, <1>4, <2>1, <3>1
    <3>2. CASE h # i
      <4>1. publication'[h] = publication[h]
        BY <2>1, <3>2
      <4>2. QED
        BY <1>1, <4>1 DEF TopicsInv, PublicationInv
    <3>3. QED
      BY <3>1, <3>2
  <2>4. QED
    BY <1>2, <2>2, <2>3 DEF TopicsInv
<1>5. ASSUME NEW f \in Name, NEW left \in Nat
      PROVE  /\ Yet(i, f, left) \in Whole
             /\ Yet(i, f, left).at \in {"delivering", "sent"}
             /\ Yet(i, f, left).at = "delivering" =>
                   /\ Yet(i, f, left).left > 0 /\ Yet(i, f, left).meant = f
                   /\ Yet(i, f, left).steady = publication[i].steady
  <2>1. CASE left = 0
    BY <1>3, <2>1 DEF Yet
  <2>2. CASE left # 0
    <3>1. Yet(i, f, left) = [at |-> "delivering", meant |-> f,
                             steady |-> publication[i].steady, left |-> left]
      BY <1>3, <2>2 DEF Yet
    <3>2. publication[i].steady \in BOOLEAN
      BY <1>3
    <3>3. QED
      BY <2>2, <3>1, <3>2
  <2>3. QED
    BY <2>1, <2>2
<1>6. CASE Publish(i)
  <2> DEFINE to == [Unsent EXCEPT !.at = "checked", !.steady = (Publisher \in nodes)]
  <2>1. publication' = [publication EXCEPT ![i] = to]
    BY <1>6 DEF Publish, Go
  <2>2. to \in Whole /\ to.at = "checked" /\ (to.steady => Publisher \in nodes)
    <3>1. ASSUME NEW r \in Whole, NEW b \in BOOLEAN
          PROVE  LET u == [r EXCEPT !.at = "checked", !.steady = b]
                 IN  u \in Whole /\ u.at = "checked" /\ u.steady = b
      OBVIOUS
    <3>2. (Publisher \in nodes) \in BOOLEAN
      OBVIOUS
    <3> HIDE DEF Whole
    <3>3. QED
      BY <1>3, <3>1, <3>2, Zenon
  <2> HIDE DEF to, Whole
  <2>3. QED
    BY <1>3, <1>4, <2>1, <2>2
<1>7. CASE Broadcast(i)
  <2> DEFINE key == Short[Topic[Publisher]]
             f == Resolve(key)
  <2>1. /\ publication[i].at = "checked"
        /\ publication' = [publication EXCEPT ![i] =
              IF f = None THEN Sent ELSE Yet(i, f, Cardinality(Reached(f)))]
    BY <1>7 DEF Broadcast, Go
  <2>2. CASE f = None
    <3> HIDE DEF Whole
    <3>1. QED
      BY <1>3, <1>4, <2>1, <2>2
  <2>3. CASE f # None
    <3>1. key \in Key /\ Topic[Publisher] \in Name /\ key \in KeysOf[Topic[Publisher]]
      OBVIOUS
    <3>2. f \in Name /\ Claimants(key) = {f}
      BY <2>3, <3>1, ResolvesToClaimant DEF TopicsInv
    <3>3. Publisher \in nodes => f = Topic[Publisher]
      <4>1. Publisher \in nodes => Topic[Publisher] \in Claimants(key)
        BY <3>1 DEF TopicsInv, TopicsExact
      <4>2. QED
        BY <3>2, <4>1
    <3>4. publication[i].steady => Publisher \in nodes
      BY <2>1 DEF TopicsInv, PublicationInv
    <3>5. Cardinality(Reached(f)) \in Nat
      <4>1. subscriptions[f] \in Seq(Client)
        BY <3>2 DEF TopicsInv, TopicsTypeOK
      <4>2. IsFiniteSet(1 .. Len(subscriptions[f]))
        BY <4>1, FS_Interval
      <4>3. Reached(f) \in SUBSET (1 .. Len(subscriptions[f]))
        BY <4>1 DEF Reached
      <4>4. QED
        BY <4>2, <4>3, FS_Subset, FS_CardinalityType
    <3> DEFINE to == Yet(i, f, Cardinality(Reached(f)))
    <3>6. /\ to \in Whole /\ to.at \in {"delivering", "sent"}
          /\ to.at = "delivering" => /\ to.left > 0 /\ to.meant = f
                                     /\ to.steady = publication[i].steady
      BY <1>5, <3>2, <3>5
    <3>7. publication' = [publication EXCEPT ![i] = to]
      BY <2>1, <2>3
    <3> HIDE DEF to, f, Whole
    <3>8. QED
      BY <1>4, <2>1, <3>2, <3>3, <3>4, <3>6, <3>7
  <2>4. QED
    BY <2>2, <2>3
<1>8. CASE Deliver(i)
  <2> DEFINE f == publication[i].meant
             to == Yet(i, f, publication[i].left - 1)
  <2>1. /\ publication[i].at = "delivering"
        /\ publication' = [publication EXCEPT ![i] = to]
    BY <1>8 DEF Deliver, Go
  <2>2. /\ publication[i].left > 0 /\ f \in Name
        /\ publication[i].steady => Publisher \in nodes /\ f = Topic[Publisher]
    BY <2>1 DEF TopicsInv, PublicationInv
  <2>3. publication[i].left - 1 \in Nat
    BY <1>3, <2>2
  <2>4. /\ to \in Whole /\ to.at \in {"delivering", "sent"}
        /\ to.at = "delivering" => /\ to.left > 0 /\ to.meant = f
                                   /\ to.steady = publication[i].steady
    BY <1>5, <2>2, <2>3
  <2> HIDE DEF to, f, Whole
  <2>5. QED
    BY <1>4, <2>1, <2>2, <2>4
<1>9. QED
  BY <1>6, <1>7, <1>8 DEF Publishes

\* Every step of announcers, clients and the publisher keeps the invariant.
LEMMA TopicsInvInductive ==
    ASSUME TopicsInv, TopicsNext
    PROVE  TopicsInv'
<1>1. ASSUME NEW n \in Announcer \cup Client, Register(n) \/ Unregister(n)
      PROVE  TopicsInv'
  BY <1>1, RegistrationKeeps
<1>2. ASSUME NEW j \in Job, NEW c \in Client, NEW op \in {"subscribe", "unsubscribe"},
             NEW k \in Uses[c], Asks(j, c, op, k)
      PROVE  TopicsInv'
  BY <1>2, AsksKeeps
<1>3. ASSUME NEW j \in Job, Serves(j)
      PROVE  TopicsInv'
  BY <1>3, CheckKeeps, SubscriptionsKeep, TellKeeps DEF Serves
<1>4. ASSUME NEW i \in Publication, Publishes(i)
      PROVE  TopicsInv'
  BY <1>4, PublishesKeep
<1>5. QED
  BY <1>1, <1>2, <1>3, <1>4 DEF TopicsNext

-----------------------------------------------------------------------------
(* What witnesses get.                                                     *)
Rising(s) == \A i, j \in DOMAIN s : i < j => s[i] < s[j]
Distinct(s) == \A i, j \in DOMAIN s : s[i] = s[j] => i = j
Among(w, s) == \E i \in DOMAIN s : s[i] = w

\* The channel holds messages in the order of Send.
ChannelInv == Rising(channel) /\ \A j \in DOMAIN channel : channel[j] <= sent

\* What was written comes before what waits in the channel, ...
WrittenInv ==
    \A w \in WitnessNode :
        /\ Rising(got[w])
        /\ \A i \in DOMAIN got[w] :
              /\ got[w][i] <= sent
              /\ \A j \in DOMAIN channel : got[w][i] < channel[j]

\* ... and the message of the goroutine is between the two; who is still to get
\* it has got earlier ones only, and gets it once.
DrainInv ==
    /\ drain.at = "idle" => drain = Resting
    /\ drain.at # "idle" =>
          /\ drain.message \in 1 .. sent
          /\ \A j \in DOMAIN channel : drain.message < channel[j]
          /\ Distinct(drain.todo)
          /\ \A w \in WitnessNode : \A i \in DOMAIN got[w] :
                /\ got[w][i] <= drain.message
                /\ Among(w, drain.todo) => got[w][i] < drain.message
    /\ drain.at = "stuck" =>
          drain.todo # <<>> /\ Current \in connected \ failed

\* The list holds the members, each once.
ListInv ==
    /\ Distinct(witnesses)
    /\ \A w \in WitnessNode : Among(w, witnesses) <=> w \in member

\* Who is owed the message is still to get it, or has it.
OwedInv ==
    drain.at # "idle" => \A w \in owed :
        /\ w \in (connected \cap reading) \ failed
        /\ \/ Among(w, drain.todo)
           \/ got[w] # <<>> /\ got[w][Len(got[w])] = drain.message

WitnessInv ==
    /\ WitnessTypeOK
    /\ ChannelInv
    /\ WrittenInv
    /\ DrainInv
    /\ ListInv
    /\ OwedInv

-----------------------------------------------------------------------------
(* Lists with one entry more or less.                                      *)

\* What is at each place after an entry was added at the end.
LEMMA Appended ==
    ASSUME NEW S, NEW s \in Seq(S), NEW x \in S
    PROVE  LET t == Append(s, x)
           IN  /\ t \in Seq(S) /\ t # <<>> /\ Len(t) = Len(s) + 1
               /\ DOMAIN t = 1 .. Len(s) + 1
               /\ \A i \in DOMAIN t : t[i] = IF i = Len(s) + 1 THEN x ELSE s[i]
<1> DEFINE t == Append(s, x)
<1>1. /\ t \in Seq(S) /\ t # <<>> /\ Len(t) = Len(s) + 1
      /\ \A i \in 1 .. Len(s) : t[i] = s[i]
      /\ t[Len(s) + 1] = x
  BY AppendProperties
<1> HIDE DEF t
<1>2. DOMAIN t = 1 .. Len(s) + 1 /\ Len(s) \in Nat
  BY <1>1, LenProperties
<1>3. QED
  BY <1>1, <1>2 DEF t

\* What is at each place after the first entry was taken.
LEMMA Taken ==
    ASSUME NEW S, NEW s \in Seq(S), s # <<>>
    PROVE  /\ Head(s) \in S /\ Head(s) = s[1] /\ 1 \in DOMAIN s
           /\ Tail(s) \in Seq(S) /\ DOMAIN Tail(s) = 1 .. Len(s) - 1
           /\ Len(Tail(s)) = Len(s) - 1
           /\ \A i \in DOMAIN Tail(s) : i + 1 \in DOMAIN s /\ Tail(s)[i] = s[i + 1]
OBVIOUS

\* A greater number at the end of a rising list leaves it rising.
LEMMA AppendRises ==
    ASSUME NEW S \in SUBSET Nat, NEW s \in Seq(S), NEW x \in S, Rising(s),
           \A i \in DOMAIN s : s[i] < x
    PROVE  Rising(Append(s, x))
<1> DEFINE t == Append(s, x)
<1>1. DOMAIN t = 1 .. Len(s) + 1 /\ DOMAIN s = 1 .. Len(s) /\ Len(s) \in Nat
  OBVIOUS
<1>2. \A i \in DOMAIN t : t[i] = IF i = Len(s) + 1 THEN x ELSE s[i]
  BY Appended
<1> HIDE DEF t
<1>3. ASSUME NEW i \in DOMAIN t, NEW j \in DOMAIN t, i < j
      PROVE  t[i] < t[j]
  <2>1. i \in DOMAIN s /\ t[i] = s[i]
    BY <1>1, <1>2, <1>3
  <2>2. CASE j = Len(s) + 1
    BY <1>2, <2>1, <2>2
  <2>3. CASE j # Len(s) + 1
    BY <1>1, <1>2, <1>3, <2>1, <2>3 DEF Rising
  <2>4. QED
    BY <2>2, <2>3
<1>4. QED
  BY <1>3 DEF Rising, t

\* What is left of a list without repetitions is one, and lacks the first entry.
LEMMA TailDistinct ==
    ASSUME NEW S, NEW s \in Seq(S), s # <<>>, Distinct(s)
    PROVE  /\ Distinct(Tail(s))
           /\ \A w \in S : Among(w, Tail(s)) <=> Among(w, s) /\ w # Head(s)
<1>1. /\ DOMAIN s = 1 .. Len(s) /\ Len(s) \in Nat \ {0}
      /\ Head(s) = s[1] /\ DOMAIN Tail(s) = 1 .. Len(s) - 1
      /\ \A i \in DOMAIN Tail(s) : i + 1 \in DOMAIN s /\ Tail(s)[i] = s[i + 1]
  BY Taken
<1>2. Distinct(Tail(s))
  BY <1>1 DEF Distinct
<1>3. ASSUME NEW w \in S, Among(w, Tail(s))
      PROVE  Among(w, s) /\ w # Head(s)
  BY <1>1, <1>3 DEF Among, Distinct
<1>4. ASSUME NEW w \in S, Among(w, s), w # Head(s)
      PROVE  Among(w, Tail(s))
  <2>1. PICK i \in DOMAIN s : s[i] = w
    BY <1>4 DEF Among
  <2>2. i - 1 \in DOMAIN Tail(s) /\ (i - 1) + 1 = i
    BY <1>1, <1>4, <2>1
  <2>3. QED
    BY <1>1, <2>1, <2>2 DEF Among
<1>5. QED
  BY <1>2, <1>3, <1>4

-----------------------------------------------------------------------------
\* In the initial state there is nothing on its way.
LEMMA WitnessInvInit == WitnessInit => WitnessInv
<1> SUFFICES ASSUME WitnessInit PROVE WitnessInv
  OBVIOUS
<1> USE WitnessAssumption DEF WitnessInit
<1>1. WitnessTypeOK
  BY DEF WitnessTypeOK, Resting
<1>2. ChannelInv /\ WrittenInv /\ DrainInv /\ OwedInv
  BY DEF ChannelInv, WrittenInv, DrainInv, OwedInv, Rising, Resting
<1>3. ListInv
  BY DEF ListInv, Distinct, Among
<1>4. QED
  BY <1>1, <1>2, <1>3 DEF WitnessInv

\* What Dropped leaves lacks w, and nobody else.
LEMMA DroppedLacks ==
    ASSUME WitnessInv, NEW w \in WitnessNode
    PROVE  /\ Dropped(w) \in Seq(WitnessNode) /\ Distinct(Dropped(w))
           /\ \A v \in WitnessNode :
                 Among(v, Dropped(w)) <=> Among(v, witnesses) /\ v # w
<1> DEFINE n == Len(witnesses)
<1>1. /\ witnesses \in Seq(WitnessNode) /\ n \in Nat /\ DOMAIN witnesses = 1 .. n
      /\ Distinct(witnesses)
  BY DEF WitnessInv, WitnessTypeOK, ListInv
<1>2. w \in Lists!ToSet(witnesses) <=> Among(w, witnesses)
  BY DEF Lists!ToSet, Among
<1> HIDE DEF n
<1>3. CASE ~ Among(w, witnesses)
  BY <1>1, <1>2, <1>3 DEF Dropped
<1>4. CASE Among(w, witnesses)
  <2> DEFINE p == Place(w)
             s == [witnesses EXCEPT ![p] = Lists!Last(witnesses)]
             t == SubSeq(s, 1, n - 1)
  <2>1. p \in 1 .. n /\ witnesses[p] = w
    BY <1>1, <1>4 DEF Place, Among
  <2>2. Lists!Last(witnesses) = witnesses[n] /\ witnesses[n] \in WitnessNode
    BY <1>1, <2>1 DEF Lists!Last, n
  <2> HIDE DEF p
  <2>3. /\ s \in Seq(WitnessNode) /\ Len(s) = n
        /\ \A i \in 1 .. n : s[i] = IF i = p THEN witnesses[n] ELSE witnesses[i]
    BY <1>1, <2>1, <2>2, ExceptSeq DEF n
  <2>4. Dropped(w) = t
    BY <1>2, <1>4, <2>3 DEF Dropped, Lists!Front, p
  <2> HIDE DEF s
  <2>5. /\ t \in Seq(WitnessNode) /\ DOMAIN t = 1 .. n - 1
        /\ \A i \in DOMAIN t : t[i] = s[i]
    <3>1. \A i \in 1 .. n - 1 : s[i] \in WitnessNode
      BY <1>1, <2>1, <2>2, <2>3
    <3>2. 1 \in Int /\ n - 1 \in Int
      BY <1>1
    <3>3. /\ t \in Seq(WitnessNode)
          /\ Len(t) = IF 1 <= n - 1 THEN n - 1 - 1 + 1 ELSE 0
          /\ \A i \in 1 .. (n - 1) - 1 + 1 : t[i] = s[1 + i - 1]
      BY <3>1, <3>2, SubSeqProperties
    <3> HIDE DEF t
    <3>4. DOMAIN t = 1 .. Len(t)
      BY <3>3
    <3>5. DOMAIN t = 1 .. n - 1
      BY <1>1, <2>1, <3>3, <3>4
    <3>6. QED
      BY <1>1, <3>3, <3>5
  <2> HIDE DEF t
  <2>6. Distinct(t)
    BY <1>1, <2>1, <2>3, <2>5 DEF Distinct
  <2>7. ASSUME NEW v \in WitnessNode, Among(v, t)
        PROVE  Among(v, witnesses) /\ v # w
    <3>1. PICK i \in 1 .. n - 1 : t[i] = v
      BY <2>5, <2>7 DEF Among
    <3>2. /\ i \in 1 .. n /\ n \in 1 .. n /\ i # n
          /\ v = IF i = p THEN witnesses[n] ELSE witnesses[i]
      BY <1>1, <2>3, <2>5, <3>1
    <3>3. CASE i = p
      BY <1>1, <2>1, <3>2, <3>3 DEF Among, Distinct
    <3>4. CASE i # p
      BY <1>1, <2>1, <3>2, <3>4 DEF Among, Distinct
    <3>5. QED
      BY <3>3, <3>4
  <2>8. ASSUME NEW v \in WitnessNode, Among(v, witnesses), v # w
        PROVE  Among(v, t)
    <3>1. PICK i \in 1 .. n : witnesses[i] = v
      BY <1>1, <2>8 DEF Among
    <3>2. i # p
      BY <2>1, <2>8, <3>1
    <3>3. CASE i = n
      <4>1. p \in 1 .. n - 1 /\ t[p] = v
        BY <1>1, <2>1, <2>3, <2>5, <3>1, <3>2, <3>3
      <4>2. QED
        BY <2>5, <4>1 DEF Among
    <3>4. CASE i # n
      <4>1. i \in 1 .. n - 1 /\ t[i] = v
        BY <1>1, <2>3, <2>5, <3>1, <3>2, <3>4
      <4>2. QED
        BY <2>5, <4>1 DEF Among
    <3>5. QED
      BY <3>3, <3>4
  <2>9. QED
    BY <2>4, <2>5, <2>6, <2>7, <2>8
<1>5. QED
  BY <1>3, <1>4

-----------------------------------------------------------------------------
\* The list changes while the goroutine rests.
LEMMA ListKeeps ==
    ASSUME WitnessInv, NEW w \in WitnessNode,
           RegisterWitness(w) \/ UnregisterWitness(w)
    PROVE  WitnessInv'
<1>1. /\ drain.at = "idle"
      /\ UNCHANGED <<sent, channel, connected, reading, failed, drain, owed, got>>
  BY DEF RegisterWitness, UnregisterWitness, Unheld
<1>2. ChannelInv' /\ WrittenInv' /\ OwedInv' /\ DrainInv'
  BY <1>1 DEF WitnessInv, ChannelInv, WrittenInv, DrainInv, OwedInv, Current, Resting
<1>3. witnesses \in Seq(WitnessNode) /\ member \subseteq WitnessNode
  BY DEF WitnessInv, WitnessTypeOK
<1>4. ASSUME witnesses' \in Seq(WitnessNode), member' \subseteq WitnessNode, ListInv'
      PROVE  WitnessInv'
  <2>1. WitnessTypeOK'
    BY <1>1, <1>4 DEF WitnessInv, WitnessTypeOK
  <2>2. QED
    BY <1>2, <1>4, <2>1 DEF WitnessInv
<1>5. CASE RegisterWitness(w)
  <2>1. witnesses' = Added(w) /\ member' = member \cup {w}
    BY <1>5 DEF RegisterWitness
  <2>2. w \in Lists!ToSet(witnesses) <=> Among(w, witnesses)
    BY DEF Lists!ToSet, Among
  <2>3. CASE Among(w, witnesses)
    <3>1. witnesses' = witnesses
      BY <2>1, <2>2, <2>3 DEF Added
    <3>2. ListInv'
      BY <2>1, <2>3, <3>1 DEF WitnessInv, ListInv
    <3>3. QED
      BY <1>3, <1>4, <2>1, <3>1, <3>2
  <2>4. CASE ~ Among(w, witnesses)
    <3>1. witnesses' = Append(witnesses, w)
      BY <2>1, <2>2, <2>4 DEF Added
    <3>2. /\ witnesses' \in Seq(WitnessNode)
          /\ DOMAIN witnesses = 1 .. Len(witnesses) /\ Len(witnesses) \in Nat
          /\ DOMAIN witnesses' = 1 .. Len(witnesses) + 1
          /\ \A i \in DOMAIN witnesses' :
                witnesses'[i] = IF i = Len(witnesses) + 1 THEN w ELSE witnesses[i]
      BY <1>3, <3>1, Appended, LenProperties
    <3>3. Distinct(witnesses)'
      BY <2>4, <3>2 DEF WitnessInv, ListInv, Distinct, Among
    <3>4. ASSUME NEW v \in WitnessNode
          PROVE  Among(v, witnesses)' <=> Among(v, witnesses) \/ v = w
      <4>1. /\ Len(witnesses) + 1 \in DOMAIN witnesses'
          /\ DOMAIN witnesses \subseteq DOMAIN witnesses'
        BY <3>2
      <4>2. \A i \in DOMAIN witnesses : i # Len(witnesses) + 1
        BY <3>2
      <4>3. \A i \in DOMAIN witnesses' : i = Len(witnesses) + 1 \/ i \in DOMAIN witnesses
        BY <3>2
      <4>4. QED
        BY <3>2, <4>1, <4>2, <4>3 DEF Among
    <3>5. ListInv'
      BY <2>1, <3>3, <3>4 DEF WitnessInv, ListInv
    <3>6. QED
      BY <1>3, <1>4, <2>1, <3>2, <3>5
  <2>5. QED
    BY <2>3, <2>4
<1>6. CASE UnregisterWitness(w)
  <2>1. witnesses' = Dropped(w) /\ member' = member \ {w}
    BY <1>6 DEF UnregisterWitness
  <2>2. ListInv'
    BY <2>1, DroppedLacks DEF WitnessInv, ListInv
  <2>3. QED
    BY <1>3, <1>4, <2>1, <2>2, DroppedLacks
<1>7. QED
  BY <1>5, <1>6

\* Connections come and go, and peers read or do not.
LEMMA ConnectionsKeep ==
    ASSUME WitnessInv, NEW w \in WitnessNode,
           Connect(w) \/ Disconnect(w) \/ StopReading(w) \/ ReadAgain(w)
    PROVE  WitnessInv'
<1>1. UNCHANGED <<sent, channel, witnesses, member, drain, got>>
  BY DEF Connect, Disconnect, StopReading, ReadAgain
<1>2. /\ ChannelInv' /\ WrittenInv' /\ ListInv'
      /\ \A v : Among(v, drain.todo)' <=> Among(v, drain.todo)
  BY <1>1 DEF WitnessInv, ChannelInv, WrittenInv, ListInv, Among
<1>3. WitnessTypeOK'
  BY <1>1 DEF WitnessInv, WitnessTypeOK, Connect, Disconnect, StopReading, ReadAgain
<1>4. drain.at = "stuck" => Current \in connected' \ failed'
  <2>1. drain.at = "stuck" => Current \in connected \ failed
    BY DEF WitnessInv, DrainInv
  <2>2. QED
    BY <2>1 DEF Connect, Disconnect, StopReading, ReadAgain, Current
<1>5. DrainInv'
  BY <1>1, <1>2, <1>4 DEF WitnessInv, DrainInv, Current, Resting
<1>6. /\ owed' \subseteq owed
      /\ drain.at # "idle" => owed' \subseteq (connected' \cap reading') \ failed'
  BY DEF WitnessInv, OwedInv, Connect, Disconnect, StopReading, ReadAgain
<1>7. OwedInv'
  BY <1>1, <1>2, <1>6 DEF WitnessInv, OwedInv
<1>8. QED
  BY <1>2, <1>3, <1>5, <1>7 DEF WitnessInv

-----------------------------------------------------------------------------
\* A new message is later than everything there is.
LEMMA SendKeeps == ASSUME WitnessInv, Send PROVE WitnessInv'
<1> USE WitnessAssumption
<1>1. /\ sent' = sent + 1 /\ sent \in Nat /\ sent' \in 1 .. MaxSent
      /\ channel \in Seq(1 .. MaxSent)
      /\ \A j \in DOMAIN channel : channel[j] <= sent
      /\ UNCHANGED <<witnesses, member, connected, reading, failed, drain, owed, got>>
  BY DEF Send, WitnessInv, WitnessTypeOK, ChannelInv
<1>2. /\ channel' \in Seq(1 .. MaxSent) /\ Len(channel') <= Capacity
      /\ Rising(channel')
      /\ \A j \in DOMAIN channel' :
            channel'[j] = sent + 1 \/ (j \in DOMAIN channel /\ channel'[j] = channel[j])
  <2>1. CASE Len(channel) < Capacity
    <3>1. channel' = Append(channel, sent + 1) /\ sent + 1 \in 1 .. MaxSent
      BY <1>1, <2>1 DEF Send
    <3>2. Rising(channel) /\ \A j \in DOMAIN channel : channel[j] < sent + 1
      BY <1>1 DEF WitnessInv, ChannelInv
    <3>3. 1 .. MaxSent \in SUBSET Nat
      OBVIOUS
    <3>4. Rising(channel')
      BY <1>1, <3>1, <3>2, <3>3, AppendRises
    <3>5. /\ channel' \in Seq(1 .. MaxSent) /\ Len(channel') = Len(channel) + 1
          /\ DOMAIN channel' = 1 .. Len(channel) + 1
          /\ \A j \in DOMAIN channel' :
                channel'[j] = IF j = Len(channel) + 1 THEN sent + 1 ELSE channel[j]
      BY <1>1, <3>1, Appended
    <3>6. DOMAIN channel = 1 .. Len(channel) /\ Len(channel) \in Nat
      BY <1>1
    <3>7. \A j \in DOMAIN channel' : j # Len(channel) + 1 => j \in DOMAIN channel
      BY <3>5, <3>6
    <3>8. Len(channel') <= Capacity
      BY <2>1, <3>5, <3>6
    <3>9. \A j \in DOMAIN channel' :
             channel'[j] = sent + 1 \/ (j \in DOMAIN channel /\ channel'[j] = channel[j])
      BY <3>5, <3>7
    <3>10. QED
      BY <3>4, <3>5, <3>8, <3>9
  <2>2. CASE ~ (Len(channel) < Capacity)
    <3>1. channel' = channel
      BY <2>2 DEF Send
    <3>2. QED
      BY <3>1 DEF WitnessInv, WitnessTypeOK, ChannelInv
  <2>3. QED
    BY <2>1, <2>2
<1>3. \A x \in 0 .. sent :
         (\A j \in DOMAIN channel : x < channel[j]) =>
            \A j \in DOMAIN channel' : x < channel'[j]
  <2>1. ASSUME NEW x \in 0 .. sent, \A j \in DOMAIN channel : x < channel[j],
               NEW j \in DOMAIN channel'
        PROVE  x < channel'[j]
    <3>1. CASE channel'[j] = sent + 1
      BY <1>1, <2>1, <3>1
    <3>2. CASE j \in DOMAIN channel /\ channel'[j] = channel[j]
      BY <2>1, <3>2
    <3>3. QED
      BY <1>2, <3>1, <3>2
  <2>2. QED
    BY <2>1
<1>4. WitnessTypeOK'
  BY <1>1, <1>2 DEF WitnessInv, WitnessTypeOK
<1>5. ChannelInv'
  <2>1. ASSUME NEW j \in DOMAIN channel'
        PROVE  channel'[j] <= sent'
    <3>1. CASE channel'[j] = sent + 1
      BY <1>1, <3>1
    <3>2. CASE j \in DOMAIN channel /\ channel'[j] = channel[j]
      <4>1. channel[j] \in Nat
        BY <1>1, <3>2
      <4>2. QED
        BY <1>1, <3>2, <4>1
    <3>3. QED
      BY <1>2, <3>1, <3>2
  <2>2. QED
    BY <1>2, <2>1 DEF ChannelInv
<1>6. WrittenInv'
  <2>1. \A w \in WitnessNode : \A i \in DOMAIN got[w] : got[w][i] \in 0 .. sent
    BY <1>1 DEF WitnessInv, WitnessTypeOK, WrittenInv
  <2>2. QED
    BY <1>1, <1>3, <2>1 DEF WitnessInv, WrittenInv
<1>7. DrainInv'
  <2>1. drain.at # "idle" => drain.message \in 0 .. sent /\ drain.message \in 1 .. sent + 1
    BY <1>1 DEF WitnessInv, DrainInv
  <2>2. QED
    BY <1>1, <1>3, <2>1 DEF WitnessInv, DrainInv, Current, Resting, Among, Distinct
<1>8. ListInv' /\ OwedInv'
  BY <1>1 DEF WitnessInv, ListInv, OwedInv, Among, Distinct
<1>9. QED
  BY <1>4, <1>5, <1>6, <1>7, <1>8 DEF WitnessInv

\* The goroutine takes the first of the channel, for everyone on the list.
LEMMA TakeKeeps == ASSUME WitnessInv, Take PROVE WitnessInv'
<1> USE WitnessAssumption
<1>1. /\ channel # <<>> /\ channel \in Seq(1 .. MaxSent) /\ channel' = Tail(channel)
      /\ drain' = [at |-> "writing", message |-> Head(channel), todo |-> witnesses]
      /\ owed' = (member \cap connected \cap reading) \ failed
      /\ sent \in Nat
      /\ UNCHANGED <<sent, witnesses, member, connected, reading, failed, got>>
  BY DEF Take, WitnessInv, WitnessTypeOK
<1>2. /\ Head(channel) = channel[1] /\ 1 \in DOMAIN channel
      /\ channel' \in Seq(1 .. MaxSent) /\ Len(channel') = Len(channel) - 1
      /\ \A j \in DOMAIN channel' : j + 1 \in DOMAIN channel /\ channel'[j] = channel[j + 1]
      /\ DOMAIN channel' \subseteq Nat \ {0}
      /\ Head(channel) \in 1 .. MaxSent /\ Len(channel) \in Nat
  <2>1. DOMAIN channel' = 1 .. Len(channel) - 1
    BY <1>1, Taken
  <2>2. QED
    BY <1>1, <2>1, Taken
<1>3. WitnessTypeOK'
  <2>1. drain' \in [at : {"idle", "writing", "stuck"}, message : 0 .. MaxSent,
                    todo : Seq(WitnessNode)]
    <3>1. Head(channel) \in 0 .. MaxSent /\ witnesses \in Seq(WitnessNode)
      BY <1>2 DEF WitnessInv, WitnessTypeOK
    <3>2. QED
      BY <1>1, <3>1
  <2>2. Len(channel') <= Capacity
    BY <1>2 DEF WitnessInv, WitnessTypeOK
  <2>3. owed' \in SUBSET WitnessNode
    BY <1>1 DEF WitnessInv, WitnessTypeOK
  <2>4. QED
    BY <1>1, <1>2, <2>1, <2>2, <2>3 DEF WitnessInv, WitnessTypeOK
<1>4. ChannelInv'
  <2>1. \A i, j \in DOMAIN channel' : i < j => i + 1 < j + 1
    BY <1>2
  <2>2. QED
    BY <1>1, <1>2, <2>1 DEF WitnessInv, ChannelInv, Rising
<1>5. WrittenInv'
  BY <1>1, <1>2 DEF WitnessInv, WrittenInv
<1>6. DrainInv'
  <2>1. drain'.message \in 1 .. sent
    BY <1>1, <1>2 DEF WitnessInv, ChannelInv
  <2>2. ASSUME NEW j \in DOMAIN channel'
        PROVE  drain'.message < channel'[j]
    <3>1. 1 < j + 1
      BY <1>2
    <3>2. QED
      BY <1>1, <1>2, <3>1 DEF WitnessInv, ChannelInv, Rising
  <2>3. \A w \in WitnessNode : \A i \in DOMAIN got'[w] : got'[w][i] < drain'.message
    BY <1>1, <1>2 DEF WitnessInv, WrittenInv
  <2>4. \A w \in WitnessNode : \A i \in DOMAIN got'[w] : got'[w][i] \in Nat
    BY <1>1 DEF WitnessInv, WitnessTypeOK
  <2>5. Distinct(drain'.todo) /\ drain'.at = "writing"
    BY <1>1 DEF WitnessInv, ListInv
  <2>6. QED
    BY <1>1, <2>1, <2>2, <2>3, <2>4, <2>5 DEF DrainInv
<1>7. ListInv'
  BY <1>1 DEF WitnessInv, ListInv, Among, Distinct
<1>8. OwedInv'
  BY <1>1 DEF WitnessInv, WitnessTypeOK, ListInv, OwedInv
<1>9. QED
  BY <1>3, <1>4, <1>5, <1>6, <1>7, <1>8 DEF WitnessInv

\* Whom the goroutine goes on to.
LEMMA PassedOn ==
    ASSUME WitnessInv, drain.at # "idle", drain.todo # <<>>, drain' = AfterThis
    PROVE  /\ drain' \in [at : {"idle", "writing", "stuck"}, message : 0 .. MaxSent,
                          todo : Seq(WitnessNode)]
           /\ drain'.at = "writing" /\ drain'.message = drain.message
           /\ Current \in WitnessNode /\ Among(Current, drain.todo)
           /\ Distinct(drain'.todo)
           /\ \A w \in WitnessNode :
                 Among(w, drain'.todo) <=> Among(w, drain.todo) /\ w # Current
<1>1. /\ drain \in [at : {"idle", "writing", "stuck"}, message : 0 .. MaxSent,
                    todo : Seq(WitnessNode)]
      /\ Distinct(drain.todo)
  BY DEF WitnessInv, WitnessTypeOK, DrainInv
<1>2. drain.todo \in Seq(WitnessNode)
  BY <1>1
<1>3. /\ Current \in WitnessNode /\ Among(Current, drain.todo)
      /\ Tail(drain.todo) \in Seq(WitnessNode)
  BY <1>2, Taken DEF Current, Among
<1>4. /\ drain'.at = "writing" /\ drain'.message = drain.message
      /\ drain'.todo = Tail(drain.todo)
      /\ drain' \in [at : {"idle", "writing", "stuck"}, message : 0 .. MaxSent,
                     todo : Seq(WitnessNode)]
  BY <1>1, <1>3 DEF AfterThis
<1>5. QED
  BY <1>1, <1>2, <1>3, <1>4, TailDistinct DEF Current

\* Nothing is written: the connection has gone, has failed, or fails.
LEMMA SilenceKeeps ==
    ASSUME WitnessInv, Skip \/ TimeOut \/ GetCut
    PROVE  WitnessInv'
<1>1. /\ drain.at # "idle" /\ drain.todo # <<>> /\ drain' = AfterThis
      /\ UNCHANGED <<sent, channel, witnesses, member, connected, reading, got>>
  BY DEF Skip, TimeOut, GetCut, Writing, WitnessInv, DrainInv
<1>2. /\ failed' \subseteq failed \cup {Current} /\ failed' \subseteq connected
      /\ owed' \subseteq owed \ {Current}
  <2>1. CASE Skip
    BY <1>1, <2>1 DEF Skip, WitnessInv, WitnessTypeOK, OwedInv
  <2>2. CASE TimeOut
    BY <1>1, <2>2 DEF TimeOut, WitnessInv, WitnessTypeOK, OwedInv
  <2>3. CASE GetCut
    BY <1>1, <2>3 DEF GetCut, WitnessInv, WitnessTypeOK, DrainInv
  <2>4. QED
    BY <2>1, <2>2, <2>3
<1>3. WitnessTypeOK'
  BY <1>1, <1>2, PassedOn DEF WitnessInv, WitnessTypeOK
<1>4. ChannelInv' /\ WrittenInv' /\ ListInv'
  BY <1>1 DEF WitnessInv, ChannelInv, WrittenInv, ListInv, Among
<1>5. DrainInv'
  <2>1. /\ drain'.at = "writing" /\ drain'.message = drain.message
        /\ Distinct(drain'.todo)
        /\ \A w \in WitnessNode : Among(w, drain'.todo) => Among(w, drain.todo)
    BY <1>1, PassedOn
  <2>2. QED
    BY <1>1, <2>1 DEF WitnessInv, DrainInv
<1>6. OwedInv'
  <2>1. drain'.message = drain.message /\ owed \subseteq WitnessNode
    BY <1>1, PassedOn DEF WitnessInv, WitnessTypeOK
  <2>2. \A w \in owed \ {Current} : Among(w, drain.todo) => Among(w, drain'.todo)
    BY <1>1, <2>1, PassedOn
  <2>3. QED
    BY <1>1, <1>2, <2>1, <2>2 DEF WitnessInv, OwedInv
<1>7. QED
  BY <1>3, <1>4, <1>5, <1>6 DEF WitnessInv

\* The message is written, at once or in the end.
LEMMA WritesKeep ==
    ASSUME WitnessInv, WriteWitness \/ GetLoose
    PROVE  WitnessInv'
<1> USE WitnessAssumption
<1> DEFINE old == got[Current]
           new == Append(old, drain.message)
<1>1. /\ drain.at # "idle" /\ drain.todo # <<>> /\ drain' = AfterThis
      /\ got' = [got EXCEPT ![Current] = new]
      /\ UNCHANGED <<sent, channel, witnesses, member, connected, reading, failed, owed>>
  BY DEF WriteWitness, GetLoose, Writing, Offered, WitnessInv, DrainInv
<1>2. /\ Current \in WitnessNode /\ Among(Current, drain.todo)
      /\ drain'.at = "writing" /\ drain'.message = drain.message
      /\ Distinct(drain'.todo)
      /\ \A w \in WitnessNode :
            Among(w, drain'.todo) <=> Among(w, drain.todo) /\ w # Current
  BY <1>1, PassedOn
<1>3. /\ drain.message \in 1 .. MaxSent /\ sent \in Nat /\ drain.message \in 1 .. sent
      /\ \A j \in DOMAIN channel : drain.message < channel[j]
      /\ \A w \in WitnessNode : \A i \in DOMAIN got[w] :
            /\ got[w][i] <= drain.message
            /\ Among(w, drain.todo) => got[w][i] < drain.message
  <2>1. sent \in 0 .. MaxSent
    BY DEF WitnessInv, WitnessTypeOK
  <2>2. drain.message \in 1 .. sent
    BY <1>1 DEF WitnessInv, DrainInv
  <2>3. QED
    BY <1>1, <2>1, <2>2 DEF WitnessInv, DrainInv
<1>4. /\ got \in [WitnessNode -> Seq(1 .. MaxSent)] /\ old \in Seq(1 .. MaxSent)
      /\ Rising(old)
  BY <1>2 DEF WitnessInv, WitnessTypeOK, WrittenInv
<1>5. /\ new \in Seq(1 .. MaxSent) /\ new # <<>> /\ Len(new) = Len(old) + 1
      /\ Len(old) \in Nat /\ DOMAIN old = 1 .. Len(old)
      /\ DOMAIN new = 1 .. Len(old) + 1
      /\ \A i \in DOMAIN new : new[i] = IF i = Len(old) + 1 THEN drain.message ELSE old[i]
  <2>1. /\ drain.message \in 1 .. MaxSent /\ old \in Seq(1 .. MaxSent)
        /\ Len(old) \in Nat /\ DOMAIN old = 1 .. Len(old)
    BY <1>3, <1>4
  <2> HIDE DEF old
  <2>2. QED
    BY <2>1, Appended
<1>6. Rising(new)
  <2>1. 1 .. MaxSent \in SUBSET Nat
    OBVIOUS
  <2>2. \A i \in DOMAIN old : old[i] < drain.message
    BY <1>2, <1>3
  <2> HIDE DEF old
  <2>3. QED
    BY <1>3, <1>4, <2>1, <2>2, AppendRises
<1>7. \A i \in DOMAIN new : new[i] \in 1 .. MaxSent /\ new[i] <= drain.message
  <2>1. \A i \in DOMAIN old : old[i] <= drain.message /\ old[i] \in 1 .. MaxSent
    BY <1>2, <1>3, <1>4
  <2>2. \A i \in DOMAIN new : i # Len(old) + 1 => i \in DOMAIN old
    BY <1>5
  <2>3. drain.message <= drain.message
    BY <1>3
  <2>4. \A i \in DOMAIN new :
           new[i] = drain.message \/ \E j \in DOMAIN old : new[i] = old[j]
    BY <1>5, <2>2
  <2> HIDE DEF old, new
  <2>5. QED
    BY <1>3, <2>1, <2>3, <2>4
<1>8. \A w \in WitnessNode : got'[w] = IF w = Current THEN new ELSE got[w]
  BY <1>1, <1>4
<1>9. \A w \in WitnessNode : \A i \in DOMAIN got'[w] :
         got'[w][i] \in 1 .. MaxSent /\ got'[w][i] <= drain.message
  <2>1. \A w \in WitnessNode : \A i \in DOMAIN got[w] :
           got[w][i] \in 1 .. MaxSent /\ got[w][i] <= drain.message
    BY <1>3, <1>4
  <2> HIDE DEF new
  <2>2. QED
    BY <1>7, <1>8, <2>1
<1> HIDE DEF old, new
<1>10. WitnessTypeOK'
  <2>1. got' \in [WitnessNode -> Seq(1 .. MaxSent)]
    BY <1>1, <1>4, <1>5
  <2>2. drain' \in [at : {"idle", "writing", "stuck"}, message : 0 .. MaxSent,
                    todo : Seq(WitnessNode)]
    BY <1>1, PassedOn
  <2>3. QED
    BY <1>1, <2>1, <2>2 DEF WitnessInv, WitnessTypeOK
<1>11. ChannelInv' /\ ListInv'
  BY <1>1 DEF WitnessInv, ChannelInv, ListInv, Among
<1>12. WrittenInv'
  <2>1. \A j \in DOMAIN channel : channel[j] \in Nat
    BY DEF WitnessInv, WitnessTypeOK
  <2>2. \A w \in WitnessNode : \A i \in DOMAIN got'[w] :
           /\ got'[w][i] <= sent
           /\ \A j \in DOMAIN channel : got'[w][i] < channel[j]
    BY <1>3, <1>9, <2>1
  <2>3. \A w \in WitnessNode : Rising(got'[w])
    BY <1>6, <1>8 DEF WitnessInv, WrittenInv
  <2>4. QED
    BY <1>1, <2>2, <2>3 DEF WrittenInv
<1>13. DrainInv'
  <2>1. ASSUME NEW w \in WitnessNode, NEW i \in DOMAIN got'[w], Among(w, drain'.todo)
        PROVE  got'[w][i] < drain.message
    BY <1>2, <1>3, <1>8, <2>1
  <2>2. QED
    BY <1>1, <1>2, <1>3, <1>9, <2>1 DEF DrainInv
<1>14. OwedInv'
  <2>1. new[Len(new)] = drain.message
    BY <1>5
  <2>2. owed \subseteq WitnessNode
    BY DEF WitnessInv, WitnessTypeOK
  <2>3. ASSUME NEW w \in owed
        PROVE  \/ Among(w, drain'.todo)
               \/ got'[w] # <<>> /\ got'[w][Len(got'[w])] = drain.message
    <3>1. CASE w = Current
      BY <1>5, <1>8, <2>1, <2>2, <3>1
    <3>2. CASE w # Current
      BY <1>1, <1>2, <1>8, <2>2, <3>2 DEF WitnessInv, OwedInv
    <3>3. QED
      BY <3>1, <3>2
  <2>4. QED
    BY <1>1, <1>2, <2>3 DEF WitnessInv, OwedInv
<1>15. QED
  BY <1>10, <1>11, <1>12, <1>13, <1>14 DEF WitnessInv

\* The write that waits, and the end of a round.
LEMMA WaitsKeep ==
    ASSUME WitnessInv, GetStuck \/ Rest
    PROVE  WitnessInv'
<1>1. UNCHANGED <<sent, channel, witnesses, member, connected, reading, failed,
                   owed, got>>
  BY DEF GetStuck, Rest
<1>2. ChannelInv' /\ WrittenInv' /\ ListInv'
  BY <1>1 DEF WitnessInv, ChannelInv, WrittenInv, ListInv, Among
<1>3. CASE GetStuck
  <2>1. /\ drain.at = "writing" /\ drain.todo # <<>> /\ Current \in connected \ failed
        /\ drain' = [drain EXCEPT !.at = "stuck"]
        /\ drain \in [at : {"idle", "writing", "stuck"}, message : 0 .. MaxSent,
                      todo : Seq(WitnessNode)]
    BY <1>3 DEF GetStuck, Writing, WitnessInv, WitnessTypeOK
  <2>2. /\ drain' \in [at : {"idle", "writing", "stuck"}, message : 0 .. MaxSent,
                       todo : Seq(WitnessNode)]
        /\ drain'.at = "stuck" /\ drain'.message = drain.message
        /\ drain'.todo = drain.todo
    BY <2>1
  <2>3. WitnessTypeOK'
    BY <1>1, <2>2 DEF WitnessInv, WitnessTypeOK
  <2>4. DrainInv'
    BY <1>1, <2>1, <2>2 DEF WitnessInv, DrainInv, Current
  <2>5. OwedInv'
    BY <1>1, <2>1, <2>2 DEF WitnessInv, OwedInv
  <2>6. QED
    BY <1>2, <2>3, <2>4, <2>5 DEF WitnessInv
<1>4. CASE Rest
  <2>1. drain' = Resting
    BY <1>4 DEF Rest
  <2>2. WitnessTypeOK' /\ DrainInv' /\ OwedInv'
    BY <1>1, <2>1, WitnessAssumption
       DEF WitnessInv, WitnessTypeOK, DrainInv, OwedInv, Resting
  <2>3. QED
    BY <1>2, <2>2 DEF WitnessInv
<1>5. QED
  BY <1>3, <1>4

\* Every step of the witnesses keeps the invariant.
LEMMA WitnessInvInductive ==
    ASSUME WitnessInv, WitnessNext PROVE WitnessInv'
BY ListKeeps, ConnectionsKeep, SendKeeps, TakeKeeps, SilenceKeeps, WritesKeep, WaitsKeep
   DEF WitnessNext

-----------------------------------------------------------------------------
\* What was written to a witness is in the order of Send, each once.
LEMMA InvOrder == WitnessInv => WitnessedOnceInOrder
BY DEF WitnessInv, WrittenInv, Rising, WitnessedOnceInOrder

\* At the end of a round everyone who is still fit for it has the message.
LEMMA InvAttentive == WitnessInv => AttentiveMissNothing
<1>1. \A w : ~ Among(w, <<>>)
  BY DEF Among
<1>2. QED
  BY <1>1 DEF WitnessInv, OwedInv, AttentiveMissNothing, Lists!Last

-----------------------------------------------------------------------------
(* Subscribers, publications and witnesses together.                       *)

FanoutInv == TopicsInv /\ WitnessInv

\* Nothing changes for subscribers and publications when nothing of them does.
LEMMA TopicsStutter ==
    ASSUME TopicsInv, UNCHANGED topicsVars
    PROVE  TopicsInv'
<1>1. UNCHANGED <<nodes, index, clients, publication>>
  BY DEF topicsVars
<1>2. TopicsTypeOK'
  BY <1>1, TopicsAssumption DEF TopicsInv, TopicsTypeOK, index, clients
<1>3. QED
  BY <1>1, <1>2, IndexUnchanged, ClientsUnchanged, PublicationsUnchanged DEF TopicsInv

\* Nor for witnesses.
LEMMA WitnessStutter ==
    ASSUME WitnessInv, UNCHANGED witnessVars
    PROVE  WitnessInv'
<1>1. WitnessTypeOK'
  BY DEF WitnessInv, WitnessTypeOK, witnessVars
<1>2. ChannelInv' /\ WrittenInv' /\ ListInv'
  BY DEF WitnessInv, ChannelInv, WrittenInv, ListInv, Among, witnessVars
<1>3. DrainInv' /\ OwedInv'
  BY DEF WitnessInv, DrainInv, OwedInv, Current, Resting, Among, witnessVars
<1>4. QED
  BY <1>1, <1>2, <1>3 DEF WitnessInv

\* Both invariants are kept.
LEMMA FanoutInvInductive ==
    ASSUME FanoutInv, [Next]_vars
    PROVE  FanoutInv'
<1>1. CASE TopicsNext /\ UNCHANGED witnessVars
  BY <1>1, TopicsInvInductive, WitnessStutter DEF FanoutInv
<1>2. CASE WitnessNext /\ UNCHANGED topicsVars
  BY <1>2, WitnessInvInductive, TopicsStutter DEF FanoutInv
<1>3. CASE UNCHANGED vars
  BY <1>3, WitnessStutter, TopicsStutter DEF FanoutInv, vars
<1>4. QED
  BY <1>1, <1>2, <1>3 DEF Next

-----------------------------------------------------------------------------
(* The invariant of subscriptions, publications and witness messages.      *)
THEOREM FanoutInvariant == Spec => []FanoutInv
<1>1. Init => FanoutInv
  BY TopicsInvInit, WitnessInvInit DEF Init, FanoutInv
<1>2. FanoutInv /\ [Next]_vars => FanoutInv'
  BY FanoutInvInductive
<1>3. QED
  BY <1>1, <1>2, PTL DEF Spec

(* A node that waits for its answers and writes full names has as many     *)
(* entries as they add up to (subscribe, unsubscribe).                     *)
THEOREM CopiesAsSubscribedCorrect == Spec => []CopiesAsSubscribed
<1>1. FanoutInv => CopiesAsSubscribed
  <2> SUFFICES ASSUME FanoutInv, NEW c \in Patient, Exact(c), ~ Waits(c),
                      NEW k \in Uses[c]
               PROVE  Entries(c, k) = books[c][k]
    BY DEF CopiesAsSubscribed
  <2>1. Untold(c, k, "subscribed") /\ Untold(c, k, "unsubscribed")
    BY DEF Untold, Waits
  <2>2. QED
    BY <2>1 DEF FanoutInv, TopicsInv, CopiesInv
<1>2. QED
  BY <1>1, FanoutInvariant, PTL

(* Subscriptions are covered by allowances, although the permission is     *)
(* checked before the key is resolved (topicSubscribe).                    *)
THEOREM SubscribedWithinGrantCorrect == Spec => []SubscribedWithinGrant
<1>1. FanoutInv => SubscribedWithinGrant
  BY DEF FanoutInv, TopicsInv
<1>2. QED
  BY <1>1, FanoutInvariant, PTL

(* A publication goes to the subscribers of the publisher's own topic or   *)
(* to nobody, while the publisher is registered (broadcast, resolve).      *)
THEOREM OwnTopicOnlyCorrect == Spec => []OwnTopicOnly
<1>1. FanoutInv => OwnTopicOnly
  BY DEF FanoutInv, TopicsInv, PublicationInv, OwnTopicOnly
<1>2. QED
  BY <1>1, FanoutInvariant, PTL

(* A witness gets messages in the order of Send and none twice             *)
(* (witness.Init, WriteWitness).                                           *)
THEOREM WitnessedOnceInOrderCorrect == Spec => []WitnessedOnceInOrder
<1>1. FanoutInv => WitnessedOnceInOrder
  BY InvOrder DEF FanoutInv
<1>2. QED
  BY <1>1, FanoutInvariant, PTL

(* Who stays registered, connected and reading misses no message that the  *)
(* channel had room for (register, unregister, witness.Init).              *)
THEOREM AttentiveMissNothingCorrect == Spec => []AttentiveMissNothing
<1>1. FanoutInv => AttentiveMissNothing
  BY InvAttentive DEF FanoutInv
<1>2. QED
  BY <1>1, FanoutInvariant, PTL
=============================================================================
