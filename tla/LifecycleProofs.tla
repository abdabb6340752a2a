-------------------------- MODULE LifecycleProofs ---------------------------
(***************************************************************************)
(* Proofs about installing, uninstalling and querying nodes, for any       *)
(* number of nodes, capabilities, jobs and registry elements.              *)
(***************************************************************************)
EXTENDS Lifecycle, TLAPS, FiniteSetTheorems

Changing == {"install", "uninstall", "reinstall"}
Removing == {"delete", "remove", "revoke"}
Claiming == {"register", "insert", "remove"}
JobType == [op : Ops, id : Id \cup {None}, at : Places, ask : SUBSET (Caps \cup Id)]

\* What a job does and where it is go together.
JobOK(r) ==
    /\ r.at = "idle" => r = Idle
    /\ r.op = "query" <=> r.at \in Lookups
    /\ r.op = "none" => r.at = "idle"
    /\ r.op = "query" => r.ask \subseteq Id
    /\ r.op \in Changing =>
          /\ r.id \in Id /\ r.ask \subseteq Caps
          /\ r.at # "prompt" => r.ask = {}
          /\ r.at \in Removing \cup {"forget"} => r.op # "install"
JobInv == \A j \in Job : JobOK(job[j])

\* Uninstall holds n.mu from its lookup to its end.
LockInv ==
    \A j \in Job :
        /\ job[j].at \in Removing => lock = j /\ job[j].id \in halfway
        /\ At(j, "delete") => job[j].id \in nodes

\* Who needs an element of id in the registry: the node that is installed, a
\* job that added one and did not insert the node yet, and a job that deleted
\* the node and did not remove one yet.
Claims(id) ==
    {j \in Job : job[j].id = id /\ job[j].at \in Claiming}
        \cup {x \in {None} : id \in nodes}
ClaimInv ==
    \A id \in Id :
        Cardinality(Claims(id)) <= elements[id] /\ Cardinality(Claims(id)) <= saved[id]

\* Where a job is tells whether its node is on the bus and installed, ...
RightPlace(j, id) ==
    /\ job[j].at \in {"authorize", "forget"} => (id \in bus <=> id \in nodes)
    /\ At(j, "add") =>
          IF job[j].op = "install" THEN id \in bus <=> id \in nodes
          ELSE id \notin bus /\ id \notin nodes
    /\ At(j, "delete") => id \notin bus
    /\ job[j].at \in {"remove", "revoke"} => id \notin bus /\ id \notin nodes
    /\ job[j].at \in {"insert", "prompt"} => id \in bus
    /\ At(j, "prompt") => id \in nodes

\* ... as long as it is the only one to work on it.
Changes(j, id) == job[j].op \in Changing /\ job[j].id = id
Undisturbed(id) ==
    /\ \A j \in Job : Changes(j, id) =>
          /\ \A k \in Job : id \in WorksOn(k) => k = j
          /\ RightPlace(j, id)
    /\ (\A j \in Job : ~ Changes(j, id)) => (id \in bus <=> id \in nodes)
    /\ \A k \in Job : job[k].op = "query" /\ id \in WorksOn(k) => id \in nodes
AloneInv == panic = None => \A id \in Id \ overlapped : Undisturbed(id)

\* Other nodes have no grants, neither in memory nor in the file.
GrantInv ==
    \A id \in Id \ (nodes \cup halfway \cup overlapped) :
        grants[id] = {} /\ savedGrants[id] = {}

LifecycleInv ==
    /\ TypeOK
    /\ JobInv
    /\ LockInv
    /\ ClaimInv
    /\ AloneInv
    /\ GrantInv
    /\ QueriesSurvive

-----------------------------------------------------------------------------
(* One job moves.                                                          *)

Others(j) == \A k \in Job \ {j} : job'[k] = job[k]

\* A goroutine without a job.
LEMMA IdleIsAJob == Idle \in JobType /\ JobOK(Idle)
BY DEF Idle, JobType, JobOK, Ops, Places, Lookups, Changing

\* End touches no other job.
LEMMA EndMoves ==
    ASSUME TypeOK, NEW j \in Job, End(j)
    PROVE  job' \in [Job -> JobType] /\ Others(j) /\ job'[j] = Idle
BY IdleIsAJob DEF TypeOK, JobType, End, Others

\* Nor does Go, which keeps what the job is for.
LEMMA GoMoves ==
    ASSUME TypeOK, NEW j \in Job, NEW place \in Places, Go(j, place)
    PROVE  /\ job' \in [Job -> JobType] /\ Others(j)
           /\ job'[j].op = job[j].op /\ job'[j].id = job[j].id
           /\ job'[j].ask = job[j].ask /\ job'[j].at = place
BY DEF TypeOK, JobType, Go, Others

\* What a query, or the user, has answered is not asked any more.
LEMMA AskMoves ==
    ASSUME TypeOK, NEW j \in Job, NEW x, job' = [job EXCEPT ![j].ask = @ \ {x}]
    PROVE  /\ job' \in [Job -> JobType] /\ Others(j)
           /\ job'[j].op = job[j].op /\ job'[j].id = job[j].id
           /\ job'[j].ask = job[j].ask \ {x} /\ job'[j].at = job[j].at
BY DEF TypeOK, JobType, Others

\* One job moves, and is as a job can be.
LEMMA JobKept ==
    ASSUME JobInv, NEW j \in Job, Others(j), JobOK(job'[j])
    PROVE  JobInv'
<1>1. \A k \in Job : JobOK(job'[k])
  BY DEF JobInv, Others
<1>2. QED
  BY <1>1 DEF JobInv, JobOK, Idle

\* The lock is one job's, and what it rests on stays for the others.
LEMMA LockKept ==
    ASSUME LockInv, NEW j \in Job, Others(j),
           \/ lock = j
           \/ /\ lock' = lock \/ lock = None
              /\ halfway \subseteq halfway' /\ nodes \subseteq nodes',
           job'[j].at \in Removing => lock' = j /\ job'[j].id \in halfway',
           job'[j].at = "delete" => job'[j].id \in nodes'
    PROVE  LockInv'
<1>1. ASSUME NEW k \in Job
      PROVE  /\ job'[k].at \in Removing => lock' = k /\ job'[k].id \in halfway'
             /\ job'[k].at = "delete" => job'[k].id \in nodes'
  <2>1. CASE k = j
    BY <2>1
  <2>2. CASE k # j
    BY <2>2, LifecycleAssumption DEF LockInv, Others, At, Removing
  <2>3. QED
    BY <2>1, <2>2
<1>2. QED
  BY <1>1 DEF LockInv, At

-----------------------------------------------------------------------------
(* Counting elements.                                                      *)

\* Claims can be counted.
LEMMA ClaimsFinite ==
    ASSUME NEW id
    PROVE  /\ IsFiniteSet(Claims(id)) /\ Cardinality(Claims(id)) \in Nat
           /\ IsFiniteSet(Claims(id)') /\ Cardinality(Claims(id)') \in Nat
<1>1. Claims(id) \subseteq Job \cup {None} /\ Claims(id)' \subseteq Job \cup {None}
  BY DEF Claims
<1>2. IsFiniteSet(Job \cup {None})
  BY LifecycleAssumption, FS_AddElement
<1>3. QED
  BY <1>1, <1>2, FS_Subset, FS_CardinalityType

\* One member more.
LEMMA OneMore ==
    ASSUME NEW S, IsFiniteSet(S), NEW y, NEW T \in SUBSET (S \cup {y})
    PROVE  Cardinality(T) <= Cardinality(S) + 1
<1>1. IsFiniteSet(S \cup {y}) /\ Cardinality(S \cup {y}) <= Cardinality(S) + 1
  <2>1. /\ IsFiniteSet(S \cup {y})
        /\ Cardinality(S \cup {y}) = IF y \in S THEN Cardinality(S) ELSE Cardinality(S) + 1
    BY FS_AddElement
  <2>2. Cardinality(S) \in Nat
    BY FS_CardinalityType
  <2>3. QED
    BY <2>1, <2>2
<1>2. Cardinality(T) <= Cardinality(S \cup {y}) /\ IsFiniteSet(T)
  BY <1>1, FS_Subset
<1>3. QED
  BY <1>1, <1>2, FS_CardinalityType

\* One member less.
LEMMA OneLess ==
    ASSUME NEW S, IsFiniteSet(S), NEW x \in S, NEW T \in SUBSET (S \ {x})
    PROVE  Cardinality(T) <= Cardinality(S) - 1
<1>1. IsFiniteSet(S \ {x}) /\ Cardinality(S \ {x}) = Cardinality(S) - 1
  BY FS_RemoveElement
<1>2. Cardinality(T) <= Cardinality(S \ {x})
  BY <1>1, FS_Subset
<1>3. QED
  BY <1>1, <1>2

\* One member in the place of another.
LEMMA Exchanged ==
    ASSUME NEW S, IsFiniteSet(S), NEW x \in S, NEW y, NEW T \in SUBSET ((S \ {x}) \cup {y})
    PROVE  Cardinality(T) <= Cardinality(S)
<1>1. IsFiniteSet(S \ {x}) /\ Cardinality(S \ {x}) = Cardinality(S) - 1
  BY FS_RemoveElement
<1>2. Cardinality(T) <= Cardinality(S \ {x}) + 1
  BY <1>1, OneMore
<1>3. QED
  BY <1>1, <1>2, FS_CardinalityType

\* As many elements, and no more claims on them.
LEMMA ClaimsAgain ==
    ASSUME TypeOK, ClaimInv, UNCHANGED registry,
           \A id \in Id : Cardinality(Claims(id)') <= Cardinality(Claims(id))
    PROVE  ClaimInv'
<1>1. ASSUME NEW id \in Id
      PROVE  /\ Cardinality(Claims(id)') <= elements'[id]
             /\ Cardinality(Claims(id)') <= saved'[id]
  BY ClaimsFinite DEF ClaimInv, registry, TypeOK
<1>2. QED
  BY <1>1 DEF ClaimInv

\* No job comes to need an element, and none is added or removed.
LEMMA ClaimsKept ==
    ASSUME TypeOK, ClaimInv, NEW j \in Job, Others(j),
           job'[j].at \in Claiming =>
               job'[j].id = job[j].id /\ job[j].at \in Claiming,
           nodes' \subseteq nodes, UNCHANGED registry
    PROVE  ClaimInv'
<1>1. ASSUME NEW id \in Id
      PROVE  Cardinality(Claims(id)') <= Cardinality(Claims(id))
  <2>1. Claims(id)' \subseteq Claims(id)
    BY DEF Claims, Others
  <2>2. QED
    BY <2>1, ClaimsFinite, FS_Subset
<1>2. QED
  BY <1>1, ClaimsAgain

-----------------------------------------------------------------------------
(* Who works on which node.                                                *)

\* A job that has nothing to do with id.
LEMMA StrangerKeeps ==
    ASSUME NEW j \in Job, NEW id \in Id, Undisturbed(id), Others(j),
           id \notin WorksOn(j), id \notin WorksOn(j)',
           id \in bus' <=> id \in bus, id \in nodes' <=> id \in nodes
    PROVE  Undisturbed(id)'
<1>1. ~ Changes(j, id) /\ ~ Changes(j, id)'
  BY DEF Changes, WorksOn
<1>2. \A k \in Job \ {j} :
        /\ WorksOn(k)' = WorksOn(k)
        /\ Changes(k, id)' <=> Changes(k, id)
        /\ RightPlace(k, id)' <=> RightPlace(k, id)
  BY DEF Others, WorksOn, Changes, RightPlace, At
<1>3. \A k \in Job : Changes(k, id)' => \A l \in Job : id \in WorksOn(l)' => l = k
  BY <1>1, <1>2 DEF Undisturbed
<1>4. \A k \in Job : Changes(k, id)' => RightPlace(k, id)'
  BY <1>1, <1>2 DEF Undisturbed
<1>5. (\A k \in Job : ~ Changes(k, id)') => (id \in bus' <=> id \in nodes')
  BY <1>1, <1>2 DEF Undisturbed
<1>6. \A k \in Job : job'[k].op = "query" /\ id \in WorksOn(k)' => id \in nodes'
  BY <1>2 DEF Undisturbed, Others
<1>7. QED
  BY <1>3, <1>4, <1>5, <1>6 DEF Undisturbed

\* The job that is alone with its node goes on, or ends.
LEMMA OwnerKeeps ==
    ASSUME NEW j \in Job, NEW id \in Id, Undisturbed(id), Others(j), Changes(j, id),
           \/ Changes(j, id)' /\ RightPlace(j, id)'
           \/ job'[j] = Idle /\ (id \in bus' <=> id \in nodes')
    PROVE  Undisturbed(id)'
<1>1. \A k \in Job \ {j} : id \notin WorksOn(k)' /\ ~ Changes(k, id)'
  BY DEF Undisturbed, Others, WorksOn, Changes
<1>2. job'[j].op # "query"
  BY DEF Changes, Changing, Idle
<1>3. job'[j] = Idle => ~ Changes(j, id)'
  BY DEF Changes, Changing, Idle
<1>4. QED
  BY <1>1, <1>2, <1>3 DEF Undisturbed

\* A step of a job that changes a node.
LEMMA AloneKept ==
    ASSUME JobInv, AloneInv, NEW j \in Job, NEW id \in Id, Changes(j, id), Others(j),
           UNCHANGED <<panic, overlapped>>,
           \A i \in Id \ {id} : i \in bus' <=> i \in bus,
           \A i \in Id \ {id} : i \in nodes' <=> i \in nodes,
           Changes(j, id)' \/ job'[j] = Idle,
           RightPlace(j, id) =>
              IF job'[j] = Idle THEN id \in bus' <=> id \in nodes' ELSE RightPlace(j, id)'
    PROVE  AloneInv'
<1>1. SUFFICES ASSUME panic = None, NEW i \in Id \ overlapped
               PROVE  Undisturbed(i)'
  BY DEF AloneInv
<1>2. Undisturbed(i)
  BY <1>1 DEF AloneInv
<1>3. CASE i = id
  <2>1. RightPlace(j, id)
    BY <1>2, <1>3 DEF Undisturbed
  <2>2. QED
    BY <1>2, <1>3, <2>1, OwnerKeeps
<1>4. CASE i # id
  <2>1. job[j].id # i /\ job[j].op # "query"
    BY <1>4 DEF Changes, Changing
  <2>2. job'[j].id # i /\ job'[j].op # "query"
    BY <1>1, <1>4, LifecycleAssumption DEF Changes, Changing, Idle
  <2>3. WorksOn(j) = {job[j].id} /\ WorksOn(j)' = {job'[j].id}
    BY <2>1, <2>2 DEF WorksOn
  <2>4. i \in Id /\ i \notin WorksOn(j) /\ i \notin WorksOn(j)'
    BY <1>1, <2>1, <2>2, <2>3
  <2>5. (i \in bus' <=> i \in bus) /\ (i \in nodes' <=> i \in nodes)
    BY <1>4, <2>4
  <2>6. QED
    BY <1>2, <2>4, <2>5, StrangerKeeps
<1>5. QED
  BY <1>3, <1>4

\* The last parts of the invariant, when nothing is granted or given up.
LEMMA GrantsKept ==
    ASSUME GrantInv, UNCHANGED permissions,
           nodes \cup halfway \cup overlapped \subseteq nodes' \cup halfway' \cup overlapped'
    PROVE  GrantInv'
BY DEF GrantInv, permissions

-----------------------------------------------------------------------------
(* The steps of install, uninstall and reinstall.                          *)

\* Where a job is with its node tells what it does.
LEMMA ChangingThere ==
    ASSUME TypeOK, JobInv, NEW j \in Job,
           job[j].at \notin Lookups \cup {"idle"}
    PROVE  Changes(j, job[j].id) /\ job[j].id \in Id
BY DEF TypeOK, JobInv, JobOK, Changes, Changing, Ops

\* A job begins with a node: the three Begin actions.
LEMMA BeginStep ==
    ASSUME LifecycleInv, NEW j \in Job, NEW id \in Id,
           BeginInstall(j, id) \/ BeginReinstall(j, id) \/ BeginUninstall(j, id)
    PROVE  LifecycleInv'
<1>1. /\ UNCHANGED <<nodes, blank, bus, registry, permissions, lock, halfway, panic>>
      /\ At(j, "idle")
  BY DEF BeginInstall, BeginReinstall, BeginUninstall, Begin
<1>2. PICK op \in Changing, place \in {"authorize", "forget"} :
         /\ Begin(j, op, id, place)
         /\ place = "forget" => op # "install"
  BY DEF BeginInstall, BeginReinstall, BeginUninstall, Changing
<1>3. /\ job' = [job EXCEPT ![j] = [op |-> op, id |-> id, at |-> place, ask |-> {}]]
      /\ overlapped' = overlapped \cup {i \in {id} : \E k \in Job : i \in WorksOn(k)}
  BY <1>2 DEF Begin
<1>4. /\ job' \in [Job -> JobType] /\ Others(j)
      /\ job'[j] = [op |-> op, id |-> id, at |-> place, ask |-> {}]
  <2>1. [op |-> op, id |-> id, at |-> place, ask |-> {}] \in JobType
    BY <1>2 DEF JobType, Changing, Ops, Places
  <2>2. QED
    BY <1>3, <2>1 DEF LifecycleInv, TypeOK, JobType, Others
<1>5. job'[j].op = op /\ job'[j].id = id /\ job'[j].at = place /\ job'[j].ask = {}
  BY <1>4
<1>6. overlapped \subseteq overlapped' /\ overlapped' \in SUBSET Id
  BY <1>3 DEF LifecycleInv, TypeOK
<1>7. TypeOK'
  BY <1>1, <1>4, <1>6 DEF LifecycleInv, TypeOK, JobType, registry, permissions
<1>8. JobInv'
  <2>1. JobOK(job'[j])
    BY <1>2, <1>5 DEF JobOK, Changing, Lookups, Removing
  <2>2. QED
    BY <1>4, <2>1, JobKept DEF LifecycleInv
<1>9. LockInv'
  BY <1>1, <1>4, <1>5, LockKept DEF LifecycleInv, Removing
<1>10. ClaimInv'
  BY <1>1, <1>4, <1>5, ClaimsKept DEF LifecycleInv, Claiming
<1>11. AloneInv'
  <2>1. SUFFICES ASSUME panic = None, NEW i \in Id \ overlapped'
                 PROVE  Undisturbed(i)'
    BY <1>1 DEF AloneInv
  <2>2. Undisturbed(i)
    BY <1>6, <2>1 DEF LifecycleInv, AloneInv
  <2>3. WorksOn(j) = {None} /\ WorksOn(j)' = {id}
    BY <1>1, <1>2, <1>5 DEF LifecycleInv, JobInv, JobOK, At, Idle, WorksOn, Changing
  <2>4. CASE i # id
    BY <1>1, <1>4, <2>1, <2>2, <2>3, <2>4, StrangerKeeps, LifecycleAssumption
  <2>5. CASE i = id
    <3>1. \A k \in Job : i \notin WorksOn(k)
      BY <1>3, <2>1, <2>5
    <3>2. \A k \in Job \ {j} : i \notin WorksOn(k)' /\ ~ Changes(k, i)'
      BY <1>4, <3>1 DEF Others, WorksOn, Changes
    <3>3. i \in bus <=> i \in nodes
      BY <2>2, <3>1 DEF Undisturbed, Changes, WorksOn
    <3>4. Changes(j, i)' /\ RightPlace(j, i)' /\ job'[j].op # "query"
      BY <1>1, <1>2, <1>5, <2>5, <3>3 DEF Changes, RightPlace, At, Changing
    <3>5. QED
      BY <3>2, <3>4 DEF Undisturbed
  <2>6. QED
    BY <2>4, <2>5
<1>12. GrantInv' /\ QueriesSurvive'
  BY <1>1, <1>6, GrantsKept DEF LifecycleInv, QueriesSurvive
<1>13. QED
  BY <1>7, <1>8, <1>9, <1>10, <1>11, <1>12 DEF LifecycleInv

\* Steps that change nothing but where the job is.
LEMMA QuietStep ==
    ASSUME LifecycleInv, NEW j \in Job,
           \/ Authorized(j) \/ Refused(j) \/ NotInstalled(j) \/ EndInstall(j)
           \/ \E c \in Caps : Deny(j, c)
    PROVE  LifecycleInv'
<1> DEFINE id == job[j].id
<1>1. /\ UNCHANGED <<nodes, blank, bus, registry, permissions, lock, world>>
      /\ job[j].at \in {"authorize", "forget", "prompt"}
  BY DEF Authorized, Refused, NotInstalled, EndInstall, Deny, At
<1>2. Changes(j, id) /\ id \in Id
  BY <1>1, ChangingThere DEF LifecycleInv, Lookups
<1>3. JobOK(job[j])
  BY DEF LifecycleInv, JobInv
<1>4. /\ job' \in [Job -> JobType] /\ Others(j) /\ JobOK(job'[j])
      /\ job'[j].at \in {"add", "forget", "prompt", "idle"}
      /\ \/ job'[j] = Idle
         \/ /\ job'[j].op = job[j].op /\ job'[j].id = id
            /\ \/ At(j, "prompt") /\ job'[j].at = "prompt"
               \/ At(j, "authorize") /\ job'[j].at = "add" /\ job[j].op = "install"
               \/ At(j, "authorize") /\ job'[j].at = "forget" /\ job[j].op # "install"
  <2>1. CASE Authorized(j)
    <3>1. PICK place \in {"add", "forget"} :
             /\ Go(j, place) /\ At(j, "authorize")
             /\ place = "add" <=> job[j].op = "install"
      BY <2>1 DEF Authorized
    <3>2. /\ job' \in [Job -> JobType] /\ Others(j)
          /\ job'[j].op = job[j].op /\ job'[j].id = job[j].id
          /\ job'[j].ask = job[j].ask /\ job'[j].at = place
      BY <3>1, GoMoves DEF LifecycleInv, Places
    <3>3. JobOK(job'[j])
      BY <1>2, <1>3, <3>1, <3>2
         DEF JobOK, At, Changes, Changing, Lookups, Removing
    <3>4. QED
      BY <3>1, <3>2, <3>3
  <2>2. CASE Refused(j) \/ NotInstalled(j) \/ EndInstall(j)
    <3>1. End(j)
      BY <2>2 DEF Refused, NotInstalled, EndInstall
    <3>2. QED
      BY <3>1, EndMoves, IdleIsAJob DEF LifecycleInv, Idle
  <2>3. CASE \E c \in Caps : Deny(j, c)
    <3>1. PICK c \in Caps :
             At(j, "prompt") /\ job' = [job EXCEPT ![j].ask = @ \ {c}]
      BY <2>3 DEF Deny
    <3>2. /\ job' \in [Job -> JobType] /\ Others(j)
          /\ job'[j].op = job[j].op /\ job'[j].id = job[j].id
          /\ job'[j].ask = job[j].ask \ {c} /\ job'[j].at = job[j].at
      BY <3>1, AskMoves DEF LifecycleInv
    <3>3. JobOK(job'[j])
      BY <1>2, <1>3, <3>1, <3>2
         DEF JobOK, At, Changes, Changing, Lookups, Removing
    <3>4. QED
      BY <3>1, <3>2, <3>3 DEF At
  <2>4. QED
    BY <2>1, <2>2, <2>3
<1>5. TypeOK'
  BY <1>1, <1>4 DEF LifecycleInv, TypeOK, JobType, registry, permissions, world
<1>6. JobInv'
  BY <1>4, JobKept DEF LifecycleInv
<1>7. LockInv'
  BY <1>1, <1>4, LockKept DEF LifecycleInv, Removing, world
<1>8. ClaimInv'
  BY <1>1, <1>4, ClaimsKept DEF LifecycleInv, Claiming
<1>9. AloneInv'
  <2>1. Changes(j, id)' \/ job'[j] = Idle
    BY <1>2, <1>4 DEF Changes
  <2>2. ASSUME RightPlace(j, id)
        PROVE  IF job'[j] = Idle THEN id \in bus' <=> id \in nodes' ELSE RightPlace(j, id)'
    BY <1>1, <1>4, <2>2 DEF RightPlace, At
  <2>3. QED
    BY <1>1, <1>2, <1>4, <2>1, <2>2, AloneKept DEF LifecycleInv, world
<1>10. GrantInv' /\ QueriesSurvive'
  BY <1>1, GrantsKept DEF LifecycleInv, QueriesSurvive, world
<1>11. QED
  BY <1>5, <1>6, <1>7, <1>8, <1>9, <1>10 DEF LifecycleInv

\* A job goes on with its node, or ends.
LEMMA Advances ==
    ASSUME LifecycleInv, NEW j \in Job, NEW id \in Id, Changes(j, id),
           job[j].at \in {"forget", "add", "register"} \cup Removing,
           NEW place \in {"add", "register", "insert"} \cup Removing,
           place \in Removing => job[j].at \in Removing \cup {"forget"},
           Go(j, place) \/ End(j)
    PROVE  /\ job' \in [Job -> JobType] /\ Others(j) /\ JobInv'
           /\ Go(j, place) => /\ job'[j].at = place /\ Changes(j, id)'
                              /\ job'[j].op = job[j].op /\ job'[j] # Idle
           /\ End(j) => job'[j] = Idle /\ job'[j].at = "idle"
<1>1. CASE Go(j, place)
  <2>1. /\ job' \in [Job -> JobType] /\ Others(j)
        /\ job'[j].op = job[j].op /\ job'[j].id = job[j].id
        /\ job'[j].ask = job[j].ask /\ job'[j].at = place
    BY <1>1, GoMoves DEF LifecycleInv, Places, Removing
  <2>2. JobOK(job[j])
    BY DEF LifecycleInv, JobInv
  <2>3. JobOK(job'[j])
    BY <2>1, <2>2 DEF JobOK, Changes, Changing, Lookups, Removing
  <2>4. job'[j] # Idle /\ Idle.at = "idle"
    BY <2>1 DEF Idle, Removing
  <2>5. ~ End(j)
    BY <2>1, <2>4, EndMoves DEF LifecycleInv
  <2>6. QED
    BY <2>1, <2>3, <2>4, <2>5, JobKept DEF LifecycleInv, Changes
<1>2. CASE End(j)
  <2>1. job' \in [Job -> JobType] /\ Others(j) /\ job'[j] = Idle /\ JobOK(Idle)
    BY <1>2, EndMoves, IdleIsAJob DEF LifecycleInv
  <2>2. job'[j].at = "idle"
    BY <2>1 DEF Idle
  <2>3. ~ Go(j, place)
    BY <2>2, GoMoves DEF LifecycleInv, Places, Removing
  <2>4. QED
    BY <2>1, <2>2, <2>3, JobKept DEF LifecycleInv
<1>3. QED
  BY <1>1, <1>2

\* Uninstall has the lock, and the node leaves the bus.
LEMMA ForgetStep ==
    ASSUME LifecycleInv, NEW j \in Job, NEW id \in Id, Changes(j, id), Forget(j)
    PROVE  LifecycleInv'
<1>1. /\ job[j].at = "forget" /\ lock = None /\ id \in nodes
      /\ lock' = j /\ bus' = bus \ {id} /\ halfway' = halfway \cup {id}
      /\ Go(j, "delete")
      /\ UNCHANGED <<nodes, blank, registry, permissions, overlapped, panic>>
  BY DEF Forget, At, Unlocked, Changes
<1>2. /\ job' \in [Job -> JobType] /\ Others(j) /\ JobInv'
      /\ Changes(j, id)' /\ job'[j].id = id
      /\ job'[j].at = "delete" /\ job'[j] # Idle
  BY <1>1, Advances DEF Removing, Changes
<1>3. TypeOK'
  BY <1>1, <1>2 DEF LifecycleInv, TypeOK, JobType, registry, permissions
<1>4. LockInv'
  BY <1>1, <1>2, LockKept DEF LifecycleInv
<1>5. ClaimInv'
  BY <1>1, <1>2, ClaimsKept DEF LifecycleInv, Claiming
<1>6. AloneInv'
  <2>1. RightPlace(j, id)'
    BY <1>1, <1>2 DEF RightPlace, At
  <2>2. QED
    BY <1>1, <1>2, <2>1, AloneKept DEF LifecycleInv
<1>7. GrantInv' /\ QueriesSurvive'
  BY <1>1, GrantsKept DEF LifecycleInv, QueriesSurvive
<1>8. QED
  BY <1>2, <1>3, <1>4, <1>5, <1>6, <1>7 DEF LifecycleInv

\* The node leaves n.nodes; the claim on its element is now the job's.
LEMMA DeleteStep ==
    ASSUME LifecycleInv, NEW j \in Job, NEW id \in Id, Changes(j, id), Delete(j)
    PROVE  LifecycleInv'
<1>1. /\ job[j].at = "delete" /\ lock = j /\ id \in nodes /\ id \in halfway
      /\ nodes' = nodes \ {id} /\ blank' = blank \ {id}
      /\ Go(j, "remove")
      /\ UNCHANGED <<bus, registry, permissions, lock, world>>
  BY DEF Delete, At, LifecycleInv, LockInv, Removing, Changes
<1>2. /\ job' \in [Job -> JobType] /\ Others(j) /\ JobInv'
      /\ Changes(j, id)' /\ job'[j].id = id
      /\ job'[j].at = "remove" /\ job'[j] # Idle
  BY <1>1, Advances DEF Removing, Changes
<1>3. TypeOK'
  BY <1>1, <1>2 DEF LifecycleInv, TypeOK, JobType, registry, permissions, world
<1>4. LockInv'
  BY <1>1, <1>2, LockKept DEF LifecycleInv, world
<1>5. ClaimInv'
  <2>1. ASSUME NEW i \in Id
        PROVE  Cardinality(Claims(i)') <= Cardinality(Claims(i))
    <3>1. CASE i = id
      <4>1. None \in Claims(i)
        BY <1>1, <3>1 DEF Claims
      <4>2. Claims(i)' \subseteq (Claims(i) \ {None}) \cup {j}
        BY <1>1, <1>2, <3>1, LifecycleAssumption DEF Claims, Others
      <4>3. QED
        BY <4>1, <4>2, ClaimsFinite, Exchanged
    <3>2. CASE i # id
      <4>1. Claims(i)' \subseteq Claims(i)
        BY <1>1, <1>2, <3>2 DEF Claims, Others
      <4>2. QED
        BY <4>1, ClaimsFinite, FS_Subset
    <3>3. QED
      BY <3>1, <3>2
  <2>2. QED
    BY <1>1, <2>1, ClaimsAgain DEF LifecycleInv
<1>6. AloneInv'
  <2>1. RightPlace(j, id) => RightPlace(j, id)'
    BY <1>1, <1>2 DEF RightPlace, At
  <2>2. QED
    BY <1>1, <1>2, <2>1, AloneKept DEF LifecycleInv, world
<1>7. GrantInv' /\ QueriesSurvive'
  BY <1>1, GrantsKept DEF LifecycleInv, QueriesSurvive, world
<1>8. QED
  BY <1>2, <1>3, <1>4, <1>5, <1>6, <1>7 DEF LifecycleInv

\* The registry loses an element, and the claim on it ends; when its save fails,
\* so does the uninstall.
LEMMA RemoveStep ==
    ASSUME LifecycleInv, NEW j \in Job, NEW id \in Id, Changes(j, id),
           Remove(j) \/ RemoveFails(j)
    PROVE  LifecycleInv'
<1>1. /\ job[j].at = "remove" /\ job[j].id = id /\ lock = j /\ id \in halfway
      /\ lock' = lock \/ lock' = None
      /\ (Go(j, "revoke") /\ lock' = lock) \/ End(j)
      /\ UNCHANGED <<nodes, blank, bus, permissions, world>>
  BY DEF Remove, RemoveFails, At, LifecycleInv, LockInv, Removing, Changes
<1>2. /\ job' \in [Job -> JobType] /\ Others(j) /\ JobInv'
      /\ Changes(j, id)' \/ job'[j] = Idle
      /\ job'[j].at \in {"idle", "revoke"}
      /\ job'[j].at = "revoke" => lock' = j /\ job'[j].id = id /\ job'[j] # Idle
  BY <1>1, Advances DEF Removing, Changes, Idle
<1>3. Cardinality(Claims(id)') <= Cardinality(Claims(id)) - 1 /\ Cardinality(Claims(id)) >= 1
  <2>1. j \in Claims(id) /\ Claims(id)' \subseteq Claims(id) \ {j}
    BY <1>1, <1>2, LifecycleAssumption DEF Claims, Others, Claiming, world
  <2>2. Cardinality(Claims(id)') <= Cardinality(Claims(id)) - 1
    BY <2>1, ClaimsFinite, OneLess
  <2>3. QED
    BY <2>2, ClaimsFinite
<1>4. ASSUME NEW i \in Id \ {id}
      PROVE  Cardinality(Claims(i)') <= Cardinality(Claims(i))
  <2>1. Claims(i)' \subseteq Claims(i)
    BY <1>1, <1>2 DEF Claims, Others, Claiming, world
  <2>2. QED
    BY <2>1, ClaimsFinite, FS_Subset
<1>5. /\ elements' \in [Id -> Nat] /\ saved' \in [Id -> Nat]
      /\ elements[id] > 0 /\ elements'[id] = elements[id] - 1
      /\ \A i \in Id \ {id} : elements'[i] = elements[i]
      /\ saved' = saved \/ saved' = elements'
  <2>1. elements \in [Id -> Nat] /\ saved \in [Id -> Nat]
    BY DEF LifecycleInv, TypeOK
  <2>2. elements[id] > 0
    BY <1>3, <2>1, ClaimsFinite DEF LifecycleInv, ClaimInv
  <2>3. /\ elements' = [elements EXCEPT ![id] = elements[id] - 1]
        /\ saved' = saved \/ saved' = elements'
    BY <1>1, <2>1, <2>2 DEF Remove, RemoveFails
  <2>4. QED
    BY <2>1, <2>2, <2>3
<1>6. ClaimInv'
  <2>1. ASSUME NEW i \in Id
        PROVE  Cardinality(Claims(i)') <= elements'[i] /\ Cardinality(Claims(i)') <= saved'[i]
    <3>1. /\ Cardinality(Claims(i)) \in Nat /\ Cardinality(Claims(i)') \in Nat
          /\ Cardinality(Claims(i)) <= elements[i] /\ Cardinality(Claims(i)) <= saved[i]
          /\ elements[i] \in Nat /\ saved[i] \in Nat
      BY ClaimsFinite DEF LifecycleInv, ClaimInv, TypeOK
    <3>2. CASE i = id
      BY <1>3, <1>5, <3>1, <3>2
    <3>3. CASE i # id
      BY <1>4, <1>5, <3>1, <3>3
    <3>4. QED
      BY <3>2, <3>3
  <2>2. QED
    BY <2>1 DEF ClaimInv
<1>7. TypeOK'
  BY <1>1, <1>2, <1>5 DEF LifecycleInv, TypeOK, JobType, permissions, world
<1>8. LockInv'
  BY <1>1, <1>2, LockKept DEF LifecycleInv, Removing, world
<1>9. AloneInv'
  <2>1. RightPlace(j, id) =>
           IF job'[j] = Idle THEN id \in bus' <=> id \in nodes' ELSE RightPlace(j, id)'
    BY <1>1, <1>2 DEF RightPlace, At, Idle, world
  <2>2. QED
    BY <1>1, <1>2, <2>1, AloneKept DEF LifecycleInv, world
<1>10. GrantInv' /\ QueriesSurvive'
  BY <1>1, GrantsKept DEF LifecycleInv, QueriesSurvive, world
<1>11. QED
  BY <1>2, <1>6, <1>7, <1>8, <1>9, <1>10 DEF LifecycleInv

\* The node has no grants any more; when their save fails, its uninstall stays
\* halfway.
LEMMA RevokeStep ==
    ASSUME LifecycleInv, NEW j \in Job, NEW id \in Id, Changes(j, id),
           RevokeAll(j) \/ RevokeAllFails(j)
    PROVE  LifecycleInv'
<1>1. /\ job[j].at = "revoke" /\ job[j].id = id /\ lock = j /\ id \in halfway
      /\ lock' = None
      /\ (Go(j, "add") /\ job[j].op = "reinstall") \/ End(j)
      /\ UNCHANGED <<nodes, blank, bus, registry, overlapped, panic>>
  BY DEF RevokeAll, RevokeAllFails, At, LifecycleInv, LockInv, Removing, Changes, world
<1>2. /\ job' \in [Job -> JobType] /\ Others(j) /\ JobInv'
      /\ Changes(j, id)' \/ job'[j] = Idle
      /\ job'[j].at \in {"idle", "add"}
      /\ job'[j].at = "add" => job'[j].op = "reinstall" /\ job'[j] # Idle
  BY <1>1, Advances DEF Removing, Idle
<1>3. /\ grants' = [grants EXCEPT ![id] = {}]
      /\ \/ savedGrants' = grants' /\ halfway' = halfway \ {id}
         \/ savedGrants' = savedGrants /\ halfway' = halfway
  BY <1>1 DEF RevokeAll, RevokeAllFails, world
<1>4. /\ grants' \in [Id -> SUBSET Caps] /\ savedGrants' \in [Id -> SUBSET Caps]
      /\ grants'[id] = {} /\ \A i \in Id \ {id} : grants'[i] = grants[i]
      /\ halfway' \in SUBSET Id
  BY <1>3 DEF LifecycleInv, TypeOK
<1>5. TypeOK'
  BY <1>1, <1>2, <1>4 DEF LifecycleInv, TypeOK, JobType, registry
<1>6. LockInv'
  BY <1>1, <1>2, LockKept DEF LifecycleInv, Removing
<1>7. ClaimInv'
  BY <1>1, <1>2, ClaimsKept DEF LifecycleInv, Claiming
<1>8. AloneInv'
  <2>1. RightPlace(j, id) =>
           IF job'[j] = Idle THEN id \in bus' <=> id \in nodes' ELSE RightPlace(j, id)'
    BY <1>1, <1>2 DEF RightPlace, At, Idle
  <2>2. QED
    BY <1>1, <1>2, <2>1, AloneKept DEF LifecycleInv
<1>9. GrantInv'
  <2>1. ASSUME NEW i \in Id, i \notin nodes \cup halfway' \cup overlapped
        PROVE  grants'[i] = {} /\ savedGrants'[i] = {}
    <3>1. CASE i = id
      BY <1>1, <1>3, <1>4, <2>1, <3>1
    <3>2. CASE i # id
      BY <1>3, <1>4, <2>1, <3>2 DEF LifecycleInv, GrantInv
    <3>3. QED
      BY <3>1, <3>2
  <2>2. QED
    BY <1>1, <2>1 DEF GrantInv
<1>10. QueriesSurvive'
  BY <1>1 DEF LifecycleInv, QueriesSurvive
<1>11. QED
  BY <1>2, <1>5, <1>6, <1>7, <1>8, <1>9, <1>10 DEF LifecycleInv

\* The registry gets an element, and its claim is the job's; a failed save ends
\* the job.
LEMMA AddStep ==
    ASSUME LifecycleInv, NEW j \in Job, NEW id \in Id, Changes(j, id),
           Add(j) \/ AddFails(j)
    PROVE  LifecycleInv'
<1>1. /\ job[j].at = "add" /\ job[j].id = id
      /\ elements' = [elements EXCEPT ![id] = @ + 1]
      /\ \/ Go(j, "register") /\ saved' = elements'
         \/ End(j) /\ saved' = saved
      /\ UNCHANGED <<nodes, blank, bus, permissions, lock, world>>
  <2>1. CASE Add(j)
    BY <2>1 DEF Add, At, Changes
  <2>2. CASE AddFails(j)
    BY <2>2 DEF AddFails, At, Changes
  <2>3. QED
    BY <2>1, <2>2
<1>2. /\ job' \in [Job -> JobType] /\ Others(j) /\ JobInv'
      /\ Changes(j, id)' \/ job'[j] = Idle
      /\ \/ job'[j] = Idle /\ job'[j].at = "idle" /\ saved' = saved
         \/ /\ job'[j].at = "register" /\ saved' = elements'
            /\ job'[j].id = id /\ job'[j] # Idle
  BY <1>1, Advances DEF Removing, Changes
<1>3. /\ elements' \in [Id -> Nat] /\ saved' \in [Id -> Nat]
      /\ elements'[id] = elements[id] + 1
      /\ \A i \in Id \ {id} : elements'[i] = elements[i]
  BY <1>1 DEF LifecycleInv, TypeOK
<1>4. ASSUME NEW i \in Id
      PROVE  /\ i # id \/ job'[j] = Idle => Cardinality(Claims(i)') <= Cardinality(Claims(i))
             /\ Cardinality(Claims(i)') <= Cardinality(Claims(i)) + 1
  <2>1. i # id \/ job'[j] = Idle => Claims(i)' \subseteq Claims(i)
    BY <1>1, <1>2 DEF Claims, Others, Claiming, world
  <2>2. Claims(i)' \subseteq Claims(i) \cup {j}
    BY <1>1, <1>2 DEF Claims, Others, Claiming, world
  <2>3. QED
    BY <2>1, <2>2, ClaimsFinite, OneMore, FS_Subset
<1>5. ClaimInv'
  <2>1. ASSUME NEW i \in Id
        PROVE  Cardinality(Claims(i)') <= elements'[i] /\ Cardinality(Claims(i)') <= saved'[i]
    <3>1. /\ Cardinality(Claims(i)) \in Nat /\ Cardinality(Claims(i)') \in Nat
          /\ Cardinality(Claims(i)) <= elements[i] /\ Cardinality(Claims(i)) <= saved[i]
          /\ elements[i] \in Nat /\ saved[i] \in Nat
      BY ClaimsFinite DEF LifecycleInv, ClaimInv, TypeOK
    <3>2. elements'[i] = elements[i] + (IF i = id THEN 1 ELSE 0)
      BY <1>3, <3>1
    <3>3. CASE job'[j] = Idle /\ saved' = saved
      BY <1>4, <3>1, <3>2, <3>3
    <3>4. CASE saved' = elements'
      BY <1>4, <3>1, <3>2, <3>4
    <3>5. QED
      BY <1>2, <3>3, <3>4
  <2>2. QED
    BY <2>1 DEF ClaimInv
<1>6. TypeOK'
  BY <1>1, <1>2, <1>3 DEF LifecycleInv, TypeOK, JobType, permissions, world
<1>7. LockInv'
  BY <1>1, <1>2, LockKept DEF LifecycleInv, Removing, world
<1>8. AloneInv'
  <2>1. RightPlace(j, id) =>
           IF job'[j] = Idle THEN id \in bus' <=> id \in nodes' ELSE RightPlace(j, id)'
    BY <1>1, <1>2 DEF RightPlace, At, Idle, world
  <2>2. QED
    BY <1>1, <1>2, <2>1, AloneKept DEF LifecycleInv, world
<1>9. GrantInv' /\ QueriesSurvive'
  BY <1>1, GrantsKept DEF LifecycleInv, QueriesSurvive, world
<1>10. QED
  BY <1>2, <1>5, <1>6, <1>7, <1>8, <1>9 DEF LifecycleInv

\* node.set: the node is on the bus.
LEMMA RegisterStep ==
    ASSUME LifecycleInv, NEW j \in Job, NEW id \in Id, Changes(j, id), Register(j)
    PROVE  LifecycleInv'
<1>1. /\ job[j].at = "register" /\ job[j].id = id
      /\ bus' = bus \cup {id} /\ Go(j, "insert")
      /\ UNCHANGED <<nodes, blank, registry, permissions, lock, world>>
  BY DEF Register, At, Changes
<1>2. /\ job' \in [Job -> JobType] /\ Others(j) /\ JobInv'
      /\ Changes(j, id)' /\ job'[j] # Idle
      /\ job'[j].at = "insert" /\ job'[j].id = id
  BY <1>1, Advances DEF Removing, Changes
<1>3. TypeOK'
  BY <1>1, <1>2 DEF LifecycleInv, TypeOK, JobType, registry, permissions, world
<1>4. LockInv'
  BY <1>1, <1>2, LockKept DEF LifecycleInv, Removing, world
<1>5. ClaimInv'
  BY <1>1, <1>2, ClaimsKept DEF LifecycleInv, Claiming, world
<1>6. AloneInv'
  <2>1. RightPlace(j, id)'
    BY <1>1, <1>2 DEF RightPlace, At
  <2>2. QED
    BY <1>1, <1>2, <2>1, AloneKept DEF LifecycleInv, world
<1>7. GrantInv' /\ QueriesSurvive'
  BY <1>1, GrantsKept DEF LifecycleInv, QueriesSurvive, world
<1>8. QED
  BY <1>2, <1>3, <1>4, <1>5, <1>6, <1>7 DEF LifecycleInv

\* The node enters n.nodes, and takes over the job's claim; the user is asked.
LEMMA InsertStep ==
    ASSUME LifecycleInv, NEW j \in Job, NEW id \in Id, Changes(j, id), Insert(j)
    PROVE  LifecycleInv'
<1>1. /\ job[j].at = "insert" /\ job[j].id = id
      /\ nodes' = nodes \cup {id} /\ blank' = blank \ {id}
      /\ job' = [job EXCEPT ![j].at = "prompt", ![j].ask = Wanted[id]]
      /\ UNCHANGED <<bus, registry, permissions, lock, world>>
  BY DEF Insert, At, Changes
<1>2. Wanted[id] \subseteq Caps
  BY DEF Caps
<1>3. /\ job' \in [Job -> JobType] /\ Others(j)
      /\ job'[j].op = job[j].op /\ job'[j].id = id
      /\ job'[j].at = "prompt" /\ job'[j].ask = Wanted[id]
  BY <1>1, <1>2 DEF LifecycleInv, TypeOK, JobType, Others, Places
<1>4. JobInv'
  <2>1. JobOK(job[j])
    BY DEF LifecycleInv, JobInv
  <2>2. JobOK(job'[j])
    BY <1>1, <1>2, <1>3, <2>1 DEF JobOK, Changes, Changing, Lookups, Removing
  <2>3. QED
    BY <1>3, <2>2, JobKept DEF LifecycleInv
<1>5. Changes(j, id)' /\ job'[j] # Idle
  BY <1>3 DEF Changes, Idle
<1>6. TypeOK'
  BY <1>1, <1>3 DEF LifecycleInv, TypeOK, JobType, registry, permissions, world
<1>7. LockInv'
  BY <1>1, <1>3, LockKept DEF LifecycleInv, Removing, world
<1>8. ClaimInv'
  <2>1. ASSUME NEW i \in Id
        PROVE  Cardinality(Claims(i)') <= Cardinality(Claims(i))
    <3>1. CASE i = id
      <4>1. j \in Claims(i)
        BY <1>1, <3>1 DEF Claims, Claiming
      <4>2. Claims(i)' \subseteq (Claims(i) \ {j}) \cup {None}
        BY <1>1, <1>3, <3>1, LifecycleAssumption DEF Claims, Others, Claiming
      <4>3. QED
        BY <4>1, <4>2, ClaimsFinite, Exchanged
    <3>2. CASE i # id
      <4>1. Claims(i)' \subseteq Claims(i)
        BY <1>1, <1>3, <3>2 DEF Claims, Others
      <4>2. QED
        BY <4>1, ClaimsFinite, FS_Subset
    <3>3. QED
      BY <3>1, <3>2
  <2>2. QED
    BY <1>1, <2>1, ClaimsAgain DEF LifecycleInv
<1>9. AloneInv'
  <2>1. RightPlace(j, id) => RightPlace(j, id)'
    BY <1>1, <1>3 DEF RightPlace, At
  <2>2. QED
    BY <1>1, <1>3, <1>5, <2>1, AloneKept DEF LifecycleInv, world
<1>10. GrantInv' /\ QueriesSurvive'
  BY <1>1, GrantsKept DEF LifecycleInv, QueriesSurvive, world
<1>11. QED
  BY <1>4, <1>6, <1>7, <1>8, <1>9, <1>10 DEF LifecycleInv

\* The user grants a capability, and the file takes it unless the save fails.
LEMMA GrantStep ==
    ASSUME LifecycleInv, panic = None, NEW j \in Job, NEW id \in Id, Changes(j, id),
           NEW c \in Caps, Grant(j, c) \/ GrantFails(j, c)
    PROVE  LifecycleInv'
<1>1. /\ job[j].at = "prompt" /\ job[j].id = id
      /\ grants' = [grants EXCEPT ![id] = @ \cup {c}]
      /\ savedGrants' = savedGrants \/ savedGrants' = grants'
      /\ job' = [job EXCEPT ![j].ask = @ \ {c}]
      /\ UNCHANGED <<nodes, blank, bus, registry, lock, world>>
  <2>1. CASE Grant(j, c)
    BY <2>1 DEF Grant, At, Changes
  <2>2. CASE GrantFails(j, c)
    BY <2>2 DEF GrantFails, At, Changes
  <2>3. QED
    BY <2>1, <2>2
<1>2. /\ job' \in [Job -> JobType] /\ Others(j)
      /\ job'[j].op = job[j].op /\ job'[j].id = id
      /\ job'[j].at = "prompt" /\ job'[j].ask = job[j].ask \ {c}
  BY <1>1, AskMoves DEF LifecycleInv
<1>3. JobInv'
  <2>1. JobOK(job[j])
    BY DEF LifecycleInv, JobInv
  <2>2. JobOK(job'[j])
    BY <1>1, <1>2, <2>1 DEF JobOK, Changes, Changing, Lookups, Removing
  <2>3. QED
    BY <1>2, <2>2, JobKept DEF LifecycleInv
<1>4. Changes(j, id)' /\ job'[j] # Idle
  BY <1>2 DEF Changes, Idle
<1>5. /\ grants' \in [Id -> SUBSET Caps] /\ savedGrants' \in [Id -> SUBSET Caps]
      /\ \A i \in Id \ {id} : grants'[i] = grants[i]
  BY <1>1 DEF LifecycleInv, TypeOK
<1>6. TypeOK'
  BY <1>1, <1>2, <1>5 DEF LifecycleInv, TypeOK, JobType, registry, world
<1>7. LockInv'
  BY <1>1, <1>2, LockKept DEF LifecycleInv, Removing, world
<1>8. ClaimInv'
  BY <1>1, <1>2, ClaimsKept DEF LifecycleInv, Claiming, world
<1>9. AloneInv'
  <2>1. RightPlace(j, id) => RightPlace(j, id)'
    BY <1>1, <1>2 DEF RightPlace, At, world
  <2>2. QED
    BY <1>1, <1>2, <1>4, <2>1, AloneKept DEF LifecycleInv, world
<1>10. GrantInv'
  <2>1. id \in nodes \cup overlapped
    <3>1. id \notin overlapped => RightPlace(j, id)
      BY DEF LifecycleInv, AloneInv, Undisturbed
    <3>2. QED
      BY <1>1, <3>1 DEF RightPlace, At
  <2>2. ASSUME NEW i \in Id, i \notin nodes \cup halfway \cup overlapped
        PROVE  grants'[i] = {} /\ savedGrants'[i] = {}
    BY <1>1, <1>5, <2>1, <2>2 DEF LifecycleInv, GrantInv
  <2>3. QED
    BY <1>1, <2>2 DEF GrantInv, world
<1>11. QueriesSurvive'
  BY <1>1 DEF LifecycleInv, QueriesSurvive, world
<1>12. QED
  BY <1>3, <1>6, <1>7, <1>8, <1>9, <1>10, <1>11 DEF LifecycleInv

-----------------------------------------------------------------------------
(* Queries, and the restart.                                               *)

\* A query looks up nodes that no job changes, or that are overlapped.
LEMMA AskerKeeps ==
    ASSUME NEW j \in Job, NEW id \in Id, Undisturbed(id), Others(j),
           job[j].op \notin Changing, job'[j].op \notin Changing,
           id \in nodes' <=> id \in nodes,
           \/ id \in bus' <=> id \in bus
           \/ id \in bus' /\ job[j].op = "query" /\ id \in WorksOn(j),
           id \in WorksOn(j)' =>
              \/ job[j].op = "query" /\ id \in WorksOn(j)
              \/ id \in nodes /\ \A k \in Job : ~ Changes(k, id)
    PROVE  Undisturbed(id)'
<1>1. job[j].op = "query" /\ id \in WorksOn(j) =>
         id \in nodes /\ \A k \in Job : ~ Changes(k, id)
  BY DEF Undisturbed, Changes
<1>2. \A k \in Job : Changes(k, id)' <=> Changes(k, id)
  BY DEF Others, Changes
<1>3. \A k \in Job \ {j} : WorksOn(k)' = WorksOn(k)
  BY DEF Others, WorksOn
<1>4. CASE \A k \in Job : ~ Changes(k, id)
  <2>1. id \in bus <=> id \in nodes
    BY <1>4 DEF Undisturbed
  <2>2. id \in bus' <=> id \in nodes'
    BY <1>1, <2>1
  <2>3. \A k \in Job : job'[k].op = "query" /\ id \in WorksOn(k)' => id \in nodes'
    BY <1>1, <1>3 DEF Undisturbed, Others
  <2>4. QED
    BY <1>2, <1>4, <2>2, <2>3 DEF Undisturbed
<1>5. CASE ~ \A k \in Job : ~ Changes(k, id)
  <2>1. id \notin WorksOn(j) /\ id \notin WorksOn(j)'
    BY <1>1, <1>5 DEF Undisturbed, Changes
  <2>2. QED
    BY <1>1, <1>5, <2>1, StrangerKeeps
<1>6. QED
  BY <1>4, <1>5

\* A step of a query that leaves the nodes alone, but for the one that it has
\* just asked HYPHAE of.
LEMMA QueryKeeps ==
    ASSUME LifecycleInv, NEW j \in Job, NEW r \in JobType, JobOK(r),
           job' = [job EXCEPT ![j] = r],
           r.op \in {"query", "none"}, job[j].op \in {"query", "none"},
           NEW added \in SUBSET Id, bus' = bus \cup added,
           added # {} => job[j].op = "query" /\ added = {job[j].id},
           blank' \in SUBSET Id, NEW more \in SUBSET Id, overlapped' = overlapped \cup more,
           UNCHANGED <<nodes, registry, permissions, lock, halfway, panic>>,
           \A id \in Id \ more : id \in WorksOn(j)' =>
               \/ job[j].op = "query" /\ id \in WorksOn(j)
               \/ id \in nodes /\ \A k \in Job : ~ Changes(k, id)
    PROVE  LifecycleInv'
<1>1. job' \in [Job -> JobType] /\ Others(j) /\ job'[j] = r
  BY DEF LifecycleInv, TypeOK, JobType, Others
<1>2. r.at \in Lookups \cup {"idle"}
  BY DEF JobOK
<1>3. TypeOK'
  BY <1>1 DEF LifecycleInv, TypeOK, JobType, registry, permissions
<1>4. JobInv'
  BY <1>1, JobKept DEF LifecycleInv
<1>5. LockInv'
  BY <1>1, <1>2, LockKept DEF LifecycleInv, Removing, Lookups
<1>6. ClaimInv'
  BY <1>1, <1>2, ClaimsKept DEF LifecycleInv, Claiming, Lookups
<1>7. AloneInv'
  <2>1. SUFFICES ASSUME panic = None, NEW id \in Id \ overlapped'
                 PROVE  Undisturbed(id)'
    BY DEF AloneInv
  <2>2. Undisturbed(id) /\ id \in Id \ more
    BY <2>1 DEF LifecycleInv, AloneInv
  <2>3. job[j].op \notin Changing /\ job'[j].op \notin Changing
    BY <1>1 DEF Changing
  <2>4. \/ id \in bus' <=> id \in bus
        \/ id \in bus' /\ job[j].op = "query" /\ id \in WorksOn(j)
    BY DEF WorksOn
  <2>5. id \in WorksOn(j)' =>
           \/ job[j].op = "query" /\ id \in WorksOn(j)
           \/ id \in nodes /\ \A k \in Job : ~ Changes(k, id)
    BY <2>2
  <2>6. QED
    BY <1>1, <2>2, <2>3, <2>4, <2>5, AskerKeeps
<1>8. GrantInv' /\ QueriesSurvive'
  BY GrantsKept DEF LifecycleInv, QueriesSurvive
<1>9. QED
  BY <1>3, <1>4, <1>5, <1>6, <1>7, <1>8 DEF LifecycleInv

\* The ids are taken: BeginQuery and GoOn.
LEMMA GetNodesStep ==
    ASSUME LifecycleInv, NEW j \in Job, BeginQuery(j) \/ GoOn(j)
    PROVE  LifecycleInv'
<1>1. /\ job[j].op \in {"query", "none"}
      /\ \E lookup \in Lookups : GetNodes(j, lookup)
  <2>1. CASE BeginQuery(j)
    BY <2>1 DEF BeginQuery, At, Lookups, LifecycleInv, JobInv, JobOK, Idle
  <2>2. CASE GoOn(j)
    BY <2>2 DEF GoOn, At, Lookups, LookedUp
  <2>3. QED
    BY <2>1, <2>2
<1>2. PICK lookup \in Lookups, ids \in SUBSET nodes : LooksUp(j, lookup, ids)
  BY <1>1 DEF GetNodes
<1>3. UNCHANGED <<nodes, blank, bus, registry, permissions, lock, halfway, panic>>
  BY <1>1 DEF GetNodes
<1> DEFINE r == [op |-> "query", id |-> None, at |-> lookup, ask |-> ids]
           more == {i \in ids : \E k \in Job : job[k].op # "query" /\ job[k].id = i}
<1>4. job' = [job EXCEPT ![j] = r] /\ overlapped' = overlapped \cup more
  BY <1>2 DEF LooksUp
<1>5. ids \subseteq Id /\ nodes \subseteq Id
  BY DEF LifecycleInv, TypeOK
<1>6. r \in JobType /\ JobOK(r) /\ more \in SUBSET Id
  BY <1>2, <1>5 DEF JobType, JobOK, Ops, Places, Lookups, Changing, Idle
<1>7. \A id \in Id \ more : id \in WorksOn(j)' =>
         \/ job[j].op = "query" /\ id \in WorksOn(j)
         \/ id \in nodes /\ \A k \in Job : ~ Changes(k, id)
  <2>1. job'[j] = r
    BY <1>4 DEF LifecycleInv, TypeOK
  <2>2. WorksOn(j)' = {None} \cup ids
    BY <2>1 DEF WorksOn
  <2>3. QED
    BY <2>2, LifecycleAssumption DEF Changes, Changing
<1> DEFINE added == {}
<1>8. /\ added \in SUBSET Id /\ bus' = bus \cup added /\ blank' \in SUBSET Id
      /\ added # {} => job[j].op = "query" /\ added = {job[j].id}
  BY <1>3 DEF LifecycleInv, TypeOK
<1>9. r.op \in {"query", "none"}
  OBVIOUS
<1> HIDE DEF r, more, added
<1>10. QED
  BY <1>1, <1>3, <1>4, <1>6, <1>7, <1>8, <1>9, QueryKeeps

\* A query ends, or has looked a node up: EndQuery, GetManifest, Describe and
\* DescribeFails.
LEMMA LookupStep ==
    ASSUME LifecycleInv, NEW j \in Job,
           \/ EndQuery(j) \/ Describe(j) \/ DescribeFails(j)
           \/ \E id \in Id : GetManifest(j, id)
    PROVE  LifecycleInv'
<1>1. /\ job[j].op = "query"
      /\ UNCHANGED <<nodes, registry, permissions, lock, world>>
  BY DEF EndQuery, LookedUp, GetManifest, Describe, DescribeFails
<1>2. job[j] \in JobType /\ JobOK(job[j]) /\ job[j].id \in Id \cup {None}
  BY DEF LifecycleInv, TypeOK, JobInv, JobType
<1>3. \E r \in JobType, added \in SUBSET Id :
         /\ JobOK(r) /\ r.op \in {"query", "none"}
         /\ job' = [job EXCEPT ![j] = r]
         /\ bus' = bus \cup added
         /\ added # {} => added = {job[j].id}
         /\ {r.id} \cup (IF r.op = "query" THEN r.ask ELSE {}) \subseteq WorksOn(j) \cup {None}
  <2>1. CASE EndQuery(j)
    <3> DEFINE r == Idle
               added == {}
    <3>1. job' = [job EXCEPT ![j] = r]
      BY <2>1 DEF EndQuery, End
    <3>2. /\ added \in SUBSET Id /\ bus' = bus \cup added
          /\ added # {} => added = {job[j].id}
      BY <2>1 DEF EndQuery
    <3>3. /\ r.op = "none" /\ r \in JobType /\ JobOK(r)
          /\ {r.id} \cup (IF r.op = "query" THEN r.ask ELSE {}) \subseteq WorksOn(j) \cup {None}
      BY IdleIsAJob DEF Idle
    <3> HIDE DEF r, added
    <3>4. QED
      BY <3>1, <3>2, <3>3
  <2>2. CASE Describe(j) \/ DescribeFails(j)
    <3> DEFINE r == [job[j] EXCEPT !.id = None]
    <3>1. job' = [job EXCEPT ![j] = r]
      BY <2>2 DEF Describe, DescribeFails
    <3>2. /\ r \in JobType /\ r.op = "query" /\ r.id = None
          /\ r.ask = job[j].ask /\ r.at = job[j].at
      BY <1>1, <1>2 DEF JobType
    <3>3. JobOK(r)
      BY <1>1, <1>2, <3>2 DEF JobOK, Lookups, Changing
    <3>4. PICK added \in SUBSET Id : bus' = bus \cup added /\ (added # {} => added = {job[j].id})
      <4>1. CASE Describe(j)
        BY <1>2, <4>1 DEF Describe
      <4>2. CASE DescribeFails(j)
        BY <4>2 DEF DescribeFails
      <4>3. QED
        BY <2>2, <4>1, <4>2
    <3>5. {r.id} \cup (IF r.op = "query" THEN r.ask ELSE {}) \subseteq WorksOn(j) \cup {None}
      BY <1>1, <3>2 DEF WorksOn
    <3> HIDE DEF r
    <3>6. QED
      BY <3>1, <3>2, <3>3, <3>4, <3>5
  <2>3. CASE \E id \in Id : GetManifest(j, id)
    <3>1. PICK id \in Id : GetManifest(j, id)
      BY <2>3
    <3> DEFINE next == IF id \in blank THEN id ELSE None
               r == [job[j] EXCEPT !.ask = @ \ {id}, !.id = next]
               added == {}
    <3>2. /\ job' = [job EXCEPT ![j] = r] /\ id \in job[j].ask
          /\ added \in SUBSET Id /\ bus' = bus \cup added
          /\ added # {} => added = {job[j].id}
      BY <3>1 DEF GetManifest
    <3>3. /\ r \in JobType /\ r.op = "query" /\ r.id \in {id, None}
          /\ r.ask = job[j].ask \ {id} /\ r.at = job[j].at
      BY <1>1, <1>2 DEF JobType
    <3>4. JobOK(r)
      BY <1>1, <1>2, <3>3 DEF JobOK, Lookups, Changing
    <3>5. {r.id} \cup (IF r.op = "query" THEN r.ask ELSE {}) \subseteq WorksOn(j) \cup {None}
      BY <1>1, <3>2, <3>3 DEF WorksOn
    <3> HIDE DEF r, added
    <3>6. QED
      BY <3>2, <3>3, <3>4, <3>5
  <2>4. QED
    BY <2>1, <2>2, <2>3
<1>4. blank' \in SUBSET Id
  BY DEF EndQuery, GetManifest, Describe, DescribeFails, LifecycleInv, TypeOK
<1>5. PICK r \in JobType, added \in SUBSET Id :
         /\ JobOK(r) /\ r.op \in {"query", "none"}
         /\ job' = [job EXCEPT ![j] = r]
         /\ bus' = bus \cup added
         /\ added # {} => added = {job[j].id}
         /\ {r.id} \cup (IF r.op = "query" THEN r.ask ELSE {}) \subseteq WorksOn(j) \cup {None}
  BY <1>3
<1>6. \A id \in Id : id \in WorksOn(j)' => id \in WorksOn(j)
  <2>1. job'[j] = r
    BY <1>5 DEF LifecycleInv, TypeOK
  <2>2. WorksOn(j)' \subseteq WorksOn(j) \cup {None}
    BY <1>5, <2>1 DEF WorksOn
  <2>3. QED
    BY <2>2, LifecycleAssumption
<1> DEFINE more == {}
<1>7. more \in SUBSET Id /\ overlapped' = overlapped \cup more
  BY <1>1 DEF world
<1> HIDE DEF more
<1>8. UNCHANGED <<nodes, registry, permissions, lock, halfway, panic>>
  BY <1>1 DEF world
<1>9. \A id \in Id \ more : id \in WorksOn(j)' =>
         \/ job[j].op = "query" /\ id \in WorksOn(j)
         \/ id \in nodes /\ \A k \in Job : ~ Changes(k, id)
  BY <1>1, <1>6
<1>10. added # {} => job[j].op = "query" /\ added = {job[j].id}
  BY <1>1, <1>5
<1>11. QED
  BY <1>1, <1>4, <1>5, <1>7, <1>8, <1>9, <1>10, QueryKeeps

\* All jobs end at once: the hub has panicked, or starts again.
LEMMA AllIdle ==
    ASSUME job' = [k \in Job |-> Idle]
    PROVE  /\ job' \in [Job -> JobType] /\ JobInv' /\ LockInv'
           /\ \A id : Claims(id)' = {x \in {None} : id \in nodes'}
           /\ \A id \in Id : (id \in bus' <=> id \in nodes') => Undisturbed(id)'
<1>1. \A k \in Job : /\ job'[k] = Idle /\ job'[k].op = "none" /\ job'[k].at = "idle"
                     /\ ~ \E id \in Id : Changes(k, id)'
  BY DEF Idle, Changes, Changing
<1>2. job' \in [Job -> JobType] /\ JobInv'
  BY <1>1, IdleIsAJob DEF JobInv, JobOK, Idle
<1>3. LockInv'
  BY <1>1 DEF LockInv, At, Removing
<1>4. \A id : Claims(id)' = {x \in {None} : id \in nodes'}
  BY <1>1 DEF Claims, Claiming
<1>5. \A id \in Id : (id \in bus' <=> id \in nodes') => Undisturbed(id)'
  BY <1>1 DEF Undisturbed
<1>6. QED
  BY <1>2, <1>3, <1>4, <1>5

\* A manifest is missing.  Only getComplete goes on.
LEMMA ManifestGoneStep ==
    ASSUME LifecycleInv, panic = None, NEW j \in Job, NEW id \in Id, ManifestGone(j, id)
    PROVE  LifecycleInv'
<1>1. /\ job[j].op = "query" /\ id \in job[j].ask /\ id \notin nodes
      /\ lock = None /\ lock' = None
      /\ UNCHANGED <<nodes, blank, bus, registry, permissions, halfway, overlapped>>
  BY DEF ManifestGone, Unlocked
<1>2. CASE UNCHANGED panic /\ job' = [job EXCEPT ![j].ask = @ \ {id}]
  <2> DEFINE r == [job[j] EXCEPT !.ask = @ \ {id}]
             added == {}
             more == {}
  <2>1. job[j] \in JobType /\ JobOK(job[j])
    BY DEF LifecycleInv, TypeOK, JobInv, JobType
  <2>2. job' = [job EXCEPT ![j] = r]
    BY <1>2
  <2>3. /\ r \in JobType /\ r.op = "query" /\ r.id = job[j].id
        /\ r.ask = job[j].ask \ {id} /\ r.at = job[j].at
    BY <1>1, <2>1 DEF JobType
  <2>4. JobOK(r)
    BY <1>1, <2>1, <2>3 DEF JobOK, Lookups, Changing
  <2>5. /\ added \in SUBSET Id /\ bus' = bus \cup added
        /\ more \in SUBSET Id /\ overlapped' = overlapped \cup more
        /\ added # {} => job[j].op = "query" /\ added = {job[j].id}
        /\ blank' \in SUBSET Id
    BY <1>1 DEF LifecycleInv, TypeOK
  <2>6. job'[j] = r
    BY <2>2 DEF LifecycleInv, TypeOK
  <2> HIDE DEF r, added, more
  <2>7. \A i \in Id \ more : i \in WorksOn(j)' =>
           \/ job[j].op = "query" /\ i \in WorksOn(j)
           \/ i \in nodes /\ \A k \in Job : ~ Changes(k, i)
    BY <1>1, <2>3, <2>6 DEF WorksOn
  <2>8. UNCHANGED <<nodes, registry, permissions, lock, halfway, panic>>
    BY <1>1, <1>2
  <2>9. QED
    BY <1>1, <2>2, <2>3, <2>4, <2>5, <2>7, <2>8, QueryKeeps
<1>3. CASE panic' = id /\ job' = [k \in Job |-> Idle]
  <2>1. id \in overlapped
    <3>1. id \in WorksOn(j)
      BY <1>1 DEF WorksOn
    <3>2. QED
      BY <1>1, <3>1 DEF LifecycleInv, AloneInv, Undisturbed
  <2>2. TypeOK'
    BY <1>1, <1>3, AllIdle DEF LifecycleInv, TypeOK, JobType, registry, permissions
  <2>3. ClaimInv'
    <3>1. ASSUME NEW i \in Id
          PROVE  Cardinality(Claims(i)') <= Cardinality(Claims(i))
      <4>1. Claims(i)' \subseteq Claims(i)
        BY <1>1, <1>3, AllIdle DEF Claims
      <4>2. QED
        BY <4>1, ClaimsFinite, FS_Subset
    <3>2. QED
      BY <1>1, <3>1, ClaimsAgain DEF LifecycleInv
  <2>4. AloneInv'
    BY <1>3, LifecycleAssumption DEF AloneInv
  <2>5. GrantInv' /\ QueriesSurvive'
    BY <1>1, <1>3, <2>1, GrantsKept DEF LifecycleInv, QueriesSurvive
  <2>6. QED
    BY <1>3, <2>2, <2>3, <2>4, <2>5, AllIdle DEF LifecycleInv
<1>4. QED
  BY <1>2, <1>3 DEF ManifestGone

\* What is installed has an element in the file, and comes back.
LEMMA ClaimedIsSaved ==
    ASSUME TypeOK, ClaimInv, NEW id \in nodes
    PROVE  id \in Id /\ saved[id] > 0
<1>1. id \in Id /\ saved[id] \in Nat
  BY DEF TypeOK
<1>2. None \in Claims(id)
  BY DEF Claims
<1>3. Cardinality(Claims(id)) # 0 /\ Cardinality(Claims(id)) \in Nat
  BY <1>2, ClaimsFinite, FS_EmptySet
<1>4. QED
  BY <1>1, <1>3 DEF ClaimInv

\* The hub starts with what is in the files.
LEMMA RestartStep ==
    ASSUME LifecycleInv, Restart
    PROVE  LifecycleInv'
<1>1. /\ elements' = saved /\ grants' = savedGrants
      /\ nodes' = {id \in Id : saved[id] > 0} /\ bus' = nodes'
      /\ blank' = nodes' \cap UserSpace /\ lock' = None
      /\ job' = [j \in Job |-> Idle]
      /\ UNCHANGED <<saved, savedGrants, world>>
  BY DEF Restart
<1>2. nodes \subseteq nodes'
  BY <1>1, ClaimedIsSaved DEF LifecycleInv
<1>3. TypeOK'
  BY <1>1, AllIdle DEF LifecycleInv, TypeOK, JobType, world
<1>4. ClaimInv'
  <2>1. ASSUME NEW id \in Id
        PROVE  Cardinality(Claims(id)') <= saved[id]
    <3>1. saved[id] \in Nat /\ Claims(id)' = {x \in {None} : saved[id] > 0}
      BY <1>1, AllIdle DEF LifecycleInv, TypeOK
    <3>2. CASE saved[id] > 0
      <4>1. Claims(id)' = {None}
        BY <3>1, <3>2
      <4>2. QED
        BY <3>1, <3>2, <4>1, FS_Singleton
    <3>3. CASE ~ saved[id] > 0
      <4>1. Claims(id)' = {}
        BY <3>1, <3>3
      <4>2. QED
        BY <3>1, <3>3, <4>1, FS_EmptySet
    <3>4. QED
      BY <3>2, <3>3
  <2>2. QED
    BY <1>1, <2>1 DEF ClaimInv
<1>5. AloneInv'
  BY <1>1, AllIdle DEF AloneInv
<1>6. GrantInv'
  BY <1>1, <1>2 DEF LifecycleInv, GrantInv, world
<1>7. QueriesSurvive'
  BY <1>1 DEF LifecycleInv, QueriesSurvive, world
<1>8. QED
  BY <1>1, <1>3, <1>4, <1>5, <1>6, <1>7, AllIdle DEF LifecycleInv

-----------------------------------------------------------------------------
(* The theorems.                                                           *)

\* Nothing is installed, and nobody works.
LEMMA LifecycleInvInit == Init => LifecycleInv
<1> SUFFICES ASSUME Init PROVE LifecycleInv
  OBVIOUS
<1>1. TypeOK
  BY IdleIsAJob DEF Init, TypeOK, JobType
<1>2. \A k \in Job : /\ job[k] = Idle /\ job[k].op = "none" /\ job[k].at = "idle"
                     /\ ~ \E id \in Id : Changes(k, id)
  BY DEF Init, Idle, Changes, Changing
<1>3. JobInv
  BY <1>2, IdleIsAJob DEF JobInv
<1>4. LockInv
  BY <1>2 DEF LockInv, At, Removing
<1>5. ClaimInv
  <2>1. ASSUME NEW id \in Id PROVE Cardinality(Claims(id)) = 0
    <3>1. Claims(id) = {}
      BY <1>2 DEF Claims, Claiming, Init
    <3>2. QED
      BY <3>1, FS_EmptySet
  <2>2. QED
    BY <2>1 DEF ClaimInv, Init
<1>6. AloneInv
  BY <1>2 DEF AloneInv, Undisturbed, Init
<1>7. GrantInv /\ QueriesSurvive
  BY DEF GrantInv, QueriesSurvive, Init
<1>8. QED
  BY <1>1, <1>3, <1>4, <1>5, <1>6, <1>7 DEF LifecycleInv

\* Every step keeps the invariant.
LEMMA LifecycleInvInductive ==
    ASSUME LifecycleInv, [Next]_vars
    PROVE  LifecycleInv'
<1>1. ASSUME panic = None, NEW j \in Job, NEW id \in Id,
             \/ BeginInstall(j, id) \/ BeginReinstall(j, id) \/ BeginUninstall(j, id)
             \/ GetManifest(j, id) \/ ManifestGone(j, id)
      PROVE  LifecycleInv'
  BY <1>1, BeginStep, LookupStep, ManifestGoneStep
<1>2. ASSUME panic = None, NEW j \in Job,
             \/ Authorized(j) \/ Refused(j) \/ NotInstalled(j) \/ EndInstall(j)
             \/ \E c \in Caps : Deny(j, c)
      PROVE  LifecycleInv'
  BY <1>2, QuietStep
<1>3. ASSUME panic = None, NEW j \in Job,
             \/ Forget(j) \/ Delete(j) \/ Remove(j) \/ RemoveFails(j)
             \/ RevokeAll(j) \/ RevokeAllFails(j)
             \/ Add(j) \/ AddFails(j) \/ Register(j) \/ Insert(j)
             \/ \E c \in Caps : Grant(j, c) \/ GrantFails(j, c)
      PROVE  LifecycleInv'
  <2>1. job[j].at \notin Lookups \cup {"idle"}
    BY <1>3 DEF Forget, Delete, Remove, RemoveFails, RevokeAll, RevokeAllFails,
                Add, AddFails, Register, Insert, Grant, GrantFails, At, Lookups
  <2>2. PICK id \in Id : Changes(j, id)
    BY <2>1, ChangingThere DEF LifecycleInv
  <2>3. QED
    BY <1>3, <2>2, ForgetStep, DeleteStep, RemoveStep, RevokeStep, AddStep,
       RegisterStep, InsertStep, GrantStep
<1>4. ASSUME panic = None, NEW j \in Job,
             BeginQuery(j) \/ GoOn(j) \/ EndQuery(j) \/ Describe(j) \/ DescribeFails(j)
      PROVE  LifecycleInv'
  BY <1>4, GetNodesStep, LookupStep
<1>5. CASE UNCHANGED vars
  <2>1. TypeOK' /\ JobInv' /\ LockInv' /\ GrantInv' /\ QueriesSurvive'
    BY <1>5 DEF LifecycleInv, TypeOK, JobInv, LockInv, GrantInv, QueriesSurvive,
                At, vars, world, registry, permissions
  <2>2. ClaimInv'
    BY <1>5 DEF LifecycleInv, ClaimInv, Claims, vars
  <2>3. AloneInv'
    BY <1>5 DEF LifecycleInv, AloneInv, Undisturbed, WorksOn, Changes, RightPlace, At,
                vars, world
  <2>4. QED
    BY <2>1, <2>2, <2>3 DEF LifecycleInv
<1>6. QED
  BY <1>1, <1>2, <1>3, <1>4, <1>5, RestartStep DEF Next

(* The invariant of nodes, jobs, registry and grants.                      *)
THEOREM LifecycleInvariant == Spec => []LifecycleInv
<1>1. LifecycleInv /\ [Next]_vars => LifecycleInv'
  BY LifecycleInvInductive
<1>2. QED
  BY <1>1, LifecycleInvInit, PTL DEF Spec

(* An installed node is in the registry file, whichever jobs interleave    *)
(* and whatever fails (completeInstallation, Uninstall, Registry.Remove).  *)
THEOREM InstalledSurvivesRestartCorrect == Spec => []InstalledSurvivesRestart
<1>1. LifecycleInv => InstalledSurvivesRestart
  BY ClaimedIsSaved DEF LifecycleInv, InstalledSurvivesRestart
<1>2. QED
  BY <1>1, LifecycleInvariant, PTL

(* As long as one job at a time works on a node, the bus routes to it      *)
(* exactly when it is installed (node.set, node.close, GetManifest).       *)
THEOREM BusRoutesToInstalledCorrect == Spec => []BusRoutesToInstalled
<1>1. LifecycleInv => BusRoutesToInstalled
  BY DEF LifecycleInv, AloneInv, Undisturbed, Changes, BusRoutesToInstalled, Settled
<1>2. QED
  BY <1>1, LifecycleInvariant, PTL

(* As long as one job at a time works on a node, an uninstalled one has no *)
(* grants in the file, unless its uninstall failed (Manager.RemoveNode).   *)
THEOREM UninstalledHasNoGrantsCorrect == Spec => []UninstalledHasNoGrants
<1>1. LifecycleInv => UninstalledHasNoGrants
  BY DEF LifecycleInv, GrantInv, UninstalledHasNoGrants
<1>2. QED
  BY <1>1, LifecycleInvariant, PTL

(* A query finds every manifest that it looks up, unless a job changed the *)
(* node meanwhile (GetNodes, GetManifest).                                 *)
THEOREM QueriesSurviveCorrect == Spec => []QueriesSurvive
<1>1. LifecycleInv => QueriesSurvive
  BY DEF LifecycleInv
<1>2. QED
  BY <1>1, LifecycleInvariant, PTL
=============================================================================
