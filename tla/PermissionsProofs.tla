------------------------- MODULE PermissionsProofs --------------------------
(***************************************************************************)
(* What TLAPS proves about the permission manager (Permissions.tla), for   *)
(* any nodes, capabilities, grants, tokens and goroutines: the types, what *)
(* a permit is worth, what an acknowledged grant and revocation are worth, *)
(* and that admin commands of the hub are confirmed.                       *)
(***************************************************************************)
EXTENDS Permissions, TLAPS

\* A call that is under way has an origin and a capability, and a token when it
\* means to use a permit.
CallInv ==
    \A i \in Call :
        /\ call[i].at # "idle" => call[i].origin \in Node /\ call[i].cap \in Cap
        /\ call[i].at = "consuming" => call[i].token \in Token

\* Initially no call is under way.
LEMMA TypeInitially == Init => TypeOK /\ CallInv
<1> USE PermissionsAssumption
<1> SUFFICES ASSUME Init PROVE TypeOK /\ CallInv
  OBVIOUS
<1>1. \A i \in Call : call[i] = Idle
  BY DEF Init
<1>2. QED
  BY <1>1 DEF Init, TypeOK, CallInv, Idle

\* The steps of calls that the permits are not concerned with.
LEMMA ReadsTyped ==
    ASSUME TypeOK, CallInv, NEW i \in Call, NEW o \in Node, NEW c \in Cap,
           NEW t \in Token \cup {None},
           NEW at \in {"confirming", "consuming", "allowed"},
           NEW by \in {"none", "caller", "name", "standing"},
           at = "consuming" => t \in Token,
           Reads(i, o, c, t, at, by)
    PROVE  TypeOK' /\ CallInv'
<1>1. TypeOK'
  BY DEF TypeOK, Reads, grants, tokens
<1>2. \A j \in Call : call'[j] = IF j = i
          THEN [at |-> at, origin |-> o, cap |-> c, token |-> t, by |-> by]
          ELSE call[j]
  BY DEF Reads, TypeOK
<1>3. CallInv'
  BY <1>2 DEF CallInv
<1>4. QED
  BY <1>1, <1>3

\* Call i, under way until now, is let through.
AllowedBy(i, by) ==
    call' = [call EXCEPT ![i] = [@ EXCEPT !.at = "allowed", !.by = by]]

Calls ==
    [at : {"idle", "asking", "confirming", "consuming", "allowed"},
     origin : Node \cup {None}, cap : Cap \cup {None},
     token : Token \cup {None},
     by : {"none", "caller", "name", "standing", "confirmation", "permit"}]

\* A call that is allowed stays a call of its origin and capability.
LEMMA AllowedTyped ==
    ASSUME TypeOK, CallInv, NEW i \in Call, call[i].at # "idle",
           NEW by \in {"confirmation", "permit"}, AllowedBy(i, by)
    PROVE  /\ call' \in [Call -> Calls]
           /\ CallInv'
           /\ \A j \in Call : call'[j] =
                 IF j = i THEN [call[i] EXCEPT !.at = "allowed", !.by = by]
                 ELSE call[j]
<1>1. call \in [Call -> Calls]
  BY DEF TypeOK, Calls
<1>2. [call[i] EXCEPT !.at = "allowed", !.by = by] \in Calls
  BY <1>1 DEF Calls
<1>3. \A j \in Call : call'[j] =
          IF j = i THEN [call[i] EXCEPT !.at = "allowed", !.by = by] ELSE call[j]
  BY <1>1 DEF AllowedBy
<1>4. call' \in [Call -> Calls]
  BY <1>1, <1>2 DEF AllowedBy
<1>5. call[i] \in Calls
  BY <1>1
<1>6. /\ [call[i] EXCEPT !.at = "allowed", !.by = by].at = "allowed"
      /\ [call[i] EXCEPT !.at = "allowed", !.by = by].origin = call[i].origin
      /\ [call[i] EXCEPT !.at = "allowed", !.by = by].cap = call[i].cap
  BY <1>5 DEF Calls
<1>7. CallInv'
  BY <1>3, <1>6 DEF CallInv
<1>8. QED
  BY <1>3, <1>4, <1>7

\* What is done to the grants leaves calls and permits alone.
LEMMA GrantsTyped ==
    ASSUME TypeOK, CallInv, NEW n \in Node, NEW e \in Entry,
           \/ GrantFound(n, e) \/ Grant(n, e) \/ GrantFails(n, e)
           \/ Revoke(n, e) \/ RevokeFails(n, e)
    PROVE  TypeOK' /\ CallInv'
<1>1. CASE GrantFound(n, e)
  BY <1>1 DEF GrantFound, Acknowledge, TypeOK, CallInv, tokens
<1>2. CASE Grant(n, e)
  BY <1>2 DEF Grant, Acknowledge, TypeOK, CallInv, tokens
<1>3. CASE GrantFails(n, e)
  BY <1>3 DEF GrantFails, TypeOK, CallInv, tokens
<1>4. CASE Revoke(n, e)
  BY <1>4 DEF Revoke, Acknowledge, TypeOK, CallInv, tokens
<1>5. CASE RevokeFails(n, e)
  BY <1>5 DEF RevokeFails, TypeOK, CallInv, tokens
<1>6. QED
  BY <1>1, <1>2, <1>3, <1>4, <1>5

\* Every critical section keeps the types.
LEMMA TypeInductive ==
    ASSUME TypeOK, CallInv, [Next]_vars
    PROVE  TypeOK' /\ CallInv'
<1> USE PermissionsAssumption
<1>1. ASSUME NEW n \in Node, RegisterNode(n) PROVE TypeOK' /\ CallInv'
  BY <1>1 DEF RegisterNode, TypeOK, CallInv, grants, tokens
<1>2. ASSUME NEW n \in Node, NEW e \in Entry,
             \/ GrantFound(n, e) \/ Grant(n, e) \/ GrantFails(n, e)
             \/ Revoke(n, e) \/ RevokeFails(n, e)
      PROVE  TypeOK' /\ CallInv'
  BY <1>2, GrantsTyped
<1>3. ASSUME NEW i \in Call, NEW o \in Node, NEW c \in Cap, AskPermit(i, o, c)
      PROVE  TypeOK' /\ CallInv'
  <2>1. \A j \in Call : call'[j] =
            IF j = i THEN [Idle EXCEPT !.at = "asking", !.origin = o, !.cap = c]
            ELSE call[j]
    BY <1>3 DEF AskPermit, TypeOK
  <2>2. CallInv'
    BY <2>1 DEF CallInv, Idle
  <2>3. TypeOK'
    BY <1>3 DEF AskPermit, TypeOK, Idle, grants, tokens
  <2>4. QED
    BY <2>2, <2>3
<1>4. ASSUME NEW i \in Call, NEW o \in Node, NEW c \in Cap,
             NEW t \in Token \cup {None},
             \/ CanProtected(i, o, c, t) \/ CanExempt(i, o, c, t)
             \/ CanStanding(i, o, c, t) \/ CanConfirm(i, o, c, t)
             \/ CanPermit(i, o, c, t)
      PROVE  TypeOK' /\ CallInv'
  <2>1. CASE CanProtected(i, o, c, t)
    BY <2>1, ReadsTyped DEF CanProtected
  <2>2. CASE CanExempt(i, o, c, t)
    BY <2>2, ReadsTyped DEF CanExempt
  <2>3. CASE CanStanding(i, o, c, t)
    BY <2>3, ReadsTyped DEF CanStanding
  <2>4. CASE CanConfirm(i, o, c, t)
    BY <2>4, ReadsTyped DEF CanConfirm
  <2>5. CASE CanPermit(i, o, c, t)
    BY <2>5, ReadsTyped DEF CanPermit
  <2>6. QED
    BY <1>4, <2>1, <2>2, <2>3, <2>4, <2>5
<1>5. ASSUME NEW t \in Token, Expire(t) PROVE TypeOK' /\ CallInv'
  <2>1. permits[t] \in Permit
    BY <1>5 DEF Expire, TypeOK
  <2>2. [permits[t] EXCEPT !.live = FALSE] \in Permit
    BY <2>1 DEF Permit
  <2>3. permits' = [permits EXCEPT ![t] = [permits[t] EXCEPT !.live = FALSE]]
    BY <1>5 DEF Expire
  <2>4. QED
    BY <1>5, <2>2, <2>3 DEF Expire, TypeOK, CallInv, grants
<1>6. ASSUME NEW i \in Call, NEW t \in Token, IssuePermit(i, t)
      PROVE  TypeOK' /\ CallInv'
  <2>1. call[i].origin \in Node /\ call[i].cap \in Cap
    BY <1>6 DEF IssuePermit, CallInv
  <2>2. [origin |-> call[i].origin, cap |-> call[i].cap, live |-> TRUE] \in Permit
    BY <2>1 DEF Permit
  <2>3. permits' \in [Token -> Permit \cup {None}]
    BY <1>6, <2>2 DEF IssuePermit, TypeOK
  <2>4. issued' \in [Token -> (Node \X Cap) \cup {None}]
    BY <1>6, <2>1 DEF IssuePermit, TypeOK
  <2>5. \A j \in Call : call'[j] = IF j = i THEN Idle ELSE call[j]
    BY <1>6 DEF IssuePermit, TypeOK
  <2>6. CallInv'
    BY <2>5 DEF CallInv, Idle
  <2>7. QED
    BY <1>6, <2>3, <2>4, <2>6 DEF IssuePermit, TypeOK, Idle, grants
<1>7. ASSUME NEW i \in Call, Confirmed(i) PROVE TypeOK' /\ CallInv'
  <2>1. AllowedBy(i, "confirmation") /\ UNCHANGED <<registered, grants, tokens>>
    BY <1>7 DEF Confirmed, AllowedBy
  <2>2. call[i].at # "idle"
    BY <1>7 DEF Confirmed
  <2>3. QED
    BY <2>1, <2>2, AllowedTyped DEF TypeOK, Calls, grants, tokens
<1>8. ASSUME NEW i \in Call, Consume(i) PROVE TypeOK' /\ CallInv'
  <2>1. AllowedBy(i, "permit") /\ call[i].at # "idle"
    BY <1>8 DEF Consume, AllowedBy
  <2>2. call[i].token \in Token
    BY <1>8 DEF Consume, CallInv
  <2>3. permits' \in [Token -> Permit \cup {None}] /\ used' \in [Token -> Nat]
    BY <1>8, <2>2 DEF Consume, TypeOK
  <2>4. QED
    BY <1>8, <2>1, <2>3, AllowedTyped DEF Consume, TypeOK, Calls, grants
<1>9. ASSUME NEW i \in Call, Refuse(i) \/ Return(i) PROVE TypeOK' /\ CallInv'
  <2>1. /\ call' = [call EXCEPT ![i] = Idle] /\ UNCHANGED <<registered, grants, tokens>>
    BY <1>9 DEF Refuse, Return
  <2>2. QED
    BY <2>1 DEF TypeOK, CallInv, Idle, grants, tokens
<1>10. CASE Restart
  BY <1>10 DEF Restart, TypeOK, CallInv, Idle
<1>11. CASE UNCHANGED vars
  BY <1>11 DEF vars, TypeOK, CallInv
<1>12. QED
  BY <1>1, <1>2, <1>3, <1>4, <1>5, <1>6, <1>7, <1>8, <1>9, <1>10, <1>11 DEF Next

\* Types and calls together.
LEMMA Typed == Spec => [](TypeOK /\ CallInv)
BY TypeInitially, TypeInductive, PTL DEF Spec

(* The manager's lists, files and permits keep their types.                *)
THEOREM TypeCorrect == Spec => []TypeOK
BY Typed, PTL

-----------------------------------------------------------------------------
(* Standing grants.                                                        *)

\* What GrantHolds rests on: an entry in memory is on disk or came with a save
\* that failed.
Kept ==
    \A n \in Node, e \in Entry :
        e \in allowances[n] => e \in saved[n] \/ <<n, e>> \in shaky

Standing == RevocationHolds /\ GrantHolds /\ Kept

\* The steps of the calls and of the permits leave the grants alone.
LEMMA GrantsUnchanged ==
    ASSUME [Next]_vars
    PROVE  \/ \E n \in Node, e \in Entry :
                 \/ GrantFound(n, e) \/ Grant(n, e) \/ GrantFails(n, e)
                 \/ Revoke(n, e) \/ RevokeFails(n, e)
           \/ Restart
           \/ UNCHANGED grants
<1>1. ASSUME NEW n \in Node, RegisterNode(n) PROVE UNCHANGED grants
  BY <1>1 DEF RegisterNode
<1>2. ASSUME NEW i \in Call, NEW o \in Node, NEW c \in Cap, AskPermit(i, o, c)
      PROVE  UNCHANGED grants
  BY <1>2 DEF AskPermit
<1>3. ASSUME NEW i \in Call, NEW o \in Node, NEW c \in Cap,
             NEW t \in Token \cup {None},
             \/ CanProtected(i, o, c, t) \/ CanExempt(i, o, c, t)
             \/ CanStanding(i, o, c, t) \/ CanConfirm(i, o, c, t)
             \/ CanPermit(i, o, c, t)
      PROVE  UNCHANGED grants
  BY <1>3 DEF CanProtected, CanExempt, CanStanding, CanConfirm, CanPermit, Reads
<1>4. ASSUME NEW t \in Token, Expire(t) \/ \E i \in Call : IssuePermit(i, t)
      PROVE  UNCHANGED grants
  BY <1>4 DEF Expire, IssuePermit
<1>5. ASSUME NEW i \in Call, Confirmed(i) \/ Consume(i) \/ Refuse(i) \/ Return(i)
      PROVE  UNCHANGED grants
  BY <1>5 DEF Confirmed, Consume, Refuse, Return
<1>6. CASE UNCHANGED vars
  BY <1>6 DEF vars, grants
<1>7. QED
  BY <1>1, <1>2, <1>3, <1>4, <1>5, <1>6 DEF Next

\* Grants and revocations that were acknowledged are in memory and in the file.
LEMMA StandingInductive ==
    ASSUME TypeOK, Standing, [Next]_vars
    PROVE  Standing'
<1> USE DEF TypeOK, Standing, RevocationHolds, GrantHolds, Kept
<1>1. ASSUME NEW n \in Node, NEW e \in Entry, GrantFound(n, e) PROVE Standing'
  BY <1>1 DEF GrantFound, Acknowledge
<1>2. ASSUME NEW n \in Node, NEW e \in Entry, Grant(n, e) PROVE Standing'
  BY <1>2 DEF Grant, Acknowledge
<1>3. ASSUME NEW n \in Node, NEW e \in Entry, GrantFails(n, e) PROVE Standing'
  BY <1>3 DEF GrantFails
<1>4. ASSUME NEW n \in Node, NEW e \in Entry, Revoke(n, e) PROVE Standing'
  BY <1>4 DEF Revoke, Acknowledge
<1>5. ASSUME NEW n \in Node, NEW e \in Entry, RevokeFails(n, e) PROVE Standing'
  BY <1>5 DEF RevokeFails
<1>6. CASE Restart
  BY <1>6 DEF Restart
<1>7. CASE UNCHANGED grants
  BY <1>7 DEF grants
<1>8. QED
  BY <1>1, <1>2, <1>3, <1>4, <1>5, <1>6, <1>7, GrantsUnchanged

\* They are so in every state.
LEMMA StandingInvariant == Spec => []Standing
<1>1. Init => Standing
  BY DEF Init, Standing, RevocationHolds, GrantHolds, Kept
<1>2. QED
  BY <1>1, Typed, StandingInductive, PTL DEF Spec

(* What Revoke acknowledged is gone from memory and from the file, whatever *)
(* saves failed before it and however often the hub is restarted.          *)
THEOREM RevocationHoldsCorrect == Spec => []RevocationHolds
BY StandingInvariant, PTL DEF Standing

(* What Grant acknowledged is in memory, and in the file unless Grant only *)
(* found what an earlier Grant failed to save.                             *)
THEOREM GrantHoldsCorrect == Spec => []GrantHolds
BY StandingInvariant, PTL DEF Standing

-----------------------------------------------------------------------------
(* Permits.                                                                *)

\* A permit that is still there is what was confirmed, and has not been used.
PermitsFresh ==
    \A t \in Token :
        /\ issued[t] = None => used[t] = 0 /\ permits[t] = None
        /\ permits[t] # None =>
              /\ issued[t] = <<permits[t].origin, permits[t].cap>>
              /\ used[t] = 0
        /\ used[t] <= 1

\* A call that a permit let through has used it up.
CallsPermitted ==
    \A i \in Call :
        call[i].at = "allowed" /\ call[i].by = "permit" =>
            /\ call[i].token \in Token
            /\ used[call[i].token] = 1
            /\ issued[call[i].token] = <<call[i].origin, call[i].cap>>

Permitted == PermitsFresh /\ CallsPermitted

\* A permit is fresh until its call has used it.
LEMMA PermittedInductive ==
    ASSUME TypeOK, CallInv, Permitted, [Next]_vars
    PROVE  Permitted'
<1> USE PermissionsAssumption DEF Permitted
<1>1. ASSUME UNCHANGED <<tokens, call>> PROVE Permitted'
  BY <1>1 DEF PermitsFresh, CallsPermitted, tokens
<1>2. ASSUME NEW n \in Node, RegisterNode(n) PROVE Permitted'
  BY <1>1, <1>2 DEF RegisterNode
<1>3. ASSUME NEW n \in Node, NEW e \in Entry,
             \/ GrantFound(n, e) \/ Grant(n, e) \/ GrantFails(n, e)
             \/ Revoke(n, e) \/ RevokeFails(n, e)
      PROVE  Permitted'
  BY <1>1, <1>3 DEF GrantFound, Grant, GrantFails, Revoke, RevokeFails
<1>4. ASSUME UNCHANGED tokens, NEW i \in Call,
             \A j \in Call \ {i} : call'[j] = call[j],
             ~ (call'[i].at = "allowed" /\ call'[i].by = "permit")
      PROVE  Permitted'
  BY <1>4 DEF PermitsFresh, CallsPermitted, tokens
<1>5. ASSUME NEW i \in Call, NEW o \in Node, NEW c \in Cap, AskPermit(i, o, c)
      PROVE  Permitted'
  BY <1>4, <1>5 DEF AskPermit, Idle, TypeOK
<1>6. ASSUME NEW i \in Call, NEW o \in Node, NEW c \in Cap,
             NEW t \in Token \cup {None},
             \/ CanProtected(i, o, c, t) \/ CanExempt(i, o, c, t)
             \/ CanStanding(i, o, c, t) \/ CanConfirm(i, o, c, t)
             \/ CanPermit(i, o, c, t)
      PROVE  Permitted'
  <2>1. /\ UNCHANGED tokens
        /\ \A j \in Call \ {i} : call'[j] = call[j]
        /\ call'[i].by # "permit"
    BY <1>6 DEF CanProtected, CanExempt, CanStanding, CanConfirm, CanPermit,
                Reads, TypeOK
  <2>2. QED
    BY <1>4, <2>1
<1>7. ASSUME NEW t \in Token, Expire(t) PROVE Permitted'
  <2>1. \A u \in Token \ {t} : permits'[u] = permits[u]
    BY <1>7 DEF Expire, TypeOK
  <2>2. permits'[t] = [permits[t] EXCEPT !.live = FALSE] /\ permits[t] \in Permit
    BY <1>7 DEF Expire, TypeOK
  <2>3. permits'[t].origin = permits[t].origin /\ permits'[t].cap = permits[t].cap
    BY <2>2 DEF Permit
  <2>4. issued[t] # None /\ issued[t] = <<permits[t].origin, permits[t].cap>>
        /\ used[t] = 0
    BY <1>7 DEF Expire, PermitsFresh
  <2>5. UNCHANGED <<issued, used, call>>
    BY <1>7 DEF Expire
  <2>6. PermitsFresh'
    BY <2>1, <2>3, <2>4, <2>5 DEF PermitsFresh
  <2>7. CallsPermitted'
    BY <2>5 DEF CallsPermitted
  <2>8. QED
    BY <2>6, <2>7
<1>8. ASSUME NEW i \in Call, NEW t \in Token, IssuePermit(i, t) PROVE Permitted'
  <2>1. /\ issued[t] = None /\ used[t] = 0 /\ used' = used
        /\ issued' = [issued EXCEPT ![t] = <<call[i].origin, call[i].cap>>]
    BY <1>8 DEF IssuePermit, PermitsFresh
  <2>2. /\ permits'[t].origin = call[i].origin /\ permits'[t].cap = call[i].cap
        /\ \A u \in Token \ {t} : permits'[u] # None => permits'[u] = permits[u]
        /\ \A u \in Token \ {t} : permits[u] = None => permits'[u] = None
    BY <1>8 DEF IssuePermit
  <2>3. \A u \in Token : issued'[u] = IF u = t THEN <<call[i].origin, call[i].cap>>
                                      ELSE issued[u]
    BY <2>1 DEF TypeOK
  <2>4. \A j \in Call : call'[j] = IF j = i THEN Idle ELSE call[j]
    BY <1>8 DEF IssuePermit, TypeOK
  <2>5. PermitsFresh'
    <3>1. <<call[i].origin, call[i].cap>> # None
      BY <1>8 DEF IssuePermit, CallInv
    <3>2. QED
      BY <2>1, <2>2, <2>3, <3>1 DEF PermitsFresh
  <2>6. CallsPermitted'
    <3> SUFFICES ASSUME NEW j \in Call, call'[j].at = "allowed", call'[j].by = "permit"
                 PROVE  /\ call'[j].token \in Token
                        /\ used'[call'[j].token] = 1
                        /\ issued'[call'[j].token] = <<call'[j].origin, call'[j].cap>>
      BY DEF CallsPermitted
    <3>1. call'[j] = call[j]
      BY <2>4 DEF Idle
    <3>2. call[j].token \in Token /\ used[call[j].token] = 1
          /\ issued[call[j].token] = <<call[j].origin, call[j].cap>>
      BY <3>1 DEF CallsPermitted
    <3>3. call[j].token # t
      BY <2>1, <3>2
    <3>4. QED
      BY <2>1, <2>3, <3>1, <3>2, <3>3
  <2>7. QED
    BY <2>5, <2>6
<1>9. ASSUME NEW i \in Call, Confirmed(i) PROVE Permitted'
  <2>1. call[i].at # "idle" /\ AllowedBy(i, "confirmation") /\ UNCHANGED tokens
    BY <1>9 DEF Confirmed, AllowedBy
  <2>2. /\ call'[i] = [call[i] EXCEPT !.at = "allowed", !.by = "confirmation"]
        /\ \A j \in Call \ {i} : call'[j] = call[j]
    BY <2>1, AllowedTyped
  <2>3. call'[i].by = "confirmation"
    BY <2>2 DEF TypeOK
  <2>4. QED
    BY <1>4, <2>1, <2>2, <2>3
<1>10. ASSUME NEW i \in Call, Consume(i) PROVE Permitted'
  <2> DEFINE t == call[i].token
  <2>1. t \in Token
    BY <1>10 DEF Consume, CallInv
  <2>2. /\ permits[t] # None
        /\ permits[t].origin = call[i].origin /\ permits[t].cap = call[i].cap
    BY <1>10 DEF Consume, Fits
  <2>3. issued[t] = <<call[i].origin, call[i].cap>> /\ used[t] = 0
    BY <2>1, <2>2 DEF PermitsFresh
  <2>4. issued' = issued
    BY <1>10 DEF Consume
  <2>5. \A u \in Token : /\ permits'[u] = IF u = t THEN None ELSE permits[u]
                         /\ used'[u] = IF u = t THEN 1 ELSE used[u]
    BY <1>10, <2>1, <2>3 DEF Consume, TypeOK
  <2>6. PermitsFresh'
    <3>1. issued[t] # None
      BY <2>1, <2>2 DEF PermitsFresh
    <3>2. QED
      BY <2>4, <2>5, <3>1 DEF PermitsFresh
  <2>7. \A j \in Call : call'[j] =
            IF j = i THEN [call[i] EXCEPT !.at = "allowed", !.by = "permit"]
            ELSE call[j]
    <3>1. AllowedBy(i, "permit") /\ call[i].at # "idle"
      BY <1>10 DEF Consume, AllowedBy
    <3>2. QED
      BY <3>1, AllowedTyped
  <2>8. call'[i].token = t /\ call'[i].origin = call[i].origin
        /\ call'[i].cap = call[i].cap
    <3>1. call[i] \in Calls
      BY DEF TypeOK, Calls
    <3>2. call'[i] = [call[i] EXCEPT !.at = "allowed", !.by = "permit"]
      BY <2>7
    <3>3. QED
      BY <3>1, <3>2 DEF Calls
  <2>9. CallsPermitted'
    <3> SUFFICES ASSUME NEW j \in Call, call'[j].at = "allowed", call'[j].by = "permit"
                 PROVE  /\ call'[j].token \in Token
                        /\ used'[call'[j].token] = 1
                        /\ issued'[call'[j].token] = <<call'[j].origin, call'[j].cap>>
      BY DEF CallsPermitted
    <3> HIDE DEF t
    <3>1. CASE j = i
      BY <2>1, <2>3, <2>4, <2>5, <2>8, <3>1
    <3>2. CASE j # i
      <4>1. call'[j] = call[j]
        BY <2>7, <3>2
      <4>2. QED
        BY <2>4, <2>5, <4>1 DEF CallsPermitted
    <3>3. QED
      BY <3>1, <3>2
  <2>10. QED
    BY <2>6, <2>9
<1>11. ASSUME NEW i \in Call, Refuse(i) \/ Return(i) PROVE Permitted'
  BY <1>4, <1>11 DEF Refuse, Return, Idle, TypeOK
<1>12. CASE Restart
  BY <1>12 DEF Restart, Idle, PermitsFresh, CallsPermitted
<1>13. CASE UNCHANGED vars
  BY <1>1, <1>13 DEF vars, tokens
<1>14. QED
  BY <1>2, <1>3, <1>5, <1>6, <1>7, <1>8, <1>9, <1>10, <1>11, <1>12, <1>13 DEF Next

(* However calls, expiry, purges and restarts interleave, a permit lets one *)
(* call through, and the one that the user was asked about.                *)
THEOREM PermitUsedAsGrantedCorrect == Spec => []PermitUsedAsGranted
<1>1. Init => Permitted
  BY PermissionsAssumption
     DEF Init, Permitted, PermitsFresh, CallsPermitted, Idle
<1>2. Permitted => PermitUsedAsGranted
  BY DEF Permitted, PermitsFresh, CallsPermitted, PermitUsedAsGranted
<1>3. QED
  BY <1>1, <1>2, Typed, PermittedInductive, PTL DEF Spec

-----------------------------------------------------------------------------
(* The admin commands of the hub itself.                                   *)

HubAdmin(c) == Risk[c] = "admin" /\ Owner[c] = Spore

\* The hub's own manifest is always known, so none of its admin commands is on
\* the way to a permit.
HubKnown ==
    /\ Spore \in registered
    /\ \A i \in Call : call[i].at = "consuming" => ~ HubAdmin(call[i].cap)
    /\ \A i \in Call :
          /\ call[i].at = "allowed" /\ HubAdmin(call[i].cap)
          /\ <<call[i].origin, call[i].cap>> \notin Exempt
          => call[i].by = "confirmation"

\* How call r may look, for HubKnown to hold of it.
KnownCall(r) ==
    /\ r.at = "consuming" => ~ HubAdmin(r.cap)
    /\ r.at = "allowed" /\ HubAdmin(r.cap) /\ <<r.origin, r.cap>> \notin Exempt
       => r.by = "confirmation"

\* An admin command of the hub never comes to a permit.
LEMMA HubKnownInductive ==
    ASSUME TypeOK, CallInv, HubKnown, [Next]_vars
    PROVE  HubKnown'
<1> USE PermissionsAssumption
<1>1. ASSUME Spore \in registered', UNCHANGED call PROVE HubKnown'
  BY <1>1 DEF HubKnown
<1>2. ASSUME Spore \in registered', NEW i \in Call,
             \A j \in Call \ {i} : call'[j] = call[j], KnownCall(call'[i])
      PROVE  HubKnown'
  BY <1>2 DEF HubKnown, KnownCall
<1>3. Spore \in registered
  BY DEF HubKnown
<1>4. ASSUME NEW n \in Node, RegisterNode(n) PROVE HubKnown'
  BY <1>1, <1>3, <1>4 DEF RegisterNode
<1>5. ASSUME NEW n \in Node, NEW e \in Entry,
             \/ GrantFound(n, e) \/ Grant(n, e) \/ GrantFails(n, e)
             \/ Revoke(n, e) \/ RevokeFails(n, e)
      PROVE  HubKnown'
  BY <1>1, <1>3, <1>5 DEF GrantFound, Grant, GrantFails, Revoke, RevokeFails
<1>6. ASSUME NEW i \in Call, NEW o \in Node, NEW c \in Cap, AskPermit(i, o, c)
      PROVE  HubKnown'
  <2>1. /\ call' = [call EXCEPT ![i] =
                    [Idle EXCEPT !.at = "asking", !.origin = o, !.cap = c]]
        /\ registered' = registered
    BY <1>6 DEF AskPermit
  <2>2. \A j \in Call \ {i} : call'[j] = call[j]
    BY <2>1 DEF TypeOK
  <2>3. call'[i].at = "asking"
    BY <2>1 DEF TypeOK, Idle
  <2>4. KnownCall(call'[i])
    BY <2>3 DEF KnownCall
  <2>5. QED
    BY <1>2, <1>3, <2>1, <2>2, <2>4
<1>7. ASSUME NEW i \in Call, NEW o \in Node, NEW c \in Cap,
             NEW t \in Token \cup {None}
      PROVE  /\ CanProtected(i, o, c, t) => HubKnown'
             /\ CanExempt(i, o, c, t) => HubKnown'
             /\ CanStanding(i, o, c, t) => HubKnown'
             /\ CanConfirm(i, o, c, t) => HubKnown'
             /\ CanPermit(i, o, c, t) => HubKnown'
  <2>1. ASSUME NEW at, NEW by, Reads(i, o, c, t, at, by),
               at = "consuming" => ~ HubAdmin(c),
               at = "allowed" /\ HubAdmin(c) => <<o, c>> \in Exempt
        PROVE  HubKnown'
    <3>1. /\ call'[i] = [at |-> at, origin |-> o, cap |-> c, token |-> t, by |-> by]
          /\ \A j \in Call \ {i} : call'[j] = call[j]
          /\ registered' = registered
      BY <2>1 DEF Reads, TypeOK
    <3>2. KnownCall(call'[i])
      BY <2>1, <3>1 DEF KnownCall
    <3>3. QED
      BY <1>2, <1>3, <3>1, <3>2
  <2>2. HubAdmin(c) => IsAdmin(c)
    BY <1>3 DEF HubAdmin, IsAdmin, Listed
  <2>3. IsProtected(c) => ~ HubAdmin(c)
    BY DEF IsProtected, Listed, HubAdmin
  <2>4. CASE CanProtected(i, o, c, t)
    BY <2>1, <2>3, <2>4 DEF CanProtected
  <2>5. CASE CanExempt(i, o, c, t)
    BY <2>1, <2>5 DEF CanExempt
  <2>6. CASE CanStanding(i, o, c, t)
    BY <2>1, <2>2, <2>6 DEF CanStanding
  <2>7. CASE CanConfirm(i, o, c, t)
    BY <2>1, <2>7 DEF CanConfirm
  <2>8. CASE CanPermit(i, o, c, t)
    BY <2>1, <2>2, <2>8 DEF CanPermit
  <2>9. QED
    BY <2>4, <2>5, <2>6, <2>7, <2>8
<1>8. ASSUME NEW t \in Token, Expire(t) PROVE HubKnown'
  BY <1>1, <1>3, <1>8 DEF Expire
<1>9. ASSUME NEW i \in Call, NEW t \in Token, IssuePermit(i, t) PROVE HubKnown'
  BY <1>2, <1>3, <1>9 DEF IssuePermit, Idle, KnownCall, TypeOK
<1>10. ASSUME NEW i \in Call, Confirmed(i) PROVE HubKnown'
  <2>1. AllowedBy(i, "confirmation") /\ call[i].at # "idle" /\ registered' = registered
    BY <1>10 DEF Confirmed, AllowedBy
  <2>2. /\ call'[i] = [call[i] EXCEPT !.at = "allowed", !.by = "confirmation"]
        /\ \A j \in Call \ {i} : call'[j] = call[j]
    BY <2>1, AllowedTyped
  <2>3. call[i] \in Calls
    BY DEF TypeOK, Calls
  <2>4. KnownCall(call'[i])
    BY <2>2, <2>3 DEF Calls, KnownCall
  <2>5. QED
    BY <1>2, <1>3, <2>1, <2>2, <2>4
<1>11. ASSUME NEW i \in Call, Consume(i) PROVE HubKnown'
  <2>1. AllowedBy(i, "permit") /\ call[i].at = "consuming" /\ registered' = registered
    BY <1>11 DEF Consume, AllowedBy
  <2>2. /\ call'[i] = [call[i] EXCEPT !.at = "allowed", !.by = "permit"]
        /\ \A j \in Call \ {i} : call'[j] = call[j]
    BY <2>1, AllowedTyped
  <2>3. call[i] \in Calls
    BY DEF TypeOK, Calls
  <2>4. call'[i].at = "allowed" /\ call'[i].cap = call[i].cap
    BY <2>2, <2>3 DEF Calls
  <2>5. ~ HubAdmin(call[i].cap)
    BY <2>1 DEF HubKnown
  <2>6. KnownCall(call'[i])
    BY <2>4, <2>5 DEF KnownCall
  <2>7. QED
    BY <1>2, <1>3, <2>1, <2>2, <2>6
<1>12. ASSUME NEW i \in Call, Refuse(i) \/ Return(i) PROVE HubKnown'
  <2>1. /\ call' = [call EXCEPT ![i] = Idle] /\ registered' = registered
    BY <1>12 DEF Refuse, Return
  <2>2. call'[i] = Idle /\ \A j \in Call \ {i} : call'[j] = call[j]
    BY <2>1 DEF TypeOK
  <2>3. KnownCall(call'[i])
    BY <2>2 DEF Idle, KnownCall
  <2>4. QED
    BY <1>2, <1>3, <2>1, <2>2, <2>3
<1>13. CASE Restart
  BY <1>13 DEF Restart, Idle, HubKnown
<1>14. CASE UNCHANGED vars
  BY <1>1, <1>3, <1>14 DEF vars
<1>15. QED
  BY <1>4, <1>5, <1>6, <1>7, <1>8, <1>9, <1>10, <1>11, <1>12, <1>13, <1>14 DEF Next

(* Whatever was granted, permitted or restarted, an admin command of the   *)
(* hub is let through by a confirmation of its own.                        *)
THEOREM HubAdminConfirmedCorrect == Spec => []HubAdminConfirmed
<1>1. Init => HubKnown
  BY PermissionsAssumption DEF Init, HubKnown, Idle
<1>2. HubKnown => HubAdminConfirmed
  BY DEF HubKnown, HubAdmin, HubAdminConfirmed
<1>3. QED
  BY <1>1, <1>2, Typed, HubKnownInductive, PTL DEF Spec
=============================================================================
