---------------------------- MODULE Permissions -----------------------------
(***************************************************************************)
(* The permission manager (permissions/manager.go): standing grants with   *)
(* their file, one-use permits, and the decision Can that api.request      *)
(* waits for.                                                              *)
(*                                                                         *)
(* Can reads the manager's lists under m.mu, and then may ask the user     *)
(* (Hyphae.Confirm, up to two minutes) or consume a permit in a second     *)
(* critical section; what it read may be out of date by then.  The risk of *)
(* a command is known only once RegisterNode has seen the manifest of its  *)
(* node: for SPORE when the hub starts, for the others at installation and *)
(* at the end of every handshake (nodes/node.go), not when the hub starts. *)
(*                                                                         *)
(* A confirmation is the answer of HYPHAE to the question that was asked:  *)
(* the response table, which passes it on, goes by the handle and not by   *)
(* who answers (Responses.tla).                                            *)
(***************************************************************************)
EXTENDS Naturals, FiniteSets

CONSTANTS
    Node,       \* ids that ask, and ids that own commands
    Spore,      \* the hub's own
    System,     \* nodes of system trust
    Internal,   \* the callers of protected commands (hyphae-in-spore)
    Cap,        \* capabilities
    Owner,      \* the node of each
    Risk,       \* "benign", "standard", "admin" or "protected", by manifest
    Exempt,     \* <<origin, capability>> that Can allows by name
    Entry,      \* what a standing grant may say
    Covers,     \* the capabilities an entry is, or is a dot-suffix of
    Token,      \* permit tokens; none is ever made twice
    Call,       \* goroutines in Can or RequestPermit
    Faults,     \* saves may fail, and the hub may be restarted
    None

ASSUME PermissionsAssumption ==
    /\ Spore \in Node /\ System \subseteq Node /\ Internal \subseteq Node
    /\ None \notin Token /\ None \notin Node /\ None \notin Cap
    /\ None \notin Node \X Cap
    /\ Owner \in [Cap -> Node]
    /\ Risk \in [Cap -> {"benign", "standard", "admin", "protected"}]
    /\ Exempt \subseteq Node \X Cap
    /\ Covers \in [Entry -> SUBSET Cap]
    /\ Faults \in BOOLEAN

VARIABLES
    registered, \* the nodes whose manifest RegisterNode has seen
    allowances, \* m.allowances
    saved,      \* the permissions file
    permits,    \* m.permits
    call,       \* where each goroutine is
    issued,     \* what each token was confirmed for, once made
    used,       \* how many calls each token has let through
    shaky,      \* the grants whose save failed, with no good save since
    granted,    \* the grants that were acknowledged, and not revoked since
    revoked     \* the revocations that were acknowledged, not granted since

vars == <<registered, allowances, saved, permits, call, issued, used, shaky,
          granted, revoked>>
grants == <<allowances, saved, shaky, granted, revoked>>
tokens == <<permits, issued, used>>

Permit == [origin : Node, cap : Cap, live : BOOLEAN]
Idle == [at |-> "idle", origin |-> None, cap |-> None, token |-> None,
         by |-> "none"]

TypeOK ==
    /\ registered \in SUBSET Node
    /\ allowances \in [Node -> SUBSET Entry]
    /\ saved \in [Node -> SUBSET Entry]
    /\ permits \in [Token -> Permit \cup {None}]
    /\ call \in [Call ->
          [at : {"idle", "asking", "confirming", "consuming", "allowed"},
           origin : Node \cup {None}, cap : Cap \cup {None},
           token : Token \cup {None},
           by : {"none", "caller", "name", "standing", "confirmation",
                 "permit"}]]
    /\ issued \in [Token -> (Node \X Cap) \cup {None}]
    /\ used \in [Token -> Nat]
    /\ shaky \in SUBSET (Node \X Entry)
    /\ granted \in SUBSET (Node \X Entry)
    /\ revoked \in SUBSET (Node \X Entry)

-----------------------------------------------------------------------------
(* The lists, as RegisterNode has filled them.                             *)

Listed(c, risk) == Owner[c] \in registered /\ Risk[c] = risk
IsAdmin(c) == Listed(c, "admin")
IsProtected(c) == Listed(c, "protected")

\* Whether o may call c on standing grounds.
Allowed(o, c) ==
    \/ o \in System \cap registered
    \/ Listed(c, "benign")
    \/ \E e \in allowances[o] : c \in Covers[e]

Init ==
    /\ registered = {Spore}
    /\ allowances = [n \in Node |-> {}] /\ saved = allowances
    /\ permits = [t \in Token |-> None]
    /\ call = [i \in Call |-> Idle]
    /\ issued = [t \in Token |-> None]
    /\ used = [t \in Token |-> 0]
    /\ shaky = {} /\ granted = {} /\ revoked = {}

\* At installation, and when a handshake has succeeded.
RegisterNode(n) ==
    /\ registered' = registered \cup {n}
    /\ UNCHANGED <<grants, tokens, call>>

-----------------------------------------------------------------------------
(* Standing grants.                                                        *)

Acknowledge(given, taken) ==
    /\ granted' = (granted \cup given) \ taken
    /\ revoked' = (revoked \cup taken) \ given

\* Grant returns at once if it finds the entry.
GrantFound(n, e) ==
    /\ e \in allowances[n]
    /\ Acknowledge({<<n, e>>}, {})
    /\ UNCHANGED <<registered, allowances, saved, shaky, tokens, call>>

\* (A slip: Grant does not save.)
GrantInMemory(n, e) ==
    /\ e \notin allowances[n]
    /\ allowances' = [allowances EXCEPT ![n] = @ \cup {e}]
    /\ Acknowledge({<<n, e>>}, {})
    /\ UNCHANGED <<registered, saved, shaky, tokens, call>>

Grant(n, e) ==
    LET more == [allowances EXCEPT ![n] = @ \cup {e}]
    IN  /\ e \notin allowances[n]
        /\ allowances' = more
        /\ saved' = more
        /\ shaky' = {}
        /\ Acknowledge({<<n, e>>}, {})
        /\ UNCHANGED <<registered, tokens, call>>

GrantFails(n, e) ==
    /\ Faults
    /\ e \notin allowances[n]
    /\ allowances' = [allowances EXCEPT ![n] = @ \cup {e}]
    /\ shaky' = shaky \cup {<<n, e>>}
    /\ revoked' = revoked \ {<<n, e>>}
    /\ UNCHANGED <<registered, saved, granted, tokens, call>>

\* (A slip: Revoke returns at once if it does not find the entry.)
RevokeIfFound(n, e) ==
    LET left == [allowances EXCEPT ![n] = @ \ {e}]
    IN  /\ allowances' = left
        /\ saved' = IF e \in allowances[n] THEN left ELSE saved
        /\ shaky' = IF e \in allowances[n] THEN {} ELSE shaky
        /\ Acknowledge({}, {<<n, e>>})
        /\ UNCHANGED <<registered, tokens, call>>

\* Revoke saves whether or not it finds the entry.
Revoke(n, e) ==
    LET left == [allowances EXCEPT ![n] = @ \ {e}]
    IN  /\ allowances' = left
        /\ saved' = left
        /\ shaky' = {}
        /\ Acknowledge({}, {<<n, e>>})
        /\ UNCHANGED <<registered, tokens, call>>

RevokeFails(n, e) ==
    /\ Faults
    /\ allowances' = [allowances EXCEPT ![n] = @ \ {e}]
    /\ granted' = granted \ {<<n, e>>}
    /\ UNCHANGED <<registered, saved, shaky, revoked, tokens, call>>

-----------------------------------------------------------------------------
(* Permits.                                                                *)

\* RequestPermit checks the lists, then asks the user without a time limit.
AskPermit(i, o, c) ==
    /\ call[i].at = "idle"
    /\ ~ IsAdmin(c) /\ ~ IsProtected(c)
    /\ call' = [call EXCEPT ![i] =
                  [Idle EXCEPT !.at = "asking", !.origin = o, !.cap = c]]
    /\ UNCHANGED <<registered, grants, tokens>>

\* The user says yes; the permits that have expired go.
IssuePermit(i, t) ==
    /\ call[i].at = "asking"
    /\ issued[t] = None
    /\ issued' = [issued EXCEPT ![t] = <<call[i].origin, call[i].cap>>]
    /\ permits' = [u \in Token |->
          IF u = t THEN [origin |-> call[i].origin, cap |-> call[i].cap,
                         live |-> TRUE]
          ELSE IF permits[u] # None /\ permits[u].live THEN permits[u]
          ELSE None]
    /\ call' = [call EXCEPT ![i] = Idle]
    /\ UNCHANGED <<registered, grants, used>>

\* Thirty seconds have passed.
Expire(t) ==
    /\ permits[t] # None
    /\ permits[t].live
    /\ permits' = [permits EXCEPT ![t].live = FALSE]
    /\ UNCHANGED <<registered, grants, issued, used, call>>

-----------------------------------------------------------------------------
(* Can, up to the end of its first critical section.                       *)

Reads(i, o, c, t, at, by) ==
    /\ call[i].at = "idle"
    /\ call' = [call EXCEPT ![i] = [at |-> at, origin |-> o, cap |-> c,
                                    token |-> t, by |-> by]]
    /\ UNCHANGED <<registered, grants, tokens>>

CanProtected(i, o, c, t) ==
    /\ IsProtected(c)
    /\ o \in Internal
    /\ Reads(i, o, c, t, "allowed", "caller")

CanExempt(i, o, c, t) ==
    /\ ~ IsProtected(c)
    /\ <<o, c>> \in Exempt
    /\ Reads(i, o, c, t, "allowed", "name")

Ordinary(o, c) == ~ IsProtected(c) /\ <<o, c>> \notin Exempt

\* (A slip: a standing grant does for admin commands, too.)
StandingForAdmin(i, o, c, t) ==
    /\ Ordinary(o, c)
    /\ Allowed(o, c)
    /\ Reads(i, o, c, t, "allowed", "standing")

CanStanding(i, o, c, t) ==
    /\ Ordinary(o, c)
    /\ Allowed(o, c)
    /\ ~ IsAdmin(c)
    /\ Reads(i, o, c, t, "allowed", "standing")

CanConfirm(i, o, c, t) ==
    /\ Ordinary(o, c)
    /\ Allowed(o, c)
    /\ IsAdmin(c)
    /\ Reads(i, o, c, t, "confirming", "none")

\* Anything else with a token goes on to consumePermit; without, it is refused.
CanPermit(i, o, c, t) ==
    /\ Ordinary(o, c)
    /\ ~ Allowed(o, c) /\ ~ IsAdmin(c)
    /\ t # None
    /\ Reads(i, o, c, t, "consuming", "none")

\* Hyphae.Confirm answers yes (HYPHAE, and nobody in its place).
Confirmed(i) ==
    /\ call[i].at = "confirming"
    /\ call' = [call EXCEPT ![i].at = "allowed", ![i].by = "confirmation"]
    /\ UNCHANGED <<registered, grants, tokens>>

\* The permit of call i, if its token has one that fits.
Fits(i) ==
    LET p == permits[call[i].token]
    IN  p # None /\ p = [origin |-> call[i].origin, cap |-> call[i].cap,
                         live |-> TRUE]

\* (A slip: a permit stays after use.)
ConsumeNothing(i) ==
    /\ call[i].at = "consuming"
    /\ Fits(i)
    /\ used' = [used EXCEPT ![call[i].token] = @ + 1]
    /\ call' = [call EXCEPT ![i].at = "allowed", ![i].by = "permit"]
    /\ UNCHANGED <<registered, grants, permits, issued>>

\* consumePermit
Consume(i) ==
    /\ call[i].at = "consuming"
    /\ Fits(i)
    /\ permits' = [permits EXCEPT ![call[i].token] = None]
    /\ used' = [used EXCEPT ![call[i].token] = @ + 1]
    /\ call' = [call EXCEPT ![i].at = "allowed", ![i].by = "permit"]
    /\ UNCHANGED <<registered, grants, issued>>

\* The user says no or cannot be asked, or the permit does not fit.
Refuse(i) ==
    /\ \/ call[i].at \in {"asking", "confirming"}
       \/ call[i].at = "consuming" /\ ~ Fits(i)
    /\ call' = [call EXCEPT ![i] = Idle]
    /\ UNCHANGED <<registered, grants, tokens>>

\* The allowed call went to its node.
Return(i) ==
    /\ call[i].at = "allowed"
    /\ call' = [call EXCEPT ![i] = Idle]
    /\ UNCHANGED <<registered, grants, tokens>>

-----------------------------------------------------------------------------
Restart ==
    /\ Faults
    /\ registered' = {Spore}
    /\ allowances' = saved
    /\ permits' = [t \in Token |-> None]
    /\ call' = [i \in Call |-> Idle]
    /\ granted' = granted \ shaky
    /\ shaky' = {}
    /\ UNCHANGED <<saved, revoked, issued, used>>

Next ==
    \/ \E n \in Node : RegisterNode(n)
    \/ \E n \in Node, e \in Entry :
          \/ GrantFound(n, e) \/ Grant(n, e) \/ GrantFails(n, e)
          \/ Revoke(n, e) \/ RevokeFails(n, e)
    \/ \E i \in Call, o \in Node, c \in Cap :
          \/ AskPermit(i, o, c)
          \/ \E t \in Token \cup {None} :
                \/ CanProtected(i, o, c, t)
                \/ CanExempt(i, o, c, t)
                \/ CanStanding(i, o, c, t)
                \/ CanConfirm(i, o, c, t)
                \/ CanPermit(i, o, c, t)
    \/ \E t \in Token : Expire(t) \/ \E i \in Call : IssuePermit(i, t)
    \/ \E i \in Call : Confirmed(i) \/ Consume(i) \/ Refuse(i) \/ Return(i)
    \/ Restart

Spec == Init /\ [][Next]_vars

-----------------------------------------------------------------------------
(* A permit lets one call through, however many carry its token at once,   *)
(* through expiry, purges and restarts; and that call is the one the user  *)
(* was asked about.                                                        *)
PermitUsedAsGranted ==
    /\ \A t \in Token : used[t] <= 1
    /\ \A i \in Call :
          call[i].at = "allowed" /\ call[i].by = "permit" =>
              issued[call[i].token] = <<call[i].origin, call[i].cap>>

(* An admin command of the hub itself is never let through without a       *)
(* confirmation of its own, whatever was granted, permitted or restarted.  *)
HubAdminConfirmed ==
    \A i \in Call :
        LET c == call[i].cap
        IN  /\ call[i].at = "allowed"
            /\ Risk[c] = "admin" /\ Owner[c] = Spore
            /\ <<call[i].origin, c>> \notin Exempt
            => call[i].by = "confirmation"

(* A revocation that was acknowledged holds, after a restart too, also if  *)
(* an earlier attempt took the grant from memory and could not be saved.   *)
RevocationHolds ==
    \A n \in Node, e \in Entry :
        <<n, e>> \in revoked => e \notin allowances[n] \cup saved[n]

(* A grant that was acknowledged is there, and will be there after a       *)
(* restart, until it is revoked.  There is one exception (shaky): Grant    *)
(* finds the entry that an attempt before it could not save, and so says   *)
(* yes without saving; such a grant ends with the hub, unless a save of    *)
(* another grant or revocation takes it along.                             *)
GrantHolds ==
    \A n \in Node, e \in Entry :
        <<n, e>> \in granted =>
            /\ e \in allowances[n]
            /\ e \in saved[n] \/ <<n, e>> \in shaky
=============================================================================
