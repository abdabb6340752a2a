----------------------------- MODULE Exchange ------------------------------
(***************************************************************************)
(* What the bus promises the sender of a request: the request is turned    *)
(* away at once, or it opens an exchange that ends at most once, with an   *)
(* answer or with an error, never with both.  The response table           *)
(* (Responses.tla) implements it for requests with handles of their own.   *)
(***************************************************************************)
CONSTANT Request

VARIABLE status   \* the state of each request's exchange

States == {"new", "refused", "open", "answered", "failed"}

Init == status = [r \in Request |-> "new"]

Move(r, from, to) ==
    /\ status[r] = from
    /\ status' = [status EXCEPT ![r] = to]

Refuse(r) == Move(r, "new", "refused")
Open(r)   == Move(r, "new", "open")
Answer(r) == Move(r, "open", "answered")
Fail(r)   == Move(r, "open", "failed")

Next == \E r \in Request : Refuse(r) \/ Open(r) \/ Answer(r) \/ Fail(r)

Spec == Init /\ [][Next]_status
=============================================================================
