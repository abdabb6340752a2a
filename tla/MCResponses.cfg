\* Three requests of nodes that choose freely between an ordinary handle and
\* one that reads as "n/a", and a request of the hub with a handle of its own.
SPECIFICATION Spec
CONSTANTS
    r1 = r1
    r2 = r2
    r3 = r3
    r4 = r4
    h1 = h1
    h2 = h2
    h3 = h3
    Node = {n1}
    Handle = {h1, h2, h3}
    Reserved = {h2}
    Request = {r1, r2, r3, r4}
    HandlesOf <- MixedHandles
    MaxAnswers = 2
    NoRequest = NoRequest
SYMMETRY Symmetry
INVARIANTS
    AnsweredOnce
    OwnsHandle
    ReplyMatches
    LateReplyFindsEntry
PROPERTY ExchangeSpec
\* A table whose lock was left held answers nobody; and a bus may be idle.
CHECK_DEADLOCK FALSE
