\* Two connections of a node, one description, and a file that may lose or
\* gain a key, or become a developer's manifest, garbage, or nothing.
SPECIFICATION HandshakeSpec
CONSTANTS
    Conn = {c1, c2}
    Describer = {d1}
    id = id
    trust = trust
    more = more
    good = good
    added = added
    trusting = trusting
    garbage = garbage
    Content = {good, added, trusting, garbage}
    Key = {id, trust, more}
    Id = id
    Trust = trust
    KeysOf <- Keys
    Developers = {trusting}
    Garbled = {garbage}
    Program = {app, stranger}
    Developer = developer
    None = None
SYMMETRY Symmetry
INVARIANTS
    AcceptedAsInstalled
    DeniedForReason
CHECK_DEADLOCK FALSE
