\* A node whose calls may be standing, permitted or refused, two calls at once
\* with one permit, failing saves and restarts.
SPECIFICATION Spec
CONSTANTS
    S = S
    n = n
    Sa = Sa
    na = na
    ns = ns
    np = np
    x = x
    Node = {S, n}
    Spore = S
    System = {}
    Internal = {S}
    Cap = {Sa, ns, np}
    Owner <- MCOwner
    Risk <- MCRisk
    Exempt <- MCExempt
    Entry = {x}
    Covers <- MCCovers
    Token = {t1}
    Call = {i1, i2}
    Faults = TRUE
    None = None
SYMMETRY Symmetry
INVARIANTS
    HubAdminConfirmed
    RevocationHolds
    PermitUsedAsGranted
    GrantHolds
