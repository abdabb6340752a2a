\* Two nodes, two jobs at once; saves fail and the hub restarts.
SPECIFICATION Spec
CONSTANTS
    m = m
    n = n
    c = c
    Id = {m, n}
    UserSpace = {m}
    Wanted <- MCWanted
    Job = {j1, j2}
    MaxElements = 2
    Faults = TRUE
    None = None
SYMMETRY Symmetry
INVARIANTS
    InstalledSurvivesRestart
    BusRoutesToInstalled
    UninstalledHasNoGrants
    QueriesSurvive
