\* Two nodes whose topics share a bare name, a patient and a hasty subscriber,
\* and two witnesses with room for one message in the channel.
SPECIFICATION Spec
CONSTANTS
    m = m  n = n  careful = careful  hasty = hasty
    mx = mx  nx = nx  x = x
    Name = {mx, nx}
    Key = {mx, nx, x}
    Ends <- MCEnds
    KeysOf <- MCKeysOf
    Announcer = {m, n}
    Topic <- MCTopic
    Short <- MCShort
    Client = {careful, hasty}
    Uses <- MCUses
    Patient = {careful}
    Grants <- MCGrants
    Benign = {}
    Staying = {hasty}
    Job = {j1, j2}
    Publisher = m
    MaxClaims = 2
    MaxEntries = 2
    MaxPublications = 3
    Piped = {2}
    WitnessNode = {w1, w2}
    Capacity = 1
    MaxSent = 3
    None = None
SYMMETRY Symmetry
INVARIANTS
    CopiesAsSubscribed
    SubscribedWithinGrant
    OwnTopicOnly
    WitnessedOnceInOrder
    AttentiveMissNothing
