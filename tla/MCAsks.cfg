\* A pipe with handles of its own, two that share one (the second waits
\* without a time limit), and a call to HYPHAE from the listener that would
\* read the answer.
SPECIFICATION FairSpec
CONSTANTS
    own = own
    pipe = pipe
    other = other
    hyphae = hyphae
    h1 = h1
    h2 = h2
    h3 = h3
    h4 = h4
    l1 = l1
    Client = {own, pipe, other, hyphae}
    Handle = {h1, h2, h3, h4}
    Stages <- PipesAndCalls
    HandlesOf <- PipesAndCallsHandles
    Careful = {hyphae}
    Patient = {other}
    Listener = {l1}
    RunsOn <- OnListener
    Server <- ServedBy
    MaxAnswers <- TwiceForOwn
    None = None
INVARIANTS
    NeverBlocks
    StageByStage
    NobodyLeftBehind
PROPERTY EveryAskEnds
\* Every client may be done.
CHECK_DEADLOCK FALSE
