\* Two senders that race for one lazy node, one process that connects again and again, and a goroutine
\* that uninstalls nodes.
SPECIFICATION FairLaunchSpec
CONSTANTS
    Sender = {s1, s2}
    Process = {p1}
    Remover = {u1}
    None = None
INVARIANTS
    LaunchableAgain
    SignalMeansUp
 
