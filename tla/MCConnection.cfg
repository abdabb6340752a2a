\* Two connections that may overlap, of a message each, and a sender.
SPECIFICATION FairSpec
CONSTANTS
    Conn = {1, 2}
    Sender = {s1}
    MaxMessages = 1
    None = None
INVARIANTS
    ConnectedHasListener
    SilentWhileVerifying
    ListenersSurvive
PROPERTIES
    DisconnectNoticed
    WaitersWake
\* There are only so many connections.
CHECK_DEADLOCK FALSE
