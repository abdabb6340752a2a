\* README.md line 16, against a message for a node that is just leaving.
SPECIFICATION Spec
CONSTANTS
    Conn = {1}
    Sender = {s1}
    MaxMessages = 0
    None = None
INVARIANT HubSurvives
\* There are only so many connections.
CHECK_DEADLOCK FALSE
