\* A request the pre-connection callback refuses becomes a client all the same.
CONSTANTS
    Conn = {1, 2}
    Outgoing = {2}
    Poller = {p1}
    Handler = handler
    App = app
    None = None
    Preposts = 1
    NumRegions = 2
    MaxLost = 1
SPECIFICATION Spec
CHECK_DEADLOCK FALSE
INVARIANT RejectedIsNoClient
