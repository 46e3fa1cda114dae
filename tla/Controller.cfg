\* Two connections, each made by a peer or by this side, one poller, and regions
\* for the pre-posted receives of both.
CONSTANTS
    Conn = {1, 2}
    Outgoing = {2}
    Poller = {p1}
    Handler = handler
    App = app
    None = None
    Preposts = 1
    NumRegions = 2
    MaxLost = 1
SPECIFICATION Spec
CHECK_DEADLOCK FALSE
INVARIANTS
    TypeOK
    EventFindsClient
    ClientsUsable
    RegionsAccounted
PROPERTIES
    AckBeforeDestroy
    RequestsAnswered
