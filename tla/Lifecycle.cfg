\* One connection of each origin, or two of the same.  The system stops once
\* the controller is gone, the process aborted or a destructor waits for ever.
CONSTANTS
    Conn = {c1, c2}
    None = None
SPECIFICATION Spec
CHECK_DEADLOCK FALSE
INVARIANTS
    TypeOK
    TeardownOrder
    QueueLostUnlessClosed
    NothingLeft
    ChannelOutlivesIds
PROPERTIES
    TeardownEnds
