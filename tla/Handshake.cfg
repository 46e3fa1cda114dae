\* One receive posted by each side and up to two sends: the second one can find
\* no receive.
CONSTANTS
    Preposts = 1
    MaxSends = 2
SPECIFICATION Spec
CHECK_DEADLOCK FALSE
INVARIANTS
    TypeOK
    FirstSendsFindReceives
    DestroyBlocksOnlyIfRefused
PROPERTIES
    MessagesArrive
    WaitsEnd
