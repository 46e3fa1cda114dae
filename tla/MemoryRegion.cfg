\* Two threads, three attempts, fragment counts below and at the
\* sentinel, one failing call.
CONSTANTS
    Thread = {t1, t2}
    Addr = {1, 2, 3, 4}
    UserAddr = {9}
    None = None
    Length = {1, 4}
    Wrap = 4
    Frags = {1, 2, 3, 4}
    Sentinel = 4
    MaxAllocateAttempts = 3
    MaxFails = 1
SPECIFICATION Spec
CHECK_DEADLOCK FALSE
INVARIANTS
    TypeOK
    RegisteredIsMapped
    StorageAccounted
