\* Three ranks; the port is configured, or left to the system; no file of an
\* earlier job, or one with its port.
CONSTANTS
    Rank = {0, 1, 2}
    Config = {0, 7910}
    Ephemeral = {40001, 40002}
    Stale = {39999}
    NoFile = NoFile
    Empty = Empty
SPECIFICATION Spec
CHECK_DEADLOCK FALSE
INVARIANTS
    SamePort
