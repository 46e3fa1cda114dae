\* Two threads and two clients, and exactly as many regions as EnoughRegions asks
\* for, one post failing.
CONSTANTS
    Thread = {t1, t2}
    Client = {c1, c2}
    NoClient = NoClient
    Preposts = 2
    NumRegions = 8
    Wrap = 16
    MaxLost = 1
SPECIFICATION Spec
INVARIANTS
    TypeOK
    WaitingExact
    OvershootBounded
    RegionsConserved
    RefillNeverWaits
