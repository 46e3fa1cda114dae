\* Two clients that want two receives each, and three regions: as with 32
\* receives per client and 64 small chunks from the third client on.
CONSTANTS
    Thread = {t1, t2}
    Client = {c1, c2}
    NoClient = NoClient
    Preposts = 2
    NumRegions = 3
    Wrap = 16
    MaxLost = 0
SPECIFICATION FairSpec
PROPERTY RefillAborts
