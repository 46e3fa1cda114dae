\* One chunk of each size; room for the pools to be filled
\* three times and for one region registered on the fly.
CONSTANTS
    Addr = {1, 2, 3, 4, 5, 6, 7, 8, 9, 10}
    ChunkSize <- MCChunkSize
    NumChunks <- MCNumChunks
    Length = {0, 4, 8, 16, 17}
    UserLength = {8}
    MaxPd = 3
    MaxOnTheFly = 1
SPECIFICATION Spec
INVARIANTS
    TypeOK
    RegionsGoHome
    NoDanglingRegion
