---------------------------- MODULE MCMemoryPool ----------------------------
(* MemoryPool with chunks of 4, 8 and 16 units, the ratio of the sizes in   *)
(* RdmaMemoryPool.h not mattering; a length of 0 asks for a small region.   *)
EXTENDS MemoryPool

MCChunkSize == [c \in Class |->
    CASE c = "small" -> 4 [] c = "medium" -> 8 [] OTHER -> 16]

MCNumChunks == [c \in Class |-> 1]
=============================================================================
