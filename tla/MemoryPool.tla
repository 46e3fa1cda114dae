----------------------------- MODULE MemoryPool -----------------------------
(***************************************************************************)
(* RdmaMemoryPool (RdmaMemoryPool.h, .cpp): three pools of pre-registered  *)
(* regions, chosen by length; regions larger than the largest chunk, which *)
(* are registered on the fly ("temporary"); regions registered by the user *)
(* over a buffer of its own; and setProtectionDomain, which empties and    *)
(* refills the three pools.                                                *)
(*                                                                         *)
(* push and pop are single steps, as PoolContainer shows they may be.  A   *)
(* region is identified by the address of its buffer; which unused address *)
(* mmap returns does not matter, so a fixed choice is made.  The buffer of *)
(* a deleted region may be used again: the region objects that have had it *)
(* one after the other are told apart by the protection domain of their    *)
(* time.  pointer_map_ is never cleaned.                                   *)
(***************************************************************************)
EXTENDS Integers, FiniteSets

CONSTANTS
    Addr,        \* addresses of buffers
    ChunkSize,   \* class -> chunk_size_
    NumChunks,   \* class -> number of chunks allocated
    Length,      \* the lengths users ask for
    UserLength,  \* the lengths of buffers users register themselves
    MaxPd,       \* bound: protection domains 1..MaxPd are used
    MaxOnTheFly  \* bound: temporary and user regions alive at a time

Class == {"small", "medium", "large"}

\* mmap has room for the chunks of the constructor.
ASSUME ClassAssumption ==
    /\ ChunkSize \in [Class -> Nat]
    /\ ChunkSize["small"] < ChunkSize["medium"]
    /\ ChunkSize["medium"] < ChunkSize["large"]
    /\ NumChunks \in [Class -> Nat \ {0}]
    /\ Length \subseteq Nat
    /\ UserLength \subseteq Nat
    /\ MaxPd \in Nat \ {0}
    /\ MaxOnTheFly \in Nat
    /\ IsFiniteSet(Addr)
    /\ Cardinality(Addr) >= NumChunks["small"] + NumChunks["medium"] + NumChunks["large"]

VARIABLES
    region,        \* the live region objects: address -> kind, length, pd
    free,          \* class -> regions on its free_list_
    block,         \* class -> regions on its block_list_
    use_count,     \* class -> region_use_count_
    hand,          \* regions in users' hands
    temp_regions,  \* std::atomic<int>
    pd,            \* protection_domain_
    pointer_map    \* pointer_map_: buffer -> its region object, 0 for none

vars == <<region, free, block, use_count, hand, temp_regions, pd, pointer_map>>

Live == DOMAIN region

Kind == {"pool", "temp", "user"}

\* One more region can be registered on the fly.
MayRegister ==
    /\ Live # Addr
    /\ Cardinality({a \in Live : region[a].kind # "pool"}) < MaxOnTheFly

\* The pool that serves a request of this length; "none" if no chunk is large
\* enough.  A region goes back by the same test on its own length.
ClassOf(len) ==
    IF len <= ChunkSize["small"] THEN "small"
    ELSE IF len <= ChunkSize["medium"] THEN "medium"
    ELSE IF len <= ChunkSize["large"] THEN "large"
    ELSE "none"

\* Some n unused addresses outside the set used.
Fresh(used, n) ==
    CHOOSE S \in SUBSET (Addr \ used) : Cardinality(S) = n

-----------------------------------------------------------------------------
(* AllocatePool of one class with AllocateRegisteredBlock, in terms of the *)
(* pools' state s; and DeallocatePool of one class.                        *)

State == [region |-> region, free |-> free, block |-> block, use_count |-> use_count,
          map |-> pointer_map]

\* mutant: the region is registered with no protection domain.
AllocateRegisteredBlockNoPd(c, newPd) ==
    [kind |-> "pool", length |-> ChunkSize[c], pd |-> 0]

AllocateRegisteredBlock(c, newPd) ==
    [kind |-> "pool", length |-> ChunkSize[c], pd |-> newPd]

\* mutant: an entry that is there already is kept.
PointToFirst(m, new, newPd) ==
    [a \in Addr |-> IF a \in new /\ m[a] = 0 THEN newPd ELSE m[a]]

\* pointer_map_[region->getAddress()] = region.get()
PointTo(m, new, newPd) ==
    [a \in Addr |-> IF a \in new THEN newPd ELSE m[a]]

\* Adds NumChunks[c] regions to whatever the lists hold, and resets the count.
AllocatePool(s, c, newPd) ==
    LET new == Fresh(DOMAIN s.region, NumChunks[c])
    IN  [region |-> [a \in DOMAIN s.region \cup new |->
                        IF a \in new THEN AllocateRegisteredBlock(c, newPd)
                        ELSE s.region[a]],
         free  |-> [s.free  EXCEPT ![c] = @ \cup new],
         block |-> [s.block EXCEPT ![c] = @ \cup new],
         use_count |-> [s.use_count EXCEPT ![c] = 0],
         map |-> PointTo(s.map, new, newPd)]

AllReturned(s, c) ==
    /\ Cardinality(s.free[c]) = Cardinality(s.block[c])
    /\ s.use_count[c] = 0

\* Draining the free list counts every block as in use; clearing the block
\* list deletes the regions.
DeallocatePool(s, c) ==
    [region |-> [a \in DOMAIN s.region \ s.block[c] |-> s.region[a]],
     free  |-> [s.free  EXCEPT ![c] = {}],
     block |-> [s.block EXCEPT ![c] = {}],
     use_count |-> [s.use_count EXCEPT ![c] = @ + Cardinality(s.free[c])],
     map |-> s.map]

\* "ok && ...": the first pool that refuses keeps the later ones from being
\* deallocated.
DeallocateList(s) ==
    LET s1 == DeallocatePool(s, "small")
        s2 == DeallocatePool(s1, "medium")
        s3 == DeallocatePool(s2, "large")
    IN  IF ~AllReturned(s, "small") THEN s
        ELSE IF ~AllReturned(s1, "medium") THEN s1
        ELSE IF ~AllReturned(s2, "large") THEN s2
        ELSE s3

AllocateAll(s, newPd) ==
    AllocatePool(AllocatePool(AllocatePool(s, "small", newPd), "medium", newPd),
                 "large", newPd)

Room(s) ==
    Cardinality(Addr \ DOMAIN s.region)
        >= NumChunks["small"] + NumChunks["medium"] + NumChunks["large"]

Become(s) ==
    /\ region' = s.region
    /\ free' = s.free
    /\ block' = s.block
    /\ use_count' = s.use_count
    /\ pointer_map' = s.map

-----------------------------------------------------------------------------
\* The constructor.
Init ==
    LET empty == [region |-> [a \in {} |-> [kind |-> "pool", length |-> 0, pd |-> 1]],
                  free |-> [c \in Class |-> {}],
                  block |-> [c \in Class |-> {}],
                  use_count |-> [c \in Class |-> 0],
                  map |-> [a \in Addr |-> 0]]
        s == AllocateAll(empty, 1)
    IN  /\ region = s.region
        /\ free = s.free
        /\ block = s.block
        /\ use_count = s.use_count
        /\ pointer_map = s.map
        /\ hand = {}
        /\ temp_regions = 0
        /\ pd = 1

\* allocateRegion, and allocate, of a length that a chunk can hold: pop, which
\* waits while the free list is empty.
AllocateRegion(len) ==
    LET c == ClassOf(len)
    IN  /\ c # "none"
        /\ \E a \in free[c] :
              /\ free' = [free EXCEPT ![c] = @ \ {a}]
              /\ hand' = hand \cup {a}
        /\ use_count' = [use_count EXCEPT ![c] = @ + 1]
        /\ UNCHANGED <<region, block, temp_regions, pd, pointer_map>>

\* allocateRegion of a larger length: AllocateTemporaryBlock.  (allocate ends
\* the process instead.)
AllocateTemporary(len) ==
    /\ ClassOf(len) = "none"
    /\ MayRegister
    /\ \E a \in Fresh(Live, 1) :
          /\ region' = [x \in Live \cup {a} |->
                           IF x = a THEN [kind |-> "temp", length |-> len, pd |-> pd]
                           ELSE region[x]]
          /\ hand' = hand \cup {a}
    /\ temp_regions' = temp_regions + 1
    /\ UNCHANGED <<free, block, use_count, pd, pointer_map>>

\* A user registers a buffer of its own, of any length, to pass it on like a
\* region of the pool.
RegisterUserRegion(len) ==
    /\ MayRegister
    /\ \E a \in Fresh(Live, 1) :
          /\ region' = [x \in Live \cup {a} |->
                           IF x = a THEN [kind |-> "user", length |-> len, pd |-> pd]
                           ELSE region[x]]
          /\ hand' = hand \cup {a}
    /\ UNCHANGED <<free, block, use_count, temp_regions, pd, pointer_map>>

\* mutant: a user region is taken for a region of the pool.
OnTheFlyTempOnly(a) ==
    region[a].kind = "temp"

OnTheFly(a) ==
    region[a].kind \in {"temp", "user"}

\* deallocate of a temporary or user region deletes it.
DeallocateOnTheFly(a) ==
    /\ a \in hand
    /\ OnTheFly(a)
    /\ temp_regions' = IF region[a].kind = "temp" THEN temp_regions - 1 ELSE temp_regions
    /\ region' = [x \in Live \ {a} |-> region[x]]
    /\ hand' = hand \ {a}
    /\ UNCHANGED <<free, block, use_count, pd, pointer_map>>

\* deallocate of any other region, by pointer or by the address of its buffer:
\* push on the list its length selects.
DeallocateToPool(a) ==
    LET c == ClassOf(region[a].length)
    IN  /\ a \in hand
        /\ ~OnTheFly(a)
        /\ hand' = hand \ {a}
        /\ IF c = "none"
           THEN UNCHANGED <<free, use_count>>
           ELSE /\ free' = [free EXCEPT ![c] = @ \cup {a}]
                /\ use_count' = [use_count EXCEPT ![c] = @ - 1]
        /\ UNCHANGED <<region, block, temp_regions, pd, pointer_map>>

\* setProtectionDomain, called while no other call is in progress.  The result
\* of DeallocateList is not looked at.
SetProtectionDomain ==
    LET s == DeallocateList(State)
    IN  /\ pd < MaxPd
        /\ Room(s)
        /\ pd' = pd + 1
        /\ Become(AllocateAll(s, pd'))
        /\ UNCHANGED <<hand, temp_regions>>

Next ==
    \/ \E len \in Length : AllocateRegion(len) \/ AllocateTemporary(len)
    \/ \E len \in UserLength : RegisterUserRegion(len)
    \/ \E a \in hand : DeallocateOnTheFly(a) \/ DeallocateToPool(a)
    \/ SetProtectionDomain

Spec == Init /\ [][Next]_vars

-----------------------------------------------------------------------------
\* The types of the state: every live region has a kind, a length and a
\* protection domain that was set.
TypeOK ==
    /\ Live \subseteq Addr
    /\ \A a \in Live : /\ region[a].kind \in Kind
                       /\ region[a].length \in Nat
                       /\ region[a].pd \in 1..MaxPd
    /\ free \in [Class -> SUBSET Addr]
    /\ block \in [Class -> SUBSET Addr]
    /\ use_count \in [Class -> Int]
    /\ hand \subseteq Addr
    /\ temp_regions \in Int
    /\ pd \in 1..MaxPd
    /\ pointer_map \in [Addr -> 0..MaxPd]

\* A region of a pool always goes home: every block of a class is on that
\* class's free list or in a user's hand, never both and never on the list of
\* another class, however often the pools were deallocated and refilled; and
\* regions registered on the fly never get onto a free list, although
\* deallocate tells where a region belongs by flags and length alone.
RegionsGoHome ==
    /\ \A c, d \in Class : c # d => block[c] \cap block[d] = {}
    /\ \A c \in Class : free[c] \subseteq block[c] \ hand
    /\ \A c \in Class : block[c] \ free[c] \subseteq hand
    /\ \A a \in Live : region[a].kind = "pool" <=> \E c \in Class : a \in block[c]

\* RegionFromAddress: the region object that deallocate of an address finds.
RegionFromAddress(a) == pointer_map[a]

\* Whatever a user has in hand is alive: DeallocateList never deletes a region
\* that was not given back; and a region of a pool is the one that its buffer's
\* address leads to, although entries of deleted regions stay in the map.
NoDanglingRegion ==
    /\ hand \subseteq Live
    /\ \A a \in hand : region[a].kind = "pool" => RegionFromAddress(a) = region[a].pd
=============================================================================
