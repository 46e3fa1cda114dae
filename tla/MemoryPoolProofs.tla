--------------------------- MODULE MemoryPoolProofs ---------------------------
(***************************************************************************)
(* Proofs, for chunks of any number and increasing sizes and for any       *)
(* addresses, of the safety properties of MemoryPool.                      *)
(*                                                                         *)
(* setProtectionDomain goes through intermediate states of the pools that  *)
(* no variable holds, so the invariant (Good) is stated of a state record: *)
(* allocating a pool keeps it, and so does deallocating one whose regions  *)
(* are all returned.  It adds two facts to the properties: a block has the *)
(* length of its class, which is why a region finds its way home by length *)
(* alone, and a block on a free list too is the one its address leads to.  *)
(***************************************************************************)
EXTENDS MemoryPool, FiniteSetTheorems, TLAPS

\* The types of the pools' state.
Typed(s) ==
    /\ DOMAIN s.region \subseteq Addr
    /\ \A a \in DOMAIN s.region : /\ s.region[a].kind \in Kind
                                  /\ s.region[a].length \in Nat
                                  /\ s.region[a].pd \in 1..MaxPd
    /\ s.free \in [Class -> SUBSET Addr]
    /\ s.block \in [Class -> SUBSET Addr]
    /\ s.use_count \in [Class -> Int]
    /\ s.map \in [Addr -> 0..MaxPd]

\* Where the regions are while users hold the regions h.
Homes(s, h) ==
    /\ h \subseteq DOMAIN s.region
    /\ \A c, d \in Class : c # d => s.block[c] \cap s.block[d] = {}
    /\ \A c \in Class : /\ s.block[c] \subseteq DOMAIN s.region
                        /\ s.free[c] \subseteq s.block[c] \ h
                        /\ s.block[c] \ s.free[c] \subseteq h
    /\ \A a \in DOMAIN s.region : s.region[a].kind = "pool" <=> \E c \in Class : a \in s.block[c]
    /\ \A c \in Class : \A a \in s.block[c] :
          s.region[a].length = ChunkSize[c] /\ s.map[a] = s.region[a].pd

Good(s, h) == Typed(s) /\ Homes(s, h)

IInv == Good(State, hand) /\ temp_regions \in Int /\ pd \in 1..MaxPd

\* Addresses that are not in use.
Rest(s) == Addr \ DOMAIN s.region

-----------------------------------------------------------------------------
(* Fresh addresses *)

\* A finite set has a subset of every smaller size.
LEMMA SubsetOfSize ==
    ASSUME NEW S, IsFiniteSet(S), NEW n \in Nat, n <= Cardinality(S)
    PROVE  \E T \in SUBSET S : Cardinality(T) = n
<1>1. Cardinality(S) \in Nat /\ ExistsBijection(1..Cardinality(S), S)
    BY FS_CardinalityType
<1>2. PICK f : f \in Bijection(1..Cardinality(S), S)
    BY <1>1 DEF ExistsBijection
<1>3. /\ f \in [1..Cardinality(S) -> S]
      /\ \A i, j \in 1..Cardinality(S) : f[i] = f[j] => i = j
    BY <1>2 DEF Bijection, Injection, IsInjective
<1> DEFINE T == {f[i] : i \in 1..n}
           g == [i \in 1..n |-> f[i]]
<1>4. 1..n \subseteq 1..Cardinality(S)
    BY <1>1
<1>5. T \subseteq S
    BY <1>3, <1>4
<1>6. g \in Bijection(1..n, T)
  <2>1. g \in [1..n -> T] /\ \A i, j \in 1..n : g[i] = g[j] => i = j
      BY <1>3, <1>4
  <2>2. \A t \in T : \E i \in 1..n : g[i] = t
      OBVIOUS
  <2> QED BY <2>1, <2>2 DEF Bijection, Injection, Surjection, IsInjective
<1>7. ExistsBijection(1..n, T)
    BY <1>6 DEF ExistsBijection
<1>8. IsFiniteSet(1..n) /\ Cardinality(1..n) = n
  <2>1. 1 \in Int /\ n \in Int
      OBVIOUS
  <2>2. IsFiniteSet(1..n) /\ Cardinality(1..n) = IF 1 > n THEN 0 ELSE n - 1 + 1
      BY ONLY <2>1, FS_Interval
  <2> QED BY <2>2
<1> HIDE DEF T, g
<1>9. Cardinality(T) = n
    BY ONLY <1>7, <1>8, FS_Bijection
<1> QED BY <1>5, <1>9

\* mmap finds unused addresses as long as there are enough.
LEMMA FreshFacts ==
    ASSUME NEW used, NEW n \in Nat, n <= Cardinality(Addr \ used)
    PROVE  /\ Fresh(used, n) \subseteq Addr \ used
           /\ IsFiniteSet(Fresh(used, n)) /\ Cardinality(Fresh(used, n)) = n
<1>1. IsFiniteSet(Addr \ used)
    BY ClassAssumption, FS_Difference
<1>2. \E S \in SUBSET (Addr \ used) : Cardinality(S) = n
    BY <1>1, SubsetOfSize
<1>3. Fresh(used, n) \in SUBSET (Addr \ used) /\ Cardinality(Fresh(used, n)) = n
    BY <1>2 DEF Fresh
<1> QED BY <1>1, <1>3, FS_Subset

\* One more region can be registered when not all addresses are in use.
LEMMA FreshOne ==
    ASSUME TypeOK, MayRegister
    PROVE  Fresh(Live, 1) \subseteq Addr \ Live
<1>1. Addr \ Live # {} /\ IsFiniteSet(Addr \ Live)
    BY ClassAssumption, FS_Difference DEF TypeOK, MayRegister
<1>2. Cardinality(Addr \ Live) \in Nat /\ Cardinality(Addr \ Live) # 0
    BY <1>1, FS_EmptySet, FS_CardinalityType
<1>3. 1 <= Cardinality(Addr \ Live)
    BY <1>2
<1> QED BY <1>3, FreshFacts

-----------------------------------------------------------------------------
(* Allocating and deallocating a pool *)

\* AllocatePool puts new blocks on the free list of their class.
LEMMA AllocateGood ==
    ASSUME NEW s, NEW h, Good(s, h), NEW c \in Class, NEW p \in 1..MaxPd,
           NumChunks[c] <= Cardinality(Rest(s))
    PROVE  /\ Good(AllocatePool(s, c, p), h)
           /\ Cardinality(Rest(AllocatePool(s, c, p))) = Cardinality(Rest(s)) - NumChunks[c]
<1>1. NumChunks[c] \in Nat /\ ChunkSize[c] \in Nat /\ MaxPd \in Nat
    BY ClassAssumption
<1>2. PICK new : new = Fresh(DOMAIN s.region, NumChunks[c])
    OBVIOUS
<1>3. new \subseteq Rest(s) /\ IsFiniteSet(new) /\ Cardinality(new) = NumChunks[c]
    BY <1>1, <1>2, FreshFacts DEF Rest
<1>4. new \subseteq Addr /\ new \cap DOMAIN s.region = {}
    BY <1>3 DEF Rest
<1>5. PICK t : t = AllocatePool(s, c, p)
    OBVIOUS
<1>6. /\ DOMAIN t.region = DOMAIN s.region \cup new
      /\ \A a \in new : t.region[a] = [kind |-> "pool", length |-> ChunkSize[c], pd |-> p]
      /\ \A a \in DOMAIN s.region : t.region[a] = s.region[a]
      /\ t.free = [s.free EXCEPT ![c] = s.free[c] \cup new]
      /\ t.block = [s.block EXCEPT ![c] = s.block[c] \cup new]
      /\ t.use_count = [s.use_count EXCEPT ![c] = 0]
      /\ t.map = [a \in Addr |-> IF a \in new THEN p ELSE s.map[a]]
    BY <1>2, <1>4, <1>5 DEF AllocatePool, AllocateRegisteredBlock, PointTo
<1>type. Typed(s)
    BY DEF Good
<1>7. Typed(t)
  <2>1. DOMAIN t.region \subseteq Addr
      BY <1>4, <1>6, <1>type DEF Typed
  <2>2. \A a \in DOMAIN t.region : t.region[a].kind \in Kind /\ t.region[a].length \in Nat /\ t.region[a].pd \in 1..MaxPd
      BY <1>1, <1>6, <1>type DEF Typed, Kind
  <2>3. t.free \in [Class -> SUBSET Addr] /\ t.block \in [Class -> SUBSET Addr]
      BY <1>4, <1>6, <1>type DEF Typed
  <2>4. t.use_count \in [Class -> Int] /\ t.map \in [Addr -> 0..MaxPd]
      BY <1>1, <1>6, <1>type DEF Typed
  <2> QED BY <2>1, <2>2, <2>3, <2>4 DEF Typed
<1>8. Homes(t, h)
  <2>home. Homes(s, h)
      BY DEF Good
  <2>1. /\ t.free[c] = s.free[c] \cup new /\ t.block[c] = s.block[c] \cup new
        /\ \A d \in Class : d # c => t.free[d] = s.free[d] /\ t.block[d] = s.block[d]
      BY <1>6, <1>type DEF Typed
  <2>2. h \subseteq DOMAIN t.region
      BY <1>6, <2>home DEF Homes
  <2>3. \A d, e \in Class : d # e => t.block[d] \cap t.block[e] = {}
      BY <1>4, <2>1, <2>home DEF Homes
  <2>4. \A d \in Class : /\ t.block[d] \subseteq DOMAIN t.region
                         /\ t.free[d] \subseteq t.block[d] \ h
                         /\ t.block[d] \ t.free[d] \subseteq h
    <3> SUFFICES ASSUME NEW d \in Class
                 PROVE  /\ t.block[d] \subseteq DOMAIN t.region
                        /\ t.free[d] \subseteq t.block[d] \ h
                        /\ t.block[d] \ t.free[d] \subseteq h
        OBVIOUS
    <3>1. CASE d = c
        BY <1>4, <1>6, <2>1, <2>home, <3>1 DEF Homes
    <3>2. CASE d # c
        BY <1>6, <2>1, <2>home, <3>2 DEF Homes
    <3> QED BY <3>1, <3>2
  <2>5. ASSUME NEW a \in DOMAIN t.region
        PROVE  t.region[a].kind = "pool" <=> \E d \in Class : a \in t.block[d]
    <3>1. CASE a \in new
        BY <1>6, <2>1, <3>1
    <3>2. CASE a \notin new
      <4>1. a \in DOMAIN s.region /\ t.region[a] = s.region[a]
          BY <1>6, <3>2
      <4>2. (\E d \in Class : a \in t.block[d]) <=> \E d \in Class : a \in s.block[d]
          BY <2>1, <3>2
      <4> QED BY <4>1, <4>2, <2>home DEF Homes
    <3> QED BY <3>1, <3>2
  <2>6. ASSUME NEW d \in Class, NEW a \in t.block[d]
        PROVE  t.region[a].length = ChunkSize[d] /\ t.map[a] = t.region[a].pd
    <3>1. CASE a \in new
      <4>1. d = c
          BY <1>4, <2>1, <2>home, <3>1 DEF Homes
      <4> QED BY <1>4, <1>6, <3>1, <4>1
    <3>2. CASE a \notin new
      <4>1. a \in s.block[d]
          BY <2>1, <3>2
      <4>2. a \in DOMAIN s.region /\ a \in Addr
          BY <1>type, <2>home, <4>1 DEF Homes, Typed
      <4>3. t.region[a] = s.region[a] /\ t.map[a] = s.map[a]
          BY <1>6, <3>2, <4>2
      <4> QED BY <2>home, <4>1, <4>3 DEF Homes
    <3> QED BY <3>1, <3>2
  <2> QED BY <2>2, <2>3, <2>4, <2>5, <2>6 DEF Homes
<1>9. Cardinality(Rest(t)) = Cardinality(Rest(s)) - NumChunks[c]
  <2>1. Rest(t) = Rest(s) \ new
      BY <1>6 DEF Rest
  <2>2. IsFiniteSet(Rest(s))
      BY ClassAssumption, FS_Difference DEF Rest
  <2>3. Cardinality(Rest(s) \ new) = Cardinality(Rest(s)) - Cardinality(Rest(s) \cap new)
      BY ONLY <2>2, FS_Difference
  <2>4. Rest(s) \cap new = new
      BY <1>3
  <2> QED BY ONLY <1>3, <2>1, <2>3, <2>4
<1> QED BY <1>5, <1>7, <1>8, <1>9 DEF Good

\* DeallocatePool deletes the blocks of a class of which no user has one.
LEMMA DeallocateGood ==
    ASSUME NEW s, NEW h, Good(s, h), NEW c \in Class, AllReturned(s, c)
    PROVE  Good(DeallocatePool(s, c), h)
<1>type. Typed(s) /\ Homes(s, h)
    BY DEF Good
<1>1. s.free[c] \subseteq s.block[c] /\ s.block[c] \subseteq Addr /\ s.free[c] \subseteq Addr
    BY <1>type DEF Typed, Homes
<1>2. IsFiniteSet(s.block[c]) /\ IsFiniteSet(s.free[c])
    BY <1>1, ClassAssumption, FS_Subset
<1>3. s.free[c] = s.block[c]
    BY <1>1, <1>2, FS_Subset DEF AllReturned
<1>4. s.block[c] \cap h = {}
    BY <1>3, <1>type DEF Homes
<1>5. PICK t : t = DeallocatePool(s, c)
    OBVIOUS
<1>6. /\ DOMAIN t.region = DOMAIN s.region \ s.block[c]
      /\ \A a \in DOMAIN t.region : t.region[a] = s.region[a]
      /\ t.free = [s.free EXCEPT ![c] = {}]
      /\ t.block = [s.block EXCEPT ![c] = {}]
      /\ t.use_count = [s.use_count EXCEPT ![c] = s.use_count[c] + Cardinality(s.free[c])]
      /\ t.map = s.map
    BY <1>5 DEF DeallocatePool
<1>7. Typed(t)
  <2>1. s.use_count[c] + Cardinality(s.free[c]) \in Int
      BY <1>2, <1>type, FS_CardinalityType DEF Typed
  <2>2. t.use_count \in [Class -> Int]
      BY <1>6, <1>type, <2>1 DEF Typed
  <2>3. /\ DOMAIN t.region \subseteq Addr
        /\ \A a \in DOMAIN t.region : t.region[a].kind \in Kind /\ t.region[a].length \in Nat /\ t.region[a].pd \in 1..MaxPd
      BY <1>6, <1>type DEF Typed
  <2>4. /\ t.free \in [Class -> SUBSET Addr] /\ t.block \in [Class -> SUBSET Addr]
        /\ t.map \in [Addr -> 0..MaxPd]
      BY <1>6, <1>type DEF Typed
  <2> QED BY <2>2, <2>3, <2>4 DEF Typed
<1>8. Homes(t, h)
  <2>1. /\ t.free[c] = {} /\ t.block[c] = {}
        /\ \A d \in Class : d # c => t.free[d] = s.free[d] /\ t.block[d] = s.block[d]
      BY <1>6, <1>type DEF Typed
  <2>2. h \subseteq DOMAIN t.region
      BY <1>4, <1>6, <1>type DEF Homes
  <2>3. \A d, e \in Class : d # e => t.block[d] \cap t.block[e] = {}
      BY <2>1, <1>type DEF Homes
  <2>4. \A d \in Class : /\ t.block[d] \subseteq DOMAIN t.region
                         /\ t.free[d] \subseteq t.block[d] \ h
                         /\ t.block[d] \ t.free[d] \subseteq h
    <3> SUFFICES ASSUME NEW d \in Class
                 PROVE  /\ t.block[d] \subseteq DOMAIN t.region
                        /\ t.free[d] \subseteq t.block[d] \ h
                        /\ t.block[d] \ t.free[d] \subseteq h
        OBVIOUS
    <3>1. CASE d = c
        BY <2>1, <3>1
    <3>2. CASE d # c
        BY <1>6, <1>type, <2>1, <3>2 DEF Homes
    <3> QED BY <3>1, <3>2
  <2>5. ASSUME NEW a \in DOMAIN t.region
        PROVE  t.region[a].kind = "pool" <=> \E d \in Class : a \in t.block[d]
    <3>1. a \in DOMAIN s.region /\ t.region[a] = s.region[a] /\ a \notin s.block[c]
        BY <1>6
    <3>2. (\E d \in Class : a \in t.block[d]) <=> \E d \in Class : a \in s.block[d]
        BY <2>1, <3>1
    <3> QED BY <1>type, <3>1, <3>2 DEF Homes
  <2>6. ASSUME NEW d \in Class, NEW a \in t.block[d]
        PROVE  t.region[a].length = ChunkSize[d] /\ t.map[a] = t.region[a].pd
    <3>1. d # c /\ a \in s.block[d]
        BY <2>1
    <3>2. a \in DOMAIN t.region
        BY <2>4
    <3> QED BY <1>6, <1>type, <3>1, <3>2 DEF Homes
  <2> QED BY <2>2, <2>3, <2>4, <2>5, <2>6 DEF Homes
<1> QED BY <1>5, <1>7, <1>8 DEF Good

\* The three pools of the constructor or of setProtectionDomain.
LEMMA AllocateAllGood ==
    ASSUME NEW s, NEW h, Good(s, h), NEW p \in 1..MaxPd, Room(s)
    PROVE  Good(AllocateAll(s, p), h)
<1>1. /\ "small" \in Class /\ "medium" \in Class /\ "large" \in Class
      /\ NumChunks["small"] \in Nat /\ NumChunks["medium"] \in Nat /\ NumChunks["large"] \in Nat
    BY ClassAssumption DEF Class
<1>2. Cardinality(Rest(s)) >= NumChunks["small"] + NumChunks["medium"] + NumChunks["large"]
    BY DEF Room, Rest
<1>3. Cardinality(Rest(s)) \in Nat
    BY ClassAssumption, FS_Difference, FS_CardinalityType DEF Rest
<1>4. PICK s1 : s1 = AllocatePool(s, "small", p)
    OBVIOUS
<1>5. NumChunks["small"] <= Cardinality(Rest(s))
    BY <1>1, <1>2, <1>3
<1>6. Good(s1, h) /\ Cardinality(Rest(s1)) = Cardinality(Rest(s)) - NumChunks["small"]
    BY <1>1, <1>4, <1>5, AllocateGood
<1>7. PICK s2 : s2 = AllocatePool(s1, "medium", p)
    OBVIOUS
<1>8. NumChunks["medium"] <= Cardinality(Rest(s1))
    BY <1>1, <1>2, <1>3, <1>6
<1>9. Good(s2, h) /\ Cardinality(Rest(s2)) = Cardinality(Rest(s1)) - NumChunks["medium"]
    BY <1>1, <1>6, <1>7, <1>8, AllocateGood
<1>10. NumChunks["large"] <= Cardinality(Rest(s2))
    BY <1>1, <1>2, <1>3, <1>6, <1>9
<1>11. Good(AllocatePool(s2, "large", p), h)
    BY <1>1, <1>9, <1>10, AllocateGood
<1> QED BY <1>4, <1>7, <1>11 DEF AllocateAll

\* DeallocateList stops at the first pool that has a region in a user's hand.
LEMMA DeallocateListGood ==
    ASSUME NEW s, NEW h, Good(s, h)
    PROVE  Good(DeallocateList(s), h)
<1>1. "small" \in Class /\ "medium" \in Class /\ "large" \in Class
    BY DEF Class
<1>2. PICK s1 : s1 = DeallocatePool(s, "small")
    OBVIOUS
<1>3. PICK s2 : s2 = DeallocatePool(s1, "medium")
    OBVIOUS
<1>4. PICK s3 : s3 = DeallocatePool(s2, "large")
    OBVIOUS
<1>5. AllReturned(s, "small") => Good(s1, h)
    BY <1>1, <1>2, DeallocateGood
<1>6. Good(s1, h) /\ AllReturned(s1, "medium") => Good(s2, h)
    BY <1>1, <1>3, DeallocateGood
<1>7. Good(s2, h) /\ AllReturned(s2, "large") => Good(s3, h)
    BY <1>1, <1>4, DeallocateGood
<1>8. DeallocateList(s) = IF ~AllReturned(s, "small") THEN s
                          ELSE IF ~AllReturned(s1, "medium") THEN s1
                          ELSE IF ~AllReturned(s2, "large") THEN s2
                          ELSE s3
    BY <1>2, <1>3, <1>4 DEF DeallocateList
<1> QED BY <1>5, <1>6, <1>7, <1>8

-----------------------------------------------------------------------------
(* The steps *)

\* The invariant in terms of the variables.
LEMMA GoodState ==
    Good(State, hand) <=>
        /\ Live \subseteq Addr
        /\ \A a \in Live : /\ region[a].kind \in Kind
                           /\ region[a].length \in Nat
                           /\ region[a].pd \in 1..MaxPd
        /\ free \in [Class -> SUBSET Addr]
        /\ block \in [Class -> SUBSET Addr]
        /\ use_count \in [Class -> Int]
        /\ pointer_map \in [Addr -> 0..MaxPd]
        /\ hand \subseteq Live
        /\ \A c, d \in Class : c # d => block[c] \cap block[d] = {}
        /\ \A c \in Class : /\ block[c] \subseteq Live
                            /\ free[c] \subseteq block[c] \ hand
                            /\ block[c] \ free[c] \subseteq hand
        /\ \A a \in Live : region[a].kind = "pool" <=> \E c \in Class : a \in block[c]
        /\ \A c \in Class : \A a \in block[c] :
              region[a].length = ChunkSize[c] /\ pointer_map[a] = region[a].pd
<1>1. /\ State.region = region /\ State.free = free /\ State.block = block
      /\ State.use_count = use_count /\ State.map = pointer_map
    BY DEF State
<1> QED BY <1>1 DEF Good, Typed, Homes, Live

\* A length is served by the class whose chunks have that length.
LEMMA ClassOfChunk ==
    /\ \A c \in Class : ClassOf(ChunkSize[c]) = c
    /\ \A len : ClassOf(len) \in Class \cup {"none"}
<1>1. /\ ChunkSize["small"] \in Nat /\ ChunkSize["medium"] \in Nat /\ ChunkSize["large"] \in Nat
      /\ ChunkSize["small"] < ChunkSize["medium"] /\ ChunkSize["medium"] < ChunkSize["large"]
    BY ClassAssumption DEF Class
<1> QED BY <1>1 DEF ClassOf, Class

\* The constructor fills the pools.
LEMMA InitInv == Init => IInv
<1> SUFFICES ASSUME Init PROVE IInv
    OBVIOUS
<1> DEFINE empty == [region |-> [a \in {} |-> [kind |-> "pool", length |-> 0, pd |-> 1]],
                     free |-> [c \in Class |-> {}],
                     block |-> [c \in Class |-> {}],
                     use_count |-> [c \in Class |-> 0],
                     map |-> [a \in Addr |-> 0]]
<1>1. Good(empty, {})
    BY ClassAssumption DEF Good, Typed, Homes
<1>2. Room(empty)
  <2>1. Addr \ DOMAIN empty.region = Addr
      OBVIOUS
  <2> QED BY <2>1, ClassAssumption DEF Room
<1>3. 1 \in 1..MaxPd
    BY ClassAssumption
<1> HIDE DEF empty
<1>4. Good(AllocateAll(empty, 1), {})
    BY <1>1, <1>2, <1>3, AllocateAllGood
<1>5. PICK s : s = AllocateAll(empty, 1)
    OBVIOUS
<1>6. /\ State.region = s.region /\ State.free = s.free /\ State.block = s.block
      /\ State.use_count = s.use_count /\ State.map = s.map /\ hand = {}
    BY <1>5 DEF Init, State, empty
<1>7. Good(State, hand)
    BY <1>4, <1>5, <1>6 DEF Good, Typed, Homes
<1> QED BY <1>3, <1>7 DEF Init, IInv

\* Every step keeps the regions where they belong.
LEMMA NextInv == IInv /\ [Next]_vars => IInv'
<1> SUFFICES ASSUME IInv, [Next]_vars PROVE IInv'
    OBVIOUS
<1>good. Good(State, hand) /\ temp_regions \in Int /\ pd \in 1..MaxPd
    BY DEF IInv
<1>type. TypeOK
    BY <1>good, GoodState DEF TypeOK
<1>goal. ASSUME /\ Live' \subseteq Addr
                /\ \A a \in Live' : /\ region'[a].kind \in Kind
                                    /\ region'[a].length \in Nat
                                    /\ region'[a].pd \in 1..MaxPd
                /\ free' \in [Class -> SUBSET Addr]
                /\ block' \in [Class -> SUBSET Addr]
                /\ use_count' \in [Class -> Int]
                /\ pointer_map' \in [Addr -> 0..MaxPd]
                /\ hand' \subseteq Live'
                /\ \A c, d \in Class : c # d => block'[c] \cap block'[d] = {}
                /\ \A c \in Class : /\ block'[c] \subseteq Live'
                                    /\ free'[c] \subseteq block'[c] \ hand'
                                    /\ block'[c] \ free'[c] \subseteq hand'
                /\ \A a \in Live' : region'[a].kind = "pool" <=> \E c \in Class : a \in block'[c]
                /\ \A c \in Class : \A a \in block'[c] :
                      region'[a].length = ChunkSize[c] /\ pointer_map'[a] = region'[a].pd
         PROVE  Good(State, hand)'
  <2>1. /\ State'.region = region' /\ State'.free = free' /\ State'.block = block'
        /\ State'.use_count = use_count' /\ State'.map = pointer_map'
      BY DEF State
  <2> QED BY <1>goal, <2>1 DEF Good, Typed, Homes, Live
<1>1. ASSUME NEW len \in Length, AllocateRegion(len) PROVE IInv'
  <2>1. PICK c \in Class : c = ClassOf(len)
      BY <1>1, ClassOfChunk DEF AllocateRegion
  <2>2. PICK a \in free[c] : free' = [free EXCEPT ![c] = free[c] \ {a}] /\ hand' = hand \cup {a}
      BY <1>1, <2>1 DEF AllocateRegion
  <2>3. /\ use_count' = [use_count EXCEPT ![c] = use_count[c] + 1]
        /\ UNCHANGED <<region, block, temp_regions, pd, pointer_map>>
      BY <1>1, <2>1 DEF AllocateRegion
  <2>4. use_count' \in [Class -> Int]
      BY <1>type, <2>3 DEF TypeOK
  <2>5. /\ free' \in [Class -> SUBSET Addr] /\ free'[c] = free[c] \ {a}
        /\ \A d \in Class : d # c => free'[d] = free[d]
      BY <1>type, <2>2 DEF TypeOK
  <2>6. a \in block[c] /\ a \in Live /\ \A d \in Class : d # c => a \notin block[d]
      BY <1>good, GoodState
  <2>7. \A d \in Class : free'[d] \subseteq block[d] \ hand' /\ block[d] \ free'[d] \subseteq hand'
    <3> SUFFICES ASSUME NEW d \in Class
                 PROVE  free'[d] \subseteq block[d] \ hand' /\ block[d] \ free'[d] \subseteq hand'
        OBVIOUS
    <3>1. free[d] \subseteq block[d] \ hand /\ block[d] \ free[d] \subseteq hand
        BY <1>good, GoodState
    <3> QED BY <2>2, <2>5, <2>6, <3>1
  <2>8. Live' = Live /\ hand' \subseteq Live
      BY <1>good, <2>2, <2>3, <2>6, GoodState DEF Live
  <2>9. Good(State, hand)'
      BY <1>good, <1>goal, <2>3, <2>4, <2>5, <2>7, <2>8, GoodState
  <2> QED BY <1>good, <2>3, <2>9 DEF IInv
<1>new. ASSUME NEW a \in Addr \ Live, NEW kd \in {"temp", "user"}, NEW len \in Nat,
               region' = [x \in Live \cup {a} |->
                             IF x = a THEN [kind |-> kd, length |-> len, pd |-> pd] ELSE region[x]],
               hand' = hand \cup {a}, UNCHANGED <<free, block, use_count, pd, pointer_map>>,
               temp_regions' \in Int
        PROVE  IInv'
  <2>1. /\ Live' = Live \cup {a} /\ \A x \in Live : region'[x] = region[x]
        /\ region'[a] = [kind |-> kd, length |-> len, pd |-> pd]
      BY <1>new DEF Live
  <2>2. \A c \in Class : a \notin block[c]
      BY <1>good, GoodState
  <2>3. \A x \in Live' : /\ region'[x].kind \in Kind /\ region'[x].length \in Nat
                         /\ region'[x].pd \in 1..MaxPd
      BY <1>good, <2>1, GoodState DEF Kind
  <2>4. \A x \in Live' : region'[x].kind = "pool" <=> \E c \in Class : x \in block[c]
      BY <1>good, <2>1, <2>2, GoodState
  <2>5. \A c \in Class : \A x \in block[c] :
              region'[x].length = ChunkSize[c] /\ pointer_map[x] = region'[x].pd
      BY <1>good, <2>1, GoodState
  <2>6. \A c \in Class : /\ block[c] \subseteq Live'
                         /\ free[c] \subseteq block[c] \ hand'
                         /\ block[c] \ free[c] \subseteq hand'
      BY <1>good, <1>new, <2>1, <2>2, GoodState
  <2>7. Good(State, hand)'
    <3>1. UNCHANGED <<free, block, use_count, pointer_map>>
        BY <1>new
    <3>2. hand' \subseteq Live' /\ Live' \subseteq Addr
        BY <1>good, <1>new, <2>1, GoodState
    <3>3. /\ free \in [Class -> SUBSET Addr] /\ block \in [Class -> SUBSET Addr]
          /\ use_count \in [Class -> Int] /\ pointer_map \in [Addr -> 0..MaxPd]
          /\ \A c, d \in Class : c # d => block[c] \cap block[d] = {}
        BY <1>good, GoodState
    <3> QED BY <1>goal, <2>3, <2>4, <2>5, <2>6, <3>1, <3>2, <3>3
  <2> QED BY <1>good, <1>new, <2>7 DEF IInv
<1>2. ASSUME NEW len \in Length, AllocateTemporary(len) PROVE IInv'
  <2>1. Fresh(Live, 1) \subseteq Addr \ Live /\ len \in Nat /\ temp_regions' \in Int
      BY <1>2, <1>type, FreshOne, ClassAssumption DEF AllocateTemporary, TypeOK
  <2> QED BY <1>2, <1>new, <2>1 DEF AllocateTemporary
<1>3. ASSUME NEW len \in UserLength, RegisterUserRegion(len) PROVE IInv'
  <2>1. Fresh(Live, 1) \subseteq Addr \ Live /\ len \in Nat /\ temp_regions' \in Int
      BY <1>3, <1>type, FreshOne, ClassAssumption DEF RegisterUserRegion, TypeOK
  <2> QED BY <1>3, <1>new, <2>1 DEF RegisterUserRegion
<1>4. ASSUME NEW a \in hand, DeallocateOnTheFly(a) PROVE IInv'
  <2>1. /\ region[a].kind # "pool" /\ region' = [x \in Live \ {a} |-> region[x]]
        /\ hand' = hand \ {a} /\ UNCHANGED <<free, block, use_count, pd, pointer_map>>
      BY <1>4 DEF DeallocateOnTheFly, OnTheFly
  <2>2. a \in Live /\ \A c \in Class : a \notin block[c]
      BY <1>good, <2>1, GoodState
  <2>3. Live' = Live \ {a} /\ \A x \in Live' : region'[x] = region[x]
      BY <2>1 DEF Live
  <2>4. \A c \in Class : /\ block[c] \subseteq Live'
                         /\ free[c] \subseteq block[c] \ hand'
                         /\ block[c] \ free[c] \subseteq hand'
      BY <1>good, <2>1, <2>2, <2>3, GoodState
  <2>5. /\ \A x \in Live' : /\ region'[x].kind \in Kind /\ region'[x].length \in Nat
                            /\ region'[x].pd \in 1..MaxPd
        /\ \A x \in Live' : region'[x].kind = "pool" <=> \E c \in Class : x \in block[c]
        /\ \A c \in Class : \A x \in block[c] :
              region'[x].length = ChunkSize[c] /\ pointer_map[x] = region'[x].pd
      BY <1>good, <2>3, <2>4, GoodState
  <2>6. Good(State, hand)'
      BY <1>good, <1>goal, <2>1, <2>3, <2>4, <2>5, GoodState
  <2>7. temp_regions' \in Int
      BY <1>4, <1>good DEF DeallocateOnTheFly
  <2> QED BY <1>good, <2>1, <2>6, <2>7 DEF IInv
<1>5. ASSUME NEW a \in hand, DeallocateToPool(a) PROVE IInv'
  <2>1. a \in Live /\ region[a].kind = "pool"
      BY <1>5, <1>good, GoodState DEF DeallocateToPool, OnTheFly, Kind
  <2>2. PICK c \in Class : a \in block[c] /\ region[a].length = ChunkSize[c]
      BY <1>good, <2>1, GoodState
  <2>3. ClassOf(region[a].length) = c /\ c # "none"
      BY <2>2, ClassOfChunk DEF Class
  <2>4. /\ hand' = hand \ {a} /\ free' = [free EXCEPT ![c] = free[c] \cup {a}]
        /\ use_count' = [use_count EXCEPT ![c] = use_count[c] - 1]
        /\ UNCHANGED <<region, block, temp_regions, pd, pointer_map>>
      BY <1>5, <2>3 DEF DeallocateToPool
  <2>5. use_count' \in [Class -> Int]
      BY <1>type, <2>4 DEF TypeOK
  <2>6. /\ free' \in [Class -> SUBSET Addr] /\ free'[c] = free[c] \cup {a}
        /\ \A d \in Class : d # c => free'[d] = free[d]
      BY <1>type, <2>4 DEF TypeOK
  <2>7. \A d \in Class : d # c => a \notin block[d]
      BY <1>good, <2>2, GoodState
  <2>8. \A d \in Class : free'[d] \subseteq block[d] \ hand' /\ block[d] \ free'[d] \subseteq hand'
    <3> SUFFICES ASSUME NEW d \in Class
                 PROVE  free'[d] \subseteq block[d] \ hand' /\ block[d] \ free'[d] \subseteq hand'
        OBVIOUS
    <3>1. free[d] \subseteq block[d] \ hand /\ block[d] \ free[d] \subseteq hand
        BY <1>good, GoodState
    <3> QED BY <2>2, <2>4, <2>6, <2>7, <3>1
  <2>9. Live' = Live /\ hand' \subseteq Live
      BY <1>good, <2>4, GoodState DEF Live
  <2>10. Good(State, hand)'
      BY <1>good, <1>goal, <2>4, <2>5, <2>6, <2>8, <2>9, GoodState
  <2> QED BY <1>good, <2>4, <2>10 DEF IInv
<1>6. CASE SetProtectionDomain
  <2>1. PICK s : s = DeallocateList(State)
      OBVIOUS
  <2>2. Good(s, hand)
      BY <1>good, <2>1, DeallocateListGood
  <2>3. Room(s) /\ pd' = pd + 1 /\ pd < MaxPd /\ Become(AllocateAll(s, pd')) /\ UNCHANGED <<hand, temp_regions>>
      BY <1>6, <2>1 DEF SetProtectionDomain
  <2>4. PICK p \in 1..MaxPd : p = pd'
      BY <1>good, <2>3, ClassAssumption
  <2>5. PICK t : t = AllocateAll(s, p)
      OBVIOUS
  <2>6. Good(t, hand)
      BY <2>2, <2>3, <2>4, <2>5, AllocateAllGood
  <2>7. /\ region' = t.region /\ free' = t.free /\ block' = t.block
        /\ use_count' = t.use_count /\ pointer_map' = t.map
      BY <2>3, <2>4, <2>5 DEF Become
  <2>8. Good(State, hand)'
      BY <2>3, <2>6, <2>7 DEF Good, Typed, Homes, State
  <2> QED BY <1>good, <2>3, <2>4, <2>8 DEF IInv
<1>7. CASE UNCHANGED vars
    BY <1>7, <1>good, GoodState DEF vars, IInv, State
<1> QED BY <1>1, <1>2, <1>3, <1>4, <1>5, <1>6, <1>7 DEF Next

-----------------------------------------------------------------------------
(* The theorems *)

\* The inductive invariant holds in every state, for chunks of any sizes and
\* numbers.
THEOREM Invariance == Spec => []IInv
BY InitInv, NextInv, PTL DEF Spec

\* Every live region has a kind, a length and a protection domain that was set.
THEOREM TypeCorrect == Spec => []TypeOK
<1>1. IInv => TypeOK
    BY GoodState DEF IInv, TypeOK
<1> QED BY Invariance, <1>1, PTL

\* A region goes back to the list of its class however often setProtectionDomain
\* emptied and refilled the pools, and deallocate never puts a temporary or user
\* region on a list.
THEOREM HomeCorrect == Spec => []RegionsGoHome
<1>1. IInv => RegionsGoHome
    BY GoodState DEF IInv, RegionsGoHome
<1> QED BY Invariance, <1>1, PTL

\* DeallocateList deletes no region that a user holds, and the address of a
\* region of a pool leads to that region although pointer_map_ is never cleaned.
THEOREM DanglingCorrect == Spec => []NoDanglingRegion
<1>1. IInv => NoDanglingRegion
    BY GoodState DEF IInv, NoDanglingRegion, RegionFromAddress
<1> QED BY Invariance, <1>1, PTL
=============================================================================
