------------------------ MODULE PoolContainerProofs ------------------------
(***************************************************************************)
(* Proofs, for any number of threads, regions and chunks, of the safety    *)
(* properties of PoolContainer.                                            *)
(*                                                                         *)
(* None of them is inductive.  That DeallocatePool takes no region from    *)
(* under a user depends on who can be inside push or pop while it runs:    *)
(* RaceInv says that, as long as no overlap has been noted, every region   *)
(* was at home when the sizes were compared and no user has got one since. *)
(* IInv adds where the owner can be (OwnerInv), what the mutex protects    *)
(* (MutexInv), that a list without duplicates is as long as the set it     *)
(* holds (LenInv), and the count while a critical section is half done     *)
(* (CountInv).                                                             *)
(***************************************************************************)
EXTENDS PoolContainer, FiniteSetTheorems, TLAPS

Critical == {"push_count", "pop_count"}

\* The thread between the two halves of a critical section has the mutex.
MutexInv == \A p \in Proc : pc[p] \in Critical <=> mutex = p

\* A call that carries a region has one.
CarryInv == \A p \in Proc : pc[p] \in {"push", "pop_count"} => reg[p] \in Region

\* The owner pushes only while it allocates and pops only while it drains; an
\* overlap is noted only while it releases.
OwnerInv ==
    /\ stage \in {"open", "count", "clear"} => pc[Owner] = "idle"
    /\ stage = "allocate" => pc[Owner] \in {"idle", "push", "push_count", "notify"}
    /\ stage = "drain" => pc[Owner] \in {"idle", "pop", "wait", "pop_count"}
    /\ harm = "raced" => stage \in Releasing

\* As long as no user has disturbed DeallocatePool, none has a region or is
\* changing the list, and the list is empty once the owner has found it so.
RaceInv ==
    stage \in Releasing /\ harm = "none" =>
        /\ InHand = {}
        /\ mutex \in {None, Owner}
        /\ stage = "clear" => free_list = <<>>

LenInv == harm # "broken" => Cardinality(Range(free_list)) = Len(free_list)

\* Pending, as the mutex tells it.
Due ==
    IF mutex = None THEN 0 ELSE IF pc[mutex] = "push_count" THEN 1 ELSE -1

CountInv ==
    stage # "allocate" =>
        region_use_count = Cardinality(block_list) - Len(free_list) + Due - atReset

IInv ==
    /\ TypeOK /\ CarryInv /\ MutexInv /\ OwnerInv
    /\ NoDoubleGrant /\ LenInv /\ RaceInv /\ CountInv

-----------------------------------------------------------------------------
(* Sequences without duplicates *)

NoDup(s) == \A i, j \in 1..Len(s) : s[i] = s[j] => i = j

\* push_back adds one element to what the list holds.
LEMMA AppendRange ==
    ASSUME NEW S, NEW s \in Seq(S), NEW e \in S
    PROVE  /\ Append(s, e) \in Seq(S)
           /\ Len(Append(s, e)) = Len(s) + 1
           /\ Range(Append(s, e)) = Range(s) \cup {e}
           /\ NoDup(s) /\ e \notin Range(s) => NoDup(Append(s, e))
<1>1. /\ Append(s, e) \in Seq(S)
      /\ Len(Append(s, e)) = Len(s) + 1
      /\ \A i \in 1..Len(s) : Append(s, e)[i] = s[i]
      /\ Append(s, e)[Len(s) + 1] = e
      /\ Len(s) \in Nat
      /\ DOMAIN s = 1..Len(s)
      /\ DOMAIN Append(s, e) = 1..(Len(s) + 1)
    OBVIOUS
<1>2. Range(Append(s, e)) = Range(s) \cup {e}
    BY <1>1 DEF Range
<1>3. NoDup(s) /\ e \notin Range(s) => NoDup(Append(s, e))
    BY <1>1 DEF Range, NoDup
<1> QED BY <1>1, <1>2, <1>3

\* pop_back makes the list shorter by one.
LEMMA FrontLen ==
    ASSUME NEW S, NEW s \in Seq(S), s # <<>>
    PROVE  Len(SubSeq(s, 1, Len(s) - 1)) = Len(s) - 1
<1>1. /\ Len(s) \in Nat \ {0}
      /\ DOMAIN s = 1..Len(s)
      /\ \A i \in 1..Len(s) : s[i] \in S
    OBVIOUS
<1> QED BY <1>1

\* pop_back takes one element away from what a list without duplicates holds.
LEMMA FrontRange ==
    ASSUME NEW S, NEW s \in Seq(S), s # <<>>, NoDup(s)
    PROVE  LET f == SubSeq(s, 1, Len(s) - 1)
               e == s[Len(s)]
           IN  /\ f \in Seq(S)
               /\ Len(f) = Len(s) - 1
               /\ e \in S
               /\ e \in Range(s)
               /\ Range(f) = Range(s) \ {e}
               /\ NoDup(f)
<1> DEFINE f == SubSeq(s, 1, Len(s) - 1)
           e == s[Len(s)]
<1>1. /\ Len(s) \in Nat \ {0}
      /\ DOMAIN s = 1..Len(s)
      /\ \A i \in 1..Len(s) : s[i] \in S
    OBVIOUS
<1>2. /\ f \in Seq(S)
      /\ Len(f) = Len(s) - 1
      /\ \A i \in 1..(Len(s) - 1) : f[i] = s[i]
      /\ DOMAIN f = 1..(Len(s) - 1)
    BY <1>1
<1>3. e \in S /\ e \in Range(s)
    BY <1>1 DEF Range
<1> HIDE DEF f
<1>4. Range(f) = Range(s) \ {e}
  <2>1. ASSUME NEW x \in Range(f) PROVE x \in Range(s) \ {e}
    <3>1. PICK i \in 1..(Len(s) - 1) : x = s[i]
        BY <1>2 DEF Range
    <3>2. \A n \in Nat \ {0} : \A k \in 1..(n - 1) : k \in 1..n /\ n \in 1..n /\ k # n
        OBVIOUS
    <3>3. i \in 1..Len(s) /\ Len(s) \in 1..Len(s) /\ i # Len(s)
        BY <1>1, <3>1, <3>2
    <3> QED BY <1>1, <3>1, <3>3 DEF Range, NoDup
  <2>2. ASSUME NEW x \in Range(s) \ {e} PROVE x \in Range(f)
    <3>1. PICK i \in 1..Len(s) : x = s[i]
        BY <1>1 DEF Range
    <3>2. i \in 1..(Len(s) - 1)
        BY <1>1, <3>1
    <3> QED BY <1>2, <3>1, <3>2 DEF Range
  <2> QED BY <2>1, <2>2
<1>5. NoDup(f)
    BY <1>1, <1>2 DEF NoDup
<1> QED BY <1>2, <1>3, <1>4, <1>5 DEF f

-----------------------------------------------------------------------------
(* Types *)

\* Every step of pool_container leaves its fields well typed, and a call that
\* carries a region keeps it until it is on the free list or returned.
LEMMA TypeStep == TypeOK /\ CarryInv /\ [Next]_vars => TypeOK' /\ CarryInv'
<1> SUFFICES ASSUME TypeOK, CarryInv, [Next]_vars
             PROVE  TypeOK' /\ CarryInv'
    OBVIOUS
<1> USE ThreadAssumption, RegionAssumption, ChunksAssumption
    DEF TypeOK, CarryInv, Proc, PC, Stage, Releasing, Harm, fields, users, owner, history
<1>1. ASSUME NEW t \in Thread, NEW r \in Region, CallPush(t, r)
      PROVE  TypeOK' /\ CarryInv'
    BY <1>1 DEF CallPush
<1>2. ASSUME NEW t \in Thread, CallPop(t) PROVE TypeOK' /\ CarryInv'
    BY <1>2 DEF CallPop
<1>3. ASSUME NEW p \in Proc, SpuriousWake(p) PROVE TypeOK' /\ CarryInv'
    BY <1>3 DEF SpuriousWake
<1>4. ASSUME NEW p \in Proc, PushLock(p) PROVE TypeOK' /\ CarryInv'
    BY <1>4 DEF PushLock
<1>5. ASSUME NEW p \in Proc, PushCount(p) PROVE TypeOK' /\ CarryInv'
    BY <1>5 DEF PushCount
<1>6. ASSUME NEW p \in Proc, PushNotify(p) PROVE TypeOK' /\ CarryInv'
    BY <1>6 DEF PushNotify, Waiters
<1>7. ASSUME NEW p \in Proc, PopWait(p) PROVE TypeOK' /\ CarryInv'
    BY <1>7 DEF PopWait
<1>8. ASSUME NEW p \in Proc, PopTake(p) PROVE TypeOK' /\ CarryInv'
  <2>1. /\ Len(free_list) \in 1..Len(free_list)
        /\ free_list[Len(free_list)] \in Region
        /\ SubSeq(free_list, 1, Len(free_list) - 1) \in Seq(Region)
      BY <1>8 DEF PopTake
  <2>2. free_list' \in Seq(Region) /\ reg' \in [Proc -> Region \cup {None}]
      BY <1>8, <2>1 DEF PopTake
  <2>3. harm' \in Harm
      BY <1>8 DEF PopTake
  <2> QED BY <1>8, <2>1, <2>2, <2>3 DEF PopTake
<1>9. ASSUME NEW p \in Proc, PopCount(p) PROVE TypeOK' /\ CarryInv'
    BY <1>9 DEF PopCount
<1>10. ASSUME NEW r \in Region, AllocateChunk(r) PROVE TypeOK' /\ CarryInv'
    BY <1>10 DEF AllocateChunk
<1>11. CASE AllocateDone
  <2>1. IsFiniteSet(Proc) /\ IsFiniteSet(block_list)
      BY FS_AddElement, FS_Subset
  <2>2. /\ Cardinality(block_list) \in Nat
        /\ Cardinality({p \in Proc : pc[p] = "push_count"}) \in Nat
        /\ Cardinality({p \in Proc : pc[p] = "pop_count"}) \in Nat
        /\ Len(free_list) \in Nat
    <3>1. /\ IsFiniteSet({p \in Proc : pc[p] = "push_count"})
          /\ IsFiniteSet({p \in Proc : pc[p] = "pop_count"})
        BY <2>1, FS_Subset
    <3> QED BY <2>1, <3>1, FS_CardinalityType
  <2>3. Pending \in Int
      BY <2>2 DEF Pending
  <2>4. atReset' \in Int
      BY <1>11, <2>2, <2>3 DEF AllocateDone
  <2> QED BY <1>11, <2>4 DEF AllocateDone
<1>12. CASE PassedOver
    BY <1>12 DEF PassedOver, Goto
<1>13. CASE RefuseSize
    BY <1>13 DEF RefuseSize, Goto
<1>14. CASE PassSize
    BY <1>14 DEF PassSize, Goto
<1>15. CASE TestCount
    BY <1>15 DEF TestCount, Goto, Forgive
<1>16. CASE DrainPop
    BY <1>16 DEF DrainPop
<1>17. CASE DrainDone
    BY <1>17 DEF DrainDone, Goto
<1>18. CASE Clear
    BY <1>18 DEF Clear, Goto, Forgive
<1>19. CASE UNCHANGED vars
    BY <1>19 DEF vars
<1> QED
    BY <1>1, <1>2, <1>3, <1>4, <1>5, <1>6, <1>7, <1>8, <1>9, <1>10,
       <1>11, <1>12, <1>13, <1>14, <1>15, <1>16, <1>17, <1>18, <1>19
    DEF Next, OwnerNext, OwnerStep, UserNext, Inside

\* The constructor establishes the types.
LEMMA TypeInit == Init => TypeOK /\ CarryInv
  BY ThreadAssumption, RegionAssumption, ChunksAssumption
  DEF Init, TypeOK, CarryInv, Proc, PC, Stage, Releasing, Harm

\* The fields of pool_container and the pointers in its users' hands keep their
\* types; in particular pop never returns anything but a region.
THEOREM TypeCorrect == Spec => []TypeOK
<1>1. Init => TypeOK /\ CarryInv
    BY TypeInit
<1>2. TypeOK /\ CarryInv /\ [Next]_vars => TypeOK' /\ CarryInv'
    BY TypeStep
<1> QED BY <1>1, <1>2, PTL DEF Spec

-----------------------------------------------------------------------------
(* The mutex and the owner *)

\* Locking and unlocking memBuffer_mutex_ in push and pop exclude each other.
LEMMA MutexStep == TypeOK /\ MutexInv /\ [Next]_vars => MutexInv'
<1> SUFFICES ASSUME TypeOK, MutexInv, [Next]_vars
             PROVE  MutexInv'
    OBVIOUS
<1> USE ThreadAssumption DEF TypeOK, MutexInv, Critical, Proc, fields, users, owner, history
<1>1. ASSUME NEW t \in Thread, NEW r \in Region, CallPush(t, r) PROVE MutexInv'
    BY <1>1 DEF CallPush
<1>2. ASSUME NEW t \in Thread, CallPop(t) PROVE MutexInv'
    BY <1>2 DEF CallPop
<1>3. ASSUME NEW p \in Proc, SpuriousWake(p) PROVE MutexInv'
    BY <1>3 DEF SpuriousWake
<1>4. ASSUME NEW p \in Proc, PushLock(p) PROVE MutexInv'
    BY <1>4 DEF PushLock
<1>5. ASSUME NEW p \in Proc, PushCount(p) PROVE MutexInv'
    BY <1>5 DEF PushCount
<1>6. ASSUME NEW p \in Proc, PushNotify(p) PROVE MutexInv'
    BY <1>6 DEF PushNotify, Waiters
<1>7. ASSUME NEW p \in Proc, PopWait(p) PROVE MutexInv'
    BY <1>7 DEF PopWait
<1>8. ASSUME NEW p \in Proc, PopTake(p) PROVE MutexInv'
    BY <1>8 DEF PopTake
<1>9. ASSUME NEW p \in Proc, PopCount(p) PROVE MutexInv'
    BY <1>9 DEF PopCount
<1>10. ASSUME NEW r \in Region, AllocateChunk(r) PROVE MutexInv'
    BY <1>10 DEF AllocateChunk
<1>11. CASE AllocateDone
    BY <1>11 DEF AllocateDone
<1>12. CASE PassedOver
    BY <1>12 DEF PassedOver, Goto
<1>13. CASE RefuseSize
    BY <1>13 DEF RefuseSize, Goto
<1>14. CASE PassSize
    BY <1>14 DEF PassSize, Goto
<1>15. CASE TestCount
    BY <1>15 DEF TestCount, Goto, Forgive
<1>16. CASE DrainPop
    BY <1>16 DEF DrainPop
<1>17. CASE DrainDone
    BY <1>17 DEF DrainDone, Goto
<1>18. CASE Clear
    BY <1>18 DEF Clear, Goto, Forgive
<1>19. CASE UNCHANGED vars
    BY <1>19 DEF vars
<1> QED
    BY <1>1, <1>2, <1>3, <1>4, <1>5, <1>6, <1>7, <1>8, <1>9, <1>10,
       <1>11, <1>12, <1>13, <1>14, <1>15, <1>16, <1>17, <1>18, <1>19
    DEF Next, OwnerNext, OwnerStep, UserNext, Inside

\* AllocatePool calls push and DeallocatePool calls pop, one at a time.
LEMMA OwnerStepInv == TypeOK /\ OwnerInv /\ [Next]_vars => OwnerInv'
<1> SUFFICES ASSUME TypeOK, OwnerInv, [Next]_vars
             PROVE  OwnerInv'
    OBVIOUS
<1> USE ThreadAssumption
    DEF TypeOK, OwnerInv, Proc, Stage, Releasing, Harm, fields, users, owner, history
<1>1. ASSUME NEW t \in Thread, NEW r \in Region, CallPush(t, r) PROVE OwnerInv'
    BY <1>1 DEF CallPush
<1>2. ASSUME NEW t \in Thread, CallPop(t) PROVE OwnerInv'
    BY <1>2 DEF CallPop
<1>3. ASSUME NEW p \in Proc, SpuriousWake(p) PROVE OwnerInv'
    BY <1>3 DEF SpuriousWake
<1>4. ASSUME NEW p \in Proc, PushLock(p) PROVE OwnerInv'
    BY <1>4 DEF PushLock
<1>5. ASSUME NEW p \in Proc, PushCount(p) PROVE OwnerInv'
    BY <1>5 DEF PushCount
<1>6. ASSUME NEW p \in Proc, PushNotify(p) PROVE OwnerInv'
    BY <1>6 DEF PushNotify, Waiters
<1>7. ASSUME NEW p \in Proc, PopWait(p) PROVE OwnerInv'
    BY <1>7 DEF PopWait
<1>8. ASSUME NEW p \in Proc, PopTake(p) PROVE OwnerInv'
    BY <1>8 DEF PopTake
<1>9. ASSUME NEW p \in Proc, PopCount(p) PROVE OwnerInv'
    BY <1>9 DEF PopCount
<1>10. ASSUME NEW r \in Region, AllocateChunk(r) PROVE OwnerInv'
    BY <1>10 DEF AllocateChunk
<1>11. CASE AllocateDone
    BY <1>11 DEF AllocateDone
<1>12. CASE PassedOver
    BY <1>12 DEF PassedOver, Goto
<1>13. CASE RefuseSize
    BY <1>13 DEF RefuseSize, Goto
<1>14. CASE PassSize
    BY <1>14 DEF PassSize, Goto
<1>15. CASE TestCount
    BY <1>15 DEF TestCount, Goto, Forgive
<1>16. CASE DrainPop
    BY <1>16 DEF DrainPop
<1>17. CASE DrainDone
    BY <1>17 DEF DrainDone, Goto
<1>18. CASE Clear
    BY <1>18 DEF Clear, Goto, Forgive
<1>19. CASE UNCHANGED vars
    BY <1>19 DEF vars
<1> QED
    BY <1>1, <1>2, <1>3, <1>4, <1>5, <1>6, <1>7, <1>8, <1>9, <1>10,
       <1>11, <1>12, <1>13, <1>14, <1>15, <1>16, <1>17, <1>18, <1>19
    DEF Next, OwnerNext, OwnerStep, UserNext, Inside

-----------------------------------------------------------------------------
(* Who has a region *)

\* A region is in hand if a user has it or a call carries it.
LEMMA InHandIff ==
    \A x : x \in InHand <=> \/ x \in held
                           \/ \E p \in Proc : Carries(p) /\ x = reg[p]
  BY DEF InHand

\* If the list is as long as the set of blocks then no region is in hand: the
\* size that DeallocatePool compares is enough.
LEMMA AllAtHome ==
    ASSUME TypeOK, EachOnce, Cardinality(Range(free_list)) = Len(free_list),
           Len(free_list) = Cardinality(block_list)
    PROVE  Range(free_list) = block_list /\ InHand = {}
<1>1. IsFiniteSet(block_list)
    BY RegionAssumption, FS_Subset DEF TypeOK
<1>2. Range(free_list) \subseteq block_list
    BY DEF EachOnce
<1>3. Range(free_list) = block_list
    BY <1>1, <1>2, FS_Subset
<1> QED BY <1>3 DEF EachOnce

\* Blocks that were destroyed in use stay destroyed.
LEMMA BrokenStep == [Next]_vars /\ harm' # "broken" => harm # "broken"
  BY DEF Next, OwnerNext, OwnerStep, UserNext, Inside, CallPush, CallPop, SpuriousWake,
         PushLock, PushCount, PushNotify, PopWait, PopTake, PopCount, AllocateChunk,
         AllocateDone, PassedOver, RefuseSize, PassSize, TestCount, DrainPop,
         DrainDone, Clear, Forgive, history, vars

\* push_back and pop_back move a region between the list and one pair of hands.
LEMMA GrantStep ==
    ASSUME TypeOK, CarryInv, OwnerInv, EachOnce, [Next]_vars, harm' # "broken"
    PROVE  EachOnce'
<1> USE ThreadAssumption DEF Proc, fields, users, owner, history
<1>0. /\ \A x : x \in InHand <=> \/ x \in held
                                 \/ \E p \in Proc : Carries(p) /\ x = reg[p]
      /\ \A x : x \in InHand' <=> \/ x \in held'
                                  \/ \E p \in Proc : Carries(p)' /\ x = reg'[p]
    BY DEF InHand
<1>e. (\A x : x \in InHand' <=> x \in InHand) => InHand' = InHand
    BY Zenon
<1>1. ASSUME NEW t \in Thread, NEW r \in Region, CallPush(t, r) PROVE EachOnce'
  <2>1. InHand' = InHand
      BY <1>0, <1>e, <1>1 DEF CallPush, TypeOK, Carries
  <2> QED BY <1>1, <2>1 DEF CallPush, EachOnce, TypeOK, Carries
<1>2. ASSUME NEW t \in Thread, CallPop(t) PROVE EachOnce'
  <2>1. InHand' = InHand
      BY <1>0, <1>e, <1>2 DEF CallPop, TypeOK, Carries
  <2> QED BY <1>2, <2>1 DEF CallPop, EachOnce, TypeOK, Carries
<1>3. ASSUME NEW p \in Proc, SpuriousWake(p) PROVE EachOnce'
  <2>1. InHand' = InHand
      BY <1>0, <1>e, <1>3 DEF SpuriousWake, TypeOK, Carries
  <2> QED BY <1>3, <2>1 DEF SpuriousWake, EachOnce, TypeOK, Carries
<1>4. ASSUME NEW p \in Proc, PushLock(p) PROVE EachOnce'
  <2>1. reg[p] \in Region /\ reg[p] \in InHand
      BY <1>0, <1>4 DEF PushLock, CarryInv, Carries
  <2>2. InHand' = InHand \ {reg[p]}
      BY <1>0, <1>4 DEF PushLock, TypeOK, Carries, EachOnce
  <2>3. /\ Range(free_list') = Range(free_list) \cup {reg[p]}
        /\ NoDup(free_list')
      BY <1>4, <2>1, AppendRange DEF PushLock, TypeOK, EachOnce, NoDup
  <2> QED BY <1>4, <2>1, <2>2, <2>3 DEF PushLock, EachOnce, NoDup, TypeOK, Carries
<1>5. ASSUME NEW p \in Proc, PushCount(p) PROVE EachOnce'
  <2>1. InHand' = InHand
      BY <1>0, <1>e, <1>5 DEF PushCount, TypeOK, Carries
  <2> QED BY <1>5, <2>1 DEF PushCount, EachOnce, TypeOK, Carries
<1>6. ASSUME NEW p \in Proc, PushNotify(p) PROVE EachOnce'
  <2>1. /\ \A q \in Proc : Carries(q)' <=> Carries(q)
        /\ \A q \in Proc : Carries(q) => reg'[q] = reg[q]
      BY <1>6 DEF PushNotify, Waiters, TypeOK, Carries
  <2>2. InHand' = InHand
      BY <1>0, <1>e, <1>6, <2>1 DEF PushNotify
  <2> QED BY <1>6, <2>1, <2>2 DEF PushNotify, EachOnce
<1>7. ASSUME NEW p \in Proc, PopWait(p) PROVE EachOnce'
  <2>1. InHand' = InHand
      BY <1>0, <1>e, <1>7 DEF PopWait, TypeOK, Carries
  <2> QED BY <1>7, <2>1 DEF PopWait, EachOnce, TypeOK, Carries
<1>8. ASSUME NEW p \in Proc, PopTake(p) PROVE EachOnce'
  <2> DEFINE e == free_list[Len(free_list)]
  <2>1. /\ e \in Range(free_list)
        /\ Range(free_list') = Range(free_list) \ {e}
        /\ NoDup(free_list')
      BY <1>8, FrontRange DEF PopTake, TypeOK, EachOnce, NoDup
  <2>2. reg' = [reg EXCEPT ![p] = e] /\ e \notin InHand
      BY <1>8, <2>1 DEF PopTake, EachOnce
  <2> HIDE DEF e
  <2>3. CASE p = Owner
    <3>1. InHand' = InHand
        BY <1>0, <1>e, <1>8, <2>2, <2>3 DEF PopTake, TypeOK, Carries
    <3>2. stage = "drain"
        BY <1>8, <2>3 DEF PopTake, OwnerInv, TypeOK, Stage, Releasing
    <3> QED BY <1>8, <2>1, <2>2, <2>3, <3>1, <3>2 DEF PopTake, EachOnce, NoDup, TypeOK, Carries
  <2>4. CASE p # Owner
    <3>1. InHand' = InHand \cup {e}
        BY <1>0, <1>8, <2>2, <2>4 DEF PopTake, TypeOK, Carries
    <3> QED BY <1>0, <1>8, <2>1, <2>2, <3>1 DEF PopTake, EachOnce, NoDup, TypeOK, Carries
  <2> QED BY <2>3, <2>4
<1>9. ASSUME NEW p \in Proc, PopCount(p) PROVE EachOnce'
  <2>1. InHand' = InHand
      BY <1>0, <1>e, <1>9 DEF PopCount, TypeOK, Carries
  <2> QED BY <1>9, <2>1 DEF PopCount, EachOnce, TypeOK, Carries
<1>10. ASSUME NEW r \in Region, AllocateChunk(r) PROVE EachOnce'
  <2>1. InHand' = InHand \cup {r} /\ r \notin InHand
      BY <1>0, <1>10 DEF AllocateChunk, TypeOK, Carries, EachOnce
  <2> QED BY <1>0, <1>10, <2>1 DEF AllocateChunk, EachOnce, TypeOK, Carries
<1>11. CASE AllocateDone
    BY <1>0, <1>11 DEF AllocateDone, EachOnce, InHand, Carries
<1>12. CASE PassedOver
    BY <1>0, <1>12 DEF PassedOver, Goto, EachOnce, InHand, Carries
<1>13. CASE RefuseSize
    BY <1>0, <1>13 DEF RefuseSize, Goto, EachOnce, InHand, Carries
<1>14. CASE PassSize
    BY <1>0, <1>14 DEF PassSize, Goto, EachOnce, InHand, Carries
<1>15. CASE TestCount
    BY <1>0, <1>15 DEF TestCount, Goto, Forgive, EachOnce, InHand, Carries
<1>16. CASE DrainPop
  <2>1. InHand' = InHand
      BY <1>0, <1>e, <1>16 DEF DrainPop, TypeOK, Carries
  <2> QED BY <1>16, <2>1 DEF DrainPop, EachOnce, TypeOK, Carries
<1>17. CASE DrainDone
    BY <1>0, <1>17 DEF DrainDone, Goto, EachOnce, InHand, Carries
<1>18. CASE Clear
  <2>1. InHand = {} /\ free_list = <<>>
      BY <1>18 DEF Clear
  <2>2. InHand' = InHand /\ Range(free_list') = {}
      BY <1>18, <2>1 DEF Clear, InHand, Carries, Range
  <2> QED BY <1>0, <1>18, <2>1, <2>2 DEF Clear, EachOnce, Carries
<1>19. CASE UNCHANGED vars
    BY <1>0, <1>19 DEF vars, EachOnce, InHand, Carries
<1> QED
    BY <1>1, <1>2, <1>3, <1>4, <1>5, <1>6, <1>7, <1>8, <1>9, <1>10,
       <1>11, <1>12, <1>13, <1>14, <1>15, <1>16, <1>17, <1>18, <1>19
    DEF Next, OwnerNext, OwnerStep, UserNext, Inside

\* The list and the set of what is on it grow and shrink together.
LEMMA LenStep ==
    ASSUME TypeOK, CarryInv, EachOnce, LenInv, [Next]_vars, harm' # "broken"
    PROVE  LenInv'
<1> USE ThreadAssumption DEF Proc, fields, users, owner, history
<1>0. /\ IsFiniteSet(Range(free_list))
      /\ Cardinality(Range(free_list)) = Len(free_list)
      /\ Len(free_list) \in Nat
  <2>1. IsFiniteSet(block_list) /\ Range(free_list) \subseteq block_list
      BY RegionAssumption, FS_Subset DEF TypeOK, EachOnce
  <2> QED BY <2>1, BrokenStep, FS_Subset DEF LenInv, TypeOK
<1>1. ASSUME NEW p \in Proc, PushLock(p) PROVE LenInv'
  <2>1. reg[p] \in Region /\ reg[p] \notin Range(free_list)
      BY <1>1, InHandIff DEF PushLock, CarryInv, Carries, EachOnce
  <2>2. /\ Range(free_list') = Range(free_list) \cup {reg[p]}
        /\ Len(free_list') = Len(free_list) + 1
      BY <1>1, <2>1, AppendRange DEF PushLock, TypeOK
  <2>3. Cardinality(Range(free_list')) = Cardinality(Range(free_list)) + 1
      BY <1>0, <2>1, <2>2, FS_AddElement
  <2> QED BY <1>0, <2>2, <2>3 DEF LenInv
<1>2. ASSUME NEW p \in Proc, PopTake(p) PROVE LenInv'
  <2> DEFINE e == free_list[Len(free_list)]
  <2>1. /\ e \in Range(free_list)
        /\ Range(free_list') = Range(free_list) \ {e}
        /\ Len(free_list') = Len(free_list) - 1
      BY <1>2, FrontRange DEF PopTake, TypeOK, EachOnce, NoDup
  <2> HIDE DEF e
  <2>2. Cardinality(Range(free_list')) = Cardinality(Range(free_list)) - 1
      BY <1>0, <2>1, FS_RemoveElement
  <2> QED BY <1>0, <2>1, <2>2 DEF LenInv
<1>3. CASE free_list' = free_list
    BY <1>0, <1>3 DEF LenInv
<1> QED
    BY <1>1, <1>2, <1>3
    DEF Next, OwnerNext, OwnerStep, UserNext, Inside, CallPush, CallPop, SpuriousWake,
        PushCount, PushNotify, PopWait, PopCount, AllocateChunk, AllocateDone,
        PassedOver, RefuseSize, PassSize, TestCount, DrainPop, DrainDone, Clear, vars

-----------------------------------------------------------------------------
(* What may overlap with DeallocatePool *)

\* Until a user takes a region, nobody has one to give back either.
LEMMA RaceStep ==
    ASSUME TypeOK, CarryInv, MutexInv, OwnerInv, NoDoubleGrant, LenInv, RaceInv, [Next]_vars
    PROVE  RaceInv'
<1> USE ThreadAssumption DEF Proc, Releasing, fields, users, owner, history
<1>0. /\ \A x : x \in InHand <=> \/ x \in held
                                 \/ \E p \in Proc : Carries(p) /\ x = reg[p]
      /\ \A x : x \in InHand' <=> \/ x \in held'
                                  \/ \E p \in Proc : Carries(p)' /\ x = reg'[p]
    BY DEF InHand
<1>1. ASSUME NEW t \in Thread, NEW r \in Region, CallPush(t, r) PROVE RaceInv'
    BY <1>0, <1>1 DEF CallPush, RaceInv, TypeOK, Carries, OwnerInv
<1>2. ASSUME NEW t \in Thread, CallPop(t) PROVE RaceInv'
    BY <1>0, <1>2 DEF CallPop, RaceInv, TypeOK, Carries
<1>3. ASSUME NEW p \in Proc, SpuriousWake(p) PROVE RaceInv'
    BY <1>0, <1>3 DEF SpuriousWake, RaceInv, TypeOK, Carries
<1>4. ASSUME NEW p \in Proc, PushLock(p) PROVE RaceInv'
    BY <1>0, <1>4 DEF PushLock, RaceInv, TypeOK, Carries, OwnerInv
<1>5. ASSUME NEW p \in Proc, PushCount(p) PROVE RaceInv'
    BY <1>0, <1>5 DEF PushCount, RaceInv, TypeOK, Carries
<1>6. ASSUME NEW p \in Proc, PushNotify(p) PROVE RaceInv'
  <2>1. \A q \in Proc : Carries(q)' <=> Carries(q)
      BY <1>6 DEF PushNotify, Waiters, TypeOK, Carries
  <2> QED BY <1>0, <1>6, <2>1 DEF PushNotify, RaceInv
<1>7. ASSUME NEW p \in Proc, PopWait(p) PROVE RaceInv'
    BY <1>0, <1>7 DEF PopWait, RaceInv, TypeOK, Carries
<1>8. ASSUME NEW p \in Proc, PopTake(p) PROVE RaceInv'
  <2>1. p = Owner => stage = "drain"
      BY <1>8 DEF PopTake, OwnerInv, TypeOK, Stage
  <2>2. p = Owner => \A q \in Proc : (Carries(q)' <=> Carries(q)) /\ (Carries(q) => reg'[q] = reg[q])
      BY <1>8 DEF PopTake, TypeOK, Carries
  <2>3. CASE p = Owner
      BY <1>0, <1>8, <2>1, <2>2, <2>3 DEF PopTake, RaceInv
  <2>4. CASE p # Owner
      BY <1>8, <2>4 DEF PopTake, RaceInv
  <2> QED BY <2>3, <2>4
<1>9. ASSUME NEW p \in Proc, PopCount(p) PROVE RaceInv'
  <2>1. CASE p = Owner
    <3>1. \A q \in Proc : (Carries(q)' <=> Carries(q)) /\ (Carries(q) => reg'[q] = reg[q])
        BY <1>9, <2>1 DEF PopCount, TypeOK, Carries
    <3> QED BY <1>0, <1>9, <2>1, <3>1 DEF PopCount, RaceInv
  <2>2. CASE p # Owner
    <3>1. InHand # {}
        BY <1>0, <1>9, <2>2 DEF PopCount, Carries
    <3> QED BY <1>9, <3>1 DEF PopCount, RaceInv
  <2> QED BY <2>1, <2>2
<1>10. ASSUME NEW r \in Region, AllocateChunk(r) PROVE RaceInv'
    BY <1>10 DEF AllocateChunk, RaceInv
<1>11. CASE AllocateDone
    BY <1>11 DEF AllocateDone, RaceInv
<1>12. CASE PassedOver
    BY <1>12 DEF PassedOver, RaceInv, Goto
<1>13. CASE RefuseSize
    BY <1>13 DEF RefuseSize, RaceInv, Goto
<1>14. CASE PassSize
  <2>1. CASE harm' = "none"
    <3>1. harm = "none" /\ mutex = None
        BY <1>14, <2>1 DEF PassSize
    <3>2. InHand = {}
        BY <1>14, <3>1, AllAtHome DEF PassSize, SizesDiffer, NoDoubleGrant, LenInv
    <3>3. InHand' = InHand
        BY <1>14 DEF PassSize, InHand, Carries
    <3> QED BY <1>14, <3>1, <3>2, <3>3 DEF PassSize, RaceInv, Goto
  <2>2. CASE harm' # "none"
      BY <2>2 DEF RaceInv
  <2> QED BY <2>1, <2>2
<1>15. CASE TestCount
    BY <1>0, <1>15 DEF TestCount, RaceInv, Goto, InHand, Carries
<1>16. CASE DrainPop
    BY <1>0, <1>16 DEF DrainPop, RaceInv, TypeOK, Carries
<1>17. CASE DrainDone
  <2>1. mutex # Owner
      BY <1>17 DEF DrainDone, MutexInv, Critical
  <2> QED BY <1>0, <1>17, <2>1 DEF DrainDone, RaceInv, Goto, InHand, Carries
<1>18. CASE Clear
    BY <1>18 DEF Clear, RaceInv, Goto
<1>19. CASE UNCHANGED vars
    BY <1>19 DEF vars, RaceInv, InHand, Carries
<1> QED
    BY <1>1, <1>2, <1>3, <1>4, <1>5, <1>6, <1>7, <1>8, <1>9, <1>10,
       <1>11, <1>12, <1>13, <1>14, <1>15, <1>16, <1>17, <1>18, <1>19
    DEF Next, OwnerNext, OwnerStep, UserNext, Inside

-----------------------------------------------------------------------------
(* The count *)

\* At most one thread is between the two halves of a critical section, the one
\* that has the mutex.
LEMMA PendingIsDue == TypeOK /\ MutexInv => Pending = Due
<1> SUFFICES ASSUME TypeOK, MutexInv PROVE Pending = Due
    OBVIOUS
<1> DEFINE A == {p \in Proc : pc[p] = "push_count"}
           B == {p \in Proc : pc[p] = "pop_count"}
<1>1. CASE mutex = None
  <2>1. A = {} /\ B = {}
      BY <1>1, ThreadAssumption DEF MutexInv, Critical, Proc
  <2>2. Cardinality(A) = 0 /\ Cardinality(B) = 0
      BY <2>1, FS_EmptySet
  <2> QED BY <1>1, <2>2 DEF Pending, Due
<1>2. CASE mutex # None /\ pc[mutex] = "push_count"
  <2>1. A = {mutex} /\ B = {}
      BY <1>2 DEF MutexInv, Critical, TypeOK
  <2>2. Cardinality(A) = 1 /\ Cardinality(B) = 0
      BY <2>1, FS_EmptySet, FS_Singleton
  <2> QED BY <1>2, <2>2 DEF Pending, Due
<1>3. CASE mutex # None /\ pc[mutex] # "push_count"
  <2>1. A = {} /\ B = {mutex}
      BY <1>3 DEF MutexInv, Critical, TypeOK
  <2>2. Cardinality(A) = 0 /\ Cardinality(B) = 1
      BY <2>1, FS_EmptySet, FS_Singleton
  <2> QED BY <1>3, <2>2 DEF Pending, Due
<1> QED BY <1>1, <1>2, <1>3

\* region_use_count_ follows the list, one update behind while a thread is
\* between push_back or pop_back and the unlock, from where AllocatePool set it.
LEMMA CountStep ==
    ASSUME TypeOK, MutexInv, OwnerInv, CountInv, [Next]_vars
    PROVE  CountInv'
<1> USE ThreadAssumption DEF Proc, fields, users, owner, history
<1>0. /\ Len(free_list) \in Nat
      /\ Cardinality(block_list) \in Int
      /\ Due \in Int
  <2>1. IsFiniteSet(block_list)
      BY RegionAssumption, FS_Subset DEF TypeOK
  <2>2. Cardinality(block_list) \in Nat
      BY <2>1, FS_CardinalityType
  <2> QED BY <2>2 DEF TypeOK, Due
<1>1. ASSUME NEW t \in Thread, NEW r \in Region, CallPush(t, r) PROVE CountInv'
    BY <1>0, <1>1 DEF CallPush, CountInv, Due, TypeOK, MutexInv, Critical
<1>2. ASSUME NEW t \in Thread, CallPop(t) PROVE CountInv'
    BY <1>0, <1>2 DEF CallPop, CountInv, Due, TypeOK, MutexInv, Critical
<1>3. ASSUME NEW p \in Proc, SpuriousWake(p) PROVE CountInv'
    BY <1>0, <1>3 DEF SpuriousWake, CountInv, Due, TypeOK, MutexInv, Critical
<1>4. ASSUME NEW p \in Proc, PushLock(p) PROVE CountInv'
  <2>1. Len(free_list') = Len(free_list) + 1
      BY <1>4 DEF PushLock, TypeOK
  <2>2. Due = 0 /\ Due' = 1
      BY <1>4 DEF PushLock, Due, TypeOK
  <2> QED BY <1>0, <1>4, <2>1, <2>2 DEF PushLock, CountInv, TypeOK
<1>5. ASSUME NEW p \in Proc, PushCount(p) PROVE CountInv'
  <2>1. Due = 1 /\ Due' = 0
      BY <1>5 DEF PushCount, Due, MutexInv, Critical
  <2> QED BY <1>0, <1>5, <2>1 DEF PushCount, CountInv, TypeOK
<1>6. ASSUME NEW p \in Proc, PushNotify(p) PROVE CountInv'
  <2>1. Due' = Due
      BY <1>6 DEF PushNotify, Waiters, Due, TypeOK, MutexInv, Critical
  <2> QED BY <1>0, <1>6, <2>1 DEF PushNotify, CountInv
<1>7. ASSUME NEW p \in Proc, PopWait(p) PROVE CountInv'
    BY <1>0, <1>7 DEF PopWait, CountInv, Due, TypeOK, MutexInv, Critical
<1>8. ASSUME NEW p \in Proc, PopTake(p) PROVE CountInv'
  <2>1. Len(free_list') = Len(free_list) - 1
      BY <1>8, FrontLen DEF PopTake, TypeOK
  <2>2. Due = 0 /\ Due' = -1
      BY <1>8 DEF PopTake, Due, TypeOK
  <2> QED BY <1>0, <1>8, <2>1, <2>2 DEF PopTake, CountInv, TypeOK
<1>9. ASSUME NEW p \in Proc, PopCount(p) PROVE CountInv'
  <2>1. Due = -1 /\ Due' = 0
      BY <1>9 DEF PopCount, Due, MutexInv, Critical
  <2> QED BY <1>0, <1>9, <2>1 DEF PopCount, CountInv, TypeOK
<1>10. ASSUME NEW r \in Region, AllocateChunk(r) PROVE CountInv'
    BY <1>10 DEF AllocateChunk, CountInv
<1>11. CASE AllocateDone
  <2>1. Due' = Due /\ Pending = Due
      BY <1>11, PendingIsDue DEF AllocateDone, Due
  <2> QED BY <1>0, <1>11, <2>1 DEF AllocateDone, CountInv
<1>12. CASE PassedOver
    BY <1>12 DEF PassedOver, CountInv, Goto
<1>13. CASE RefuseSize
    BY <1>13 DEF RefuseSize, CountInv, Goto
<1>14. CASE PassSize
    BY <1>14 DEF PassSize, CountInv, Due, Goto
<1>15. CASE TestCount
    BY <1>15 DEF TestCount, CountInv, Due, Goto
<1>16. CASE DrainPop
    BY <1>0, <1>16 DEF DrainPop, CountInv, Due, TypeOK, MutexInv, Critical
<1>17. CASE DrainDone
    BY <1>17 DEF DrainDone, CountInv, Due, Goto
<1>18. CASE Clear
    BY <1>18 DEF Clear, CountInv, Goto
<1>19. CASE UNCHANGED vars
    BY <1>19 DEF vars, CountInv, Due
<1> QED
    BY <1>1, <1>2, <1>3, <1>4, <1>5, <1>6, <1>7, <1>8, <1>9, <1>10,
       <1>11, <1>12, <1>13, <1>14, <1>15, <1>16, <1>17, <1>18, <1>19
    DEF Next, OwnerNext, OwnerStep, UserNext, Inside

-----------------------------------------------------------------------------
(* The invariant and what follows from it *)

\* An empty pool satisfies the invariant.
LEMMA InitInv == Init => IInv
<1> SUFFICES ASSUME Init PROVE IInv
    OBVIOUS
<1>1. TypeOK /\ CarryInv
    BY TypeInit
<1>2. Range(free_list) = {} /\ InHand = {} /\ Len(free_list) = 0
    BY DEF Init, InHand, Range, Carries
<1>3. MutexInv /\ OwnerInv /\ RaceInv
    BY ThreadAssumption
    DEF Init, MutexInv, Critical, OwnerInv, RaceInv, Releasing, Proc
<1>4. NoDoubleGrant
    BY <1>2 DEF Init, NoDoubleGrant, EachOnce, Carries
<1>5. LenInv
    BY <1>2, FS_EmptySet DEF LenInv
<1>6. CountInv
    BY DEF Init, CountInv
<1> QED BY <1>1, <1>3, <1>4, <1>5, <1>6 DEF IInv

\* Every reachable state of pool_container satisfies the invariant, with users
\* inside push and pop at any time after the constructor.
THEOREM Invariance == Spec => []IInv
<1>1. Init => IInv
    BY InitInv
<1>2. ASSUME IInv, [Next]_vars PROVE IInv'
  <2>0. /\ TypeOK /\ CarryInv /\ MutexInv /\ OwnerInv
        /\ NoDoubleGrant /\ LenInv /\ RaceInv /\ CountInv
      BY <1>2 DEF IInv
  <2>1. TypeOK' /\ CarryInv' /\ MutexInv' /\ OwnerInv'
      BY <1>2, <2>0, TypeStep, MutexStep, OwnerStepInv
  <2>2. NoDoubleGrant' /\ LenInv'
    <3>1. CASE harm' = "broken"
        BY <3>1 DEF NoDoubleGrant, LenInv
    <3>2. CASE harm' # "broken"
      <4>1. EachOnce
          BY <1>2, <2>0, <3>2, BrokenStep DEF NoDoubleGrant
      <4>2. EachOnce' /\ LenInv'
          BY <1>2, <2>0, <3>2, <4>1, GrantStep, LenStep
      <4> QED BY <4>2 DEF NoDoubleGrant
    <3> QED BY <3>1, <3>2
  <2>3. RaceInv' /\ CountInv'
      BY <1>2, <2>0, RaceStep, CountStep
  <2> QED BY <2>1, <2>2, <2>3 DEF IInv
<1> QED BY <1>1, <1>2, PTL DEF Spec

\* No region is handed out twice or lost, for any number of threads and regions,
\* unless blocks were destroyed in use.
THEOREM GrantCorrect == Spec => []NoDoubleGrant
<1>1. IInv => NoDoubleGrant
    BY DEF IInv
<1> QED BY <1>1, Invariance, PTL

\* region_use_count_ is the number of blocks in use, up to the update the
\* critical section in progress has still to make, less what was out when
\* AllocatePool last set it to zero.
THEOREM UseCountCorrect == Spec => []UseCountExact
<1>1. IInv => UseCountExact
    BY PendingIsDue DEF IInv, CountInv, UseCountExact
<1> QED BY <1>1, Invariance, PTL

\* Only DeallocatePool destroys blocks, and unless a user disturbed it nobody has
\* one then and the list is empty.
THEOREM ReleaseCorrect == Spec => ReleasedOnlyWhenReturned
<1>1. ASSUME IInv, [Next]_vars
      PROVE  [block_list \ block_list' # {} =>
                 harm # "none" \/ (InHand = {} /\ free_list = <<>>)]_vars
  <2>1. CASE Clear
      BY <1>1, <2>1 DEF Clear, IInv, RaceInv, Releasing
  <2>2. CASE \E r \in Region : AllocateChunk(r)
      BY <2>2 DEF AllocateChunk
  <2>3. CASE ~Clear /\ ~\E r \in Region : AllocateChunk(r)
    <3>1. block_list' = block_list
        BY <1>1, <2>3
        DEF Next, OwnerNext, OwnerStep, UserNext, Inside, CallPush, CallPop, SpuriousWake,
            PushLock, PushCount, PushNotify, PopWait, PopTake, PopCount, AllocateDone,
            PassedOver, RefuseSize, PassSize, TestCount, DrainPop, DrainDone, fields, vars
    <3> QED BY <3>1
  <2> QED BY <2>1, <2>2, <2>3
<1> QED BY <1>1, Invariance, PTL DEF Spec, ReleasedOnlyWhenReturned

-----------------------------------------------------------------------------
(* Wake-ups *)

\* Each step that puts a region on the list while someone sleeps brings a
\* thread on its way with it, and a thread that leaves takes one.
LEMMA WakeupStep ==
    ASSUME TypeOK, NoLostWakeup, [Next]_vars
    PROVE  NoLostWakeup'
<1> USE ThreadAssumption DEF Proc, fields, users, owner, history
<1>0. /\ IsFiniteSet(OnTheWay) /\ Cardinality(OnTheWay) \in Nat
      /\ Len(free_list) \in Nat
      /\ IsFiniteSet(OnTheWay') /\ Cardinality(OnTheWay') \in Nat
  <2>1. IsFiniteSet(Proc)
      BY FS_AddElement
  <2>2. IsFiniteSet(OnTheWay) /\ IsFiniteSet(OnTheWay')
      BY <2>1, FS_Subset DEF OnTheWay
  <2> QED BY <2>2, FS_CardinalityType DEF TypeOK
<1>a. ASSUME NEW t \in Proc, OnTheWay' = OnTheWay \cup {t}, free_list' = free_list,
             Waiters' \subseteq Waiters
      PROVE  NoLostWakeup'
    BY <1>0, <1>a, FS_AddElement DEF NoLostWakeup
<1>b. ASSUME OnTheWay' = OnTheWay, Len(free_list') = Len(free_list),
             Waiters' \subseteq Waiters
      PROVE  NoLostWakeup'
    BY <1>b DEF NoLostWakeup
<1>1. ASSUME NEW t \in Thread, NEW r \in Region, CallPush(t, r) PROVE NoLostWakeup'
    BY <1>1, <1>b DEF CallPush, OnTheWay, Waiters, TypeOK
<1>2. ASSUME NEW t \in Thread, CallPop(t) PROVE NoLostWakeup'
    BY <1>2, <1>a DEF CallPop, OnTheWay, Waiters, TypeOK
<1>3. ASSUME NEW p \in Proc, SpuriousWake(p) PROVE NoLostWakeup'
    BY <1>3, <1>a DEF SpuriousWake, OnTheWay, Waiters, TypeOK
<1>4. ASSUME NEW p \in Proc, PushLock(p) PROVE NoLostWakeup'
  <2>1. OnTheWay' = OnTheWay \cup {p} /\ p \notin OnTheWay /\ Waiters' = Waiters
      BY <1>4 DEF PushLock, OnTheWay, Waiters, TypeOK
  <2>2. Len(free_list') = Len(free_list) + 1
      BY <1>4 DEF PushLock, TypeOK
  <2>3. Cardinality(OnTheWay') = Cardinality(OnTheWay) + 1
      BY <1>0, <2>1, FS_AddElement
  <2> QED BY <1>0, <2>1, <2>2, <2>3 DEF NoLostWakeup
<1>5. ASSUME NEW p \in Proc, PushCount(p) PROVE NoLostWakeup'
    BY <1>5, <1>b DEF PushCount, OnTheWay, Waiters, TypeOK
<1>6. ASSUME NEW p \in Proc, PushNotify(p) PROVE NoLostWakeup'
  <2>1. CASE Waiters = {}
    <3>1. Waiters' = {}
        BY <1>6, <2>1 DEF PushNotify, Waiters, TypeOK
    <3> QED BY <3>1 DEF NoLostWakeup
  <2>2. CASE Waiters # {}
    <3>1. PICK w \in Waiters : pc' = [pc EXCEPT ![p] = "idle", ![w] = "pop"]
        BY <1>6, <2>2 DEF PushNotify
    <3>2. /\ OnTheWay' = (OnTheWay \ {p}) \cup {w}
          /\ p \in OnTheWay /\ w \notin OnTheWay
        BY <1>6, <3>1 DEF PushNotify, OnTheWay, Waiters, TypeOK
    <3>3. Cardinality(OnTheWay') = Cardinality(OnTheWay)
      <4>1. /\ IsFiniteSet(OnTheWay \ {p})
            /\ Cardinality(OnTheWay \ {p}) = Cardinality(OnTheWay) - 1
          BY <1>0, <3>2, FS_RemoveElement
      <4>2. Cardinality((OnTheWay \ {p}) \cup {w}) = Cardinality(OnTheWay \ {p}) + 1
          BY <3>2, <4>1, FS_AddElement
      <4> QED BY <1>0, <3>2, <4>1, <4>2
    <3> QED BY <1>6, <2>2, <3>3 DEF PushNotify, NoLostWakeup
  <2> QED BY <2>1, <2>2
<1>7. ASSUME NEW p \in Proc, PopWait(p) PROVE NoLostWakeup'
    BY <1>0, <1>7 DEF PopWait, NoLostWakeup
<1>8. ASSUME NEW p \in Proc, PopTake(p) PROVE NoLostWakeup'
  <2>1. OnTheWay' = OnTheWay \ {p} /\ p \in OnTheWay /\ Waiters' = Waiters
      BY <1>8 DEF PopTake, OnTheWay, Waiters, TypeOK
  <2>2. Len(free_list') = Len(free_list) - 1
      BY <1>8, FrontLen DEF PopTake, TypeOK
  <2>3. Cardinality(OnTheWay') = Cardinality(OnTheWay) - 1
      BY <1>0, <2>1, FS_RemoveElement
  <2> QED BY <1>0, <2>1, <2>2, <2>3 DEF NoLostWakeup
<1>9. ASSUME NEW p \in Proc, PopCount(p) PROVE NoLostWakeup'
    BY <1>9, <1>b DEF PopCount, OnTheWay, Waiters, TypeOK
<1>10. ASSUME NEW r \in Region, AllocateChunk(r) PROVE NoLostWakeup'
    BY <1>10, <1>b DEF AllocateChunk, OnTheWay, Waiters, TypeOK
<1>11. CASE DrainPop
    BY <1>11, <1>a DEF DrainPop, OnTheWay, Waiters, TypeOK
<1>12. CASE UNCHANGED <<pc, free_list>>
    BY <1>12 DEF NoLostWakeup, Waiters, OnTheWay
<1>13. CASE AllocateDone \/ PassedOver \/ RefuseSize \/ PassSize \/ TestCount \/ DrainDone \/ Clear
    BY <1>12, <1>13
    DEF AllocateDone, PassedOver, RefuseSize, PassSize, TestCount, DrainDone, Clear
<1> QED
    BY <1>1, <1>2, <1>3, <1>4, <1>5, <1>6, <1>7, <1>8, <1>9, <1>10, <1>11, <1>12, <1>13
    DEF Next, OwnerNext, OwnerStep, UserNext, Inside, vars

\* As long as someone sleeps in pop, every free region has a thread on its way
\* that will notify a sleeper or take the region, although notify_one is called
\* outside the mutex.
THEOREM WakeupCorrect == Spec => []NoLostWakeup
<1>1. Init => NoLostWakeup
    BY DEF Init, NoLostWakeup, Waiters
<1>2. TypeOK /\ NoLostWakeup /\ [Next]_vars => NoLostWakeup'
    BY WakeupStep
<1> QED BY <1>1, <1>2, TypeCorrect, PTL DEF Spec

-----------------------------------------------------------------------------
(* pool_container implements the abstract pool *)

AbsFree == IF harm = "broken" THEN {} ELSE block_list \ InHand
AbsHand == IF harm = "broken" THEN {} ELSE InHand
AbsBusy == mutex \in Thread
AbsStatus ==
    CASE harm = "broken" -> "broken"
      [] harm # "broken" /\ stage \notin Releasing -> "open"
      [] harm = "none" /\ stage \in Releasing -> "closing"
      [] harm = "raced" /\ stage \in Releasing -> "raced"

\* The cases of the status are exclusive and complete.
LEMMA StatusIs ==
    TypeOK =>
        /\ harm = "broken" => AbsStatus = "broken"
        /\ harm # "broken" /\ stage \notin Releasing => AbsStatus = "open"
        /\ harm = "none" /\ stage \in Releasing => AbsStatus = "closing"
        /\ harm = "raced" /\ stage \in Releasing => AbsStatus = "raced"
        /\ AbsBusy \in BOOLEAN
  BY DEF TypeOK, Harm, AbsStatus, AbsBusy

Stutter ==
    AbsFree' = AbsFree /\ AbsHand' = AbsHand /\ AbsBusy' = AbsBusy /\ AbsStatus' = AbsStatus
Make(r) ==
    /\ AbsStatus = "open" /\ r \notin AbsFree \cup AbsHand
    /\ AbsHand' = AbsHand \cup {r} /\ AbsFree' = AbsFree
    /\ AbsBusy' = AbsBusy /\ AbsStatus' = AbsStatus
Give(r) ==
    /\ ~AbsBusy /\ AbsBusy' \in BOOLEAN /\ r \in AbsHand
    /\ AbsHand' = AbsHand \ {r} /\ AbsFree' = AbsFree \cup {r}
    /\ AbsStatus' = AbsStatus
Take(r) ==
    /\ ~AbsBusy /\ AbsBusy' = TRUE /\ r \in AbsFree
    /\ AbsFree' = AbsFree \ {r} /\ AbsHand' = AbsHand \cup {r}
    /\ AbsStatus' = IF AbsStatus = "closing" THEN "raced" ELSE AbsStatus
Settles ==
    /\ AbsBusy /\ AbsBusy' = FALSE
    /\ AbsFree' = AbsFree /\ AbsHand' = AbsHand /\ AbsStatus' = AbsStatus
Closes ==
    /\ AbsStatus = "open"
    /\ \/ AbsHand = {} /\ ~AbsBusy /\ AbsStatus' = "closing"
       \/ AbsBusy /\ AbsStatus' = "raced"
    /\ AbsFree' = AbsFree /\ AbsHand' = AbsHand /\ AbsBusy' = AbsBusy
Reopens ==
    /\ AbsStatus \in {"closing", "raced"} /\ AbsStatus' = "open"
    /\ AbsFree' = AbsFree /\ AbsHand' = AbsHand /\ AbsBusy' = AbsBusy
Discards ==
    /\ AbsStatus \in {"closing", "raced"} /\ AbsStatus' = "open"
    /\ AbsHand = {} /\ AbsFree' = {} /\ AbsHand' = AbsHand /\ AbsBusy' = AbsBusy
Breaks ==
    /\ AbsStatus = "raced" /\ AbsStatus' = "broken"
    /\ AbsFree' = {} /\ AbsHand' = {} /\ AbsBusy' = AbsBusy
StaysBroken ==
    /\ AbsStatus = "broken" /\ AbsBusy' \in BOOLEAN
    /\ AbsFree' = AbsFree /\ AbsHand' = AbsHand /\ AbsStatus' = AbsStatus

AbsNext ==
    \/ \E r \in Region : Make(r) \/ Give(r) \/ Take(r)
    \/ Settles \/ Closes \/ Reopens \/ Discards \/ Breaks \/ StaysBroken

\* As long as no blocks were destroyed in use, every step of pool_container
\* takes, gives back, makes or releases regions as the abstract pool does in one
\* step, or changes nothing the abstract pool has.
LEMMA SoundStep ==
    ASSUME IInv, IInv', [Next]_vars, harm # "broken", harm' # "broken"
    PROVE  AbsNext \/ Stutter
<1> USE ThreadAssumption DEF Proc, fields, users, owner, history
<1>0. /\ TypeOK /\ CarryInv /\ MutexInv /\ OwnerInv /\ EachOnce /\ LenInv /\ RaceInv
      /\ TypeOK'
    BY DEF IInv, NoDoubleGrant
<1>i. /\ \A x : x \in InHand <=> \/ x \in held
                                 \/ \E p \in Proc : Carries(p) /\ x = reg[p]
      /\ \A x : x \in InHand' <=> \/ x \in held'
                                  \/ \E p \in Proc : Carries(p)' /\ x = reg'[p]
    BY DEF InHand
<1>e. (\A x : x \in InHand' <=> x \in InHand) => InHand' = InHand
    BY Zenon
<1>a. /\ AbsFree = block_list \ InHand /\ AbsFree' = block_list' \ InHand'
      /\ AbsHand = InHand /\ AbsHand' = InHand'
      /\ AbsBusy = (mutex \in Thread) /\ AbsBusy' = (mutex' \in Thread)
    BY DEF AbsFree, AbsHand, AbsBusy
<1>b. /\ stage \notin Releasing => AbsStatus = "open"
      /\ harm = "none" /\ stage \in Releasing => AbsStatus = "closing"
      /\ harm = "raced" /\ stage \in Releasing => AbsStatus = "raced"
      /\ harm \in {"none", "raced"}
    BY <1>0, StatusIs DEF TypeOK, Harm
<1>c. /\ stage' \notin Releasing => AbsStatus' = "open"
      /\ harm' = "none" /\ stage' \in Releasing => AbsStatus' = "closing"
      /\ harm' = "raced" /\ stage' \in Releasing => AbsStatus' = "raced"
      /\ harm' \in {"none", "raced"}
    BY <1>0 DEF TypeOK, Harm, AbsStatus
<1>h. ASSUME harm' = harm, stage' = stage PROVE AbsStatus' = AbsStatus
    BY <1>h, <1>b, <1>c
<1>s. ASSUME stage' = stage, harm' = harm, block_list' = block_list, InHand' = InHand,
             mutex' = mutex
      PROVE  Stutter
    BY <1>s, <1>a, <1>h DEF Stutter
<1>1. ASSUME NEW t \in Thread, NEW r \in Region, CallPush(t, r) PROVE Stutter
  <2>1. InHand' = InHand
      BY <1>0, <1>i, <1>e, <1>1 DEF CallPush, TypeOK, Carries
  <2> QED BY <1>1, <2>1, <1>s DEF CallPush
<1>2. ASSUME NEW t \in Thread, CallPop(t) PROVE Stutter
  <2>1. InHand' = InHand
      BY <1>0, <1>i, <1>e, <1>2 DEF CallPop, TypeOK, Carries
  <2> QED BY <1>2, <2>1, <1>s DEF CallPop
<1>3. ASSUME NEW p \in Proc, SpuriousWake(p) PROVE Stutter
  <2>1. InHand' = InHand
      BY <1>0, <1>i, <1>e, <1>3 DEF SpuriousWake, TypeOK, Carries
  <2> QED BY <1>3, <2>1, <1>s DEF SpuriousWake
<1>4. ASSUME NEW p \in Proc, PushLock(p) PROVE \E r \in Region : Give(r)
  <2>1. reg[p] \in Region /\ reg[p] \in InHand
      BY <1>0, <1>i, <1>4 DEF PushLock, CarryInv, Carries
  <2>2. InHand' = InHand \ {reg[p]}
      BY <1>0, <1>i, <1>4 DEF PushLock, TypeOK, Carries, EachOnce
  <2>3. reg[p] \in block_list /\ block_list' = block_list
      BY <1>0, <1>4, <2>1 DEF PushLock, EachOnce
  <2>4. ~AbsBusy /\ AbsStatus' = AbsStatus
      BY <1>4, <1>a, <1>h DEF PushLock
  <2>b. AbsBusy' \in BOOLEAN
      BY DEF AbsBusy
  <2>5. AbsHand' = AbsHand \ {reg[p]} /\ AbsFree' = AbsFree \cup {reg[p]}
      BY <2>1, <2>2, <2>3, <1>a
  <2>6. Give(reg[p])
      BY <2>1, <2>4, <2>b, <2>5, <1>a DEF Give
  <2> QED BY <2>1, <2>6
<1>m. ASSUME NEW p \in Proc, mutex = p, mutex' = None, stage' = stage, harm' = harm,
             block_list' = block_list, InHand' = InHand
      PROVE  Settles \/ Stutter
  <2>1. AbsFree' = AbsFree /\ AbsHand' = AbsHand /\ AbsStatus' = AbsStatus
      BY <1>m, <1>a, <1>h
  <2>2. CASE p \in Thread
    <3>1. AbsBusy /\ ~AbsBusy'
        BY <1>m, <2>2 DEF AbsBusy
    <3>2. AbsBusy' = FALSE
        BY <3>1 DEF AbsBusy
    <3> QED BY <2>1, <3>1, <3>2 DEF Settles
  <2>3. CASE p \notin Thread
    <3>1. ~AbsBusy /\ ~AbsBusy'
        BY <1>m, <2>3 DEF AbsBusy
    <3>2. AbsBusy' = AbsBusy
        BY <3>1 DEF AbsBusy
    <3> QED BY <2>1, <3>2 DEF Stutter
  <2> QED BY <2>2, <2>3
<1>5. ASSUME NEW p \in Proc, PushCount(p) PROVE Settles \/ Stutter
  <2>1. InHand' = InHand
      BY <1>0, <1>i, <1>e, <1>5 DEF PushCount, TypeOK, Carries
  <2>2. mutex = p
      BY <1>0, <1>5 DEF PushCount, MutexInv, Critical
  <2> QED BY <1>5, <2>1, <2>2, <1>m DEF PushCount
<1>6. ASSUME NEW p \in Proc, PushNotify(p) PROVE Stutter
  <2>1. /\ \A q \in Proc : Carries(q)' <=> Carries(q)
        /\ \A q \in Proc : Carries(q) => reg'[q] = reg[q]
      BY <1>0, <1>6 DEF PushNotify, Waiters, TypeOK, Carries
  <2>2. InHand' = InHand
      BY <1>i, <1>e, <1>6, <2>1 DEF PushNotify
  <2> QED BY <1>6, <2>2, <1>s DEF PushNotify
<1>7. ASSUME NEW p \in Proc, PopWait(p) PROVE Stutter
  <2>1. InHand' = InHand
      BY <1>0, <1>i, <1>e, <1>7 DEF PopWait, TypeOK, Carries
  <2> QED BY <1>7, <2>1, <1>s DEF PopWait
<1>8. ASSUME NEW p \in Proc, PopTake(p) PROVE Stutter \/ \E r \in Region : Take(r)
  <2> DEFINE e == free_list[Len(free_list)]
  <2>1. e \in Region /\ e \in Range(free_list)
      BY <1>0, <1>8, FrontRange DEF PopTake, TypeOK, EachOnce, NoDup
  <2>2. reg' = [reg EXCEPT ![p] = e] /\ e \notin InHand /\ e \in block_list
      BY <1>0, <1>8, <2>1 DEF PopTake, EachOnce
  <2> HIDE DEF e
  <2>3. CASE p = Owner
    <3>1. InHand' = InHand
        BY <1>0, <1>i, <1>e, <1>8, <2>2, <2>3 DEF PopTake, TypeOK, Carries
    <3>2. AbsBusy' = AbsBusy /\ AbsStatus' = AbsStatus
        BY <1>8, <2>3, <1>a, <1>h DEF PopTake
    <3> QED BY <1>8, <3>1, <3>2, <1>a DEF PopTake, Stutter
  <2>4. CASE p # Owner
    <3>1. InHand' = InHand \cup {e}
        BY <1>0, <1>i, <1>8, <2>2, <2>4 DEF PopTake, TypeOK, Carries
    <3>2. ~AbsBusy /\ AbsBusy' = TRUE
        BY <1>8, <2>4, <1>a DEF PopTake
    <3>3. AbsStatus' = IF AbsStatus = "closing" THEN "raced" ELSE AbsStatus
        BY <1>8, <2>4, <1>b, <1>c DEF PopTake
    <3>4. e \in AbsFree /\ AbsFree' = AbsFree \ {e} /\ AbsHand' = AbsHand \cup {e}
        BY <1>8, <2>2, <3>1, <1>a DEF PopTake
    <3> QED BY <2>1, <3>2, <3>3, <3>4 DEF Take
  <2> QED BY <2>3, <2>4
<1>9. ASSUME NEW p \in Proc, PopCount(p) PROVE Settles \/ Stutter
  <2>1. InHand' = InHand
      BY <1>0, <1>i, <1>e, <1>9 DEF PopCount, TypeOK, Carries
  <2>2. mutex = p
      BY <1>0, <1>9 DEF PopCount, MutexInv, Critical
  <2> QED BY <1>9, <2>1, <2>2, <1>m DEF PopCount
<1>10. ASSUME NEW r \in Region, AllocateChunk(r) PROVE Make(r)
  <2>1. /\ InHand' = InHand \cup {r}
        /\ r \notin InHand /\ r \notin block_list
        /\ InHand \subseteq block_list
      BY <1>0, <1>i, <1>10 DEF AllocateChunk, TypeOK, Carries, EachOnce
  <2>2. AbsStatus = "open" /\ AbsStatus' = AbsStatus
      BY <1>10, <1>b, <1>h DEF AllocateChunk, Releasing
  <2>3. AbsHand' = AbsHand \cup {r} /\ AbsFree' = AbsFree /\ r \notin AbsFree \cup AbsHand
      BY <1>10, <2>1, <1>a DEF AllocateChunk
  <2> QED BY <1>10, <2>2, <2>3, <1>a DEF AllocateChunk, Make
<1>p. ASSUME UNCHANGED <<block_list, mutex, pc, reg, held>>
      PROVE  /\ AbsFree' = AbsFree /\ AbsHand' = AbsHand /\ AbsBusy' = AbsBusy
             /\ InHand' = InHand
    BY <1>p, <1>a DEF InHand, Carries
<1>11. ASSUME AllocateDone \/ PassedOver \/ RefuseSize PROVE Stutter
  <2>1. AbsStatus = "open" /\ AbsStatus' = "open"
      BY <1>11, <1>b, <1>c DEF AllocateDone, PassedOver, RefuseSize, Goto, Releasing
  <2> QED BY <1>11, <2>1, <1>p DEF AllocateDone, PassedOver, RefuseSize, Stutter
<1>12. ASSUME PassSize PROVE Closes
  <2>1. AbsStatus = "open" /\ harm = "none"
      BY <1>0, <1>12, <1>b DEF PassSize, Releasing, OwnerInv
  <2>2. CASE mutex = None
    <3>1. InHand = {}
        BY <1>0, <1>12, <2>2, AllAtHome DEF PassSize, SizesDiffer, LenInv
    <3>2. AbsStatus' = "closing"
        BY <1>12, <2>1, <2>2, <1>c DEF PassSize, Goto, Releasing
    <3> QED BY <1>12, <2>1, <2>2, <3>1, <3>2, <1>a, <1>p DEF PassSize, Closes
  <2>3. CASE mutex # None
    <3>1. mutex \in Thread
        BY <1>0, <1>12, <2>3 DEF PassSize, OwnerInv, MutexInv, Critical, TypeOK
    <3>2. AbsStatus' = "raced"
        BY <1>12, <2>1, <2>3, <1>c DEF PassSize, Goto, Releasing
    <3> QED BY <1>12, <2>1, <3>1, <3>2, <1>a, <1>p DEF PassSize, Closes
  <2> QED BY <2>2, <2>3
<1>13. ASSUME TestCount PROVE Reopens \/ Stutter
  <2>1. CASE stage' = "drain"
      BY <1>13, <2>1, <1>b, <1>c, <1>p DEF TestCount, Goto, Releasing, Stutter, Forgive
  <2>2. CASE stage' # "drain"
    <3>1. AbsStatus \in {"closing", "raced"} /\ AbsStatus' = "open"
        BY <1>13, <2>2, <1>b, <1>c DEF TestCount, Goto, Releasing
    <3> QED BY <1>13, <3>1, <1>p DEF TestCount, Reopens
  <2> QED BY <2>1, <2>2
<1>14. ASSUME DrainPop PROVE Stutter
  <2>1. InHand' = InHand
      BY <1>0, <1>i, <1>e, <1>14 DEF DrainPop, TypeOK, Carries
  <2> QED BY <1>14, <2>1, <1>s DEF DrainPop
<1>15. ASSUME DrainDone PROVE Stutter
  <2>1. AbsStatus' = AbsStatus
      BY <1>15, <1>b, <1>c DEF DrainDone, Goto, Releasing
  <2> QED BY <1>15, <2>1, <1>p DEF DrainDone, Stutter
<1>16. ASSUME Clear PROVE Discards
  <2>1. InHand = {} /\ InHand' = InHand
      BY <1>16 DEF Clear, InHand, Carries
  <2>2. AbsStatus \in {"closing", "raced"} /\ AbsStatus' = "open"
      BY <1>16, <1>b, <1>c DEF Clear, Goto, Releasing
  <2> QED BY <1>16, <2>1, <2>2, <1>a DEF Clear, Discards
<1>17. CASE UNCHANGED vars
  <2>1. InHand' = InHand
      BY <1>17 DEF vars, InHand, Carries
  <2> QED BY <1>17, <2>1, <1>s DEF vars
<1>18. CASE \E p \in Proc : Inside(p) \/ SpuriousWake(p)
    BY <1>18, <1>3, <1>4, <1>5, <1>6, <1>7, <1>8, <1>9 DEF Inside, AbsNext
<1>19. CASE UserNext
    BY <1>19, <1>1, <1>2 DEF UserNext, AbsNext
<1>20. CASE OwnerNext
    BY <1>20, <1>10, <1>11, <1>12, <1>13, <1>14, <1>15, <1>16
    DEF OwnerNext, OwnerStep, AbsNext
<1> QED BY <1>17, <1>18, <1>19, <1>20 DEF Next

\* Blocks are destroyed in use only where the abstract pool may break.
LEMMA BreakStep ==
    ASSUME IInv, IInv', [Next]_vars, harm' = "broken"
    PROVE  Breaks \/ StaysBroken
<1>0. TypeOK /\ RaceInv /\ TypeOK'
    BY DEF IInv
<1>1. AbsStatus' = "broken" /\ AbsFree' = {} /\ AbsHand' = {} /\ AbsBusy' \in BOOLEAN
    BY DEF AbsStatus, AbsFree, AbsHand, AbsBusy
<1>2. CASE harm = "broken"
    BY <1>0, <1>1, <1>2, StatusIs DEF StaysBroken, AbsFree, AbsHand
<1>3. CASE harm # "broken"
  <2>1. Clear
      BY <1>3
      DEF Next, OwnerNext, OwnerStep, UserNext, Inside, CallPush, CallPop, SpuriousWake,
          PushLock, PushCount, PushNotify, PopWait, PopTake, PopCount, AllocateChunk,
          AllocateDone, PassedOver, RefuseSize, PassSize, TestCount, DrainPop,
          DrainDone, Forgive, history, vars
  <2>2. harm = "raced" /\ stage \in Releasing
      BY <1>0, <1>3, <2>1 DEF Clear, RaceInv, TypeOK, Harm, Releasing, Forgive
  <2>3. AbsStatus = "raced" /\ AbsBusy' = AbsBusy
      BY <1>0, <2>1, <2>2, StatusIs DEF Clear, AbsBusy
  <2> QED BY <1>1, <2>3 DEF Breaks
<1> QED BY <1>2, <1>3

\* pool_container implements the abstract pool: to its users push and pop are
\* atomic, and blocks disappear while one is in hand only if a user took a region
\* while DeallocatePool was at work.
THEOREM RefinesRegionPool == Spec => ImplementsRegionPool
<1>1. Init => Abstract!Init
    BY ThreadAssumption DEF Init, Abstract!Init, InHand, Carries, Releasing
<1>2. ASSUME IInv, IInv', [Next]_vars PROVE AbsNext \/ Stutter
  <2>1. CASE harm' = "broken"
      BY <1>2, <2>1, BreakStep DEF AbsNext
  <2>2. CASE harm' # "broken"
      BY <1>2, <2>2, BrokenStep, SoundStep
  <2> QED BY <2>1, <2>2
<1>3. ASSUME AbsNext \/ Stutter PROVE [Abstract!Next]_(Abstract!vars)
    BY <1>3
    DEF AbsNext, Stutter, Make, Give, Take, Settles, Closes, Reopens, Discards, Breaks,
        StaysBroken, AbsFree, AbsHand, AbsBusy, AbsStatus, Abstract!Next,
        Abstract!Create, Abstract!Release, Abstract!Acquire, Abstract!Settle,
        Abstract!Close, Abstract!Reopen, Abstract!Discard, Abstract!Break,
        Abstract!Broken, Abstract!vars
<1>4. IInv /\ IInv' /\ [Next]_vars => [Abstract!Next]_(Abstract!vars)
    BY <1>2, <1>3
<1> QED BY <1>1, <1>4, Invariance, PTL DEF Spec, ImplementsRegionPool, Abstract!Spec
=============================================================================
