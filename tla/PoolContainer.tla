--------------------------- MODULE PoolContainer ---------------------------
(***************************************************************************)
(* pool_container (RdmaMemoryPool.h): one free list of registered regions, *)
(* shared by the threads of the parcelport, guarded by memBuffer_mutex_ and *)
(* memBuffer_cond_.                                                        *)
(*                                                                         *)
(* A critical section is split where code that does not take the mutex     *)
(* can see it half done: the free list changes in one step and the atomic  *)
(* region_use_count_ in the next.  notify_one is called after the unlock   *)
(* and is a step of its own.                                               *)
(*                                                                         *)
(* Owner is the thread that runs the constructor and setProtectionDomain   *)
(* of the memory pool, hence AllocatePool and DeallocatePool.  Once the    *)
(* constructor is done users call push and pop at any time, also while the *)
(* owner empties or refills the pool: nothing in the code keeps them out.  *)
(* The owner reads the size of the free list without the mutex; while      *)
(* another thread is inside its critical section that read is a data race, *)
(* and can return any size.                                                *)
(***************************************************************************)
EXTENDS Integers, Sequences, FiniteSets, Functions

CONSTANTS
    Thread,      \* the users of the pool
    Completer,   \* the users that only give regions back: completion handlers
    Owner,       \* the thread that builds, empties and refills the pool
    Region,      \* addresses at which a region object can be
    NumChunks,   \* _num_chunks, the regions one AllocatePool makes
    MaxCalls,    \* bound: calls of AllocatePool, the constructor's included
    None         \* no thread, no region

ASSUME ThreadAssumption ==
    /\ IsFiniteSet(Thread)
    /\ Completer \subseteq Thread
    /\ Owner \notin Thread
    /\ None \notin Thread \cup {Owner}
ASSUME RegionAssumption == IsFiniteSet(Region) /\ None \notin Region
ASSUME ChunksAssumption == NumChunks \in Nat \ {0} /\ NumChunks <= Cardinality(Region)
ASSUME CallsAssumption == MaxCalls \in Nat

VARIABLES
    free_list,         \* the free regions; the last one is handed out next
    block_list,        \* the regions the pool keeps alive
    region_use_count,  \* std::atomic<int>
    mutex,             \* the thread that has memBuffer_mutex_
    pc,                \* where each thread is
    reg,               \* the region a call of push or pop is about
    held,              \* regions users got from pop and have not passed to push
    stage,             \* what the owner is doing with the pool
    todo,              \* the chunks AllocatePool has still to make
    calls,             \* how often AllocatePool has finished
    atReset,           \* history: regions out when the count was last reset
    harm               \* history: what an overlap with DeallocatePool has done

fields == <<free_list, block_list, region_use_count, mutex>>
users == <<pc, reg, held>>
owner == <<stage, todo, calls>>
history == <<atReset, harm>>
vars == <<fields, users, owner, history>>

Proc == Thread \cup {Owner}

PC == {"idle", "push", "push_count", "notify", "pop", "wait", "pop_count"}

\* DeallocatePool has compared the sizes ("count"), and also the count
\* ("drain"), and has emptied the list ("clear").
Releasing == {"count", "drain", "clear"}

Stage == {"allocate", "open"} \cup Releasing

\* "raced": since DeallocatePool compared the sizes a user took a region, or one
\* was inside a critical section at that moment.  "broken": blocks have been
\* destroyed that a user had or that stayed on the free list.
Harm == {"none", "raced", "broken"}

Waiters == {t \in Proc : pc[t] = "wait"}

\* A call of push has its region in hand up to the critical section, a call of
\* pop from the critical section on; what DeallocatePool pops it drops.
Carries(p) == pc[p] = "push" \/ (pc[p] = "pop_count" /\ p # Owner)

InHand == held \cup {reg[p] : p \in {q \in Proc : Carries(q)}}

\* What the critical section in progress has still to add to the count.
Pending ==
    Cardinality({p \in Proc : pc[p] = "push_count"})
        - Cardinality({p \in Proc : pc[p] = "pop_count"})

\* pool_container's constructor: nothing allocated, nothing in use.
Init ==
    /\ free_list = <<>>
    /\ block_list = {}
    /\ region_use_count = 0
    /\ mutex = None
    /\ pc = [p \in Proc |-> "idle"]
    /\ reg = [p \in Proc |-> None]
    /\ held = {}
    /\ stage = "allocate"
    /\ todo = NumChunks
    /\ calls = 0
    /\ atReset = 0
    /\ harm = "none"

-----------------------------------------------------------------------------
(* push: give a region back. *)

CallPush(t, r) ==
    /\ calls > 0
    /\ pc[t] = "idle"
    /\ r \in held
    /\ held' = held \ {r}
    /\ reg' = [reg EXCEPT ![t] = r]
    /\ pc' = [pc EXCEPT ![t] = "push"]
    /\ UNCHANGED <<fields, owner, history>>

\* A debug build terminates if the region is on the list already; by
\* NoDoubleGrant it never is, unless blocks were destroyed in use.
PushLock(p) ==
    /\ pc[p] = "push"
    /\ mutex = None
    /\ mutex' = p
    /\ free_list' = Append(free_list, reg[p])
    /\ pc' = [pc EXCEPT ![p] = "push_count"]
    /\ UNCHANGED <<block_list, region_use_count, reg, held, owner, history>>

PushCount(p) ==
    /\ pc[p] = "push_count"
    /\ region_use_count' = region_use_count - 1
    /\ mutex' = None
    /\ pc' = [pc EXCEPT ![p] = "notify"]
    /\ UNCHANGED <<free_list, block_list, reg, held, owner, history>>

\* mutant: wake a waiter only when the list was empty before this push.
PushNotifyFirst(p) ==
    /\ pc[p] = "notify"
    /\ reg' = [reg EXCEPT ![p] = None]
    /\ IF Waiters = {} \/ Len(free_list) > 1
       THEN pc' = [pc EXCEPT ![p] = "idle"]
       ELSE \E w \in Waiters : pc' = [pc EXCEPT ![p] = "idle", ![w] = "pop"]
    /\ UNCHANGED <<fields, held, owner, history>>

\* notify_one wakes any one of the waiters, or nobody.
PushNotify(p) ==
    /\ pc[p] = "notify"
    /\ reg' = [reg EXCEPT ![p] = None]
    /\ \/ Waiters = {} /\ pc' = [pc EXCEPT ![p] = "idle"]
       \/ \E w \in Waiters : pc' = [pc EXCEPT ![p] = "idle", ![w] = "pop"]
    /\ UNCHANGED <<fields, held, owner, history>>

-----------------------------------------------------------------------------
(* pop: get a region, waiting until there is one. *)

CallPop(t) ==
    /\ calls > 0
    /\ t \notin Completer
    /\ pc[t] = "idle"
    /\ pc' = [pc EXCEPT ![t] = "pop"]
    /\ UNCHANGED <<fields, reg, held, owner, history>>

\* The predicate of wait is false: the mutex is released and the thread sleeps.
PopWait(p) ==
    /\ pc[p] = "pop"
    /\ mutex = None
    /\ free_list = <<>>
    /\ pc' = [pc EXCEPT ![p] = "wait"]
    /\ UNCHANGED <<fields, reg, held, owner, history>>

\* mutant: the region is read but stays on the list.
PopPeek(p) ==
    /\ pc[p] = "pop"
    /\ mutex = None
    /\ free_list # <<>>
    /\ mutex' = p
    /\ reg' = [reg EXCEPT ![p] = free_list[Len(free_list)]]
    /\ pc' = [pc EXCEPT ![p] = "pop_count"]
    /\ UNCHANGED <<free_list, block_list, region_use_count, held, owner, history>>

\* The predicate of wait is true, at once or after a wake-up.
PopTake(p) ==
    /\ pc[p] = "pop"
    /\ mutex = None
    /\ free_list # <<>>
    /\ mutex' = p
    /\ reg' = [reg EXCEPT ![p] = free_list[Len(free_list)]]
    /\ free_list' = SubSeq(free_list, 1, Len(free_list) - 1)
    /\ pc' = [pc EXCEPT ![p] = "pop_count"]
    /\ harm' = IF p # Owner /\ stage \in Releasing /\ harm = "none" THEN "raced" ELSE harm
    /\ UNCHANGED <<block_list, region_use_count, held, owner, atReset>>

\* mutant: the region pointer is cleared before it is returned.
PopCountCleared(p) ==
    /\ pc[p] = "pop_count"
    /\ region_use_count' = region_use_count + 1
    /\ mutex' = None
    /\ reg' = [reg EXCEPT ![p] = None]
    /\ held' = IF p = Owner THEN held ELSE held \cup {reg'[p]}
    /\ pc' = [pc EXCEPT ![p] = "idle"]
    /\ UNCHANGED <<free_list, block_list, owner, history>>

\* DeallocatePool drops the pointer pop returns; a user keeps it.
PopCount(p) ==
    /\ pc[p] = "pop_count"
    /\ region_use_count' = region_use_count + 1
    /\ mutex' = None
    /\ reg' = [reg EXCEPT ![p] = None]
    /\ held' = IF p = Owner THEN held ELSE held \cup {reg[p]}
    /\ pc' = [pc EXCEPT ![p] = "idle"]
    /\ UNCHANGED <<free_list, block_list, owner, history>>

\* A condition variable may wake a thread that nobody notified.
SpuriousWake(p) ==
    /\ pc[p] = "wait"
    /\ pc' = [pc EXCEPT ![p] = "pop"]
    /\ UNCHANGED <<fields, reg, held, owner, history>>

-----------------------------------------------------------------------------
(* AllocatePool: in the constructor before the pool has users, and again at *)
(* the end of setProtectionDomain, whether or not the blocks there were    *)
(* have been released.                                                     *)

AllocateChunk(r) ==
    /\ stage = "allocate"
    /\ pc[Owner] = "idle"
    /\ todo > 0
    /\ todo' = todo - 1
    /\ r \notin block_list
    /\ block_list' = block_list \cup {r}
    /\ reg' = [reg EXCEPT ![Owner] = r]
    /\ pc' = [pc EXCEPT ![Owner] = "push"]
    /\ UNCHANGED <<free_list, region_use_count, mutex, held, stage, calls, history>>

\* mutant: the count that the pushes of AllocatePool left is not reset.
AllocateDoneNoReset ==
    /\ stage = "allocate"
    /\ pc[Owner] = "idle"
    /\ todo = 0
    /\ atReset' = Cardinality(block_list) - Len(free_list) + Pending
    /\ stage' = "open"
    /\ todo' = NumChunks
    /\ calls' = calls + 1
    /\ UNCHANGED <<fields, users, harm>>

AllocateDone ==
    /\ stage = "allocate"
    /\ pc[Owner] = "idle"
    /\ todo = 0
    /\ region_use_count' = 0
    /\ atReset' = Cardinality(block_list) - Len(free_list) + Pending
    /\ stage' = "open"
    /\ todo' = NumChunks
    /\ calls' = calls + 1
    /\ UNCHANGED <<free_list, block_list, mutex, users, harm>>

-----------------------------------------------------------------------------
(* setProtectionDomain: DeallocatePool, then AllocatePool whatever          *)
(* DeallocatePool returned.                                                *)

\* Bounds: the calls of AllocatePool, and room for one more set of chunks.
MayReallocate == calls < MaxCalls /\ Cardinality(Region \ block_list) >= NumChunks

Goto(s) == stage' = s /\ UNCHANGED <<todo, calls>>

Forgive == harm' = IF harm = "raced" THEN "none" ELSE harm

\* A pool before this one was refused: DeallocateList passes this one over.
PassedOver ==
    /\ stage = "open"
    /\ MayReallocate
    /\ Goto("allocate")
    /\ UNCHANGED <<fields, users, history>>

\* mutant: only the count is compared.
SizesDifferNever ==
    FALSE

SizesDiffer == Len(free_list) # Cardinality(block_list)

\* free_list_.size() != block_list_.size(), read without the mutex.
RefuseSize ==
    /\ stage = "open"
    /\ MayReallocate
    /\ SizesDiffer \/ mutex # None
    /\ Goto("allocate")
    /\ UNCHANGED <<fields, users, history>>

PassSize ==
    /\ stage = "open"
    /\ MayReallocate
    /\ ~SizesDiffer \/ mutex # None
    /\ harm' = IF mutex # None /\ harm = "none" THEN "raced" ELSE harm
    /\ Goto("count")
    /\ UNCHANGED <<fields, users, atReset>>

\* region_use_count_ != 0
TestCount ==
    /\ stage = "count"
    /\ \/ region_use_count = 0 /\ Goto("drain") /\ UNCHANGED harm
       \/ region_use_count # 0 /\ Goto("allocate") /\ Forgive
    /\ UNCHANGED <<fields, users, atReset>>

\* while (!free_list_.empty()), again without the mutex: pop may have to wait.
DrainPop ==
    /\ stage = "drain"
    /\ pc[Owner] = "idle"
    /\ free_list # <<>> \/ mutex # None
    /\ pc' = [pc EXCEPT ![Owner] = "pop"]
    /\ UNCHANGED <<fields, reg, held, owner, history>>

DrainDone ==
    /\ stage = "drain"
    /\ pc[Owner] = "idle"
    /\ free_list = <<>> \/ mutex # None
    /\ Goto("clear")
    /\ UNCHANGED <<fields, users, history>>

\* block_list_.clear() destroys the blocks, also those a user has got since.
Clear ==
    /\ stage = "clear"
    /\ block_list' = {}
    /\ IF InHand = {} /\ free_list = <<>> THEN Forgive ELSE harm' = "broken"
    /\ Goto("allocate")
    /\ UNCHANGED <<free_list, region_use_count, mutex, users, atReset>>

-----------------------------------------------------------------------------
Inside(p) ==
    \/ PushLock(p) \/ PushCount(p) \/ PushNotify(p)
    \/ PopWait(p) \/ PopTake(p) \/ PopCount(p)

\* What the owner does once it is inside AllocatePool or DeallocatePool.
OwnerStep ==
    \/ \E r \in Region : AllocateChunk(r)
    \/ AllocateDone
    \/ TestCount \/ DrainPop \/ DrainDone \/ Clear

OwnerNext == PassedOver \/ RefuseSize \/ PassSize \/ OwnerStep

UserNext ==
    \E t \in Thread :
        \/ \E r \in Region : CallPush(t, r)
        \/ CallPop(t)

Next ==
    \/ OwnerNext
    \/ UserNext
    \/ \E p \in Proc : Inside(p) \/ SpuriousWake(p)

\* A call that has begun goes on, and completions keep arriving: a completion
\* handler gives back the regions that are in hand.
Fairness ==
    /\ \A p \in Proc : WF_vars(Inside(p))
    /\ WF_vars(OwnerStep)
    /\ \A t \in Completer : WF_vars(\E r \in Region : CallPush(t, r))

Spec == Init /\ [][Next]_vars

FairSpec == Spec /\ Fairness

-----------------------------------------------------------------------------
\* The types of the state: in particular only regions get onto the free list and
\* into users' hands.
TypeOK ==
    /\ free_list \in Seq(Region)
    /\ block_list \subseteq Region
    /\ region_use_count \in Int
    /\ mutex \in Proc \cup {None}
    /\ pc \in [Proc -> PC]
    /\ reg \in [Proc -> Region \cup {None}]
    /\ held \subseteq Region
    /\ stage \in Stage
    /\ todo \in 0..NumChunks
    /\ calls \in Nat
    /\ atReset \in Int
    /\ harm \in Harm

\* Every block is on the free list, in users' hands, or with exactly one call in
\* progress, and in one of them only, and the list has no duplicates; only what
\* DeallocatePool pops is nowhere.
EachOnce ==
    /\ \A i, j \in 1..Len(free_list) : free_list[i] = free_list[j] => i = j
    /\ Range(free_list) \cap InHand = {}
    /\ \A p, q \in Proc : Carries(p) /\ Carries(q) /\ reg[p] = reg[q] => p = q
    /\ \A p \in Proc : Carries(p) => reg[p] \notin held
    /\ Range(free_list) \cup InHand \subseteq block_list
    /\ stage \notin {"drain", "clear"} => block_list \subseteq Range(free_list) \cup InHand

\* No region is handed out twice or lost by racing calls of push and pop, also
\* while the owner empties the pool or fills it a second time under its users,
\* until blocks are destroyed in use.
NoDoubleGrant == harm # "broken" => EachOnce

\* region_use_count_ is the number of blocks that are not on the free list, up
\* to the one update that the critical section in progress has still to make,
\* and off by exactly the number of regions that were out when AllocatePool last
\* set it to zero: setProtectionDomain ignores that DeallocatePool refused, and
\* takes no lock against a push or pop that is half done.
UseCountExact ==
    stage # "allocate" =>
        region_use_count = Cardinality(block_list) - Len(free_list) + Pending - atReset

\* No wake-up is lost although notify_one is called outside the mutex and other
\* threads, the owner emptying the pool included, may take the region first: as
\* long as someone sleeps, every free region has a thread on its way that will
\* notify or take it.
OnTheWay == {p \in Proc : pc[p] \in {"push_count", "notify", "pop"}}

NoLostWakeup ==
    Waiters # {} => Len(free_list) <= Cardinality(OnTheWay)

\* DeallocatePool destroys blocks only when nobody has one and none is left on
\* the list, unless a user took a region after it compared the sizes, or was
\* inside a critical section at that very moment: its test "that this pool is
\* not deleted whilst blocks still exist" is exact but for that race, however
\* wrong the count is.  (A give-back that comes later does no harm.)
ReleasedOnlyWhenReturned ==
    [][block_list \ block_list' # {} =>
           harm # "none" \/ (InHand = {} /\ free_list = <<>>)]_vars

\* Someone waiting for a region leads to a region being handed out, given that
\* completions return the ones in use, and although the owner may empty the
\* pool meanwhile and wait for regions itself.
WaiterProgress ==
    (\E t \in Thread : pc[t] = "wait") ~> (\E t \in Thread : pc[t] = "pop_count")

\* pool_container implements the abstract pool: taking and giving back are
\* atomic at the critical section.  What DeallocatePool has popped counts as
\* free until it gives the blocks up in one step.
Abstract == INSTANCE RegionPool WITH
    free   <- IF harm = "broken" THEN {} ELSE block_list \ InHand,
    inHand <- IF harm = "broken" THEN {} ELSE InHand,
    busy   <- mutex \in Thread,
    status <- CASE harm = "broken" -> "broken"
                [] harm # "broken" /\ stage \notin Releasing -> "open"
                [] harm = "none" /\ stage \in Releasing -> "closing"
                [] harm = "raced" /\ stage \in Releasing -> "raced"

ImplementsRegionPool == Abstract!Spec
=============================================================================
