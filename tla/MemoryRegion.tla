---------------------------- MODULE MemoryRegion ----------------------------
(***************************************************************************)
(* RdmaMemoryRegion (RdmaMemoryRegion.h, .cpp): how a region gets its      *)
(* storage and its registration, and gives them up.                        *)
(*                                                                         *)
(* allocate runs under alloc_mutex; on the bgvrnic device it tries several *)
(* times, keeps the least fragmented region and drops the others.          *)
(* allocate64kB tries once, without the mutex.  A user region registers    *)
(* storage that the user owns.  release is what the destructor calls.      *)
(*                                                                         *)
(* A thread works on one region object at a time.  mmap returns an unused  *)
(* address; which one does not matter, so a fixed choice is made.          *)
(***************************************************************************)
EXTENDS Integers, Sequences, FiniteSets, Functions, SequencesExt

CONSTANTS
    Thread,
    Addr,         \* addresses mmap can return
    UserAddr,     \* buffers of the user
    None,
    Length,       \* the lengths asked for
    Wrap,         \* 2^32, the range of getLength
    Frags,        \* numbers of fragments the device reports
    Sentinel,     \* 100, where minFragments starts
    MaxAllocateAttempts,
    MaxFails      \* bound: calls of mmap and the verbs library that fail

ASSUME MemoryRegionAssumption ==
    /\ Addr \cap UserAddr = {}
    /\ None \notin Addr \cup UserAddr \cup Thread
    /\ Length \subseteq Nat \ {0}
    /\ Frags \subseteq Nat \ {0}
    /\ Wrap \in Nat \ {0}
    /\ Sentinel \in Nat
    /\ MaxAllocateAttempts \in Nat \ {0}
    /\ MaxFails \in Nat

VARIABLES
    bgvrnic,      \* RdmaDevice::bgvrnic_device
    mapped,       \* addresses that are mapped
    len,          \* address -> length of its mapping
    registered,   \* addresses registered with the device
    frags,        \* address -> num_frags of its registration
    alloc_mutex,
    pc,           \* thread -> where it is
    want,         \* thread -> the length allocate was called with
    buffer,       \* thread -> the storage at hand
    list,         \* thread -> regionList, later what is left to drop of it
    region,       \* thread -> _region of its object
    lost,         \* storage that nothing refers to any more
    stuck,        \* addresses whose deregistration failed
    fails         \* number of calls that failed

vars == <<bgvrnic, mapped, len, registered, frags, alloc_mutex, pc, want, buffer, list,
          region, lost, stuck, fails>>

PC == {"idle", "map", "reg", "choose", "drop", "dropUnmap", "reg64", "unmap"}

Init ==
    /\ bgvrnic \in BOOLEAN
    /\ mapped = UserAddr
    /\ len = [a \in Addr \cup UserAddr |-> 0]
    /\ registered = {}
    /\ frags = [a \in Addr \cup UserAddr |-> 0]
    /\ alloc_mutex = None
    /\ pc = [t \in Thread |-> "idle"]
    /\ want = [t \in Thread |-> 0]
    /\ buffer = [t \in Thread |-> None]
    /\ list = [t \in Thread |-> <<>>]
    /\ region = [t \in Thread |-> None]
    /\ lost = {}
    /\ stuck = {}
    /\ fails = 0

Goto(t, l) == pc' = [pc EXCEPT ![t] = l]

-----------------------------------------------------------------------------
(* mmap and ibv_reg_mr, common to the ways of allocating *)

Unmapped == Addr \ mapped

Map(t, l) ==
    /\ Unmapped # {}
    /\ LET a == CHOOSE x \in Unmapped : TRUE
       IN  /\ mapped' = mapped \cup {a}
           /\ len' = [len EXCEPT ![a] = l]
           /\ buffer' = [buffer EXCEPT ![t] = a]

Fail == fails < MaxFails /\ fails' = fails + 1

Register(a, f) ==
    /\ registered' = registered \cup {a}
    /\ frags' = [frags EXCEPT ![a] = f]

\* ibv_dereg_mr, which may fail.
Deregister(a) ==
    \/ /\ registered' = registered \ {a}
       /\ frags' = [frags EXCEPT ![a] = 0]
       /\ UNCHANGED <<stuck, fails>>
    \/ /\ Fail
       /\ stuck' = stuck \cup {a}
       /\ UNCHANGED <<registered, frags>>

-----------------------------------------------------------------------------
(* allocate *)

BeginAllocate(t, l) ==
    /\ pc[t] = "idle"
    /\ region[t] = None
    /\ alloc_mutex = None
    /\ alloc_mutex' = t
    /\ want' = [want EXCEPT ![t] = l]
    /\ Goto(t, "map")
    /\ UNCHANGED <<bgvrnic, mapped, len, registered, frags, buffer, list, region, lost, stuck, fails>>

AllocateMap(t) ==
    /\ pc[t] = "map"
    /\ Map(t, want[t])
    /\ Goto(t, "reg")
    /\ UNCHANGED <<bgvrnic, registered, frags, alloc_mutex, want, list, region, lost, stuck, fails>>

\* mutant: the list is tested before the attempt is counted.
LastAttemptLate(t, f) ==
    ~bgvrnic \/ f <= 1 \/ Len(list[t]) >= MaxAllocateAttempts

\* Enough attempts: one on a normal device; otherwise until a region comes in one
\* piece or the list is full.
LastAttempt(t, f) ==
    ~bgvrnic \/ f <= 1 \/ Len(list[t]) + 1 >= MaxAllocateAttempts

AllocateRegister(t) ==
    /\ pc[t] = "reg"
    /\ \E f \in Frags :
          /\ Register(buffer[t], f)
          /\ Goto(t, IF LastAttempt(t, f) THEN "choose" ELSE "map")
    /\ list' = [list EXCEPT ![t] = Append(@, buffer[t])]
    /\ buffer' = [buffer EXCEPT ![t] = None]
    /\ UNCHANGED <<bgvrnic, mapped, len, alloc_mutex, want, region, lost, stuck, fails>>

\* mmap or ibv_reg_mr fails: allocate returns, and neither the earlier attempts
\* nor the storage just mapped are given back.
AllocateFails(t) ==
    /\ pc[t] \in {"map", "reg"}
    /\ Fail
    /\ lost' = lost \cup Range(list[t]) \cup ({buffer[t]} \ {None})
    /\ want' = [want EXCEPT ![t] = 0]
    /\ list' = [list EXCEPT ![t] = <<>>]
    /\ buffer' = [buffer EXCEPT ![t] = None]
    /\ alloc_mutex' = None
    /\ Goto(t, "idle")
    /\ UNCHANGED <<bgvrnic, mapped, len, registered, frags, region, stuck>>

\* What the loop over the attempts finds: the first one with the fewest fragments,
\* or the first one of all if none has fewer than minFragments starts with.
BestRegion(l) ==
    LET best == {i \in 1..Len(l) :
                    /\ frags[l[i]] < Sentinel
                    /\ \A j \in 1..Len(l) :
                          frags[l[i]] < frags[l[j]] \/ (frags[l[i]] = frags[l[j]] /\ i <= j)}
    IN  IF best = {} THEN 1 ELSE CHOOSE i \in best : TRUE

\* mutant: the first attempt is not dropped.
ChooseSkipsFirst(t) ==
    LET best == BestRegion(list[t])
    IN  /\ pc[t] = "choose"
        /\ buffer' = [buffer EXCEPT ![t] = list[t][best]]
        /\ list' = [list EXCEPT ![t] = SubSeq(RemoveAt(@, best), 2, Len(@) - 1)]
        /\ Goto(t, "drop")
        /\ UNCHANGED <<bgvrnic, mapped, len, registered, frags, alloc_mutex, want, region, lost, stuck, fails>>

Choose(t) ==
    LET best == BestRegion(list[t])
    IN  /\ pc[t] = "choose"
        /\ buffer' = [buffer EXCEPT ![t] = list[t][best]]
        /\ list' = [list EXCEPT ![t] = RemoveAt(@, best)]
        /\ Goto(t, "drop")
        /\ UNCHANGED <<bgvrnic, mapped, len, registered, frags, alloc_mutex, want, region, lost, stuck, fails>>

\* The result of ibv_dereg_mr is not looked at here.
DropDeregister(t) ==
    /\ pc[t] = "drop"
    /\ list[t] # <<>>
    /\ Deregister(Head(list[t]))
    /\ Goto(t, "dropUnmap")
    /\ UNCHANGED <<bgvrnic, mapped, len, alloc_mutex, want, buffer, list, region, lost>>

DropUnmap(t) ==
    /\ pc[t] = "dropUnmap"
    /\ mapped' = mapped \ {Head(list[t])}
    /\ list' = [list EXCEPT ![t] = Tail(@)]
    /\ Goto(t, "drop")
    /\ UNCHANGED <<bgvrnic, len, registered, frags, alloc_mutex, want, buffer, region, lost, stuck, fails>>

Keep(t) ==
    /\ pc[t] = "drop"
    /\ list[t] = <<>>
    /\ region' = [region EXCEPT ![t] = buffer[t]]
    /\ buffer' = [buffer EXCEPT ![t] = None]
    /\ want' = [want EXCEPT ![t] = 0]
    /\ alloc_mutex' = None
    /\ Goto(t, "idle")
    /\ UNCHANGED <<bgvrnic, mapped, len, registered, frags, list, lost, stuck, fails>>

-----------------------------------------------------------------------------
(* allocate64kB, and the constructor of a user region; how fragmented these *)
(* are does not matter                                                      *)

Allocate64kB(t) ==
    /\ pc[t] = "idle"
    /\ region[t] = None
    /\ Map(t, 1)
    /\ Goto(t, "reg64")
    /\ UNCHANGED <<bgvrnic, registered, frags, alloc_mutex, want, list, region, lost, stuck, fails>>

Register64kB(t) ==
    /\ pc[t] = "reg64"
    /\ Register(buffer[t], 1)
    /\ region' = [region EXCEPT ![t] = buffer[t]]
    /\ buffer' = [buffer EXCEPT ![t] = None]
    /\ Goto(t, "idle")
    /\ UNCHANGED <<bgvrnic, mapped, len, alloc_mutex, want, list, lost, stuck, fails>>

\* Unlike in allocate the storage is given back.
Register64kBFails(t) ==
    /\ pc[t] = "reg64"
    /\ Fail
    /\ mapped' = mapped \ {buffer[t]}
    /\ buffer' = [buffer EXCEPT ![t] = None]
    /\ Goto(t, "idle")
    /\ UNCHANGED <<bgvrnic, len, registered, frags, alloc_mutex, want, list, region, lost, stuck>>

RegisterUser(t, a) ==
    /\ pc[t] = "idle"
    /\ region[t] = None
    /\ a \notin registered
    /\ Register(a, 1)
    /\ region' = [region EXCEPT ![t] = a]
    /\ UNCHANGED <<bgvrnic, mapped, len, alloc_mutex, pc, want, buffer, list, lost, stuck, fails>>

-----------------------------------------------------------------------------
(* release *)

\* If ibv_dereg_mr fails, release returns and the destructor drops the region.
ReleaseDeregister(t) ==
    LET a == region[t]
    IN  /\ pc[t] = "idle"
        /\ a # None
        /\ Deregister(a)
        /\ IF fails' # fails
           THEN /\ lost' = lost \cup ({a} \ UserAddr)
                /\ region' = [region EXCEPT ![t] = None]
                /\ UNCHANGED <<pc, buffer>>
           ELSE /\ buffer' = [buffer EXCEPT ![t] = a]
                /\ region' = [region EXCEPT ![t] = None]
                /\ Goto(t, "unmap")
                /\ UNCHANGED lost
        /\ UNCHANGED <<bgvrnic, mapped, len, alloc_mutex, want, list>>

\* mutant: user storage is unmapped like any other.
ReleaseUnmapAll(t) ==
    /\ pc[t] = "unmap"
    /\ mapped' = mapped \ {buffer[t]}
    /\ buffer' = [buffer EXCEPT ![t] = None]
    /\ Goto(t, "idle")
    /\ UNCHANGED <<bgvrnic, len, registered, frags, alloc_mutex, want, list, region, lost, stuck, fails>>

\* munmap of the length modulo 2^32: of a larger region the rest stays mapped.
ReleaseUnmap(t) ==
    LET a == buffer[t]
    IN  /\ pc[t] = "unmap"
        /\ mapped' = IF a \in UserAddr \/ len[a] >= Wrap THEN mapped ELSE mapped \ {a}
        /\ lost' = lost \cup (({a} \cap mapped') \ UserAddr)
        /\ buffer' = [buffer EXCEPT ![t] = None]
        /\ Goto(t, "idle")
        /\ UNCHANGED <<bgvrnic, len, registered, frags, alloc_mutex, want, list, region, stuck, fails>>

Next ==
    \E t \in Thread :
        \/ \E l \in Length : BeginAllocate(t, l)
        \/ AllocateMap(t) \/ AllocateRegister(t) \/ AllocateFails(t)
        \/ Choose(t) \/ DropDeregister(t) \/ DropUnmap(t) \/ Keep(t)
        \/ Allocate64kB(t) \/ Register64kB(t) \/ Register64kBFails(t)
        \/ \E a \in UserAddr : RegisterUser(t, a)
        \/ ReleaseDeregister(t) \/ ReleaseUnmap(t)

Spec == Init /\ [][Next]_vars

-----------------------------------------------------------------------------
\* Includes that regionList is never written beyond its end.
TypeOK ==
    /\ bgvrnic \in BOOLEAN
    /\ mapped \subseteq Addr \cup UserAddr
    /\ len \in [Addr \cup UserAddr -> Nat]
    /\ registered \subseteq Addr \cup UserAddr
    /\ frags \in [Addr \cup UserAddr -> Nat]
    /\ alloc_mutex \in Thread \cup {None}
    /\ pc \in [Thread -> PC]
    /\ want \in [Thread -> Nat]
    /\ buffer \in [Thread -> Addr \cup UserAddr \cup {None}]
    /\ list \in [Thread -> Seq(Addr)]
    /\ \A t \in Thread : Len(list[t]) <= MaxAllocateAttempts
    /\ region \in [Thread -> Addr \cup UserAddr \cup {None}]
    /\ lost \subseteq Addr
    /\ stuck \subseteq Addr \cup UserAddr
    /\ fails \in 0..MaxFails

\* The storage of its own that thread t has in its region or works on.
Owned(t) == (Range(list[t]) \cup {region[t], buffer[t]}) \ ({None} \cup UserAddr)

\* The device never has a registration for storage that is gone: regions are
\* deregistered before they are unmapped, in release and where allocate drops
\* its failed attempts, and the storage of a user region is not unmapped at all.
RegisteredIsMapped ==
    /\ registered \ stuck \subseteq mapped
    /\ UserAddr \subseteq mapped

\* Storage belongs to one region, and no storage is lost however the attempts of
\* allocate go, unless a system call failed or a length did not fit in 32 bits.
StorageAccounted ==
    /\ \A t, u \in Thread : t # u => Owned(t) \cap Owned(u) = {}
    /\ mapped \ UserAddr \subseteq lost \cup UNION {Owned(t) : t \in Thread}
    /\ fails = 0 => \A a \in lost : len[a] >= Wrap
=============================================================================
