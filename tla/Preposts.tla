------------------------------ MODULE Preposts ------------------------------
(***************************************************************************)
(* Pre-posted receives: RdmaConnectionBase's count of waiting receives,    *)
(* refill_preposts, RdmaController::refill_client_receives, and the        *)
(* polling of completions that consumes the receives.  Several threads run *)
(* all of this concurrently: each of them calls eventMonitor, and the      *)
(* completion callback of the parcelport calls refill_client_receives.     *)
(*                                                                         *)
(* Only the pool of small regions matters; regions are interchangeable, so *)
(* they are counted.  _waitingReceives is an unsigned counter read through *)
(* a narrower unsigned type: it wraps at Wrap.                             *)
(***************************************************************************)
EXTENDS Integers, FiniteSets

CONSTANTS
    Thread,
    Client,       \* the connected clients, members of _clients
    NoClient,     \* no client
    Preposts,     \* RDMA_MAX_PREPOSTS
    NumRegions,   \* small chunks in the memory pool
    Wrap,         \* 2^32, the range of getNumReceives
    MaxLost       \* bound: posts that fail

ASSUME PrepostsAssumption ==
    /\ IsFiniteSet(Thread) /\ IsFiniteSet(Client)
    /\ NoClient \notin Client
    /\ Preposts \in Nat \ {0}
    /\ NumRegions \in Nat
    /\ Wrap \in Nat
    /\ MaxLost \in Nat
    /\ Wrap > Preposts + 2 * Cardinality(Thread)

VARIABLES
    free,      \* regions on the small free list
    posted,    \* client -> receives posted and not matched by a message
    cqe,       \* client -> receive completions in its completion queue
    waiting,   \* client -> _waitingReceives, as getNumReceives returns it
    lost,      \* regions whose post failed
    pc,        \* thread -> where it is
    cl,        \* thread -> the client it works for
    todo       \* thread -> clients refill_client_receives has still to visit

vars == <<free, posted, cqe, waiting, lost, pc, cl, todo>>

PC == {"idle", "next", "check", "can", "get", "post", "count", "complete", "release"}

Init ==
    /\ free = NumRegions
    /\ posted = [c \in Client |-> 0]
    /\ cqe = [c \in Client |-> 0]
    /\ waiting = [c \in Client |-> 0]
    /\ lost = 0
    /\ pc = [t \in Thread |-> "idle"]
    /\ cl = [t \in Thread |-> NoClient]
    /\ todo = [t \in Thread |-> {}]

Goto(t, l) == pc' = [pc EXCEPT ![t] = l]

-----------------------------------------------------------------------------
(* refill_client_receives *)

StartRefill(t) ==
    /\ pc[t] = "idle"
    /\ todo' = [todo EXCEPT ![t] = Client]
    /\ Goto(t, "next")
    /\ UNCHANGED <<free, posted, cqe, waiting, lost, cl>>

NextClient(t) ==
    /\ pc[t] = "next"
    /\ \E c \in todo[t] :
          /\ cl' = [cl EXCEPT ![t] = c]
          /\ todo' = [todo EXCEPT ![t] = @ \ {c}]
    /\ Goto(t, "check")
    /\ UNCHANGED <<free, posted, cqe, waiting, lost>>

RefillReturns(t) ==
    /\ pc[t] = "next"
    /\ todo[t] = {}
    /\ cl' = [cl EXCEPT ![t] = NoClient]
    /\ Goto(t, "idle")
    /\ UNCHANGED <<free, posted, cqe, waiting, lost, todo>>

-----------------------------------------------------------------------------
(* refill_preposts of client cl[t], one step per access to shared state *)

\* mutant: one receive more than asked for is kept.
CheckCountAtMost(t) ==
    /\ pc[t] = "check"
    /\ Goto(t, IF waiting[cl[t]] <= Preposts THEN "can" ELSE "next")
    /\ UNCHANGED <<free, posted, cqe, waiting, lost, cl, todo>>

\* while (getNumReceives() < preposts)
CheckCount(t) ==
    /\ pc[t] = "check"
    /\ Goto(t, IF waiting[cl[t]] < Preposts THEN "can" ELSE "next")
    /\ UNCHANGED <<free, posted, cqe, waiting, lost, cl, todo>>

\* canAllocateRegionUnsafe(0); if there is no region the loop goes round.
CanAllocate(t) ==
    /\ pc[t] = "can"
    /\ Goto(t, IF free > 0 THEN "get" ELSE "check")
    /\ UNCHANGED <<free, posted, cqe, waiting, lost, cl, todo>>

\* getFreeRegion: pop, which waits if another thread took the last region.
GetRegion(t) ==
    /\ pc[t] = "get"
    /\ free > 0
    /\ free' = free - 1
    /\ Goto(t, "post")
    /\ UNCHANGED <<posted, cqe, waiting, lost, cl, todo>>

\* RdmaConnection::postRecvRegionAsID: the device may complete it from now on.
PostReceive(t) ==
    /\ pc[t] = "post"
    /\ posted' = [posted EXCEPT ![cl[t]] = @ + 1]
    /\ Goto(t, "count")
    /\ UNCHANGED <<free, cqe, waiting, lost, cl, todo>>

\* The post fails: the exception ends the refill of all clients, and the region
\* is not given back.
PostFails(t) ==
    /\ pc[t] = "post"
    /\ lost < MaxLost
    /\ lost' = lost + 1
    /\ cl' = [cl EXCEPT ![t] = NoClient]
    /\ todo' = [todo EXCEPT ![t] = {}]
    /\ Goto(t, "idle")
    /\ UNCHANGED <<free, posted, cqe, waiting>>

\* mutant: the receive is not counted.
PushReceiveSkipped(t) ==
    /\ pc[t] = "count"
    /\ Goto(t, "check")
    /\ UNCHANGED <<free, posted, cqe, waiting, lost, cl, todo>>

PushReceive(t) ==
    /\ pc[t] = "count"
    /\ waiting' = [waiting EXCEPT ![cl[t]] = (@ + 1) % Wrap]
    /\ Goto(t, "check")
    /\ UNCHANGED <<free, posted, cqe, lost, cl, todo>>

-----------------------------------------------------------------------------
(* Messages and completions *)

\* The device matches a message of the peer with a posted receive.
Arrive(c) ==
    /\ posted[c] > 0
    /\ posted' = [posted EXCEPT ![c] = @ - 1]
    /\ cqe' = [cqe EXCEPT ![c] = @ + 1]
    /\ UNCHANGED <<free, waiting, lost, pc, cl, todo>>

\* pollCompletionQueues removes a completion and calls the callback, ...
PollCompletion(t, c) ==
    /\ pc[t] = "idle"
    /\ cqe[c] > 0
    /\ cqe' = [cqe EXCEPT ![c] = @ - 1]
    /\ cl' = [cl EXCEPT ![t] = c]
    /\ Goto(t, "complete")
    /\ UNCHANGED <<free, posted, waiting, lost, todo>>

\* mutant: the counter is a signed integer.
PopReceiveSigned(t) ==
    /\ pc[t] = "complete"
    /\ waiting' = [waiting EXCEPT ![cl[t]] = @ - 1]
    /\ Goto(t, "release")
    /\ UNCHANGED <<free, posted, cqe, lost, cl, todo>>

\* ... which calls popReceive ...
PopReceive(t) ==
    /\ pc[t] = "complete"
    /\ waiting' = [waiting EXCEPT ![cl[t]] = (@ - 1) % Wrap]
    /\ Goto(t, "release")
    /\ UNCHANGED <<free, posted, cqe, lost, cl, todo>>

\* mutant: the handler returns without giving the region back.
ReleaseForgotten(t) ==
    /\ pc[t] = "release"
    /\ cl' = [cl EXCEPT ![t] = NoClient]
    /\ Goto(t, "idle")
    /\ UNCHANGED <<free, posted, cqe, waiting, lost, todo>>

\* ... and gives the region back once the message is dealt with.
ReleaseRegion(t) ==
    /\ pc[t] = "release"
    /\ free' = free + 1
    /\ cl' = [cl EXCEPT ![t] = NoClient]
    /\ Goto(t, "idle")
    /\ UNCHANGED <<posted, cqe, waiting, lost, todo>>

-----------------------------------------------------------------------------
Refill(t) ==
    \/ NextClient(t) \/ RefillReturns(t)
    \/ CheckCount(t) \/ CanAllocate(t) \/ GetRegion(t)
    \/ PostReceive(t) \/ PushReceive(t)

Callback(t) == PopReceive(t) \/ ReleaseRegion(t)

Next ==
    \/ \E t \in Thread :
          \/ StartRefill(t) \/ Refill(t) \/ PostFails(t) \/ Callback(t)
          \/ \E c \in Client : PollCompletion(t, c)
    \/ \E c \in Client : Arrive(c)

\* Threads that are inside a call keep running.  Nothing obliges a peer to send
\* a message, nor an idle thread to poll or to refill.
Fairness == \A t \in Thread : WF_vars(Refill(t)) /\ WF_vars(Callback(t))

Spec == Init /\ [][Next]_vars

FairSpec == Spec /\ Fairness

-----------------------------------------------------------------------------
\* The types of the state: counts are natural numbers, and _waitingReceives wraps.
TypeOK ==
    /\ free \in Nat
    /\ posted \in [Client -> Nat]
    /\ cqe \in [Client -> Nat]
    /\ waiting \in [Client -> 0..(Wrap - 1)]
    /\ lost \in 0..MaxLost
    /\ pc \in [Thread -> PC]
    /\ cl \in [Thread -> Client \cup {NoClient}]
    /\ todo \in [Thread -> SUBSET Client]

At(c, labels) == {t \in Thread : cl[t] = c /\ pc[t] \in labels}

\* Receives of a client that are posted or completed, and not yet known to the
\* callback.
Outstanding(c) == posted[c] + cqe[c]

\* However posts, completions and their two counter updates interleave, the
\* counter is off by the updates in flight only; in particular it is right
\* again whenever no thread is between the two halves of an operation.
WaitingExact ==
    \A c \in Client :
        waiting[c] = (Outstanding(c) + Cardinality(At(c, {"complete"}))
                        - Cardinality(At(c, {"count"}))) % Wrap

\* Threads that refill the same client at the same time post too many, since
\* the test and the count are far apart, but by less than one per thread: the
\* receive queue needs room for this many.
OvershootBounded ==
    \A c \in Client :
        Outstanding(c) + Cardinality(At(c, {"can", "get", "post"}))
            <= Preposts + Cardinality(Thread) - 1

\* The receives that are posted or completed, the i-th one of client c as <<c, i>>.
Receives == UNION {{c} \X (1..Outstanding(c)) : c \in Client}

\* No region is lost between the pool, the receive queues and the threads,
\* except one for every post that failed.
RegionsConserved ==
    free + lost + Cardinality({t \in Thread : pc[t] \in {"post", "complete", "release"}})
         + Cardinality(Receives) = NumRegions

\* How large the pool must be for refills never to wait: for every client the
\* receives it may get with the overshoot, for every other thread a region whose
\* message it is dealing with, and what failed posts have lost.
EnoughRegions ==
    NumRegions >= Cardinality(Client) * (Preposts + Cardinality(Thread) - 1)
                      + (Cardinality(Thread) - 1) + MaxLost

\* With a pool that large no refill ever meets an empty pool: neither does
\* canAllocateRegionUnsafe send it round the loop again, nor does pop wait because
\* another thread took the region that canAllocateRegionUnsafe saw.
RefillNeverWaits ==
    EnoughRegions => \A t \in Thread : pc[t] \in {"can", "get"} => free > 0

\* "refill the queues, but don't wait, just abort if none are available": a
\* refill that finds the pool empty returns, unless the pool recovers.
RefillAborts ==
    \A t \in Thread :
        (pc[t] = "can" /\ free = 0) ~> (pc[t] = "idle" \/ free > 0)
=============================================================================
