# A TLA+ model of rdmahelper

rdmahelper is a C++ library over librdmacm and libibverbs, used by the verbs
parcelport of HPX: connections with pre-posted receives, pools of registered
memory, completion queues, and a controller that accepts, polls and removes
connections. This directory models its concurrent core, its startup and its teardown,
checks them with TLC and proves their safety with TLAPS, for any number of threads,
connections, regions and messages. Only the choice of the port (`Rendezvous`) has no proof.

Paths below are relative to the repository.

## The system

| Component | State | Operations | What is hard |
|---|---|---|---|
| `pool_container` (include/RdmaMemoryPool.h) | free list, block list, use count, mutex, condition variable | push, pop, AllocatePool, DeallocatePool | notify after unlock; sizes and count are compared without the mutex, and nothing keeps users out while the pool is emptied or filled again |
| `RdmaMemoryPool` | three pools, regions registered on the fly, map from addresses to regions, protection domain | allocateRegion, allocate, AllocateTemporaryBlock, deallocate by region and by address, setProtectionDomain | a region's origin is found from flags and length; entries for storage that was mapped anew; a pool that refuses to be emptied |
| `RdmaMemoryRegion` | storage, registration, fragments | allocate, allocate64kB, user constructor, release | several attempts, failing calls, lengths of 32 and 64 bits |
| `RdmaConnectionBase`, `RdmaClient` | count of waiting receives | refill_preposts, popReceive, pushReceive, makePeer | test, post and count are apart; an empty pool |
| `RdmaCompletionQueue`, `RdmaCompletionChannel` | array of completions and two indices, map of queues | requestEvent, removeCompletions, popCompletion, getEvent | re-arming against arriving completions, slots that are reused |
| `RdmaController` | map of clients under a read-write lock, listener, callbacks | eventChannelHandler, pollCompletionQueues, refill_client_receives, connect and disconnect | destruction against pollers, events against removals, failing steps |
| `RdmaConnection` | id, queue pair, own event channel | resolve, connect, accept, reject, disconnect, post | events that must be acknowledged, timeouts, refusals |
| `RdmaServer` | listening id, port | bind, listen | ranks that must agree on a port through a file |
| `RdmaDevice`, `RdmaProtectionDomain`, `RdmaSharedReceiveQueue` | one verbs handle or list each | constructor, destructor | constructors that throw half way, destructions that verbs refuses |
| startup and teardown of `RdmaController` | shared pointers between controller, clients, pool, queues, domain and the parcelport | startup, the destructor, keeping and dropping references | the order in which C++ runs the destructors, whoever drops the last reference |
| `SystemLock` | a System V semaphore | lock, unlock | processes that die while holding it |

The parcelport calls `eventMonitor` from its threads. That polls every client's
completion queue under the read lock and calls the parcelport's completion
function, which counts the receive down, uses the message and gives its region
back to the memory pool. Every tenth call looks at the listener's event channel:
`eventChannelHandler` makes and removes clients, under the write lock. Receives
are topped up by `refill_client_receives`, which takes regions from the pool. All
clients share one memory pool.

## Modules

| Module | Models | State and actions |
|---|---|---|
| `RegionPool` | what a pool promises | regions are free or in hand; they are created, acquired, released and discarded, and a discard is only undisturbed if nobody acquires one meanwhile |
| `PoolContainer` | `pool_container` | one action per access to shared state inside push and pop; the owner's AllocatePool and DeallocatePool, test by test, as setProtectionDomain calls them: it allocates whatever DeallocatePool returned. Users call push and pop meanwhile; what the owner reads while one of them is inside its critical section is any value. Implements `RegionPool` |
| `PoolContainerProofs` | | theorems on `PoolContainer` |
| `MemoryPool`, `MCMemoryPool` | `RdmaMemoryPool` | push, pop and setProtectionDomain atomic (what can happen between their steps is in `PoolContainer`), three size classes, on-the-fly and user regions, protection domains, `pointer_map_` |
| `MemoryPoolProofs` | | theorems on `MemoryPool` |
| `MemoryRegion` | `RdmaMemoryRegion` | mmap, registration, the loop of attempts, choosing and dropping, release; each call that can fail does |
| `MemoryRegionProofs` | | theorems on `MemoryRegion` |
| `Preposts` | `RdmaConnectionBase`, `RdmaClient`, refill and poll of the controller | each step of the refill loop, the post, the count, the message, the completion, its two updates |
| `PrepostsProofs` | | theorems on `Preposts` |
| `CompletionEvents` | `RdmaCompletionQueue`, `RdmaCompletionChannel`, `completionChannelHandler` | device, channel, array; removeCompletions and popCompletion are atomic, as they hold `completion_mutex`; the use of the returned pointer is a step of its own |
| `CompletionEventsProofs` | | theorems on `CompletionEvents` |
| `Controller` | `RdmaController`, and `RdmaConnection` as it uses it | the event handler step by step, the thread that makes and removes connections, pollers; refills by every thread, with test, take, post and count apart and a post that throws; the connection manager and the peers |
| `ControllerProofs` | | theorems on `Controller` |
| `Handshake` | `RdmaConnection`, `RdmaClient::makePeer`, and the controller's handling of one request | the active side from its constructor to its destructor with the events of its own channel, the passive side, the messages between them, sends and receives |
| `HandshakeProofs` | | theorems on `Handshake` |
| `Lifecycle` | startup and destructors of `RdmaController`, `RdmaServer`, `RdmaClient`, `RdmaConnection`, `RdmaMemoryPool`, `RdmaProtectionDomain`, `RdmaCompletionQueue`, `RdmaCompletionChannel`, `RdmaDevice`, `RdmaSharedReceiveQueue` | who holds a shared pointer to what, which handles of verbs exist; each step of startup, succeeding or failing; clients accepted, made (also when makePeer failed) and closed; references the parcelport keeps; a destructor is the list of its calls, run one by one, and the last reference dropped puts the destructor's calls in front |
| `LifecycleProofs` | | theorems on `Lifecycle` |
| `Rendezvous` | the choice of the port in startup, `RdmaServer::bind`, `getLocalPort` | several ranks and the file; opening (which empties it) and writing are two steps |

The parcelport, the device, librdmacm, the HPX map and HPX's event channel are not in the repository.
They are modelled from how the code uses them: the device completes a posted
receive once; a disarmed queue generates no event; `rdma_destroy_id` waits for
unacknowledged events; insert and erase of the map exclude readers; a receive on a
queue pair that is disconnected is flushed; `get_event` acknowledges the event it
was asked for and leaves any other in `_event`, which `connect` then reads; a send
that finds no receive is repeated as often as the other side's `rnr_retry_count`
allows, for ever if that is 7. Verbs refuses to destroy a protection domain or a
completion queue in use; an id bound to any address has no device context; the id of an
accepted connection is on the listener's event channel; a connection request is an
event of the listener. `disconnect` waits for an event after every `rdma_disconnect` that
returned 0; that this happens only for a connection that exists or is being closed by the
other side, and that an event then comes, is an assumption on librdmacm (`Handshake`,
`Disconnect`), and `WaitsEnd` rests on it.

`CompletionEvents` is about code that is compiled but not reached at this commit:
the controller makes its queues without a channel and polls them. It is modelled
because the class is the library's interface for event-driven use.

## Runs

| Run | Expect | What it shows |
|---|---|---|
| `pool` | pass | no region is granted twice or lost until blocks are destroyed in use; the use count is off by exactly what was out when it was last reset, and the update under way; no wake-up is lost; blocks are released only when all are back, unless a user was inside push or pop at DeallocatePool's test or took a region after it; waiters are served; and the pool implements `RegionPool` |
| `memory_pool` | pass | regions go back where they came from, nothing in a user's hand is deleted, an address in `pointer_map_` of a live chunk leads to that chunk |
| `preposts` | pass | the count equals the receives outstanding up to the updates under way; threads together overshoot by less than one each; regions are conserved; a pool with a region for every receive (with the overshoot), every other thread and every failed post is never found empty |
| `preposts_abort` | violation | with too few regions a refill does not return, against the comment "just abort if none are available" |
| `completion` | pass | nothing is missed between drain and re-arming; in a queue that no two handlers drain at once every completion is read once, in order, and the array is not overrun |
| `controller` | pass | events find their client, pollers and refills use live objects with a memory pool (but for the window in which a connection made here has none yet), events are acknowledged before their id is destroyed, every region is in the pool, with a connection alive or destroyed, or lost with a failed post; a request is answered unless its client could not be made or a post failed, or refills find the pool empty or go on posting for ever |
| `controller_reject` | violation | a refused request becomes a client, because the handler goes on after reject |
| `controller_flush` | violation | receives flushed by a disconnect end the process if a thread polls them |
| `handshake` | pass | the passive side's receives are there for the first sends, every message arrives on a usable connection although the active side posts late, every wait for an event ends, and the destructor blocks only after a refusal (or a failed fetch of an event) |
| `memory_region` | pass | nothing registered is unmapped, storage has one owner and is lost only if a call fails or a length exceeds 32 bits |
| `lifecycle` | pass | queue pairs never outlive the memory, domain and completion queue they use; a completion queue is lost unless its connection is closed in order; after any startup and any sequence of calls nothing else is left but what a throwing constructor had made; ids are destroyed before the listener's event channel unless the parcelport keeps a client; every destructor returns, or comes to the id of the listener after a request was dropped unacknowledged, or to the id of a connection of this side that was refused, whose event `connect` left unacknowledged |
| `rendezvous` | violation | ranks that read the file too early, or an old one, listen on another port |

### Bounds

- `pool`: two users that pop and push, a completer that only pushes, one chunk, two
  addresses, three calls of AllocatePool (the constructor and two of
  setProtectionDomain). One chunk makes waiting, stealing and spurious wake-ups meet; with
  the second address a refused pool is filled a second time under its users, or an emptied
  one with other storage; the third call meets the wrong count that the second left.
- `memory_pool`: one chunk per class, ten addresses: room for three fillings and
  one on-the-fly region. Lengths lie on, between and beyond the chunk sizes.
- `preposts`: two threads, two clients, two receives each, eight regions (as many as
  `EnoughRegions` asks for: all receives, the overshoot, the other thread and one failed post), a counter of 16 values so that
  wrapping below zero is reached. `preposts_abort` has three regions.
- `completion`: two handlers, two queues, an array of two, four completions in all:
  one queue can get all four, and the array would be overrun if the indices were not
  reset. The history variable `shared` names the queues two handlers were in at once.
- `controller`: two connections, peers may make either and this side the second
  (`Outgoing`), one poller, one receive each, two regions, one failing post (`MaxLost`). One
  connection being handled and one in use is what the hazards need. Racing refills post a
  second receive for a connection, and the pool runs empty. 459,853 states.
- `handshake`: one connection, one receive posted by each side, two sends by each:
  the second can find no receive. One failing fetch of an event. Any message of the
  connection manager may be lost; the loss stands for that of all its repetitions.
- `memory_region`: two threads, three attempts, fragment counts 1 to 4 up to
  and including a sentinel of 4 (100 in the code), lengths on both sides of a width of 4 (2^32 in
  the code), one failing call.
- `lifecycle`: two connections, each accepted or made by this side, one temporary
  region. The calls are made one at a time (interleavings of calls are `controller`'s
  subject); with two clients one can be kept while another is closed. Startup may
  fail at every step, with and without a named interface and a shared receive queue.
- `rendezvous`: three ranks, configured with a fixed port or none, with no file, or
  that of an earlier job.

`CHECK_DEADLOCK FALSE` is used where the system may stop: `completion`
(all completions made and handled), the `controller` runs (the process may die,
and connections are used once), `handshake` (the connection ends), `memory_region` (no address left), `lifecycle` (the
controller is gone, or the process aborted) and `rendezvous` (all ranks listen).

### Fairness

- `PoolContainer`: a thread inside push or pop goes on (the scheduler runs it), and
  a completion handler gives regions back: the parcelport polls for ever. The owner
  finishes an AllocatePool or DeallocatePool it is in. No fairness for calls of pop or for
  the beginning of a setProtectionDomain.
- `Preposts`: none for the safety run. For `preposts_abort`, threads inside a call go on;
  peers need not send, idle threads need not poll.
- `CompletionEvents`: none. Nothing calls the handler at this commit, so the run checks
  safety only.
- `Controller`: threads inside a call go on; the event channel is looked at again
  and again (every tenth `eventMonitor`); strong fairness for the handler and the
  connecting thread, because a writer of the map waits among readers that come and go.
  Peers need not connect or send, and no post need fail. A refill that finds the pool
  empty goes on testing: that it may do so for ever is `RefillBusy`, which
  `RequestsAnswered` excepts.
- `Handshake`: the threads of both sides run; the connection manager answers or times
  out (it does so by itself, after a bounded number of repetitions); the device
  delivers what finds a receive; the parcelport refills clients in the map. Nobody
  need send or disconnect, and there is no fairness for the arrival of messages.
- `Lifecycle`: a destructor under way makes its next call; nobody need close, keep or
  destroy anything.

### Observations

Facts the models show that no document of the repository denies, and which are therefore not findings:

- `~RdmaClient` releases `_completionQ` before `~RdmaConnection` destroys the queue
  pair, so that `ibv_destroy_cq` is refused and the queue is lost, for every client
  alive when the controller is destroyed and every one the parcelport holds when its
  connection is closed (`QueueLostUnlessClosed`). The code that closes a connection
  avoids it by holding the queue in a local.
- A client of an accepted connection that the parcelport keeps longer than the
  controller destroys its id after the event channel it is on (`ChannelOutlivesIds`).
- With an empty interface name startup fails with EFAULT.
- After setProtectionDomain with a region in use, `DeallocateList` refuses, its result
  is ignored and the free list holds regions of the old and the new domain. AllocatePool
  sets the use count to 0 all the same, so that it is off by the regions in use from then
  on (`UseCountExact`): when all are back the sizes agree, the count does not, and the
  pool refuses to be emptied for ever.
- A pop between DeallocatePool's test and its `block_list_.clear()`, or a push or pop half
  done at the test, leaves a user with a destroyed region (`harm` in `PoolContainer`).
- Refills that race give a connection more receives than RDMA_MAX_PREPOSTS, by up to one
  less than the threads (`ReceivesBounded`), and whatever a connection has at its end is
  never given back (`gone` in `Controller`).
- A connection this side did not get is a client like any other, since the result of
  makePeer is ignored; its removal, and ~RdmaController, wait for ever (`TeardownEnds`).
- `completionChannelHandler` has the comment "only allow one thread at a time to pop a
  completion", but the block takes no lock: two handlers on one queue can read the
  same slot and lose a completion, and fill the array beyond its end.
- With USE_SHARED_RECEIVE_QUEUE the queue is destroyed through the id of the listener
  after that was freed (`uaf` in `Lifecycle`).

## Proofs

Each `...Proofs` module proves for every value of the constants what the run of its
component checks on one instance, except liveness. `IInv` is the inductive invariant of
the module, `Invariance` its theorem (`Spec => []IInv`); the others follow from it. Every
`IInv` was checked with TLC before it was proved.

| Module | Theorems (property) |
|---|---|
| `PoolContainerProofs` | TypeCorrect, GrantCorrect (`NoDoubleGrant`), UseCountCorrect (`UseCountExact`), ReleaseCorrect (`ReleasedOnlyWhenReturned`, an action property), WakeupCorrect (`NoLostWakeup`), RefinesRegionPool (`ImplementsRegionPool`) |
| `MemoryPoolProofs` | TypeCorrect, HomeCorrect (`RegionsGoHome`), DanglingCorrect (`NoDanglingRegion`) |
| `MemoryRegionProofs` | TypeCorrect, RegisteredCorrect (`RegisteredIsMapped`), StorageCorrect (`StorageAccounted`) |
| `PrepostsProofs` | TypeCorrect, CounterCorrect (`WaitingExact`), OvershootCorrect (`OvershootBounded`), RegionsCorrect (`RegionsConserved`), RefillCorrect (`RefillNeverWaits`) |
| `CompletionEventsProofs` | TypeCorrect, ArrayCorrect (`ArrayInBounds`), OrderCorrect (`HandledInOrder`), EventsCorrect (`NoMissedEvent`) |
| `ControllerProofs` | TypeCorrect, EventCorrect (`EventFindsClient`), ClientsCorrect (`ClientsUsable`), RegionsCorrect (`RegionsAccounted`), ReceivesCorrect (`ReceivesBounded`, which the run has too few regions to exceed), AckCorrect (`AckBeforeDestroy`, an action property) |
| `HandshakeProofs` | TypeCorrect, FirstSendsCorrect (`FirstSendsFindReceives`), DestroyCorrect (`DestroyBlocksOnlyIfRefused`) |
| `LifecycleProofs` | TypeCorrect, TeardownCorrect (`TeardownOrder`), QueueCorrect (`QueueLostUnlessClosed`), LeftCorrect (`NothingLeft`), ChannelCorrect (`ChannelOutlivesIds`) |

**PoolContainer.** Users are inside push and pop at any time, so what DeallocatePool may
do depends on what it saw and what has happened since. `IInv` has, beside `NoDoubleGrant`,
- `CarryInv`: a call that carries a region has one;
- `MutexInv`: the mutex is held exactly by the thread between the two halves of a
  critical section;
- `OwnerInv`: the owner pushes only while it allocates and pops only while it drains;
- `RaceInv`: as long as `harm` has noted no overlap since the sizes were compared, no user has
  a region or is inside a critical section, and the list is empty once it was found so;
- `LenInv`: the list is as long as the set of what it holds;
- `CountInv`: the count, up to what the critical section in progress has still to add and
  what was out at the last reset.

DeallocatePool goes on only if the list is as long as the block list; with `NoDoubleGrant`
and cardinalities that means nothing is in hand, if no critical section was half done. This
establishes `RaceInv`, which needs nothing of the count: the sizes alone make the test
exact. From `IInv` follow `GrantCorrect`, `UseCountCorrect`, `ReleaseCorrect` and, step by
step, `RefinesRegionPool`. `WakeupCorrect` counts: as long as a thread sleeps, every free
region has a thread on its way to notify or to take it.

**MemoryPool.** deallocate finds the pool of a region from its length alone, so
`RegionsGoHome` needs that every block has the length of its class; and an address found in
`pointer_map_` leads to the live chunk only because the entry is written whenever storage
is mapped anew. setProtectionDomain passes through states that no variable holds, so the
invariant `Good` is a predicate of a state record, kept by allocating a pool and by
emptying one whose regions are all back.

**MemoryRegion.** `RegisteredIsMapped` is not inductive without `StorageAccounted`: between
the deregistration and the unmapping of an address (`Going`) nobody else registers it
only because nobody else owns it. `ThreadInv` says what a thread has at hand by where it
is; that regionList is not overrun follows from the test at the end of each attempt.

**Preposts.** `WaitingExact` and `OvershootBounded` are inductive together and not alone. A
thread that passes the test of refill_preposts bounds the receives outstanding only
because the counter is off by no more than the threads inside a post or a completion; and
the counter is not wrapped at the test only because the receives outstanding are bounded.
`RefillNeverWaits` follows from them and `RegionsConserved` by counting: what is neither
outstanding, in a thread's hands nor lost is in the pool.

**CompletionEvents.** For a queue that no two handlers drained at once, `DrainInv` says how
far its handler is: all completions taken from the device have been read in order, but
the one the handler carries. `ArmInv` says why no completion is missed: the queue is
armed, or has an event, or a handler that will arm it and look again. For the other
queues `CountInv` still keeps the two indices apart by the handlers about to pop.

**Controller.** `EventInv` ties the events on the channel to the state of their connection
and orders them; `HandlerInv` and `AppInv` say what the steps of a request, a disconnect,
a connect or a removal have prepared for the next one; the two threads work on different
connections because the one handles those peers made and the other those made here.
`RegionInv` accounts for the regions not in the pool, connection by connection. The bound on
a connection's receives is not inductive: `OverInv` bounds them together with the refills
that have passed the test for it, at most one of each thread. Regions are kept for good only
by a connection that was destroyed (`GoneInv`), which no refill reaches any more.

**Handshake.** `FirstSendsFindReceives` needs that from the first refill on the receives
posted and those consumed make up `Preposts` (`ReceivesInv`). `DestroyBlocksOnlyIfRefused`
needs what each wait finds on the channel: as long as no fetch has failed, the answer to
the request just made is the next event (`ChannelInv`); and at most one event is ever left
unacknowledged, after which no connection comes about (`AckInv`).

**Lifecycle.** What a destructor under way will still do is in `work`, so the invariant is
about the calls in it. `WorkInv`: each is there once, and the calls of a destructor only
while nobody holds its object. `LeftInv`: every handle has an owner that somebody holds, or
a call that frees it, or was refused or lost. The other parts are of one form: what handle
x needs is held, and in `work` the call that gives it up comes after the one that frees x
(`Precedes`). So the client's pool outlives its queue pair and the pool's domain the pool's
memory (`GuardInv`), the listener outlives the ids on its event channel until the controller
is gone (`ChannelInv`), and a queue comes after or before its queue pair as the connection
was closed in order or not (`QueueInv`). `DestructorFacts` and `ControllerDtorFacts` say in
which order the destructors make their calls; `DropOrder` and `FreeOrder` say that making the
first call, and putting a destructor's calls in front, keeps the order. Of the clients that
~RdmaController clears no order is used, only that each comes once.

The assumptions are those named in the modules. They say that constants are numbers or
distinct, that chunk sizes increase, that the sets that are counted (threads and regions of
`PoolContainer`, threads and clients of `Preposts`, pollers of `Controller`, handlers of `CompletionEvents`, addresses of
`MemoryPool`, connections of `Lifecycle`) are finite, that the range of getNumReceives (2^32) exceeds the limit of
receives by two for each thread, and that there is storage for the chunks that the
constructor of the memory pool makes.

Only model-checked:
- the leads-to properties (`WaiterProgress`, `RequestsAnswered`, `MessagesArrive`, `WaitsEnd`, `TeardownEnds`): liveness is out of
  the prover's reach;
- what the violated runs show.

## Not modelled

- `RdmaMemoryRegion::allocateFromBgvrnicDevice`: no caller.
- RDMA reads and writes (`postRead`, `postRdmaRead`, `postRdmaWrite`): they build one
  work request each and touch no state of the other side's software. `migrateId`: no
  caller.
- `RdmaDevice::getDeviceInfo`, `RdmaServer::postRecvRegionAsID`: no caller. Posting to a
  shared receive queue: compiled out.
- `CNKClient`, `CNKMemoryRegion`: Blue Gene/Q only. `SystemLock`: included by
  CNKMemoryRegion.h, used by nothing.
- Errors, logging and message headers: no state.

## Plan

1. Done: `RegionPool`, `PoolContainer` with proofs, `MemoryPool`, `Preposts`,
   `CompletionEvents`, `Controller`, `MemoryRegion`, `Handshake`.
2. Done: `Lifecycle`, `Rendezvous`, the char* interface in `MemoryPool`, several
   handlers in `CompletionEvents`.
3. Done: proofs of every safety property that a passing run checks.
