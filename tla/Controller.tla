----------------------------- MODULE Controller -----------------------------
(***************************************************************************)
(* RdmaController: the life of connections, from a peer's request or from  *)
(* makeServerToServerConnection to the destruction of the client object,   *)
(* against the threads that poll completion queues and refill receives.    *)
(*                                                                         *)
(* One thread (Handler) runs eventChannelHandler, one (App) the functions  *)
(* the parcelport calls to connect and disconnect, and pollers run         *)
(* pollCompletionQueues.  _clients is guarded by a read-write lock: a      *)
(* poller and a refill hold it for reading, insert and erase need it for   *)
(* writing.  The connection manager and the peers are external.            *)
(*                                                                         *)
(* A refill tests, takes, posts and counts in separate steps, as in        *)
(* Preposts, so refills that race post too many; _waitingReceives is       *)
(* written as what Preposts proves it to be.                               *)
(***************************************************************************)
EXTENDS Integers, Sequences, FiniteSets

CONSTANTS
    Conn,         \* connections; a connection is named by its queue pair
    Outgoing,     \* bound: the connections this side may make; peers may make any
    Poller,       \* threads that poll completions
    Handler, App, \* the other two threads
    None,         \* no connection
    Preposts,     \* RDMA_MAX_PREPOSTS
    NumRegions,   \* small chunks in the memory pool
    MaxLost       \* bound: posts that fail

Proc == Poller \cup {Handler, App}

ASSUME ControllerAssumption ==
    /\ Handler \notin Poller \cup {App}
    /\ App \notin Poller
    /\ None \notin Conn
    /\ Outgoing \subseteq Conn
    /\ Preposts \in Nat \ {0}
    /\ NumRegions \in Nat
    /\ MaxLost \in Nat
    /\ IsFiniteSet(Poller)

VARIABLES
    ev,        \* events on the listener's channel, oldest first
    got,       \* the listener's _event: the event not yet acknowledged
    link,      \* connection -> its state at the connection manager
    obj,       \* connection -> its RdmaClient: not yet made, alive, destroyed
    clients,   \* _clients
    pool,      \* connections whose client has a memory pool
    init,      \* connections whose client has _initiated_connection
    posted,    \* connection -> receives on its queue pair
    flushed,   \* connection -> failed completions in its completion queue
    free,      \* regions in the pool
    lost,      \* regions whose post failed
    gone,      \* history: connection -> receives it was destroyed with
    readers,   \* threads that hold the lock of _clients for reading
    pc, cur,   \* thread -> where it is, the connection it works for
    todo,      \* thread -> clients its refill or its poll has still to visit
    ref,       \* thread -> the client whose receives it refills
    fault      \* why the process died

vars == <<ev, got, link, obj, clients, pool, init, posted, flushed, free, lost, gone,
          readers, pc, cur, todo, ref, fault>>

recvVars == <<posted, flushed, free, lost, gone>>
cmVars   == <<ev, got, link>>

Type == {"CONNECT_REQUEST", "ESTABLISHED", "DISCONNECTED", "OTHER"}
Event == [type : Type, conn : Conn]
NoEvent == [type |-> "none", conn |-> None]

\* States of a connection: asked for by a peer, or (Out) made by this side.
In   == {"asked", "rejected", "dropped", "accepted", "up", "broken", "closing"}
Out  == {"upOut", "failedOut", "closingOut"}
Link == {"none", "down"} \cup In \cup Out

\* Inside refill_client_receives, and inside refill_preposts of one client.
Prepost == {"test", "get", "post", "count"}
Refilling == {"refilling"} \cup Prepost

PC == Type \cup Refilling \cup
      {"idle", "dead", "create", "insert", "refill", "accept", "undo", "ack",
       "ackDisconnect", "erase", "destroy", "setPool", "setInitiated", "waitDisconnected",
       "spin", "polling"}

\* insert and erase of _clients take the lock for writing.
MayWrite == readers = {}

Init ==
    /\ ev = <<>>
    /\ got = NoEvent
    /\ link = [c \in Conn |-> "none"]
    /\ obj = [c \in Conn |-> "none"]
    /\ clients = {}
    /\ pool = {}
    /\ init = {}
    /\ posted = [c \in Conn |-> 0]
    /\ flushed = [c \in Conn |-> 0]
    /\ free = NumRegions
    /\ lost = 0
    /\ gone = [c \in Conn |-> 0]
    /\ readers = {}
    /\ pc = [p \in Proc |-> "idle"]
    /\ cur = [p \in Proc |-> None]
    /\ todo = [p \in Proc |-> {}]
    /\ ref = [p \in Proc |-> None]
    /\ fault = "none"

Goto(p, l) == pc' = [pc EXCEPT ![p] = l]

\* The process ends (std::terminate, or a null pointer is followed).
Die(why) ==
    /\ fault' = why
    /\ pc' = [p \in Proc |-> "dead"]

Signal(t, c) == ev' = Append(ev, [type |-> t, conn |-> c])

\* rdma_disconnect: the queue pair goes to the error state and its receives
\* complete with a flush error.
Flush(c) ==
    /\ flushed' = [flushed EXCEPT ![c] = @ + posted[c]]
    /\ posted' = [posted EXCEPT ![c] = 0]

\* The client object and its completion queue are destroyed, with the receives
\* and failed completions they still have: nobody gives those regions back.
Destroy(c) ==
    /\ obj' = [obj EXCEPT ![c] = "dead"]
    /\ gone' = [gone EXCEPT ![c] = @ + posted[c] + flushed[c]]
    /\ posted' = [posted EXCEPT ![c] = 0]
    /\ flushed' = [flushed EXCEPT ![c] = 0]

-----------------------------------------------------------------------------
(* Peers and the connection manager *)

PeerConnects(c) ==
    /\ link[c] = "none"
    /\ link' = [link EXCEPT ![c] = "asked"]
    /\ Signal("CONNECT_REQUEST", c)
    /\ UNCHANGED <<got, obj, clients, pool, init, recvVars, readers, pc, cur, todo, ref, fault>>

Established(c) ==
    /\ link[c] = "accepted"
    /\ link' = [link EXCEPT ![c] = "up"]
    /\ Signal("ESTABLISHED", c)
    /\ UNCHANGED <<got, obj, clients, pool, init, recvVars, readers, pc, cur, todo, ref, fault>>

\* The peer of an accepted connection is lost before it is established: a
\* CONNECT_ERROR or UNREACHABLE event.
EstablishFails(c) ==
    /\ link[c] = "accepted"
    /\ link' = [link EXCEPT ![c] = "broken"]
    /\ Signal("OTHER", c)
    /\ UNCHANGED <<got, obj, clients, pool, init, recvVars, readers, pc, cur, todo, ref, fault>>

\* The event of a connection this side made goes to that connection's own
\* channel, which only disconnect reads.
PeerDisconnects(c) ==
    /\ link[c] \in {"up", "upOut"}
    /\ IF link[c] = "up"
       THEN /\ link' = [link EXCEPT ![c] = "closing"]
            /\ Signal("DISCONNECTED", c)
       ELSE /\ link' = [link EXCEPT ![c] = "closingOut"]
            /\ UNCHANGED ev
    /\ UNCHANGED <<got, obj, clients, pool, init, recvVars, readers, pc, cur, todo, ref, fault>>

-----------------------------------------------------------------------------
(* refill_client_receives, called by any thread, and refill_preposts *)

RefillLock(p) ==
    /\ pc[p] = "refill"
    /\ readers' = readers \cup {p}
    /\ todo' = [todo EXCEPT ![p] = clients]
    /\ Goto(p, "refilling")
    /\ UNCHANGED <<cmVars, obj, clients, pool, init, recvVars, cur, ref, fault>>

\* _waitingReceives: a receive is counted after it is posted, and no longer when
\* its completion is polled.  (An unsigned number: less than none is very many.)
Waiting(c) ==
    posted[c] + flushed[c] - Cardinality({p \in Proc : pc[p] = "count" /\ ref[p] = c})

\* while (getNumReceives() < preposts), for the client at hand or for the next.
CheckCount(p) ==
    /\ pc[p] \in {"refilling", "test"}
    /\ \E c \in (IF pc[p] = "test" THEN {ref[p]} ELSE todo[p]) :
          /\ todo' = [todo EXCEPT ![p] = @ \ {c}]
          /\ \/ /\ Waiting(c) \in 0..(Preposts - 1)
                /\ ref' = [ref EXCEPT ![p] = c]
                /\ Goto(p, "get")
             \/ /\ Waiting(c) \notin 0..(Preposts - 1)
                /\ ref' = [ref EXCEPT ![p] = None]
                /\ Goto(p, "refilling")
    /\ UNCHANGED <<cmVars, obj, clients, pool, init, recvVars, readers, cur, fault>>

\* canAllocateRegionUnsafe, and getFreeRegion if there is a region; without one
\* the loop goes round.  (That pop waits when another thread takes the last region
\* between the two is in Preposts.)  A client without a memory pool is a null
\* pointer.
GetRegion(p) ==
    /\ pc[p] = "get"
    /\ IF ref[p] \notin pool
       THEN Die("null memory pool") /\ UNCHANGED free
       ELSE IF free > 0
            THEN free' = free - 1 /\ Goto(p, "post") /\ UNCHANGED fault
            ELSE Goto(p, "test") /\ UNCHANGED <<free, fault>>
    /\ UNCHANGED <<cmVars, obj, clients, pool, init, posted, flushed, lost, gone, readers, cur, todo,
                   ref>>

PostReceive(p) ==
    /\ pc[p] = "post"
    /\ posted' = [posted EXCEPT ![ref[p]] = @ + 1]
    /\ Goto(p, "count")
    /\ UNCHANGED <<cmVars, obj, clients, pool, init, flushed, free, lost, gone, readers, cur, todo,
                   ref, fault>>

\* ibv_post_recv fails.  The exception leaves refill_client_receives and its
\* caller: the lock is given back, the region is not.  In the handler the request
\* is neither accepted nor acknowledged, and its client stays in the map.
PostFails(p) ==
    /\ pc[p] = "post"
    /\ lost < MaxLost
    /\ lost' = lost + 1
    /\ readers' = readers \ {p}
    /\ todo' = [todo EXCEPT ![p] = {}]
    /\ ref' = [ref EXCEPT ![p] = None]
    /\ cur' = [cur EXCEPT ![p] = None]
    /\ link' = IF p = Handler /\ link[cur[p]] = "asked"
               THEN [link EXCEPT ![cur[p]] = "dropped"] ELSE link
    /\ Goto(p, "idle")
    /\ UNCHANGED <<ev, got, obj, clients, pool, init, posted, flushed, free, gone, fault>>

PushReceive(p) ==
    /\ pc[p] = "count"
    /\ Goto(p, "test")
    /\ UNCHANGED <<cmVars, obj, clients, pool, init, recvVars, readers, cur, todo, ref, fault>>

RefillDone(p) ==
    /\ pc[p] = "refilling"
    /\ todo[p] = {}
    /\ readers' = readers \ {p}
    /\ IF p = Handler
       THEN Goto(p, "accept") /\ UNCHANGED cur
       ELSE Goto(p, "idle") /\ cur' = [cur EXCEPT ![p] = None]
    /\ UNCHANGED <<cmVars, obj, clients, pool, init, recvVars, todo, ref, fault>>

-----------------------------------------------------------------------------
(* eventChannelHandler *)

\* An event whose acknowledgement was skipped is forgotten here.
WaitForEvent ==
    /\ pc[Handler] = "idle"
    /\ ev # <<>>
    /\ ev' = Tail(ev)
    /\ got' = Head(ev)
    /\ cur' = [cur EXCEPT ![Handler] = Head(ev).conn]
    /\ Goto(Handler, Head(ev).type)
    /\ UNCHANGED <<link, obj, clients, pool, init, recvVars, readers, todo, ref, fault>>

\* The pre-connection callback agrees, ...
PreConnection ==
    /\ pc[Handler] = "CONNECT_REQUEST"
    /\ Goto(Handler, "create")
    /\ UNCHANGED <<cmVars, obj, clients, pool, init, recvVars, readers, cur, todo, ref, fault>>

\* ... or not: the request is rejected, and handled like any other.
PreConnectionRejects ==
    /\ pc[Handler] = "CONNECT_REQUEST"
    /\ link' = [link EXCEPT ![cur[Handler]] = "rejected"]
    /\ Goto(Handler, "create")
    /\ UNCHANGED <<ev, got, obj, clients, pool, init, recvVars, readers, cur, todo, ref, fault>>

CreateClient ==
    /\ pc[Handler] = "create"
    /\ obj' = [obj EXCEPT ![cur[Handler]] = "alive"]
    /\ pool' = pool \cup {cur[Handler]}
    /\ Goto(Handler, "insert")
    /\ UNCHANGED <<cmVars, clients, init, recvVars, readers, cur, todo, ref, fault>>

\* No completion queue or no queue pair: the handler returns, without an answer
\* to the peer and without acknowledging the event.
CreateClientFails ==
    /\ pc[Handler] = "create"
    /\ link' = [link EXCEPT ![cur[Handler]] = "dropped"]
    /\ cur' = [cur EXCEPT ![Handler] = None]
    /\ Goto(Handler, "idle")
    /\ UNCHANGED <<ev, got, obj, clients, pool, init, recvVars, readers, todo, ref, fault>>

\* mutant: the map keeps the entry it has for another connection.
InsertClientFirst ==
    /\ pc[Handler] = "insert"
    /\ MayWrite
    /\ clients' = IF clients = {} THEN {cur[Handler]} ELSE clients
    /\ Goto(Handler, "refill")
    /\ UNCHANGED <<cmVars, obj, pool, init, recvVars, readers, cur, todo, ref, fault>>

InsertClient ==
    /\ pc[Handler] = "insert"
    /\ MayWrite
    /\ clients' = clients \cup {cur[Handler]}
    /\ Goto(Handler, "refill")
    /\ UNCHANGED <<cmVars, obj, pool, init, recvVars, readers, cur, todo, ref, fault>>

Accept ==
    /\ pc[Handler] = "accept"
    /\ link[cur[Handler]] = "asked"
    /\ link' = [link EXCEPT ![cur[Handler]] = "accepted"]
    /\ Goto(Handler, "ack")
    /\ UNCHANGED <<ev, got, obj, clients, pool, init, recvVars, readers, cur, todo, ref, fault>>

\* rdma_accept fails, always so after a reject: the client is erased, ...
AcceptFails ==
    /\ pc[Handler] = "accept"
    /\ MayWrite
    /\ clients' = clients \ {cur[Handler]}
    /\ Goto(Handler, "undo")
    /\ UNCHANGED <<cmVars, obj, pool, init, recvVars, readers, cur, todo, ref, fault>>

\* mutant: the client is not told the bad news.
UndoAcceptSilent ==
    /\ pc[Handler] = "undo"
    /\ Destroy(cur[Handler])
    /\ Goto(Handler, "ack")
    /\ UNCHANGED <<cmVars, clients, pool, init, free, lost, readers, cur, todo, ref, fault>>

\* ... the request rejected and the object destroyed.
UndoAccept ==
    /\ pc[Handler] = "undo"
    /\ link' = [link EXCEPT ![cur[Handler]] = "rejected"]
    /\ Destroy(cur[Handler])
    /\ Goto(Handler, "ack")
    /\ UNCHANGED <<ev, got, clients, pool, init, free, lost, readers, cur, todo, ref, fault>>

Ack ==
    /\ pc[Handler] = "ack"
    /\ got' = NoEvent
    /\ cur' = [cur EXCEPT ![Handler] = None]
    /\ Goto(Handler, "idle")
    /\ UNCHANGED <<ev, link, obj, clients, pool, init, recvVars, readers, todo, ref, fault>>

\* _clients[qp] of an unknown queue pair is a null pointer.
HandleEstablished ==
    /\ pc[Handler] = "ESTABLISHED"
    /\ IF cur[Handler] \in clients
       THEN Goto(Handler, "ack") /\ UNCHANGED fault
       ELSE Die("null client")
    /\ UNCHANGED <<cmVars, obj, clients, pool, init, recvVars, readers, cur, todo, ref>>

\* Any other event is "not supported": its client stays in the map.
HandleUnsupported ==
    /\ pc[Handler] = "OTHER"
    /\ Goto(Handler, "ack")
    /\ UNCHANGED <<cmVars, obj, clients, pool, init, recvVars, readers, cur, todo, ref, fault>>

\* rdma_disconnect may fail; the handler goes on either way.
HandleDisconnected ==
    /\ pc[Handler] = "DISCONNECTED"
    /\ IF cur[Handler] \in clients
       THEN /\ link' = [link EXCEPT ![cur[Handler]] = "down"]
            /\ Flush(cur[Handler]) \/ UNCHANGED <<posted, flushed>>
            /\ Goto(Handler, "ackDisconnect")
            /\ UNCHANGED fault
       ELSE /\ Die("null client")
            /\ UNCHANGED <<link, posted, flushed>>
    /\ UNCHANGED <<ev, got, obj, clients, pool, init, free, lost, gone, readers, cur, todo, ref>>

\* mutant: the event is left for the end of the handler.
AckDisconnectLater ==
    /\ pc[Handler] = "ackDisconnect"
    /\ Goto(Handler, "erase")
    /\ UNCHANGED <<cmVars, obj, clients, pool, init, recvVars, readers, cur, todo, ref, fault>>

\* "must be done before removing the rdma cm id"
AckDisconnect ==
    /\ pc[Handler] = "ackDisconnect"
    /\ got' = NoEvent
    /\ Goto(Handler, "erase")
    /\ UNCHANGED <<ev, link, obj, clients, pool, init, recvVars, readers, cur, todo, ref, fault>>

\* mutant: the entry is removed without the lock.
EraseUnlocked ==
    /\ pc[Handler] = "erase"
    /\ clients' = clients \ {cur[Handler]}
    /\ Goto(Handler, "destroy")
    /\ UNCHANGED <<cmVars, obj, pool, init, recvVars, readers, cur, todo, ref, fault>>

EraseDisconnected ==
    /\ pc[Handler] = "erase"
    /\ MayWrite
    /\ clients' = clients \ {cur[Handler]}
    /\ Goto(Handler, "destroy")
    /\ UNCHANGED <<cmVars, obj, pool, init, recvVars, readers, cur, todo, ref, fault>>

DestroyDisconnected ==
    /\ pc[Handler] = "destroy"
    /\ Destroy(cur[Handler])
    /\ cur' = [cur EXCEPT ![Handler] = None]
    /\ Goto(Handler, "idle")
    /\ UNCHANGED <<cmVars, clients, pool, init, free, lost, readers, todo, ref, fault>>

-----------------------------------------------------------------------------
(* makeServerToServerConnection, removeServerToServerConnection and        *)
(* removeAllInitiatedConnections, called by App                            *)

\* makePeer; its result is not looked at.
MakePeer(c) ==
    /\ pc[App] = "idle"
    /\ c \in Outgoing /\ link[c] = "none"
    /\ \E l \in {"upOut", "failedOut"} : link' = [link EXCEPT ![c] = l]
    /\ obj' = [obj EXCEPT ![c] = "alive"]
    /\ cur' = [cur EXCEPT ![App] = c]
    /\ Goto(App, "insert")
    /\ UNCHANGED <<ev, got, clients, pool, init, recvVars, readers, todo, ref, fault>>

\* The completion queue, the client or its queue pair could not be created, which
\* is logged: the null pointer is followed all the same.
MakePeerFails ==
    /\ pc[App] = "idle"
    /\ \E c \in Outgoing : link[c] = "none"
    /\ Die("null peer")
    /\ UNCHANGED <<cmVars, obj, clients, pool, init, recvVars, readers, cur, todo, ref>>

InsertPeer ==
    /\ pc[App] = "insert"
    /\ MayWrite
    /\ clients' = clients \cup {cur[App]}
    /\ Goto(App, "setPool")
    /\ UNCHANGED <<cmVars, obj, pool, init, recvVars, readers, cur, todo, ref, fault>>

SetMemoryPool ==
    /\ pc[App] = "setPool"
    /\ pool' = pool \cup {cur[App]}
    /\ Goto(App, "setInitiated")
    /\ UNCHANGED <<cmVars, obj, clients, init, recvVars, readers, cur, todo, ref, fault>>

SetInitiated ==
    /\ pc[App] = "setInitiated"
    /\ init' = init \cup {cur[App]}
    /\ Goto(App, "refill")
    /\ UNCHANGED <<cmVars, obj, clients, pool, recvVars, readers, cur, todo, ref, fault>>

\* disconnect(true) starts.  If rdma_disconnect fails, as it does on a connection
\* that was never made, nothing is waited for.
RemoveConnection(c) ==
    /\ pc[App] = "idle"
    /\ c \in clients \cap init
    /\ cur' = [cur EXCEPT ![App] = c]
    /\ \/ Goto(App, "erase") /\ UNCHANGED <<link, posted, flushed>>
       \/ /\ link[c] # "failedOut"
          /\ Flush(c)
          /\ link' = [link EXCEPT ![c] = "closingOut"]
          /\ Goto(App, "waitDisconnected")
    /\ UNCHANGED <<ev, got, obj, clients, pool, init, free, lost, gone, readers, todo, ref, fault>>

\* The DISCONNECTED event arrives on the connection's own channel and is
\* acknowledged.
DisconnectedOut ==
    /\ pc[App] = "waitDisconnected"
    /\ link' = [link EXCEPT ![cur[App]] = "down"]
    /\ Goto(App, "erase")
    /\ UNCHANGED <<ev, got, obj, clients, pool, init, recvVars, readers, cur, todo, ref, fault>>

ErasePeer ==
    /\ pc[App] = "erase"
    /\ MayWrite
    /\ clients' = clients \ {cur[App]}
    /\ Goto(App, "destroy")
    /\ UNCHANGED <<cmVars, obj, pool, init, recvVars, readers, cur, todo, ref, fault>>

\* (That rdma_destroy_id waits for ever if the connection was refused is in
\* Lifecycle; no lock is held meanwhile.)
DestroyPeer ==
    /\ pc[App] = "destroy"
    /\ Destroy(cur[App])
    /\ cur' = [cur EXCEPT ![App] = None]
    /\ Goto(App, "idle")
    /\ UNCHANGED <<cmVars, clients, pool, init, free, lost, readers, todo, ref, fault>>

\* The inner loop of removeAllInitiatedConnections looks at the first client
\* only and never advances: if that one is not initiated it spins.  (If it is,
\* this is RemoveConnection.)
RemoveAllSpins ==
    /\ pc[App] = "idle"
    /\ clients \cap init # {}
    /\ clients \ init # {}
    /\ Goto(App, "spin")
    /\ UNCHANGED <<cmVars, obj, clients, pool, init, recvVars, readers, cur, todo, ref, fault>>

-----------------------------------------------------------------------------
(* pollCompletionQueues: every client, under the read lock *)

PollLock(p) ==
    /\ pc[p] = "idle"
    /\ readers' = readers \cup {p}
    /\ todo' = [todo EXCEPT ![p] = clients]
    /\ Goto(p, "polling")
    /\ UNCHANGED <<cmVars, obj, clients, pool, init, recvVars, cur, ref, fault>>

\* mutant: an empty poll is taken for a receive.
PollReceiveUnchecked(p, c) ==
    /\ pc[p] = "polling"
    /\ c \in todo[p]
    /\ link[c] \in {"up", "upOut"}
    /\ posted' = [posted EXCEPT ![c] = @ - 1]
    /\ free' = free + 1
    /\ UNCHANGED <<cmVars, obj, clients, pool, init, flushed, lost, gone, readers, pc, cur, todo, ref, fault>>

\* mutant: the callback keeps the region.
PollReceiveKeeps(p, c) ==
    /\ pc[p] = "polling"
    /\ c \in todo[p]
    /\ posted[c] > 0
    /\ link[c] \in {"up", "upOut"}
    /\ posted' = [posted EXCEPT ![c] = @ - 1]
    /\ UNCHANGED <<cmVars, obj, clients, pool, init, flushed, free, lost, gone, readers, pc, cur, todo, ref, fault>>

\* A message has arrived: the completion callback counts the receive down and
\* the message's region goes back to the pool.
PollReceive(p, c) ==
    /\ pc[p] = "polling"
    /\ c \in todo[p]
    /\ posted[c] > 0
    /\ link[c] \in {"up", "upOut"}
    /\ posted' = [posted EXCEPT ![c] = @ - 1]
    /\ free' = free + 1
    /\ UNCHANGED <<cmVars, obj, clients, pool, init, flushed, lost, gone, readers, pc, cur, todo, ref, fault>>

\* A completion that did not succeed ends the process.
PollFlushed(p, c) ==
    /\ pc[p] = "polling"
    /\ c \in todo[p]
    /\ flushed[c] > 0
    /\ Die("failed completion")
    /\ UNCHANGED <<cmVars, obj, clients, pool, init, recvVars, readers, cur, todo, ref>>

\* The queue is empty: on to the next client.
PollEmpty(p, c) ==
    /\ pc[p] = "polling"
    /\ c \in todo[p]
    /\ flushed[c] = 0
    /\ todo' = [todo EXCEPT ![p] = @ \ {c}]
    /\ UNCHANGED <<cmVars, obj, clients, pool, init, recvVars, readers, pc, cur, ref, fault>>

PollDone(p) ==
    /\ pc[p] = "polling"
    /\ todo[p] = {}
    /\ readers' = readers \ {p}
    /\ Goto(p, "idle")
    /\ UNCHANGED <<cmVars, obj, clients, pool, init, recvVars, cur, todo, ref, fault>>

\* A thread that has dealt with a message may top the receives up.
CallRefill(p) ==
    /\ pc[p] = "idle"
    /\ clients # {}
    /\ Goto(p, "refill")
    /\ UNCHANGED <<cmVars, obj, clients, pool, init, recvVars, readers, cur, todo, ref, fault>>

-----------------------------------------------------------------------------
HandlerNext ==
    \/ WaitForEvent
    \/ PreConnection \/ PreConnectionRejects
    \/ CreateClient \/ CreateClientFails
    \/ InsertClient \/ Accept \/ AcceptFails \/ UndoAccept \/ Ack
    \/ HandleEstablished \/ HandleUnsupported \/ HandleDisconnected
    \/ AckDisconnect \/ EraseDisconnected \/ DestroyDisconnected

AppCall ==
    \/ \E c \in Conn : MakePeer(c) \/ RemoveConnection(c)
    \/ MakePeerFails \/ RemoveAllSpins

AppStep ==
    \/ InsertPeer \/ SetMemoryPool \/ SetInitiated
    \/ DisconnectedOut \/ ErasePeer \/ DestroyPeer

RefillStep(p) ==
    \/ RefillLock(p) \/ CheckCount(p) \/ GetRegion(p) \/ PostReceive(p) \/ PushReceive(p)
    \/ RefillDone(p)

PollStep(p) ==
    \/ \E c \in Conn : PollReceive(p, c) \/ PollFlushed(p, c) \/ PollEmpty(p, c)
    \/ PollDone(p)

Next ==
    \/ \E c \in Conn : \/ PeerConnects(c) \/ PeerDisconnects(c)
                      \/ Established(c) \/ EstablishFails(c)
    \/ HandlerNext
    \/ AppCall
    \/ AppStep
    \/ \E p \in Proc : RefillStep(p) \/ PostFails(p)
    \/ \E p \in Poller : PollLock(p) \/ PollStep(p) \/ CallRefill(p)

\* Threads inside a call keep running, and the event channel is polled again
\* and again.  A writer waits its turn among the readers (strong fairness: the
\* lock of the map lets a writer in eventually).
Fairness ==
    /\ SF_vars(HandlerNext \/ RefillStep(Handler))
    /\ SF_vars(AppStep \/ RefillStep(App))
    /\ \A p \in Poller : WF_vars(PollStep(p) \/ RefillStep(p))

Spec == Init /\ [][Next]_vars /\ Fairness

-----------------------------------------------------------------------------
\* The types of the state: no queue pair completes more receives than it has.
TypeOK ==
    /\ ev \in Seq(Event)
    /\ got \in Event \cup {NoEvent}
    /\ link \in [Conn -> Link]
    /\ obj \in [Conn -> {"none", "alive", "dead"}]
    /\ clients \subseteq Conn /\ pool \subseteq Conn /\ init \subseteq Conn
    /\ posted \in [Conn -> Nat] /\ flushed \in [Conn -> Nat]
    /\ free \in Nat /\ lost \in 0..MaxLost /\ gone \in [Conn -> Nat]
    /\ readers \subseteq Proc
    /\ pc \in [Proc -> PC]
    /\ cur \in [Proc -> Conn \cup {None}]
    /\ todo \in [Proc -> SUBSET Conn]
    /\ ref \in [Proc -> Conn \cup {None}]

\* An ESTABLISHED or DISCONNECTED event always finds its client in the map,
\* whatever requests failed, were rejected or were removed meanwhile.
EventFindsClient == fault # "null client"

\* A thread that polls or refills works on usable clients only: erase waits for
\* the readers, destruction comes after erase, and a client in the map has its
\* memory pool.  There is one exception, the window of
\* makeServerToServerConnection between the insertion and setMemoryPool, in
\* which a refill can end the process.
ClientsUsable ==
    /\ \A c \in clients :
          /\ obj[c] = "alive"
          /\ c \in pool \/ (pc[App] = "setPool" /\ cur[App] = c) \/ fault # "none"
    /\ \A p \in Proc :
          /\ pc[p] \in {"polling"} \cup Refilling => p \in readers /\ todo[p] \subseteq clients
          /\ pc[p] \in Prepost => ref[p] \in clients

\* The connection manager waits, for ever, in the destruction of an id that has
\* an event not acknowledged: "must be done before removing the rdma cm id".
AckBeforeDestroy ==
    [][\A c \in Conn :
          obj[c] = "alive" /\ obj'[c] = "dead" =>
              ~(got.type = "DISCONNECTED" /\ got.conn = c)]_vars

\* The regions connection c has taken from the pool: its receives and its failed
\* completions, or what it had of them when it was destroyed.
Taken(c) == posted[c] + flushed[c] + gone[c]

\* The same, as pairs.
Kept == UNION {{c} \X (1..Taken(c)) : c \in Conn}

\* Connections that come and go take regions from the pool and, since nobody gives
\* back the receives of a client that is destroyed, for good.  Beside those, the
\* regions of failed posts and the ones in the hands of a refill, none is missing.
RegionsAccounted ==
    fault = "none" =>
        free + lost + Cardinality({p \in Proc : pc[p] = "post"}) + Cardinality(Kept)
            = NumRegions

\* A connection never takes more regions than the pre-posted receives and, because
\* refills race, one for every thread but one.
ReceivesBounded == \A c \in Conn : Taken(c) <= Preposts + Cardinality(Proc) - 1

\* A refill finds the pool empty, or it has just posted a receive.
RefillBusy ==
    \E p \in Proc : (pc[p] = "get" /\ free = 0) \/ pc[p] = "count"

\* Every request is answered, unless the client could not be created or a post
\* failed ("dropped"), or the process died.  Otherwise a request waits for ever
\* only if refills find the pool empty again and again, or post receives again and
\* again for messages that keep coming: whether it is the refill of the handler
\* itself, or that of another reader while insert or erase waits for the lock.
RequestsAnswered ==
    \A c \in Conn :
        link[c] = "asked" ~> (link[c] # "asked" \/ fault # "none" \/ RefillBusy)

\* "This can be useful to prevent two connections being established at the same
\* time": a connection the callback refused does not become a client.
RejectedIsNoClient ==
    \A c \in clients : link[c] # "rejected"

\* "we must not disconnect if there are outstanding work requests": an orderly
\* disconnect does not kill the process.
DisconnectIsClean == fault # "failed completion"
=============================================================================
