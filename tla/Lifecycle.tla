----------------------------- MODULE Lifecycle -----------------------------
(***************************************************************************)
(* The life of the objects behind a controller: startup, with every step   *)
(* that can fail; clients that come and go; and the destructors, in the    *)
(* order in which C++ runs them.                                           *)
(*                                                                         *)
(* Objects of the library are shared: held has a pair <<h, o>> for every   *)
(* shared_ptr to o that h has.  When the last one goes, the destructor of  *)
(* o runs: its calls are put in front of the work still to be done.  The   *)
(* handles of verbs and of the connection manager (external) are in        *)
(* exists; verbs refuses to destroy one that another was made from.        *)
(*                                                                         *)
(* An object or handle is a pair of its kind and the connection it is for. *)
(***************************************************************************)
EXTENDS Sequences, FiniteSets, SequencesExt

CONSTANTS
    Conn,   \* connections
    None    \* for what does not belong to a connection

ASSUME LifecycleAssumption == None \notin Conn /\ IsFiniteSet(Conn)

VARIABLES
    config,    \* the build has a shared receive queue; an interface was named
    pc,        \* how far startup and the destructor of the controller are
    held,      \* <<holder, object>>
    exists,    \* handles of verbs and of the connection manager
    work,      \* the calls that the destructors under way have still to make
    active,    \* connections that this side made
    made,      \* connections that got a client
    unacked,   \* ids with an event that was not acknowledged
    failed,    \* connections for which makePeer met an event it had not asked for
    \* What the properties are about:
    orderly,   \* connections closed while nobody else held their client
    refused,   \* handles that verbs refused to destroy: nobody tries again
    lost,      \* handles that an exception or an early return left behind
    uaf        \* handles destroyed through a structure that was freed before

vars == <<config, pc, held, exists, work, active, made, unacked, failed, orderly, refused, lost, uaf>>

history  == <<orderly, refused, lost, uaf>>
connVars == <<active, made, unacked, failed>>

\* Holders: the controller, the parcelport, the local variables of a call.
Ctl  == <<"controller", None>>
App  == <<"parcelport", None>>
Call == <<"call", None>>

\* Objects of the library.
Listener  == <<"listener", None>>
Domain    == <<"domain", None>>
Channel   == <<"channel", None>>
Pool      == <<"pool", None>>
Large     == <<"large", None>>
Srq       == <<"srqueue", None>>
Client(c) == <<"client", c>>
Queue(c)  == <<"queue", c>>

Object == {Listener, Domain, Channel, Pool, Large, Srq}
              \cup {Client(c) : c \in Conn} \cup {Queue(c) : c \in Conn}
Handle == ({"devlist", "iflist", "id", "evch", "pd", "compch", "poolmr", "largemr", "tempmr", "srq"}
              \X {None})
          \cup ({"id", "evch", "cq", "qp", "mr"} \X Conn)

\* The handles that x was made from.
Parents(x) ==
    CASE x[1] = "qp"  -> {<<"pd", None>>, <<"cq", x[2]>>, <<"id", x[2]>>}
      [] x[1] \in {"mr", "poolmr", "largemr", "tempmr"} -> {<<"pd", None>>}
      [] x[1] = "srq" -> {<<"pd", None>>, <<"id", None>>}
      [] x[1] = "id"  -> {<<"evch", IF x[2] \in active THEN x[2] ELSE None>>}
      [] OTHER -> {}

\* Verbs objects count their users; the connection manager's do not.
Refuses(x) ==
    /\ x[1] \in {"pd", "cq", "compch"}
    /\ \E y \in exists : x \in Parents(y)

UsesFreed(x) == \E y \in Parents(x) : y[1] \in {"id", "evch"} /\ y \notin exists

HasHolder(o) == \E h \in held : h[2] = o

-----------------------------------------------------------------------------
(* Destructors: the calls they make, in order.  Dropping a reference that  *)
(* is not there, and freeing a handle that is null, does nothing.          *)

Drop(h, o) == [op |-> "drop", by |-> h, obj |-> o]
Free(x)    == [op |-> "free", by |-> x, obj |-> x]

\* mutant: the event channel is kept.
RdmaConnectionDtorKeepsChannel(o) ==
    <<Free(<<"qp", o[2]>>), Free(<<"id", o[2]>>), Drop(o, Srq), Drop(o, Pool)>>

\* The body of ~RdmaConnection, its member _srq, then ~RdmaConnectionBase.
RdmaConnectionDtor(o) ==
    <<Free(<<"qp", o[2]>>), Free(<<"id", o[2]>>), Free(<<"evch", o[2]>>),
      Drop(o, Srq), Drop(o, Pool)>>

\* mutant: the client gives the pool back itself, as the one for Blue Gene does.
RdmaClientDtorPool(c) ==
    <<Free(<<"mr", c>>), Drop(Client(c), Pool), Drop(Client(c), Queue(c)), Drop(Client(c), Domain)>>

\* The body of ~RdmaClient, then its members, last declared first: the queue
\* goes before the base class destroys the queue pair.
RdmaClientDtor(c) ==
    <<Free(<<"mr", c>>), Drop(Client(c), Queue(c)), Drop(Client(c), Domain)>>

\* ~RdmaMemoryPool: whatever DeallocateList says, the block lists go with the
\* pool's members; protection_domain_ is declared before them.
RdmaMemoryPoolDtor == <<Free(<<"poolmr", None>>), Drop(Pool, Domain)>>

\* rdma_destroy_srq, on the id of the listener.
RdmaSharedReceiveQueueDtor == <<Free(<<"srq", None>>), Drop(Srq, Domain)>>

Destructor(o) ==
    CASE o[1] = "client"   -> RdmaClientDtor(o[2]) \o RdmaConnectionDtor(o)
      [] o[1] = "listener" -> RdmaConnectionDtor(o)
      [] o[1] = "queue"    -> <<Free(<<"cq", o[2]>>)>>
      [] o[1] = "domain"   -> <<Free(<<"pd", None>>)>>
      [] o[1] = "channel"  -> <<Free(<<"compch", None>>)>>
      [] o[1] = "pool"     -> RdmaMemoryPoolDtor
      [] o[1] = "large"    -> <<Free(<<"largemr", None>>)>>
      [] o[1] = "srqueue"  -> RdmaSharedReceiveQueueDtor

ClearClients == SetToSeq({Drop(Ctl, Client(c)) : c \in Conn})

\* mutant: the listener is closed before the clients.
RdmaControllerDtorListenerFirst ==
    <<Drop(Ctl, Listener)>> \o ClearClients
        \o <<Drop(Ctl, Large), Drop(Ctl, Pool), Drop(Ctl, Domain), Drop(Ctl, Channel)>>

RdmaControllerDtor ==
    ClearClients
        \o <<Drop(Ctl, Listener), Drop(Ctl, Large), Drop(Ctl, Pool), Drop(Ctl, Domain),
             Drop(Ctl, Channel)>>

\* A reference is dropped; the last one runs the destructor.
DropStep ==
    /\ work # <<>>
    /\ Head(work).op = "drop"
    /\ LET o == Head(work).obj
           ref == <<Head(work).by, o>>
       IN  /\ held' = held \ {ref}
           /\ work' = IF ref \in held /\ ~\E h \in held' : h[2] = o
                      THEN Destructor(o) \o Tail(work)
                      ELSE Tail(work)
    /\ UNCHANGED <<config, pc, exists, connVars, history>>

\* mutant: a handle that could not be destroyed is forgotten all the same.
Destroyed(x) == TRUE

\* The call succeeds.
Destroys(x) == ~Refuses(x)

\* A handle is destroyed, or verbs refuses, which is logged.  rdma_destroy_id
\* waits for the events of the id to be acknowledged.
FreeStep ==
    /\ work # <<>>
    /\ Head(work).op = "free"
    /\ work' = Tail(work)
    /\ LET x == Head(work).obj
       IN  /\ x \notin unacked
           /\ exists'  = IF Destroys(x) THEN exists \ {x} ELSE exists
           /\ refused' = IF x \in exists /\ Refuses(x) THEN refused \cup {x} ELSE refused
           /\ uaf'     = IF x \in exists /\ UsesFreed(x) THEN uaf \cup {x} ELSE uaf
    /\ UNCHANGED <<config, pc, held, connVars, orderly, lost>>

-----------------------------------------------------------------------------
(* startup *)

Init ==
    /\ config \in [srq : BOOLEAN, interface : BOOLEAN]
    /\ pc = "device"
    /\ held = {} /\ exists = {} /\ work = <<>>
    /\ active = {} /\ made = {} /\ unacked = {} /\ failed = {}
    /\ orderly = {} /\ refused = {} /\ lost = {} /\ uaf = {}

Goto(from, to) == pc = from /\ pc' = to

\* The handles of linkDevice, a local of startup: they go when it returns.
DeviceLists == {<<"devlist", None>>, <<"iflist", None>>}

\* startup returns an error.
ReturnError(from) ==
    /\ Goto(from, "failed")
    /\ exists' = exists \ DeviceLists
    /\ UNCHANGED <<config, held, work, connVars, history>>

\* A step of startup succeeds, with new references and handles.
Progress(from, to, refs, handles) ==
    /\ Goto(from, to)
    /\ held' = held \cup refs
    /\ exists' = exists \cup handles
    /\ UNCHANGED <<config, work, connVars, history>>

OpenDevice ==
    Progress("device", "listener", {},
             {<<"devlist", None>>} \cup IF config.interface THEN {<<"iflist", None>>} ELSE {})

\* The constructor of RdmaDevice throws: no device, or the device or interface
\* named is not among those of the node.  Its destructor does not run.
OpenDeviceFails ==
    /\ Goto("device", "failed")
    /\ \E l \in {{}, {<<"devlist", None>>}}
               \cup IF config.interface THEN {DeviceLists} ELSE {} :
          exists' = l /\ lost' = l
    /\ UNCHANGED <<config, held, work, connVars, orderly, refused, uaf>>

CreateListener ==
    Progress("listener", "domain", {<<Ctl, Listener>>}, {<<"evch", None>>, <<"id", None>>})

\* createId throws: no event channel, or no id for it.
CreateListenerFails ==
    /\ Goto("listener", "failed")
    /\ \E l \in {{}, {<<"evch", None>>}} :
          /\ exists' = (exists \ DeviceLists) \cup l
          /\ lost' = l
    /\ UNCHANGED <<config, held, work, connVars, orderly, refused, uaf>>

\* bind aborts the process when the address cannot be bound.
BindAborts ==
    /\ Goto("listener", "aborted")
    /\ UNCHANGED <<config, held, exists, work, connVars, history>>

\* Without an interface the address of the device is 0, and an id bound to any
\* address has no device: getContext gives null.
HasContext == config.interface

AllocateDomain ==
    /\ HasContext
    /\ Progress("domain", "channel", {<<Ctl, Domain>>}, {<<"pd", None>>})

CreateChannel ==
    Progress("channel", "pool", {<<Ctl, Channel>>}, {<<"compch", None>>})

CreatePool ==
    Progress("pool", IF config.srq THEN "srq" ELSE "listen",
             {<<Ctl, Pool>>, <<Pool, Domain>>}, {<<"poolmr", None>>})

\* A chunk that could not be registered: the address of no region is read.
CreatePoolCrashes ==
    /\ Goto("pool", "aborted")
    /\ UNCHANGED <<config, held, exists, work, connVars, history>>

\* create_srq; that it failed is not looked at.
CreateSrq ==
    \/ Progress("srq", "listen", {<<Listener, Srq>>, <<Srq, Domain>>}, {<<"srq", None>>})
    \/ Progress("srq", "listen", {}, {})

Listen == Progress("listen", "large", {}, {})

\* startup returns 0; linkDevice is destroyed.
AllocateLarge ==
    /\ Goto("large", "running")
    /\ held' = held \cup {<<Ctl, Large>>}
    /\ exists' = (exists \ DeviceLists) \cup {<<"largemr", None>>}
    /\ UNCHANGED <<config, work, connVars, history>>

Startup ==
    \/ OpenDevice \/ OpenDeviceFails
    \/ CreateListener \/ CreateListenerFails \/ BindAborts
    \/ AllocateDomain \/ CreateChannel \/ CreatePool \/ CreatePoolCrashes
    \/ CreateSrq \/ Listen \/ AllocateLarge
    \/ \E s \in {"domain", "channel", "listen", "large"} : ReturnError(s)

-----------------------------------------------------------------------------
(* Clients; one call at a time *)

Ready == pc = "running" /\ work = <<>>

NewConn(c) == c \notin made /\ <<"id", c>> \notin exists

\* A request of a peer is accepted.  Its id is on the listener's event channel.
AcceptClient(c) ==
    /\ Ready /\ NewConn(c)
    /\ made' = made \cup {c}
    /\ exists' = exists \cup ({"id", "cq", "qp", "mr"} \X {c})
    /\ held' = held \cup {<<Ctl, Client(c)>>, <<Client(c), Queue(c)>>, <<Client(c), Pool>>}
                    \cup IF HasHolder(Srq) THEN {<<Client(c), Srq>>} ELSE {}
    /\ UNCHANGED <<config, pc, work, active, unacked, failed, history>>

\* The completion queue, the queue pair (the id is left) or the regions (the
\* base class undoes the rest) cannot be made: the handler returns, and the
\* request, an event of the listener, is never acknowledged.
AcceptClientFails(c) ==
    /\ Ready /\ NewConn(c)
    /\ unacked' = unacked \cup {<<"id", None>>}
    /\ \/ /\ exists' = exists \cup {<<"id", c>>}
          /\ lost' = lost \cup {<<"id", c>>}
       \/ UNCHANGED <<exists, lost>>
    /\ UNCHANGED <<config, pc, held, work, active, made, failed, orderly, refused, uaf>>

\* makeServerToServerConnection: an id with an event channel of its own.  What
\* makePeer returns is not looked at: a route or connection that was refused, an
\* event which makePeer leaves unacknowledged, becomes a client like any other.
ConnectClient(c) ==
    /\ Ready /\ NewConn(c)
    /\ made' = made \cup {c}
    /\ active' = active \cup {c}
    /\ exists' = exists \cup ({"evch", "id", "cq", "qp", "mr"} \X {c})
    /\ held' = held \cup {<<Ctl, Client(c)>>, <<Client(c), Queue(c)>>,
                          <<Client(c), Domain>>, <<Client(c), Pool>>}
    /\ \/ UNCHANGED <<unacked, failed>>
       \/ /\ unacked' = unacked \cup {<<"id", c>>}
          /\ failed' = failed \cup {c}
    /\ UNCHANGED <<config, pc, work, history>>

\* The constructor of the client throws and the caller goes on with a null
\* pointer, or makePeer returns before it has made the queue pair whose number
\* the caller asks for.
ConnectClientCrashes ==
    /\ Goto("running", "aborted") /\ work = <<>>
    /\ UNCHANGED <<config, held, exists, work, connVars, history>>

\* mutant: the queue is left to the client.
LocalsNoQueue(c) == {<<Call, Client(c)>>}

\* The references that a call which closes a connection takes.
Locals(c) == {<<Call, Client(c)>>, <<Call, Queue(c)>>}

\* mutant: the DISCONNECTED event is acknowledged at the end of the handler.
AckLate(c) == {<<"id", c>>}

\* The events of the id not acknowledged when the client is destroyed.
AckFirst(c) == {}

\* A connection is closed: the DISCONNECTED event of a peer,
\* removeServerToServerConnection, or an accept that failed.
CloseClient(c) ==
    /\ Ready
    /\ <<Ctl, Client(c)>> \in held
    /\ held' = held \cup Locals(c)
    /\ unacked' = unacked \cup AckFirst(c)
    /\ work' = <<Drop(Ctl, Client(c)), Drop(Call, Client(c)), Drop(Call, Queue(c))>>
    /\ orderly' = IF <<App, Client(c)>> \in held THEN orderly ELSE orderly \cup {c}
    /\ UNCHANGED <<config, pc, exists, active, made, failed, refused, lost, uaf>>

\* The parcelport keeps what a getter or a callback gives it, ...
Keep(o) ==
    /\ Ready
    /\ <<Ctl, o>> \in held
    /\ held' = held \cup {<<App, o>>}
    /\ UNCHANGED <<config, pc, exists, work, connVars, history>>

\* ... and lets it go at any time, after the controller too.
LetGo(o) ==
    /\ pc \in {"running", "gone"} /\ work = <<>>
    /\ <<App, o>> \in held
    /\ work' = <<Drop(App, o)>>
    /\ UNCHANGED <<config, pc, held, exists, connVars, history>>

\* A region registered on the fly, which only its user can give back.
TakeTemporary ==
    /\ Ready
    /\ exists' = exists \cup {<<"tempmr", None>>}
    /\ UNCHANGED <<config, pc, held, work, connVars, history>>

ReturnTemporary ==
    /\ pc # "aborted" /\ work = <<>> /\ HasHolder(Pool)
    /\ exists' = exists \ {<<"tempmr", None>>}
    /\ UNCHANGED <<config, pc, held, work, connVars, history>>

DestroyController ==
    /\ pc \in {"running", "failed"} /\ work = <<>>
    /\ pc' = "destroying"
    /\ work' = RdmaControllerDtor
    /\ UNCHANGED <<config, held, exists, connVars, history>>

ControllerGone ==
    /\ Goto("destroying", "gone") /\ work = <<>>
    /\ UNCHANGED <<config, held, exists, work, connVars, history>>

Next ==
    \/ Startup
    \/ \E c \in Conn : \/ AcceptClient(c) \/ AcceptClientFails(c) \/ ConnectClient(c)
                      \/ CloseClient(c) \/ Keep(Client(c)) \/ LetGo(Client(c))
    \/ \E o \in {Listener, Domain, Channel, Pool} : Keep(o) \/ LetGo(o)
    \/ ConnectClientCrashes \/ TakeTemporary \/ ReturnTemporary
    \/ DestroyController \/ ControllerGone
    \/ DropStep \/ FreeStep

\* A destructor under way goes on.
Fairness == WF_vars(DropStep) /\ WF_vars(FreeStep)

Spec == Init /\ [][Next]_vars /\ Fairness

-----------------------------------------------------------------------------
\* The types of the state; what was refused or left behind is still there.
TypeOK ==
    /\ config \in [srq : BOOLEAN, interface : BOOLEAN]
    /\ held \subseteq ({Ctl, App, Call} \cup Object) \X Object
    /\ exists \subseteq Handle
    /\ refused \cup lost \subseteq exists
    /\ unacked \subseteq Handle
    /\ failed \subseteq active
    /\ orderly \subseteq made /\ active \subseteq made /\ made \subseteq Conn

\* As long as a queue pair exists, whoever keeps its client, so do the memory
\* of the pool it may receive into and its completion queue; and the protection
\* domain is still in use at its end only if a user never gave a temporary
\* region back.
TeardownOrder ==
    /\ \A c \in Conn : <<"qp", c>> \in exists =>
          {<<"poolmr", None>>, <<"pd", None>>, <<"cq", c>>} \subseteq exists
    /\ <<"pd", None>> \in refused => <<"tempmr", None>> \in exists

\* A completion queue is destroyed when its connection is closed by a call that
\* holds the queue and nobody else holds the client; in every other case (the
\* destructor of the controller, a client the parcelport keeps) the client
\* drops its queue before its queue pair, verbs refuses, and the queue is lost.
QueueLostUnlessClosed ==
    \A c \in made :
        work = <<>> /\ ~HasHolder(Client(c)) =>
            (<<"cq", c>> \in refused <=> c \notin orderly)

\* When the controller and all references are gone, after any sequence of calls
\* and after a startup that failed anywhere, nothing is left but what verbs
\* refused, what an exception left behind, and a temporary region not returned.
NothingLeft ==
    pc = "gone" /\ work = <<>> /\ held = {} =>
        exists \subseteq refused \cup lost \cup {<<"tempmr", None>>}

\* The destructor of the controller never destroys an id after the event
\* channel it is on: that takes a parcelport that keeps the client of a peer
\* longer than the listener.
ChannelOutlivesIds ==
    \A c \in Conn : <<"id", c>> \in uaf => c \notin active /\ pc # "destroying"

\* Every close and every destructor returns, or comes to an id that it waits for
\* because of an event nobody will acknowledge: the listener's, after a request
\* that was dropped, or that of a connection this side did not get.
TeardownEnds ==
    work # <<>> ~>
        \/ work = <<>>
        \/ \E c \in failed \cup {None} : <<"id", c>> \in unacked /\ Head(work) = Free(<<"id", c>>)
=============================================================================
