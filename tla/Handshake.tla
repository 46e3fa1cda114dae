----------------------------- MODULE Handshake -----------------------------
(***************************************************************************)
(* One connection from end to end: the active side, an RdmaClient made by  *)
(* makeServerToServerConnection, with the events of its own channel; the   *)
(* passive side, a client made by eventChannelHandler; the messages of the *)
(* connection manager between them, which may be lost; and sends, which    *)
(* need a receive at the other end.                                        *)
(*                                                                         *)
(* Module Controller has many connections and the threads that use them;   *)
(* here it is the order of the steps of one connection that matters.       *)
(*                                                                         *)
(* hpx's get_event acknowledges the event it was asked for; connect reads  *)
(* any other one afterwards, so that is still unacknowledged.              *)
(***************************************************************************)
EXTENDS Integers, Sequences, FiniteSets, FiniteSetsExt

CONSTANTS
    Preposts,     \* RDMA_MAX_PREPOSTS
    MaxSends      \* bound: sends of each side

ASSUME HandshakeAssumption ==
    /\ Preposts \in Nat \ {0}
    /\ MaxSends \in Nat

Side == {"A", "P"}
Peer(s) == IF s = "A" THEN "P" ELSE "A"

NoEvent == "none"
Refusal == {"ADDR_ERROR", "ROUTE_ERROR", "REJECTED", "UNREACHABLE"}
Event == Refusal \cup {"ADDR_RESOLVED", "ROUTE_RESOLVED", "CONNECT_REQUEST",
                       "ESTABLISHED", "DISCONNECTED"}

\* rnr_retry_count 7: a send that finds no receive is repeated for ever.
RetryForEver == 7

VARIABLES
    apc,       \* where the active side is
    chan,      \* events on the active side's channel
    event,     \* its _event
    unacked,   \* events fetched from the channel and not acknowledged
    slip,      \* a call that fetches an event has failed (at most one does)
    id,        \* its id and channel
    ppc,       \* where the passive side's event handler is
    lchan,     \* events on the listener's channel
    up,        \* sides whose parcelport knows the connection and may send
    cm,        \* side -> state of the connection manager
    net,       \* its messages on their way
    qp,        \* side -> state of the queue pair
    posted,    \* side -> receives posted
    sent,      \* side -> messages sent
    rcvd,      \* side -> messages received
    rnr,       \* side -> how often a send of it is repeated for lack of a receive
    nak        \* side -> how often that happened, at most RetryForEver + 1

activeVars  == <<apc, chan, event, unacked, slip, id>>
passiveVars == <<ppc, lchan>>
cmVars      == <<cm, net>>
dataVars    == <<qp, posted, sent, rcvd, rnr, nak>>
vars == <<activeVars, passiveVars, up, cmVars, dataVars>>

Waiting == {"waitAddr", "waitRoute", "waitConn", "waitDisc"}

APC == Waiting \cup {"new", "resolve", "makePeer", "route", "connect", "made",
                     "ready", "destroy", "gone", "threw", "dead"}

CM == {"idle", "addr", "addrOk", "route", "routeOk", "req", "asked", "dropped", "accepted",
       "est", "dreq", "closing", "failed", "down"}
Message == {"REQ", "REP", "REJ", "RTU", "DREQ_A", "DREQ_P"}

Init ==
    /\ apc = "new" /\ chan = <<>> /\ event = NoEvent /\ unacked = 0
    /\ slip = FALSE /\ id = "none"
    /\ ppc = "idle" /\ lchan = <<>>
    /\ up = {}
    /\ cm = [s \in Side |-> "idle"]
    /\ net = {}
    /\ qp = [s \in Side |-> "none"]
    /\ posted = [s \in Side |-> 0]
    /\ sent = [s \in Side |-> 0]
    /\ rcvd = [s \in Side |-> 0]
    /\ rnr = [s \in Side |-> 0]
    /\ nak = [s \in Side |-> 0]

Cm(s, state) == cm' = [cm EXCEPT ![s] = state]
Qp(s, state) == qp' = [qp EXCEPT ![s] = state]

-----------------------------------------------------------------------------
(* The active side: constructor *)

CreateId ==
    /\ apc = "new"
    /\ \/ id' = "made" /\ apc' = "resolve"
       \/ id' \in {"none", "leaked"} /\ apc' = "threw"
    /\ UNCHANGED <<chan, event, unacked, slip, passiveVars, up, cmVars, dataVars>>

ResolveAddress ==
    /\ apc = "resolve"
    /\ Cm("A", "addr")
    /\ apc' = "waitAddr"
    /\ UNCHANGED <<chan, event, unacked, slip, id, passiveVars, up, net, dataVars>>

\* A bad address, or rdma_resolve_addr fails: the constructor throws and no
\* destructor gives the id and the channel back.
ResolveAddressThrows ==
    /\ apc = "resolve"
    /\ id' = "leaked"
    /\ apc' = "threw"
    /\ UNCHANGED <<chan, event, unacked, slip, passiveVars, up, cmVars, dataVars>>

\* mutant: other events are dropped and the wait goes on.
GetEventOnly(want, good, bad) ==
    /\ chan # <<>>
    /\ chan' = Tail(chan)
    /\ apc' = IF Head(chan) = want THEN good ELSE apc
    /\ UNCHANGED <<event, unacked, slip, id>>

\* get_event(channel, want, _event)
GetEvent(want, good, bad) ==
    /\ chan # <<>>
    /\ chan' = Tail(chan)
    /\ IF Head(chan) = want
       THEN /\ event' = NoEvent
            /\ unacked' = unacked
            /\ apc' = good
       ELSE /\ event' = Head(chan)
            /\ unacked' = unacked + 1
            /\ apc' = bad
    /\ UNCHANGED <<slip, id>>

\* The constructor does not look at the result.
AddressWaited ==
    /\ apc = "waitAddr"
    /\ GetEvent("ADDR_RESOLVED", "makePeer", "makePeer")
    /\ UNCHANGED <<passiveVars, up, cmVars, dataVars>>

-----------------------------------------------------------------------------
(* makePeer *)

CreateQp ==
    /\ apc = "makePeer"
    /\ cm["A"] = "addrOk"
    /\ Qp("A", "init")
    /\ apc' = "route"
    /\ UNCHANGED <<chan, event, unacked, slip, id, passiveVars, up, cmVars, posted, sent, rcvd, rnr, nak>>

\* No regions or, always so without an address, no queue pair: makePeer returns
\* the error, and the caller asks for the number of a queue pair it has not got.
CreateQpFails ==
    /\ apc = "makePeer"
    /\ apc' = "dead"
    /\ UNCHANGED <<chan, event, unacked, slip, id, passiveVars, up, cmVars, dataVars>>

ResolveRoute ==
    /\ apc = "route"
    /\ Cm("A", "route")
    /\ apc' = "waitRoute"
    /\ UNCHANGED <<chan, event, unacked, slip, id, passiveVars, up, net, dataVars>>

RouteWaited ==
    /\ apc = "waitRoute"
    /\ GetEvent("ROUTE_RESOLVED", "connect", "made")
    /\ UNCHANGED <<passiveVars, up, cmVars, dataVars>>

\* mutant: rnr_retry_count is left at zero.
ConnectNoRetry ==
    /\ apc = "connect"
    /\ Cm("A", "req")
    /\ net' = net \cup {"REQ"}
    /\ apc' = "waitConn"
    /\ UNCHANGED <<chan, event, unacked, slip, id, passiveVars, up, dataVars>>

\* The parameters go to the other side, for its sends.
Connect ==
    /\ apc = "connect"
    /\ Cm("A", "req")
    /\ net' = net \cup {"REQ"}
    /\ rnr' = [rnr EXCEPT !["P"] = RetryForEver]
    /\ apc' = "waitConn"
    /\ UNCHANGED <<chan, event, unacked, slip, id, passiveVars, up, qp, posted, sent, rcvd, nak>>

\* rdma_resolve_route or rdma_connect fails.
MakePeerReturnsError ==
    /\ apc \in {"route", "connect"}
    /\ apc' = "made"
    /\ UNCHANGED <<chan, event, unacked, slip, id, passiveVars, up, cmVars, dataVars>>

\* The queue pair becomes usable, and the other side hears of it, when the
\* event is fetched.
Connected ==
    /\ apc = "waitConn"
    /\ GetEvent("ESTABLISHED", "made", "made")
    /\ IF Head(chan) = "ESTABLISHED"
       THEN /\ Qp("A", "rts")
            /\ net' = net \cup {"RTU"}
       ELSE UNCHANGED <<qp, net>>
    /\ UNCHANGED <<passiveVars, up, cm, posted, sent, rcvd, rnr, nak>>

\* The caller, which ignores what makePeer returned, posts the first receives.
RefillActive ==
    /\ apc = "made"
    /\ posted' = [posted EXCEPT !["A"] = Preposts]
    /\ up' = up \cup {"A"}
    /\ apc' = "ready"
    /\ UNCHANGED <<chan, event, unacked, slip, id, passiveVars, cmVars, qp, sent, rcvd, rnr, nak>>

-----------------------------------------------------------------------------
(* disconnect(true) and the destructor *)

\* The thread waits for an event after every rdma_disconnect that returned 0.
\* External: that it returns 0 only for a connection that exists, or is being
\* closed by the other side, and that an event then comes.
Disconnect ==
    /\ apc = "ready"
    /\ cm["A"] \in {"est", "closing"}
    /\ IF cm["A"] = "est"
       THEN Cm("A", "dreq") /\ net' = net \cup {"DREQ_A"}
       ELSE UNCHANGED cmVars
    /\ Qp("A", "error")
    /\ up' = up \ {"A"}
    /\ apc' = "waitDisc"
    /\ UNCHANGED <<chan, event, unacked, slip, id, passiveVars, posted, sent, rcvd, rnr, nak>>

\* rdma_disconnect fails, as it always does when there never was a connection.
DisconnectFails ==
    /\ apc = "ready"
    /\ up' = up \ {"A"}
    /\ apc' = "destroy"
    /\ UNCHANGED <<chan, event, unacked, slip, id, passiveVars, cmVars, dataVars>>

\* mutant: the event is not acknowledged.
DisconnectedNoAck ==
    /\ apc = "waitDisc"
    /\ chan # <<>>
    /\ chan' = Tail(chan)
    /\ event' = Head(chan)
    /\ unacked' = unacked + 1
    /\ apc' = "destroy"
    /\ UNCHANGED <<slip, id, passiveVars, up, cmVars, dataVars>>

\* mutant: an event is acknowledged twice.
DisconnectedAckTwice ==
    /\ apc = "waitDisc"
    /\ chan # <<>>
    /\ chan' = Tail(chan)
    /\ event' = NoEvent
    /\ unacked' = unacked - 1
    /\ apc' = "destroy"
    /\ UNCHANGED <<slip, id, passiveVars, up, cmVars, dataVars>>

\* waitForEvent and ackEvent
Disconnected ==
    /\ apc = "waitDisc"
    /\ chan # <<>>
    /\ chan' = Tail(chan)
    /\ event' = NoEvent
    /\ apc' = "destroy"
    /\ UNCHANGED <<unacked, slip, id, passiveVars, up, cmVars, dataVars>>

\* rdma_get_cm_event itself fails: the events stay where they are, to be met by
\* the next wait.
FetchFails ==
    /\ apc \in Waiting
    /\ ~slip
    /\ slip' = TRUE
    /\ apc' = CASE apc = "waitAddr" -> "makePeer"
                 [] apc = "waitDisc" -> "destroy"
                 [] OTHER -> "made"
    /\ UNCHANGED <<chan, event, unacked, id, passiveVars, up, cmVars, dataVars>>

\* rdma_destroy_id waits for events to be acknowledged.
Destroy ==
    /\ apc = "destroy"
    /\ unacked = 0
    /\ Qp("A", "none")
    /\ posted' = [posted EXCEPT !["A"] = 0]
    /\ id' = "destroyed"
    /\ IF cm["A"] \in {"est", "closing"}
       THEN Cm("A", "down") /\ net' = net \cup {"DREQ_A"}
       ELSE UNCHANGED cmVars
    /\ apc' = "gone"
    /\ UNCHANGED <<chan, event, unacked, slip, passiveVars, up, sent, rcvd, rnr, nak>>

-----------------------------------------------------------------------------
(* The passive side: eventChannelHandler *)

Listen(type) ==
    /\ ppc = "idle"
    /\ lchan # <<>>
    /\ Head(lchan) = type
    /\ lchan' = Tail(lchan)

\* mutant: the request is accepted before receives are posted.
CreateClientUnposted ==
    /\ Listen("CONNECT_REQUEST")
    /\ Qp("P", "init")
    /\ ppc' = "accept"
    /\ UNCHANGED <<activeVars, up, cmVars, posted, sent, rcvd, rnr, nak>>

\* The client is made, put in the map and given receives.
CreateClient ==
    /\ Listen("CONNECT_REQUEST")
    /\ Qp("P", "init")
    /\ posted' = [posted EXCEPT !["P"] = Preposts]
    /\ ppc' = "accept"
    /\ UNCHANGED <<activeVars, up, cmVars, sent, rcvd, rnr, nak>>

\* The client could not be made: no answer.
CreateClientFails ==
    /\ Listen("CONNECT_REQUEST")
    /\ Cm("P", "dropped")
    /\ UNCHANGED <<activeVars, ppc, up, net, dataVars>>

Accept ==
    /\ ppc = "accept"
    /\ Cm("P", "accepted")
    /\ net' = net \cup {"REP"}
    /\ rnr' = [rnr EXCEPT !["A"] = RetryForEver]
    /\ Qp("P", "rts")
    /\ ppc' = "idle"
    /\ UNCHANGED <<activeVars, lchan, up, posted, sent, rcvd, nak>>

AcceptFails ==
    /\ ppc = "accept"
    /\ Cm("P", "down")
    /\ net' = net \cup {"REJ"}
    /\ Qp("P", "none")
    /\ posted' = [posted EXCEPT !["P"] = 0]
    /\ ppc' = "idle"
    /\ UNCHANGED <<activeVars, lchan, up, sent, rcvd, rnr, nak>>

\* The connection function tells the parcelport.
HandleEstablished ==
    /\ Listen("ESTABLISHED")
    /\ up' = up \cup {"P"}
    /\ UNCHANGED <<activeVars, ppc, cmVars, dataVars>>

HandleUnsupported ==
    /\ Listen("UNREACHABLE")
    /\ UNCHANGED <<activeVars, ppc, up, cmVars, dataVars>>

HandleDisconnected ==
    /\ Listen("DISCONNECTED")
    /\ Cm("P", "down")
    /\ Qp("P", "none")
    /\ posted' = [posted EXCEPT !["P"] = 0]
    /\ up' = up \ {"P"}
    /\ UNCHANGED <<activeVars, ppc, net, sent, rcvd, rnr, nak>>

\* The passive process ends.
PassiveExits ==
    /\ ppc = "idle"
    /\ cm["P"] = "est"
    /\ ppc' = "exited"
    /\ Cm("P", "down")
    /\ net' = net \cup {"DREQ_P"}
    /\ Qp("P", "none")
    /\ posted' = [posted EXCEPT !["P"] = 0]
    /\ up' = up \ {"P"}
    /\ UNCHANGED <<activeVars, lchan, sent, rcvd, rnr, nak>>

-----------------------------------------------------------------------------
(* The connection manager; a message that is lost stands for all its       *)
(* repetitions                                                             *)

Report(e) == chan' = Append(chan, e)

Resolve(asked, done, good, bad) ==
    /\ cm["A"] = asked
    /\ \/ Cm("A", done) /\ Report(good)
       \/ Cm("A", "failed") /\ Report(bad)
    /\ UNCHANGED <<apc, event, unacked, slip, id, passiveVars, up, net, dataVars>>

ResolveAnswered ==
    \/ Resolve("addr", "addrOk", "ADDR_RESOLVED", "ADDR_ERROR")
    \/ Resolve("route", "routeOk", "ROUTE_RESOLVED", "ROUTE_ERROR")

\* A reply, a rejection, or a time-out whatever is on its way.
ConnectAnswered ==
    /\ cm["A"] = "req"
    /\ \/ "REP" \in net /\ net' = net \ {"REP"} /\ Cm("A", "est") /\ Report("ESTABLISHED")
       \/ "REJ" \in net /\ net' = net \ {"REJ"} /\ Cm("A", "failed") /\ Report("REJECTED")
       \/ net' = net /\ Cm("A", "failed") /\ Report("UNREACHABLE")
    /\ UNCHANGED <<apc, event, unacked, slip, id, passiveVars, up, dataVars>>

ToListener(m, from, to, e) ==
    /\ m \in net
    /\ cm["P"] \in from
    /\ net' = net \ {m}
    /\ Cm("P", to)
    /\ lchan' = Append(lchan, e)
    /\ UNCHANGED <<activeVars, ppc, up, dataVars>>

ListenerHears ==
    \/ ToListener("REQ", {"idle"}, "asked", "CONNECT_REQUEST")
    \/ ToListener("RTU", {"accepted"}, "est", "ESTABLISHED")
    \/ ToListener("DREQ_A", {"accepted", "est"}, "closing", "DISCONNECTED")

\* Nobody confirms the accepted connection.
EstablishTimesOut ==
    /\ cm["P"] = "accepted"
    /\ "RTU" \notin net
    /\ Cm("P", "failed")
    /\ lchan' = Append(lchan, "UNREACHABLE")
    /\ UNCHANGED <<activeVars, ppc, up, net, dataVars>>

\* The other side's reply to the disconnect, or a time-out.
DisconnectAnswered ==
    /\ cm["A"] = "dreq"
    /\ Cm("A", "down")
    /\ Report("DISCONNECTED")
    /\ UNCHANGED <<apc, event, unacked, slip, id, passiveVars, up, net, dataVars>>

PeerDisconnects ==
    /\ "DREQ_P" \in net
    /\ cm["A"] = "est"
    /\ net' = net \ {"DREQ_P"}
    /\ Cm("A", "closing")
    /\ Report("DISCONNECTED")
    /\ UNCHANGED <<apc, event, unacked, slip, id, passiveVars, up, dataVars>>

Lose ==
    /\ \E m \in net : net' = net \ {m}
    /\ UNCHANGED <<activeVars, passiveVars, up, cm, dataVars>>

-----------------------------------------------------------------------------
(* Sends *)

PostSend(s) ==
    /\ s \in up
    /\ qp[s] = "rts"
    /\ sent[s] < MaxSends
    /\ sent' = [sent EXCEPT ![s] = @ + 1]
    /\ UNCHANGED <<activeVars, passiveVars, up, cmVars, qp, posted, rcvd, rnr, nak>>

OnTheWire(s) == sent[s] > rcvd[Peer(s)] /\ qp[s] = "rts" /\ qp[Peer(s)] = "rts"

Deliver(s) ==
    /\ OnTheWire(s)
    /\ posted[Peer(s)] > 0
    /\ posted' = [posted EXCEPT ![Peer(s)] = @ - 1]
    /\ rcvd' = [rcvd EXCEPT ![Peer(s)] = @ + 1]
    /\ UNCHANGED <<activeVars, passiveVars, up, cmVars, qp, sent, rnr, nak>>

\* The receiver is not ready: the device repeats the send as often as it may.
ReceiverNotReady(s) ==
    /\ OnTheWire(s)
    /\ posted[Peer(s)] = 0
    /\ nak' = [nak EXCEPT ![s] = Min({@ + 1, RetryForEver + 1})]
    /\ qp' = IF rnr[s] # RetryForEver /\ nak'[s] > rnr[s]
             THEN [qp EXCEPT ![s] = "broken"]
             ELSE qp
    /\ UNCHANGED <<activeVars, passiveVars, up, cmVars, posted, sent, rcvd, rnr>>

\* A client is in the map of its controller, and so polled and refilled.
InMap(s) == IF s = "A" THEN apc = "ready" ELSE qp["P"] # "none"

\* The parcelport has dealt with its messages and tops the receives of all
\* clients up.
Refill(s) ==
    /\ InMap(s)
    /\ posted[s] < Preposts
    /\ posted' = [posted EXCEPT ![s] = Preposts]
    /\ UNCHANGED <<activeVars, passiveVars, up, cmVars, qp, sent, rcvd, rnr, nak>>

-----------------------------------------------------------------------------
ActiveStep ==
    \/ CreateId \/ ResolveAddress \/ ResolveAddressThrows \/ AddressWaited
    \/ CreateQp \/ CreateQpFails \/ ResolveRoute \/ RouteWaited
    \/ Connect \/ MakePeerReturnsError \/ Connected \/ RefillActive
    \/ Disconnected \/ Destroy

PassiveStep ==
    \/ CreateClient \/ CreateClientFails \/ Accept \/ AcceptFails
    \/ HandleEstablished \/ HandleUnsupported \/ HandleDisconnected

Answer == ResolveAnswered \/ ConnectAnswered \/ DisconnectAnswered

Next ==
    \/ ActiveStep \/ PassiveStep \/ Answer
    \/ FetchFails \/ Disconnect \/ DisconnectFails \/ PassiveExits
    \/ ListenerHears \/ EstablishTimesOut \/ PeerDisconnects \/ Lose
    \/ \E s \in Side : PostSend(s) \/ Deliver(s) \/ ReceiverNotReady(s) \/ Refill(s)

\* The threads run; the connection manager answers or times out; the device
\* delivers what finds a receive; the parcelport refills.  Nobody is obliged to
\* send or to disconnect, and messages of the connection manager may be lost.
Fairness ==
    /\ WF_vars(ActiveStep)
    /\ WF_vars(PassiveStep)
    /\ WF_vars(Answer)
    /\ \A s \in Side : WF_vars(Deliver(s)) /\ WF_vars(Refill(s))

Spec == Init /\ [][Next]_vars /\ Fairness

-----------------------------------------------------------------------------
\* The types of the state: no event is acknowledged twice.
TypeOK ==
    /\ apc \in APC
    /\ chan \in Seq(Event) /\ lchan \in Seq(Event)
    /\ event \in Event \cup {NoEvent}
    /\ unacked \in Nat
    /\ slip \in BOOLEAN
    /\ id \in {"none", "made", "leaked", "destroyed"}
    /\ ppc \in {"idle", "accept", "exited"}
    /\ up \subseteq Side
    /\ cm \in [Side -> CM]
    /\ net \subseteq Message
    /\ qp \in [Side -> {"none", "init", "rts", "error", "broken"}]
    /\ posted \in [Side -> 0..Preposts]
    /\ sent \in [Side -> 0..MaxSends] /\ rcvd \in [Side -> 0..MaxSends]
    /\ rnr \in [Side -> 0..RetryForEver]
    /\ nak \in [Side -> 0..(RetryForEver + 1)]

\* The first messages of the active side find a receive, because the passive
\* side posts them before it accepts: none has to be repeated.
FirstSendsFindReceives == sent["A"] <= Preposts => nak["A"] = 0

\* Every message arrives while both queue pairs are usable, even those the
\* passive side sends before the active side has posted any receive.
MessagesArrive ==
    \A s \in Side : \A k \in 1..MaxSends :
        sent[s] >= k ~> (rcvd[Peer(s)] >= k \/ \E r \in Side : qp[r] \in {"none", "error"})

\* A thread that waits for an event of its connection gets one, also if the
\* address, the route or the connection is refused or the messages are lost.
WaitsEnd == \A w \in Waiting : apc = w ~> apc # w

\* The destructor waits for an unacknowledged event only if the connection was
\* refused (the event connect keeps in _event), or a failed fetch has put the
\* waits one event behind.
DestroyBlocksOnlyIfRefused ==
    apc = "destroy" => unacked = 0 \/ (unacked = 1 /\ (event \in Refusal \/ slip))
=============================================================================
