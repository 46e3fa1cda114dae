--------------------------- MODULE HandshakeProofs ---------------------------
(***************************************************************************)
(* Proofs, for any number of receives and sends, of the safety properties  *)
(* of Handshake.                                                           *)
(*                                                                         *)
(* FirstSendsFindReceives counts the receives posted on the passive side.  *)
(* DestroyBlocksOnlyIfRefused follows what each wait of the active side    *)
(* finds on the channel: as long as no fetch has failed, the event of the  *)
(* request it made, and nothing before that.                               *)
(***************************************************************************)
EXTENDS Handshake, TLAPS

\* Messages that arrived have taken a receive from those of the first refill.
ReceivesInv ==
    /\ ppc = "accept" \/ qp["P"] = "rts" => posted["P"] + rcvd["P"] >= Preposts
    /\ FirstSendsFindReceives

\* The answer to the request asked of the connection manager is the next event.
Answered(asked, done, good) ==
    \/ cm["A"] = asked /\ chan = <<>>
    \/ cm["A"] \in done /\ chan # <<>> /\ Head(chan) = good
    \/ cm["A"] = "failed" /\ chan # <<>> /\ Head(chan) \in Refusal

\* The channel while no fetch has failed.
ChannelInv ==
    /\ apc \in {"new", "resolve"} => chan = <<>> /\ cm["A"] = "idle"
    /\ apc = "waitAddr" => Len(chan) <= 1 /\ Answered("addr", {"addrOk"}, "ADDR_RESOLVED")
    /\ apc = "makePeer" => chan = <<>> /\ cm["A"] = IF unacked = 0 THEN "addrOk" ELSE "failed"
    /\ apc = "route" => chan = <<>> /\ cm["A"] = "addrOk"
    /\ apc = "waitRoute" => Len(chan) <= 1 /\ Answered("route", {"routeOk"}, "ROUTE_RESOLVED")
    /\ apc = "connect" => chan = <<>> /\ cm["A"] = "routeOk"
    /\ apc = "waitConn" => Answered("req", {"est", "closing"}, "ESTABLISHED")

\* Where an event can be unacknowledged.
AckInv ==
    /\ apc \in {"new", "resolve", "waitAddr"} => ~slip
    /\ apc \in {"new", "resolve", "waitAddr", "route", "waitRoute", "connect", "waitConn"} => unacked = 0
    /\ apc = "makePeer" => unacked = 0 \/ (~slip /\ unacked = 1)
    /\ apc \in {"made", "ready"} =>
          unacked = 0 \/ (unacked = 1 /\ (slip \/ (event \in Refusal /\ cm["A"] = "failed")))
    /\ apc = "waitDisc" => unacked = 0 \/ (unacked = 1 /\ slip)
    /\ DestroyBlocksOnlyIfRefused

EventsInv == AckInv /\ (~slip => ChannelInv)

IInv == TypeOK /\ ReceivesInv /\ EventsInv


-----------------------------------------------------------------------------
(* Types *)

\* The count of repeated sends stops at its bound.
LEMMA MinFacts ==
    ASSUME NEW i \in Int, NEW j \in Int
    PROVE  Min({i, j}) = IF i <= j THEN i ELSE j
<1>1. CASE i <= j
    BY <1>1 DEF Min
<1>2. CASE ~(i <= j)
    BY <1>2 DEF Min
<1> QED BY <1>1, <1>2

\* Every step leaves the state well typed: no event is acknowledged that was not
\* fetched, and no more receives are posted than there is room for.
LEMMA TypeStep == TypeOK /\ [Next]_vars => TypeOK'
<1> SUFFICES ASSUME TypeOK, [Next]_vars PROVE TypeOK'
    OBVIOUS
<1>seq. /\ \A e \in Event : Append(chan, e) \in Seq(Event) /\ Append(lchan, e) \in Seq(Event)
        /\ chan # <<>> => Tail(chan) \in Seq(Event) /\ Head(chan) \in Event
        /\ lchan # <<>> => Tail(lchan) \in Seq(Event)
    BY DEF TypeOK
<1>const. /\ Preposts \in Nat \ {0} /\ MaxSends \in Nat /\ Preposts \in 0..Preposts /\ 0 \in 0..Preposts
    BY HandshakeAssumption
<1>ev. {"ADDR_RESOLVED", "ROUTE_RESOLVED", "CONNECT_REQUEST", "ESTABLISHED", "DISCONNECTED",
        "ADDR_ERROR", "ROUTE_ERROR", "REJECTED", "UNREACHABLE"} \subseteq Event
    BY DEF Event, Refusal
<1>cm. /\ {"idle", "addr", "addrOk", "route", "routeOk", "req", "asked", "dropped", "accepted",
           "est", "dreq", "closing", "failed", "down"} \subseteq CM
       /\ {"REQ", "REP", "REJ", "RTU", "DREQ_A", "DREQ_P"} \subseteq Message
    BY DEF CM, Message
<1>1. CASE CreateId
    BY <1>1 DEF CreateId, TypeOK, APC, passiveVars, cmVars, dataVars
<1>2. CASE ResolveAddress
    BY <1>2, <1>cm DEF ResolveAddress, Cm, TypeOK, APC, Waiting, Side, passiveVars, dataVars
<1>3. CASE ResolveAddressThrows
    BY <1>3 DEF ResolveAddressThrows, TypeOK, APC, passiveVars, cmVars, dataVars
<1>4. CASE AddressWaited
    BY <1>4, <1>seq, <1>ev DEF AddressWaited, GetEvent, TypeOK, APC, Waiting, NoEvent,
        passiveVars, cmVars, dataVars
<1>5. CASE CreateQp
    BY <1>5 DEF CreateQp, Qp, TypeOK, APC, Side, passiveVars, cmVars
<1>6. CASE CreateQpFails
    BY <1>6 DEF CreateQpFails, TypeOK, APC, passiveVars, cmVars, dataVars
<1>7. CASE ResolveRoute
    BY <1>7, <1>cm DEF ResolveRoute, Cm, TypeOK, APC, Waiting, Side, passiveVars, dataVars
<1>8. CASE RouteWaited
    BY <1>8, <1>seq, <1>ev DEF RouteWaited, GetEvent, TypeOK, APC, Waiting, NoEvent,
        passiveVars, cmVars, dataVars
<1>9. CASE Connect
    BY <1>9, <1>cm DEF Connect, Cm, TypeOK, APC, Waiting, Side, RetryForEver, passiveVars
<1>10. CASE MakePeerReturnsError
    BY <1>10 DEF MakePeerReturnsError, TypeOK, APC, passiveVars, cmVars, dataVars
<1>11. CASE Connected
  <2>1. /\ apc' \in APC /\ chan' \in Seq(Event) /\ event' \in Event \cup {NoEvent} /\ unacked' \in Nat
        /\ UNCHANGED <<slip, id>>
      BY <1>11, <1>seq DEF Connected, GetEvent, TypeOK, APC
  <2>2. /\ qp' \in [Side -> {"none", "init", "rts", "error", "broken"}] /\ net' \subseteq Message
      BY <1>11, <1>cm DEF Connected, Qp, TypeOK, Side
  <2> QED BY <1>11, <2>1, <2>2 DEF Connected, TypeOK, passiveVars
<1>12. CASE RefillActive
    BY <1>12, <1>const DEF RefillActive, TypeOK, APC, Side, passiveVars, cmVars
<1>13. CASE Disconnected
    BY <1>13, <1>seq, <1>ev DEF Disconnected, TypeOK, APC, Waiting, NoEvent, passiveVars,
        cmVars, dataVars
<1>14. CASE Destroy
    BY <1>14, <1>const, <1>cm DEF Destroy, Cm, Qp, TypeOK, APC, Side, passiveVars, cmVars
<1>15. CASE CreateClient
    BY <1>15, <1>seq, <1>const DEF CreateClient, Qp, Listen, TypeOK, Side, activeVars, cmVars
<1>16. CASE CreateClientFails
    BY <1>16, <1>seq, <1>cm DEF CreateClientFails, Cm, Listen, TypeOK, Side, activeVars,
        dataVars
<1>17. CASE Accept
    BY <1>17, <1>cm DEF Accept, Cm, Qp, TypeOK, Side, RetryForEver, activeVars
<1>18. CASE AcceptFails
    BY <1>18, <1>const, <1>cm DEF AcceptFails, Cm, Qp, TypeOK, Side, activeVars
<1>19. CASE HandleEstablished
    BY <1>19, <1>seq DEF HandleEstablished, Listen, TypeOK, Side, activeVars, cmVars, dataVars
<1>20. CASE HandleUnsupported
    BY <1>20, <1>seq DEF HandleUnsupported, Listen, TypeOK, activeVars, cmVars, dataVars
<1>21. CASE HandleDisconnected
    BY <1>21, <1>seq, <1>const, <1>cm DEF HandleDisconnected, Cm, Qp, Listen, TypeOK, Side,
        activeVars
<1>22. CASE ResolveAnswered
  <2>1. ASSUME NEW asked, NEW done \in CM, NEW good \in Event, NEW bad \in Event,
               Resolve(asked, done, good, bad)
        PROVE  TypeOK'
    <3>1. cm' \in [Side -> CM] /\ chan' \in Seq(Event)
        BY <1>seq, <1>cm, <2>1 DEF Resolve, Cm, Report, TypeOK
    <3> QED BY <2>1, <3>1 DEF Resolve, TypeOK, passiveVars, dataVars
  <2> QED BY <1>22, <1>ev, <1>cm, <2>1 DEF ResolveAnswered
<1>23. CASE ConnectAnswered
  <2>1. cm' \in [Side -> CM] /\ chan' \in Seq(Event) /\ net' \subseteq Message
    <3>1. PICK c \in CM, e \in Event : Cm("A", c) /\ Report(e) /\ net' \subseteq net
        BY <1>23, <1>ev, <1>cm DEF ConnectAnswered
    <3> QED BY <1>seq, <3>1 DEF Cm, Report, TypeOK
  <2> QED BY <1>23, <2>1 DEF ConnectAnswered, TypeOK, passiveVars, dataVars
<1>24. CASE DisconnectAnswered
    BY <1>24, <1>ev, <1>cm DEF DisconnectAnswered, Cm, Report, TypeOK, Side, passiveVars,
        dataVars
<1>25. CASE FetchFails
    BY <1>25 DEF FetchFails, TypeOK, APC, Waiting, passiveVars, cmVars, dataVars
<1>26. CASE Disconnect
    BY <1>26, <1>cm DEF Disconnect, Cm, Qp, TypeOK, APC, Waiting, Side, passiveVars, cmVars
<1>27. CASE DisconnectFails
    BY <1>27 DEF DisconnectFails, TypeOK, APC, Side, passiveVars, cmVars, dataVars
<1>28. CASE PassiveExits
    BY <1>28, <1>const, <1>cm DEF PassiveExits, Cm, Qp, TypeOK, Side, activeVars
<1>29. CASE ListenerHears
  <2>1. ASSUME NEW m, NEW from, NEW to \in CM, NEW e \in Event, ToListener(m, from, to, e)
        PROVE  TypeOK'
    <3>1. cm' \in [Side -> CM] /\ lchan' \in Seq(Event) /\ net' \subseteq Message
        BY <1>seq, <2>1 DEF ToListener, Cm, TypeOK
    <3> QED BY <2>1, <3>1 DEF ToListener, TypeOK, activeVars, dataVars
  <2> QED BY <1>29, <1>ev, <1>cm, <2>1 DEF ListenerHears
<1>30. CASE EstablishTimesOut
    BY <1>30, <1>seq, <1>ev, <1>cm DEF EstablishTimesOut, Cm, TypeOK, Side, activeVars,
        dataVars
<1>31. CASE PeerDisconnects
    BY <1>31, <1>ev, <1>cm DEF PeerDisconnects, Cm, Report, TypeOK, Side, passiveVars, dataVars
<1>32. CASE Lose
    BY <1>32, <1>cm DEF Lose, TypeOK, activeVars, passiveVars, dataVars
<1>33. ASSUME NEW s \in Side, PostSend(s) PROVE TypeOK'
    BY <1>33, <1>const DEF PostSend, TypeOK, activeVars, passiveVars, cmVars
<1>34. ASSUME NEW s \in Side, Deliver(s) PROVE TypeOK'
  <2>1. PICK r \in Side : r = Peer(s)
      BY DEF Peer, Side
  <2>2. /\ posted' = [posted EXCEPT ![r] = posted[r] - 1] /\ rcvd' = [rcvd EXCEPT ![r] = rcvd[r] + 1]
        /\ posted[r] > 0 /\ sent[s] > rcvd[r]
        /\ UNCHANGED <<activeVars, passiveVars, up, cmVars, qp, sent, rnr, nak>>
      BY <1>34, <2>1 DEF Deliver, OnTheWire
  <2>3. posted[r] \in 0..Preposts /\ sent[s] \in 0..MaxSends /\ rcvd[r] \in 0..MaxSends
      BY DEF TypeOK
  <2>4. posted[r] - 1 \in 0..Preposts /\ rcvd[r] + 1 \in 0..MaxSends
      BY <1>const, <2>2, <2>3
  <2>5. posted' \in [Side -> 0..Preposts] /\ rcvd' \in [Side -> 0..MaxSends]
      BY <2>2, <2>4 DEF TypeOK
  <2> QED BY <2>2, <2>5 DEF TypeOK, activeVars, passiveVars, cmVars
<1>35. ASSUME NEW s \in Side, ReceiverNotReady(s) PROVE TypeOK'
  <2>0. PICK k \in 0..8 : k = nak[s]
      BY DEF TypeOK, RetryForEver
  <2>1. Min({nak[s] + 1, RetryForEver + 1}) \in 0..(RetryForEver + 1)
    <3>1. k + 1 \in Int /\ 8 \in Int
        OBVIOUS
    <3>2. Min({k + 1, 8}) = IF k + 1 <= 8 THEN k + 1 ELSE 8
        BY <3>1, MinFacts
    <3>3. RetryForEver + 1 = 8
        BY DEF RetryForEver
    <3> QED BY <2>0, <3>2, <3>3
  <2>2. nak' \in [Side -> 0..(RetryForEver + 1)]
      BY <1>35, <2>1 DEF ReceiverNotReady, TypeOK
  <2>3. qp' \in [Side -> {"none", "init", "rts", "error", "broken"}]
      BY <1>35 DEF ReceiverNotReady, TypeOK
  <2> QED BY <1>35, <2>2, <2>3 DEF ReceiverNotReady, TypeOK, activeVars, passiveVars, cmVars
<1>36. ASSUME NEW s \in Side, Refill(s) PROVE TypeOK'
    BY <1>36, <1>const DEF Refill, TypeOK, Side, activeVars, passiveVars, cmVars
<1>37. CASE UNCHANGED vars
    BY <1>37 DEF vars, activeVars, passiveVars, cmVars, dataVars, TypeOK
<1> QED BY <1>1, <1>2, <1>3, <1>4, <1>5, <1>6, <1>7, <1>8, <1>9, <1>10, <1>11, <1>12, <1>13,
        <1>14, <1>15, <1>16, <1>17, <1>18, <1>19, <1>20, <1>21, <1>22, <1>23, <1>24, <1>25,
        <1>26, <1>27, <1>28, <1>29, <1>30, <1>31, <1>32, <1>33, <1>34, <1>35, <1>36, <1>37
        DEF Next, ActiveStep, PassiveStep, Answer

-----------------------------------------------------------------------------
(* Receives of the passive side *)

\* Every step keeps the count of the receives, so a send that is one of the first
\* Preposts finds one.
LEMMA ReceivesStep == TypeOK /\ ReceivesInv /\ [Next]_vars => ReceivesInv'
<1> SUFFICES ASSUME TypeOK, ReceivesInv, [Next]_vars PROVE ReceivesInv'
    OBVIOUS
<1>type. /\ posted["P"] \in Nat /\ rcvd["P"] \in Nat /\ sent["A"] \in Nat /\ nak["A"] \in Nat
         /\ posted["P"] <= Preposts /\ Preposts \in Nat \ {0} /\ MaxSends \in Nat
         /\ posted \in [Side -> 0..Preposts] /\ rcvd \in [Side -> 0..MaxSends]
         /\ sent \in [Side -> 0..MaxSends] /\ nak \in [Side -> 0..(RetryForEver + 1)]
         /\ qp \in [Side -> {"none", "init", "rts", "error", "broken"}] /\ "A" \in Side /\ "P" \in Side
    BY HandshakeAssumption DEF TypeOK, Side
<1>old. /\ ppc = "accept" \/ qp["P"] = "rts" => posted["P"] + rcvd["P"] >= Preposts
        /\ sent["A"] <= Preposts => nak["A"] = 0
    BY DEF ReceivesInv, FirstSendsFindReceives
<1>quiet. ASSUME ppc' = ppc, qp'["P"] = qp["P"], posted'["P"] = posted["P"], rcvd'["P"] = rcvd["P"],
                 sent'["A"] = sent["A"], nak'["A"] = nak["A"]
          PROVE  ReceivesInv'
    BY <1>quiet, <1>old DEF ReceivesInv, FirstSendsFindReceives
<1>less. ASSUME ppc' # "accept", qp'["P"] # "rts", UNCHANGED <<sent, nak>> PROVE ReceivesInv'
    BY <1>less, <1>old DEF ReceivesInv, FirstSendsFindReceives
<1>1. CASE CreateId
    BY <1>1, <1>quiet, <1>type DEF CreateId, passiveVars, dataVars
<1>2. CASE ResolveAddress
    BY <1>2, <1>quiet, <1>type DEF ResolveAddress, passiveVars, dataVars
<1>3. CASE ResolveAddressThrows
    BY <1>3, <1>quiet, <1>type DEF ResolveAddressThrows, passiveVars, dataVars
<1>4. CASE AddressWaited
    BY <1>4, <1>quiet, <1>type DEF AddressWaited, passiveVars, dataVars
<1>5. CASE CreateQp
    BY <1>5, <1>quiet, <1>type DEF CreateQp, Qp, passiveVars
<1>6. CASE CreateQpFails
    BY <1>6, <1>quiet, <1>type DEF CreateQpFails, passiveVars, dataVars
<1>7. CASE ResolveRoute
    BY <1>7, <1>quiet, <1>type DEF ResolveRoute, passiveVars, dataVars
<1>8. CASE RouteWaited
    BY <1>8, <1>quiet, <1>type DEF RouteWaited, passiveVars, dataVars
<1>9. CASE Connect
    BY <1>9, <1>quiet, <1>type DEF Connect, passiveVars
<1>10. CASE MakePeerReturnsError
    BY <1>10, <1>quiet, <1>type DEF MakePeerReturnsError, passiveVars, dataVars
<1>11. CASE Connected
    BY <1>11, <1>quiet, <1>type DEF Connected, Qp, passiveVars
<1>12. CASE RefillActive
    BY <1>12, <1>quiet, <1>type DEF RefillActive, passiveVars
<1>13. CASE Disconnected
    BY <1>13, <1>quiet, <1>type DEF Disconnected, passiveVars, dataVars
<1>14. CASE Destroy
    BY <1>14, <1>quiet, <1>type DEF Destroy, Qp, passiveVars
<1>15. CASE CreateClient
  <2>1. posted'["P"] = Preposts /\ UNCHANGED <<rcvd, sent, nak>>
      BY <1>15, <1>type DEF CreateClient
  <2>2. posted'["P"] + rcvd'["P"] >= Preposts
      BY <1>type, <2>1
  <2> QED BY <1>old, <2>1, <2>2 DEF ReceivesInv, FirstSendsFindReceives
<1>16. CASE CreateClientFails
    BY <1>16, <1>quiet, <1>type DEF CreateClientFails, Listen, dataVars
<1>17. CASE Accept
    BY <1>17, <1>old DEF Accept, ReceivesInv, FirstSendsFindReceives
<1>18. CASE AcceptFails
    BY <1>18, <1>less, <1>type DEF AcceptFails, Qp
<1>19. CASE HandleEstablished
    BY <1>19, <1>quiet, <1>type DEF HandleEstablished, Listen, dataVars
<1>20. CASE HandleUnsupported
    BY <1>20, <1>quiet, <1>type DEF HandleUnsupported, Listen, dataVars
<1>21. CASE HandleDisconnected
    BY <1>21, <1>less, <1>type DEF HandleDisconnected, Listen, Qp
<1>22. CASE ResolveAnswered
    BY <1>22, <1>quiet, <1>type DEF ResolveAnswered, Resolve, passiveVars, dataVars
<1>23. CASE ConnectAnswered
    BY <1>23, <1>quiet, <1>type DEF ConnectAnswered, passiveVars, dataVars
<1>24. CASE DisconnectAnswered
    BY <1>24, <1>quiet, <1>type DEF DisconnectAnswered, passiveVars, dataVars
<1>25. CASE FetchFails
    BY <1>25, <1>quiet, <1>type DEF FetchFails, passiveVars, dataVars
<1>26. CASE Disconnect
    BY <1>26, <1>quiet, <1>type DEF Disconnect, Qp, passiveVars
<1>27. CASE DisconnectFails
    BY <1>27, <1>quiet, <1>type DEF DisconnectFails, passiveVars, dataVars
<1>28. CASE PassiveExits
    BY <1>28, <1>less, <1>type DEF PassiveExits, Qp
<1>29. CASE ListenerHears
    BY <1>29, <1>quiet, <1>type DEF ListenerHears, ToListener, dataVars
<1>30. CASE EstablishTimesOut
    BY <1>30, <1>quiet, <1>type DEF EstablishTimesOut, dataVars
<1>31. CASE PeerDisconnects
    BY <1>31, <1>quiet, <1>type DEF PeerDisconnects, passiveVars, dataVars
<1>32. CASE Lose
    BY <1>32, <1>quiet, <1>type DEF Lose, passiveVars, dataVars
<1>33. ASSUME NEW s \in Side, PostSend(s) PROVE ReceivesInv'
  <2>1. /\ sent' = [sent EXCEPT ![s] = sent[s] + 1] /\ sent[s] \in Nat
        /\ UNCHANGED <<ppc, qp, posted, rcvd, nak>>
      BY <1>33, <1>type DEF PostSend, passiveVars
  <2>2. sent'["A"] >= sent["A"] /\ sent'["A"] \in Nat
      BY <1>type, <2>1
  <2>3. sent'["A"] <= Preposts => sent["A"] <= Preposts
      BY <1>type, <2>2
  <2> QED BY <1>old, <2>1, <2>3 DEF ReceivesInv, FirstSendsFindReceives
<1>34. ASSUME NEW s \in Side, Deliver(s) PROVE ReceivesInv'
  <2>1. PICK r \in Side : r = Peer(s)
      BY DEF Peer, Side
  <2>2. /\ posted' = [posted EXCEPT ![r] = posted[r] - 1] /\ rcvd' = [rcvd EXCEPT ![r] = rcvd[r] + 1]
        /\ UNCHANGED <<ppc, qp, sent, nak>>
      BY <1>34, <2>1 DEF Deliver, passiveVars
  <2>3. posted'["P"] + rcvd'["P"] = posted["P"] + rcvd["P"]
    <3>1. CASE r = "P"
      <4>1. posted'["P"] = posted["P"] - 1 /\ rcvd'["P"] = rcvd["P"] + 1
          BY <1>type, <2>2, <3>1
      <4> QED BY <1>type, <4>1
    <3>2. CASE r # "P"
        BY <1>type, <2>2, <3>2
    <3> QED BY <3>1, <3>2
  <2> QED BY <1>old, <2>2, <2>3 DEF ReceivesInv, FirstSendsFindReceives
<1>35. ASSUME NEW s \in Side, ReceiverNotReady(s) PROVE ReceivesInv'
  <2>1. /\ UNCHANGED <<ppc, posted, sent, rcvd>>
        /\ qp' = qp \/ qp' = [qp EXCEPT ![s] = "broken"]
      BY <1>35 DEF ReceiverNotReady, passiveVars
  <2>2. qp'["P"] = "rts" => qp["P"] = "rts"
      BY <1>type, <2>1
  <2>3. sent'["A"] <= Preposts => nak'["A"] = 0
    <3>1. CASE s = "A"
      <4>1. sent["A"] > rcvd["P"] /\ qp["P"] = "rts" /\ posted["P"] = 0
          BY <1>35, <3>1 DEF ReceiverNotReady, OnTheWire, Peer
      <4>2. sent["A"] > Preposts
          BY <1>type, <1>old, <4>1
      <4> QED BY <1>type, <2>1, <4>2
    <3>2. CASE s # "A"
        BY <1>35, <1>type, <1>old, <2>1, <3>2 DEF ReceiverNotReady
    <3> QED BY <3>1, <3>2
  <2> QED BY <1>old, <2>1, <2>2, <2>3 DEF ReceivesInv, FirstSendsFindReceives
<1>36. ASSUME NEW s \in Side, Refill(s) PROVE ReceivesInv'
  <2>1. posted' = [posted EXCEPT ![s] = Preposts] /\ UNCHANGED <<ppc, qp, sent, rcvd, nak>>
      BY <1>36 DEF Refill, passiveVars
  <2>2. posted'["P"] + rcvd'["P"] >= posted["P"] + rcvd["P"]
    <3>1. CASE s = "P"
      <4>1. posted'["P"] = Preposts /\ rcvd'["P"] = rcvd["P"]
          BY <1>type, <2>1, <3>1
      <4> QED BY <1>type, <4>1
    <3>2. CASE s # "P"
        BY <1>type, <2>1, <3>2
    <3> QED BY <3>1, <3>2
  <2>3. posted'["P"] \in Nat /\ rcvd'["P"] \in Nat
      BY <1>type, <2>1
  <2>4. posted["P"] + rcvd["P"] >= Preposts => posted'["P"] + rcvd'["P"] >= Preposts
      BY <1>type, <2>2, <2>3
  <2> QED BY <1>old, <2>1, <2>4 DEF ReceivesInv, FirstSendsFindReceives
<1>37. CASE UNCHANGED vars
    BY <1>37, <1>quiet DEF vars, passiveVars, dataVars
<1> QED BY <1>1, <1>2, <1>3, <1>4, <1>5, <1>6, <1>7, <1>8, <1>9, <1>10, <1>11, <1>12, <1>13,
        <1>14, <1>15, <1>16, <1>17, <1>18, <1>19, <1>20, <1>21, <1>22, <1>23, <1>24, <1>25,
        <1>26, <1>27, <1>28, <1>29, <1>30, <1>31, <1>32, <1>33, <1>34, <1>35, <1>36, <1>37
        DEF Next, ActiveStep, PassiveStep, Answer

-----------------------------------------------------------------------------
(* Events of the active side *)

\* Every step keeps what the waits of the active side find on the channel, and
\* where an event is left without acknowledgement.
LEMMA EventsStep == TypeOK /\ EventsInv /\ [Next]_vars => EventsInv'
<1> SUFFICES ASSUME TypeOK, EventsInv, [Next]_vars PROVE EventsInv'
    OBVIOUS
<1>type. /\ chan \in Seq(Event) /\ unacked \in Nat /\ slip \in BOOLEAN /\ cm \in [Side -> CM]
         /\ "A" \in Side /\ "P" \in Side /\ NoEvent \notin Event
    BY DEF TypeOK, Side, NoEvent, Event, Refusal
<1>quiet. ASSUME UNCHANGED activeVars, cm'["A"] = cm["A"] PROVE EventsInv'
    BY <1>quiet DEF activeVars, EventsInv, AckInv, ChannelInv, Answered, DestroyBlocksOnlyIfRefused
<1>tail. chan # <<>> /\ Len(chan) <= 1 => Tail(chan) = <<>>
    BY <1>type
<1>app. ASSUME NEW e
        PROVE  /\ Append(chan, e) # <<>> /\ (chan = <<>> => Head(Append(chan, e)) = e)
               /\ (chan # <<>> => Head(Append(chan, e)) = Head(chan))
               /\ (chan = <<>> => Len(Append(chan, e)) <= 1)
  <2>0. PICK S : S = Event \cup {e}
      OBVIOUS
  <2>1. chan \in Seq(S) /\ e \in S
      BY <1>type, <2>0
  <2>2. PICK c : c = Append(chan, e)
      OBVIOUS
  <2>3. /\ c \in Seq(S) /\ Len(c) = Len(chan) + 1 /\ Len(chan) \in Nat /\ c[Len(chan) + 1] = e
        /\ \A i \in 1..Len(chan) : c[i] = chan[i]
      BY <2>1, <2>2
  <2>4. c # <<>> /\ Head(c) = c[1]
      BY <2>3
  <2>5. chan = <<>> => Len(chan) = 0
      OBVIOUS
  <2>6. chan # <<>> => 1 \in 1..Len(chan) /\ Head(chan) = chan[1]
      BY <2>1, <2>3
  <2> QED BY <2>2, <2>3, <2>4, <2>5, <2>6
<1>1. CASE CreateId
    BY <1>1, <1>type DEF CreateId, cmVars, EventsInv, AckInv, ChannelInv, Answered,
        DestroyBlocksOnlyIfRefused
<1>2. CASE ResolveAddress
    BY <1>2, <1>type DEF ResolveAddress, Cm, EventsInv, AckInv, ChannelInv, Answered,
        DestroyBlocksOnlyIfRefused
<1>3. CASE ResolveAddressThrows
    BY <1>3, <1>type DEF ResolveAddressThrows, cmVars, EventsInv, AckInv, ChannelInv, Answered,
        DestroyBlocksOnlyIfRefused
<1>4. CASE AddressWaited
    BY <1>4, <1>type, <1>tail DEF AddressWaited, GetEvent, cmVars, EventsInv, AckInv,
        ChannelInv, Answered, DestroyBlocksOnlyIfRefused, Refusal
<1>5. CASE CreateQp
    BY <1>5, <1>type DEF CreateQp, cmVars, EventsInv, AckInv, ChannelInv, Answered,
        DestroyBlocksOnlyIfRefused
<1>6. CASE CreateQpFails
    BY <1>6, <1>type DEF CreateQpFails, cmVars, EventsInv, AckInv, ChannelInv, Answered,
        DestroyBlocksOnlyIfRefused
<1>7. CASE ResolveRoute
    BY <1>7, <1>type DEF ResolveRoute, Cm, EventsInv, AckInv, ChannelInv, Answered,
        DestroyBlocksOnlyIfRefused
<1>8. CASE RouteWaited
    BY <1>8, <1>type, <1>tail DEF RouteWaited, GetEvent, cmVars, EventsInv, AckInv, ChannelInv,
        Answered, DestroyBlocksOnlyIfRefused, Refusal
<1>9. CASE Connect
    BY <1>9, <1>type DEF Connect, Cm, EventsInv, AckInv, ChannelInv, Answered,
        DestroyBlocksOnlyIfRefused
<1>10. CASE MakePeerReturnsError
    BY <1>10, <1>type DEF MakePeerReturnsError, cmVars, EventsInv, AckInv, ChannelInv,
        Answered, DestroyBlocksOnlyIfRefused
<1>11. CASE Connected
    BY <1>11, <1>type, <1>tail DEF Connected, GetEvent, EventsInv, AckInv, ChannelInv,
        Answered, DestroyBlocksOnlyIfRefused, Refusal
<1>12. CASE RefillActive
    BY <1>12, <1>type DEF RefillActive, cmVars, EventsInv, AckInv, ChannelInv, Answered,
        DestroyBlocksOnlyIfRefused
<1>13. CASE Disconnected
    BY <1>13, <1>type DEF Disconnected, cmVars, EventsInv, AckInv, ChannelInv, Answered,
        DestroyBlocksOnlyIfRefused, Refusal
<1>14. CASE Destroy
    BY <1>14, <1>type DEF Destroy, Cm, cmVars, EventsInv, AckInv, ChannelInv, Answered,
        DestroyBlocksOnlyIfRefused
<1>15. CASE CreateClient
    BY <1>15, <1>quiet, <1>type DEF CreateClient, cmVars
<1>16. CASE CreateClientFails
    BY <1>16, <1>quiet, <1>type DEF CreateClientFails, Cm
<1>17. CASE Accept
    BY <1>17, <1>quiet, <1>type DEF Accept, Cm
<1>18. CASE AcceptFails
    BY <1>18, <1>quiet, <1>type DEF AcceptFails, Cm
<1>19. CASE HandleEstablished
    BY <1>19, <1>quiet, <1>type DEF HandleEstablished, cmVars
<1>20. CASE HandleUnsupported
    BY <1>20, <1>quiet, <1>type DEF HandleUnsupported, cmVars
<1>21. CASE HandleDisconnected
    BY <1>21, <1>quiet, <1>type DEF HandleDisconnected, Cm
<1>22. CASE ResolveAnswered
    BY <1>22, <1>type, <1>app DEF ResolveAnswered, Resolve, Cm, Report, EventsInv, AckInv,
        ChannelInv, Answered, DestroyBlocksOnlyIfRefused, Refusal
<1>23. CASE ConnectAnswered
    BY <1>23, <1>type, <1>app DEF ConnectAnswered, Cm, Report, EventsInv, AckInv, ChannelInv,
        Answered, DestroyBlocksOnlyIfRefused, Refusal
<1>24. CASE DisconnectAnswered
    BY <1>24, <1>type, <1>app DEF DisconnectAnswered, Cm, Report, EventsInv, AckInv,
        ChannelInv, Answered, DestroyBlocksOnlyIfRefused, Refusal
<1>25. CASE FetchFails
    BY <1>25, <1>type DEF FetchFails, cmVars, EventsInv, AckInv, ChannelInv, Answered,
        DestroyBlocksOnlyIfRefused, Waiting
<1>26. CASE Disconnect
    BY <1>26, <1>type DEF Disconnect, Cm, cmVars, EventsInv, AckInv, ChannelInv, Answered,
        DestroyBlocksOnlyIfRefused, Refusal
<1>27. CASE DisconnectFails
    BY <1>27, <1>type DEF DisconnectFails, cmVars, EventsInv, AckInv, ChannelInv, Answered,
        DestroyBlocksOnlyIfRefused, Refusal
<1>28. CASE PassiveExits
    BY <1>28, <1>quiet, <1>type DEF PassiveExits, Cm
<1>29. CASE ListenerHears
    BY <1>29, <1>quiet, <1>type DEF ListenerHears, ToListener, Cm
<1>30. CASE EstablishTimesOut
    BY <1>30, <1>quiet, <1>type DEF EstablishTimesOut, Cm
<1>31. CASE PeerDisconnects
    BY <1>31, <1>type, <1>app DEF PeerDisconnects, Cm, Report, EventsInv, AckInv, ChannelInv,
        Answered, DestroyBlocksOnlyIfRefused, Refusal
<1>32. CASE Lose
    BY <1>32, <1>quiet, <1>type DEF Lose
<1>33. ASSUME NEW s \in Side, PostSend(s) PROVE EventsInv'
    BY <1>33, <1>quiet DEF PostSend, cmVars
<1>34. ASSUME NEW s \in Side, Deliver(s) PROVE EventsInv'
    BY <1>34, <1>quiet DEF Deliver, cmVars
<1>35. ASSUME NEW s \in Side, ReceiverNotReady(s) PROVE EventsInv'
    BY <1>35, <1>quiet DEF ReceiverNotReady, cmVars
<1>36. ASSUME NEW s \in Side, Refill(s) PROVE EventsInv'
    BY <1>36, <1>quiet DEF Refill, cmVars
<1>37. CASE UNCHANGED vars
    BY <1>37, <1>quiet DEF vars, cmVars
<1> QED BY <1>1, <1>2, <1>3, <1>4, <1>5, <1>6, <1>7, <1>8, <1>9, <1>10, <1>11, <1>12, <1>13,
        <1>14, <1>15, <1>16, <1>17, <1>18, <1>19, <1>20, <1>21, <1>22, <1>23, <1>24, <1>25,
        <1>26, <1>27, <1>28, <1>29, <1>30, <1>31, <1>32, <1>33, <1>34, <1>35, <1>36, <1>37
        DEF Next, ActiveStep, PassiveStep, Answer

-----------------------------------------------------------------------------
(* The theorems *)

\* The invariant holds before the client is made.
LEMMA InitInv == Init => IInv
<1> SUFFICES ASSUME Init PROVE IInv
    OBVIOUS
<1>1. <<>> \in Seq(Event) /\ Len(<<>>) = 0 /\ Preposts \in Nat /\ MaxSends \in Nat
    BY HandshakeAssumption
<1>2. TypeOK
  <2>1. 0 \in 0..Preposts /\ 0 \in 0..MaxSends /\ 0 \in 0..RetryForEver /\ 0 \in 0..(RetryForEver + 1)
      BY <1>1 DEF RetryForEver
  <2>2. /\ cm \in [Side -> CM] /\ qp \in [Side -> {"none", "init", "rts", "error", "broken"}]
        /\ posted \in [Side -> 0..Preposts] /\ sent \in [Side -> 0..MaxSends]
        /\ rcvd \in [Side -> 0..MaxSends] /\ rnr \in [Side -> 0..RetryForEver]
        /\ nak \in [Side -> 0..(RetryForEver + 1)]
      BY <2>1 DEF Init, CM
  <2> QED BY <1>1, <2>2 DEF Init, TypeOK, APC, NoEvent
<1>3. ReceivesInv
    BY DEF Init, ReceivesInv, FirstSendsFindReceives, Side
<1>4. EventsInv
    BY DEF Init, EventsInv, AckInv, ChannelInv, DestroyBlocksOnlyIfRefused, Side
<1> QED BY <1>2, <1>3, <1>4 DEF IInv

\* The invariant holds in every state of the connection, whatever the connection
\* manager refuses, loses or delays and whichever fetch of an event fails.
THEOREM Invariance == Spec => []IInv
<1>1. IInv /\ [Next]_vars => IInv'
    BY TypeStep, ReceivesStep, EventsStep DEF IInv
<1> QED BY <1>1, InitInv, PTL DEF Spec

\* The state is well typed; in particular no event is acknowledged twice.
THEOREM TypeCorrect == Spec => []TypeOK
<1>1. IInv => TypeOK
    BY DEF IInv
<1> QED BY <1>1, Invariance, PTL

\* None of the first Preposts sends of the active side is repeated for lack of a
\* receive: eventChannelHandler refills before it accepts.
THEOREM FirstSendsCorrect == Spec => []FirstSendsFindReceives
<1>1. IInv => FirstSendsFindReceives
    BY DEF IInv, ReceivesInv
<1> QED BY <1>1, Invariance, PTL

\* rdma_destroy_id in the destructor waits for an acknowledgement that never comes
\* only after a refused connection or a failed fetch.
THEOREM DestroyCorrect == Spec => []DestroyBlocksOnlyIfRefused
<1>1. IInv => DestroyBlocksOnlyIfRefused
    BY DEF IInv, EventsInv, AckInv
<1> QED BY <1>1, Invariance, PTL
=============================================================================
