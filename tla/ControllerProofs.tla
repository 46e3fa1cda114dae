-------------------------- MODULE ControllerProofs --------------------------
(***************************************************************************)
(* Proofs, for any number of connections and polling threads, of the       *)
(* safety properties of Controller.                                        *)
(*                                                                         *)
(* The invariant says how far each connection is: the events on the        *)
(* channel fit the state of their connection and come in order (EventInv), *)
(* the handler and the application each work on a connection in a state    *)
(* that no other step changes (HandlerInv, AppInv), and a connection a     *)
(* peer may still report on is in the map (ClientInv).  The connections    *)
(* the two threads work on differ since one side or the other made them.   *)
(* The regions are counted (RegionInv) with those a thread is about to     *)
(* take for a connection, since the receives alone say nothing of refills  *)
(* that have passed the test and not yet posted.                           *)
(***************************************************************************)
EXTENDS Controller, FiniteSetTheorems, TLAPS

\* A process that died does nothing more, and never died of a missing client.
FaultInv ==
    /\ fault # "none" => \A p \in Proc : pc[p] = "dead"
    /\ fault # "null client"

\* Threads that go through the map hold its lock.
LockInv ==
    \A p \in Proc :
        /\ pc[p] \in {"polling"} \cup Refilling => p \in readers /\ todo[p] \subseteq clients
        /\ pc[p] \in Prepost => ref[p] \in clients

\* An event on the channel fits the state of its connection.
EventOK(e) ==
    /\ e.type = "CONNECT_REQUEST" =>
          link[e.conn] = "asked" /\ cur[Handler] # e.conn /\ obj[e.conn] = "none"
    /\ e.type = "ESTABLISHED" =>
          /\ link[e.conn] \in {"up", "closing"}
          /\ ~(pc[Handler] = "DISCONNECTED" /\ cur[Handler] = e.conn)
    /\ e.type = "DISCONNECTED" =>
          /\ link[e.conn] = "closing"
          /\ ~(pc[Handler] = "DISCONNECTED" /\ cur[Handler] = e.conn)
    /\ e.type = "OTHER" => link[e.conn] = "broken"

\* Two events of one connection: never the same twice, and in order.
Ordered(e, f) ==
    e.conn = f.conn =>
        /\ e.type # f.type
        /\ ~(e.type = "DISCONNECTED" /\ f.type = "ESTABLISHED")

EventInv ==
    /\ \A i \in 1..Len(ev) : EventOK(ev[i])
    /\ \A i, j \in 1..Len(ev) : i < j => Ordered(ev[i], ev[j])

\* The handler works on a connection a peer asked for, and the steps of one
\* request or one disconnect have prepared what the next one needs.
HandlerInv ==
    LET c == cur[Handler]
        at == pc[Handler]
    IN  /\ at \notin {"idle", "dead"} => c \in Conn
        /\ c \in Conn => link[c] \in In \cup {"down"} /\ c \notin init
        /\ at \in {"CONNECT_REQUEST", "create", "insert", "refill", "accept", "undo"} \cup Refilling
              => link[c] \in {"asked", "rejected"}
        /\ at \in {"CONNECT_REQUEST", "create"} => obj[c] = "none"
        /\ at = "insert" => obj[c] = "alive" /\ c \in pool
        /\ at \in {"refill", "accept"} \cup Refilling => c \in clients
        /\ at = "ESTABLISHED" => link[c] \in {"up", "closing"}
        /\ at = "DISCONNECTED" => link[c] = "closing"
        /\ at \in {"ackDisconnect", "erase", "destroy"} => link[c] = "down"
        /\ at \in {"undo", "destroy"} => c \notin clients

\* The application works on a connection it made itself.
AppInv ==
    LET c == cur[App]
        at == pc[App]
    IN  /\ at \in {"insert", "setPool", "setInitiated", "waitDisconnected", "erase", "destroy"}
              => c \in Conn /\ link[c] \in Out \cup {"down"}
        /\ at \in {"insert", "setPool", "setInitiated"} => link[c] \in Out
        /\ at = "insert" => obj[c] = "alive"
        /\ at \in {"waitDisconnected", "erase", "destroy"} => c \in init
        /\ at = "destroy" => c \notin clients

\* The clients in the map, and the connections that must be there.
ClientInv ==
    \A c \in Conn :
        /\ c \in clients =>
              /\ obj[c] = "alive"
              /\ c \in pool \/ (pc[App] = "setPool" /\ cur[App] = c) \/ fault # "none"
        /\ link[c] \in {"accepted", "up", "broken", "closing"} => c \in clients
        /\ link[c] = "none" => obj[c] = "none"
        /\ c \in init => link[c] \in Out \cup {"down"}

\* A DISCONNECTED event is not acknowledged only while its connection is being
\* disconnected.
GotInv ==
    got.type = "DISCONNECTED" =>
        \/ fault # "none"
        \/ pc[Handler] \in {"DISCONNECTED", "ackDisconnect"} /\ cur[Handler] = got.conn

\* The threads that have taken, or are about to take, a region for connection c, the
\* ones that have posted it and not counted, and the ones with a region in hand.
Taking(c) == {p \in Proc : pc[p] \in {"get", "post"} /\ ref[p] = c}
Counting(c) == {p \in Proc : pc[p] = "count" /\ ref[p] = c}
InHand == {p \in Proc : pc[p] = "post"}

\* Regions are lost with a connection only when it is destroyed.
GoneInv == \A c \in Conn : obj[c] # "dead" => gone[c] = 0

\* What a connection has and what threads are about to add to it.
OverInv == \A c \in Conn : Taken(c) + Cardinality(Taking(c)) <= Preposts + Cardinality(Proc) - 1

RegionInv == GoneInv /\ OverInv /\ IsFiniteSet(Kept) /\ RegionsAccounted

ThreadInv == HandlerInv /\ AppInv /\ ClientInv

IInv ==
    TypeOK /\ FaultInv /\ LockInv /\ EventInv /\ ThreadInv /\ GotInv /\ RegionInv

-----------------------------------------------------------------------------
(* Threads, sequences and numbers *)

\* The threads are different from each other.
LEMMA Procs ==
    /\ Handler \in Proc /\ App \in Proc /\ Handler # App
    /\ \A p \in Poller : p \in Proc /\ p # Handler /\ p # App
BY ControllerAssumption DEF Proc

\* Taking the oldest event.
LEMMA TailFacts ==
    ASSUME NEW S, NEW s \in Seq(S), s # <<>>
    PROVE  /\ Len(s) \in Nat \ {0}
           /\ Head(s) = s[1] /\ Head(s) \in S
           /\ Tail(s) \in Seq(S)
           /\ Len(Tail(s)) = Len(s) - 1
           /\ \A i \in 1..(Len(s) - 1) : Tail(s)[i] = s[i + 1]
OBVIOUS

\* Adding an event.
LEMMA AppendFacts ==
    ASSUME NEW S, NEW s \in Seq(S), NEW e \in S
    PROVE  /\ Len(s) \in Nat
           /\ Append(s, e) \in Seq(S)
           /\ Len(Append(s, e)) = Len(s) + 1
           /\ \A i \in 1..Len(s) : Append(s, e)[i] = s[i]
           /\ Append(s, e)[Len(s) + 1] = e
OBVIOUS

-----------------------------------------------------------------------------
(* Types *)

\* Every step leaves the state well typed.
LEMMA TypeStep == TypeOK /\ ThreadInv /\ LockInv /\ [Next]_vars => TypeOK'
<1> SUFFICES ASSUME TypeOK, HandlerInv, AppInv, LockInv, [Next]_vars
             PROVE  TypeOK'
    BY DEF ThreadInv
<1> USE Procs DEF recvVars, cmVars
<1>type. /\ posted \in [Conn -> Nat] /\ flushed \in [Conn -> Nat] /\ free \in Nat
         /\ pc \in [Proc -> PC] /\ cur \in [Proc -> Conn \cup {None}]
         /\ lost \in 0..MaxLost /\ MaxLost \in Nat /\ gone \in [Conn -> Nat]
         /\ todo \in [Proc -> SUBSET Conn] /\ ref \in [Proc -> Conn \cup {None}]
    BY ControllerAssumption DEF TypeOK
<1>pc. ASSUME NEW p \in Proc, NEW l \in PC, Goto(p, l) PROVE pc' \in [Proc -> PC]
    BY <1>pc, <1>type DEF Goto
<1>goto. ASSUME NEW p \in Proc,
                NEW l \in {"idle", "create", "insert", "refill", "refilling", "test", "get", "post",
                           "count", "accept", "undo", "ack", "ackDisconnect", "erase", "destroy", "setPool", "setInitiated",
                           "waitDisconnected", "spin", "polling"},
                Goto(p, l)
         PROVE  pc' \in [Proc -> PC]
    BY <1>goto, <1>pc DEF PC, Refilling, Prepost
<1>link. ASSUME NEW c, NEW l \in {"rejected", "dropped", "accepted", "down", "upOut", "failedOut",
                                 "closingOut"},
                link' = [link EXCEPT ![c] = l]
         PROVE  link' \in [Conn -> Link]
    BY <1>link DEF TypeOK, Link, In, Out
<1>dead. [p \in Proc |-> "dead"] \in [Proc -> PC]
    BY DEF PC
<1>ev. \A c \in Conn, t \in Type : Append(ev, [type |-> t, conn |-> c]) \in Seq(Event)
    BY DEF TypeOK, Event
<1>cur. \A p \in Proc, c \in Conn \cup {None} :
            [cur EXCEPT ![p] = c] \in [Proc -> Conn \cup {None}]
    BY <1>type
<1>flush. ASSUME NEW c, Flush(c) PROVE posted' \in [Conn -> Nat] /\ flushed' \in [Conn -> Nat]
  <2>1. /\ flushed' = [flushed EXCEPT ![c] = flushed[c] + posted[c]]
        /\ posted' = [posted EXCEPT ![c] = 0]
      BY <1>flush DEF Flush
  <2>2. c \in Conn => flushed[c] + posted[c] \in Nat
      BY <1>type
  <2> QED BY ONLY <1>type, <2>1, <2>2
<1>destroy. ASSUME NEW c, Destroy(c)
            PROVE  /\ posted' \in [Conn -> Nat] /\ flushed' \in [Conn -> Nat]
                   /\ obj' \in [Conn -> {"none", "alive", "dead"}] /\ gone' \in [Conn -> Nat]
  <2>1. /\ obj' = [obj EXCEPT ![c] = "dead"]
        /\ gone' = [gone EXCEPT ![c] = gone[c] + posted[c] + flushed[c]]
        /\ posted' = [posted EXCEPT ![c] = 0]
        /\ flushed' = [flushed EXCEPT ![c] = 0]
      BY <1>destroy DEF Destroy
  <2>2. c \in Conn => gone[c] + posted[c] + flushed[c] \in Nat
      BY <1>type
  <2>3. obj' \in [Conn -> {"none", "alive", "dead"}]
      BY <2>1 DEF TypeOK
  <2> QED BY ONLY <1>type, <2>1, <2>2, <2>3
<1>1. ASSUME NEW c \in Conn, PeerConnects(c) \/ Established(c) \/ EstablishFails(c)
      PROVE  TypeOK'
    BY <1>1, <1>ev DEF PeerConnects, Established, EstablishFails, Signal, TypeOK, Link, In, Type
<1>2. ASSUME NEW c \in Conn, PeerDisconnects(c) PROVE TypeOK'
    BY <1>2, <1>ev DEF PeerDisconnects, Signal, TypeOK, Link, In, Out, Type
<1>3. ASSUME NEW p \in Proc, RefillLock(p) PROVE TypeOK'
    BY <1>3, <1>goto DEF RefillLock, TypeOK
<1>4. ASSUME NEW p \in Proc, CheckCount(p) PROVE TypeOK'
  <2>1. PICK c \in (IF pc[p] = "test" THEN {ref[p]} ELSE todo[p]) :
            /\ todo' = [todo EXCEPT ![p] = todo[p] \ {c}]
            /\ \/ ref' = [ref EXCEPT ![p] = c] /\ Goto(p, "get")
               \/ ref' = [ref EXCEPT ![p] = None] /\ Goto(p, "refilling")
      BY <1>4 DEF CheckCount
  <2>2. c \in Conn \cup {None}
      BY <1>type
  <2>3. pc' \in [Proc -> PC]
      BY <1>goto, <2>1
  <2>4. todo' \in [Proc -> SUBSET Conn] /\ ref' \in [Proc -> Conn \cup {None}]
      BY <1>type, <2>1, <2>2
  <2> QED BY <1>4, <2>3, <2>4 DEF CheckCount, TypeOK
<1>4a. ASSUME NEW p \in Proc, GetRegion(p) PROVE TypeOK'
  <2>1. free' \in Nat
    <3>1. \/ free' = free
          \/ free > 0 /\ free' = free - 1
        BY <1>4a DEF GetRegion
    <3> QED BY <1>type, <3>1
  <2>2. pc' \in [Proc -> PC]
      BY <1>4a, <1>goto, <1>dead DEF GetRegion, Die
  <2> QED BY <1>4a, <2>1, <2>2 DEF GetRegion, TypeOK
<1>4b. ASSUME NEW p \in Proc, PostReceive(p) PROVE TypeOK'
  <2>1. posted' = [posted EXCEPT ![ref[p]] = posted[ref[p]] + 1]
      BY <1>4b DEF PostReceive
  <2>2. ref[p] \in Conn => posted[ref[p]] + 1 \in Nat
      BY <1>type
  <2>3. posted' \in [Conn -> Nat]
      BY ONLY <1>type, <2>1, <2>2
  <2>4. pc' \in [Proc -> PC]
      BY <1>4b, <1>goto DEF PostReceive
  <2> QED BY <1>4b, <2>3, <2>4 DEF PostReceive, TypeOK
<1>4c. ASSUME NEW p \in Proc, PostFails(p) PROVE TypeOK'
  <2>1. lost' \in 0..MaxLost
      BY <1>4c, <1>type DEF PostFails
  <2>2. pc' \in [Proc -> PC] /\ cur' \in [Proc -> Conn \cup {None}]
      BY <1>4c, <1>goto, <1>cur DEF PostFails
  <2>3. link' \in [Conn -> Link]
      BY <1>4c, <1>link DEF PostFails, TypeOK
  <2>4. todo' \in [Proc -> SUBSET Conn] /\ ref' \in [Proc -> Conn \cup {None}]
      BY <1>4c, <1>type DEF PostFails
  <2> QED BY <1>4c, <2>1, <2>2, <2>3, <2>4 DEF PostFails, TypeOK
<1>4d. ASSUME NEW p \in Proc, PushReceive(p) PROVE TypeOK'
    BY <1>4d, <1>goto DEF PushReceive, TypeOK
<1>5. ASSUME NEW p \in Proc, RefillDone(p) PROVE TypeOK'
  <2>1. pc' \in [Proc -> PC] /\ cur' \in [Proc -> Conn \cup {None}]
      BY <1>5, <1>goto, <1>cur, <1>type DEF RefillDone
  <2> QED BY <1>5, <2>1 DEF RefillDone, TypeOK
<1>6. CASE WaitForEvent
  <2>1. Head(ev) \in Event /\ Tail(ev) \in Seq(Event)
      BY <1>6, TailFacts DEF WaitForEvent, TypeOK
  <2>2. Head(ev).conn \in Conn /\ Head(ev).type \in PC
      BY <2>1 DEF Event, PC
  <2> QED BY <1>6, <1>pc, <1>cur, <2>1, <2>2 DEF WaitForEvent, TypeOK
<1>7. CASE PreConnection \/ PreConnectionRejects
    BY <1>7, <1>goto, <1>link DEF PreConnection, PreConnectionRejects, TypeOK
<1>8. CASE CreateClient \/ CreateClientFails
  <2>1. cur[Handler] \in Conn
      BY <1>8 DEF CreateClient, CreateClientFails, HandlerInv
  <2>2. pc' \in [Proc -> PC] /\ link' \in [Conn -> Link]
      BY <1>8, <1>goto, <1>link DEF CreateClient, CreateClientFails, TypeOK
  <2> QED BY <1>8, <1>cur, <2>1, <2>2 DEF CreateClient, CreateClientFails, TypeOK
<1>9. CASE InsertClient \/ AcceptFails
  <2>1. cur[Handler] \in Conn
      BY <1>9 DEF InsertClient, AcceptFails, HandlerInv
  <2> QED BY <1>9, <1>goto, <2>1 DEF InsertClient, AcceptFails, TypeOK
<1>10. CASE Accept \/ Ack
    BY <1>10, <1>goto, <1>cur, <1>link DEF Accept, Ack, TypeOK
<1>11. CASE UndoAccept \/ DestroyDisconnected \/ DestroyPeer
  <2>1. /\ posted' \in [Conn -> Nat] /\ flushed' \in [Conn -> Nat]
        /\ obj' \in [Conn -> {"none", "alive", "dead"}] /\ gone' \in [Conn -> Nat]
      BY <1>11, <1>destroy DEF UndoAccept, DestroyDisconnected, DestroyPeer
  <2>2. pc' \in [Proc -> PC] /\ link' \in [Conn -> Link] /\ cur' \in [Proc -> Conn \cup {None}]
      BY <1>11, <1>goto, <1>cur, <1>link DEF UndoAccept, DestroyDisconnected, DestroyPeer, TypeOK
  <2> QED BY <1>11, <2>1, <2>2 DEF UndoAccept, DestroyDisconnected, DestroyPeer, TypeOK
<1>12. CASE HandleEstablished \/ HandleUnsupported \/ AckDisconnect \/ EraseDisconnected
  <2>1. pc' \in [Proc -> PC]
      BY <1>12, <1>goto, <1>dead
         DEF HandleEstablished, HandleUnsupported, AckDisconnect, EraseDisconnected, Die
  <2> QED BY <1>12, <2>1
          DEF HandleEstablished, HandleUnsupported, AckDisconnect, EraseDisconnected, TypeOK
<1>13. CASE HandleDisconnected
  <2>1. posted' \in [Conn -> Nat] /\ flushed' \in [Conn -> Nat]
      BY <1>13, <1>type, <1>flush DEF HandleDisconnected
  <2>2. pc' \in [Proc -> PC]
      BY <1>13, <1>goto, <1>dead DEF HandleDisconnected, Die
  <2>3. link' \in [Conn -> Link]
      BY <1>13, <1>link DEF HandleDisconnected, TypeOK
  <2> QED BY <1>13, <2>1, <2>2, <2>3 DEF HandleDisconnected, TypeOK
<1>14. ASSUME NEW c \in Conn, MakePeer(c) PROVE TypeOK'
    BY <1>14, <1>goto, <1>cur, <1>link DEF MakePeer, TypeOK
<1>15. ASSUME NEW c \in Conn, RemoveConnection(c) PROVE TypeOK'
  <2>1. posted' \in [Conn -> Nat] /\ flushed' \in [Conn -> Nat]
      BY <1>15, <1>type, <1>flush DEF RemoveConnection
  <2>2. pc' \in [Proc -> PC] /\ link' \in [Conn -> Link]
      BY <1>15, <1>goto, <1>link DEF RemoveConnection, TypeOK
  <2> QED BY <1>15, <1>cur, <2>1, <2>2 DEF RemoveConnection, TypeOK
<1>16. CASE MakePeerFails \/ RemoveAllSpins
  <2>1. pc' \in [Proc -> PC]
      BY <1>16, <1>goto, <1>dead DEF MakePeerFails, RemoveAllSpins, Die
  <2> QED BY <1>16, <2>1 DEF MakePeerFails, RemoveAllSpins, TypeOK
<1>17. CASE InsertPeer \/ SetMemoryPool \/ SetInitiated \/ DisconnectedOut \/ ErasePeer
  <2>1. cur[App] \in Conn
      BY <1>17 DEF InsertPeer, SetMemoryPool, SetInitiated, DisconnectedOut, ErasePeer, AppInv
  <2>2. pc' \in [Proc -> PC] /\ link' \in [Conn -> Link]
      BY <1>17, <1>goto, <1>link
         DEF InsertPeer, SetMemoryPool, SetInitiated, DisconnectedOut, ErasePeer, TypeOK
  <2> QED BY <1>17, <2>1, <2>2
          DEF InsertPeer, SetMemoryPool, SetInitiated, DisconnectedOut, ErasePeer, TypeOK
<1>18. ASSUME NEW p \in Poller, PollLock(p) \/ PollDone(p) \/ CallRefill(p) PROVE TypeOK'
    BY <1>18, <1>goto DEF PollLock, PollDone, CallRefill, TypeOK
<1>19. ASSUME NEW p \in Poller, NEW c \in Conn, PollReceive(p, c) PROVE TypeOK'
  <2>1. posted[c] - 1 \in Nat /\ free + 1 \in Nat /\ posted' = [posted EXCEPT ![c] = posted[c] - 1]
      BY <1>19, <1>type DEF PollReceive
  <2>2. posted' \in [Conn -> Nat]
      BY ONLY <1>type, <2>1
  <2> QED BY <1>19, <2>1, <2>2 DEF PollReceive, TypeOK
<1>20. ASSUME NEW p \in Poller, NEW c \in Conn, PollFlushed(p, c) \/ PollEmpty(p, c) PROVE TypeOK'
    BY <1>20, <1>dead DEF PollFlushed, PollEmpty, Die, TypeOK
<1>21. CASE UNCHANGED vars
    BY <1>21 DEF vars, TypeOK
<1> QED BY <1>1, <1>2, <1>3, <1>4, <1>4a, <1>4b, <1>4c, <1>4d, <1>5, <1>6, <1>7, <1>8, <1>9,
           <1>10, <1>11, <1>12, <1>13, <1>14, <1>15, <1>16, <1>17, <1>18, <1>19, <1>20, <1>21
        DEF Next, HandlerNext, AppCall, AppStep, RefillStep, PollStep

-----------------------------------------------------------------------------
(* The lock of the map *)

\* A thread takes a step to another label.
LEMMA GotoFacts ==
    ASSUME TypeOK, NEW p \in Proc, NEW l, Goto(p, l)
    PROVE  pc'[p] = l /\ \A q \in Proc : q # p => pc'[q] = pc[q]
BY DEF TypeOK, Goto

\* The oldest event, the others, and what that event says.
LEMMA HeadFacts ==
    ASSUME TypeOK, ev # <<>>
    PROVE  /\ Head(ev) \in Event /\ Head(ev).type \in Type /\ Head(ev).conn \in Conn
           /\ Len(ev) \in Nat \ {0} /\ Head(ev) = ev[1]
           /\ Len(Tail(ev)) = Len(ev) - 1
           /\ \A i \in 1..(Len(ev) - 1) : Tail(ev)[i] = ev[i + 1]
<1>1. ev \in Seq(Event)
    BY DEF TypeOK
<1>2. /\ Head(ev) \in Event
      /\ Len(ev) \in Nat \ {0} /\ Head(ev) = ev[1]
      /\ Len(Tail(ev)) = Len(ev) - 1
      /\ \A i \in 1..(Len(ev) - 1) : Tail(ev)[i] = ev[i + 1]
    BY ONLY <1>1, TailFacts, ev # <<>>
<1>3. Head(ev).type \in Type /\ Head(ev).conn \in Conn
    BY <1>2 DEF Event
<1> QED BY <1>2, <1>3

\* The process ends.
LEMMA DieFacts ==
    ASSUME NEW why, Die(why)
    PROVE  fault' = why /\ \A q \in Proc : pc'[q] = "dead"
BY DEF Die

\* Erase waits for the threads that go through the map.
LEMMA LockStep == TypeOK /\ LockInv /\ [Next]_vars => LockInv'
<1> SUFFICES ASSUME TypeOK, LockInv, [Next]_vars PROVE LockInv'
    OBVIOUS
<1> USE Procs DEF recvVars, cmVars
<1>type. todo \in [Proc -> SUBSET Conn] /\ ref \in [Proc -> Conn \cup {None}]
    BY DEF TypeOK
<1>1. ASSUME NEW p \in Proc, RefillLock(p) \/ PollLock(p) PROVE LockInv'
  <2>1. /\ readers' = readers \cup {p} /\ todo' = [todo EXCEPT ![p] = clients]
        /\ UNCHANGED <<clients, ref>> /\ pc'[p] \in {"refilling", "polling"}
        /\ \A q \in Proc : q # p => pc'[q] = pc[q]
      BY <1>1, GotoFacts DEF RefillLock, PollLock
  <2> QED BY <1>type, <2>1 DEF LockInv, Prepost
<1>2. ASSUME NEW p \in Proc, RefillDone(p) \/ PollDone(p) \/ PostFails(p) PROVE LockInv'
  <2>1. /\ readers' = readers \ {p} /\ UNCHANGED clients
        /\ pc'[p] \in {"accept", "idle"} /\ \A q \in Proc : q # p => pc'[q] = pc[q]
      BY <1>2, GotoFacts DEF RefillDone, PollDone, PostFails
  <2>2. \A q \in Proc : q # p => todo'[q] = todo[q] /\ ref'[q] = ref[q]
      BY <1>2, <1>type DEF RefillDone, PollDone, PostFails
  <2> QED BY <2>1, <2>2 DEF LockInv, Refilling, Prepost
<1>3. ASSUME UNCHANGED <<readers, ref>>,
             \A p \in Proc : /\ pc'[p] \in {"polling"} \cup Refilling => pc'[p] = pc[p]
                             /\ todo'[p] \subseteq todo[p],
             clients \subseteq clients' \/ MayWrite
      PROVE  LockInv'
    BY <1>3 DEF LockInv, MayWrite, Refilling
<1>4. ASSUME NEW p \in Proc, CheckCount(p) PROVE LockInv'
  <2>1. PICK c \in (IF pc[p] = "test" THEN {ref[p]} ELSE todo[p]) :
            /\ todo' = [todo EXCEPT ![p] = todo[p] \ {c}]
            /\ \/ ref' = [ref EXCEPT ![p] = c] /\ Goto(p, "get")
               \/ ref' = [ref EXCEPT ![p] = None] /\ Goto(p, "refilling")
      BY <1>4 DEF CheckCount
  <2>2. pc[p] \in {"refilling", "test"} /\ UNCHANGED <<readers, clients>>
      BY <1>4 DEF CheckCount
  <2>3. c \in clients /\ p \in readers /\ todo[p] \subseteq clients
      BY <2>1, <2>2 DEF LockInv, Refilling, Prepost
  <2>4. /\ \A q \in Proc : q # p => pc'[q] = pc[q] /\ todo'[q] = todo[q] /\ ref'[q] = ref[q]
        /\ todo'[p] \subseteq todo[p]
        /\ (pc'[p] = "get" /\ ref'[p] = c) \/ pc'[p] = "refilling"
      BY <1>type, <2>1, GotoFacts
  <2> QED BY <2>2, <2>3, <2>4 DEF LockInv, Refilling, Prepost
<1>4a. ASSUME NEW p \in Proc, GetRegion(p) \/ PostReceive(p) \/ PushReceive(p) PROVE LockInv'
  <2>1. pc[p] \in Prepost /\ UNCHANGED <<readers, clients, todo, ref>>
      BY <1>4a DEF GetRegion, PostReceive, PushReceive, Prepost
  <2>2. \/ \E l \in Prepost : Goto(p, l)
        \/ Die("null memory pool")
      BY <1>4a DEF GetRegion, PostReceive, PushReceive, Prepost
  <2>3. CASE \E l \in Prepost : Goto(p, l)
    <3>1. pc'[p] \in Prepost /\ \A q \in Proc : q # p => pc'[q] = pc[q]
        BY <2>3, GotoFacts
    <3> QED BY <2>1, <3>1 DEF LockInv, Refilling
  <2>4. CASE Die("null memory pool")
    <3>1. \A q \in Proc : pc'[q] = "dead"
        BY <2>4, DieFacts
    <3> QED BY <1>3, <2>1, <3>1 DEF Refilling, Prepost
  <2> QED BY <2>2, <2>3, <2>4
<1>5. ASSUME NEW p \in Poller, NEW c \in Conn,
             PollReceive(p, c) \/ PollFlushed(p, c) \/ PollEmpty(p, c)
      PROVE  LockInv'
  <2>1. /\ UNCHANGED <<readers, clients, ref>>
        /\ \A q \in Proc : pc'[q] = pc[q] \/ pc'[q] = "dead"
        /\ \A q \in Proc : todo'[q] \subseteq todo[q]
      BY <1>5, <1>type DEF PollReceive, PollFlushed, PollEmpty, Die
  <2> QED BY <1>3, <2>1 DEF Refilling, Prepost
<1>6. ASSUME NEW p \in Poller, CallRefill(p) PROVE LockInv'
  <2>1. pc'[p] = "refill" /\ \A q \in Proc : q # p => pc'[q] = pc[q]
      BY <1>6, GotoFacts DEF CallRefill
  <2> QED BY <1>3, <1>6, <2>1 DEF CallRefill, Refilling, Prepost
<1>7. CASE WaitForEvent
  <2>1. Head(ev).type \in Type
      BY <1>7, HeadFacts DEF WaitForEvent
  <2>2. pc'[Handler] \in Type /\ \A q \in Proc : q # Handler => pc'[q] = pc[q]
      BY <1>7, <2>1, GotoFacts DEF WaitForEvent
  <2> QED BY <1>3, <1>7, <2>2 DEF WaitForEvent, Type, Refilling, Prepost
<1>8. CASE \/ PreConnection \/ PreConnectionRejects \/ CreateClient \/ CreateClientFails
           \/ InsertClient \/ Accept \/ AcceptFails \/ UndoAccept \/ Ack \/ HandleUnsupported
           \/ AckDisconnect \/ EraseDisconnected \/ DestroyDisconnected
  <2>1. pc'[Handler] \notin {"polling"} \cup Refilling /\ \A q \in Proc : q # Handler => pc'[q] = pc[q]
      BY <1>8, GotoFacts
         DEF PreConnection, PreConnectionRejects, CreateClient, CreateClientFails, InsertClient,
             Accept, AcceptFails, UndoAccept, Ack, HandleUnsupported, AckDisconnect,
             EraseDisconnected, DestroyDisconnected, Refilling, Prepost
  <2>2. UNCHANGED <<readers, todo, ref>> /\ (clients \subseteq clients' \/ MayWrite)
      BY <1>8
         DEF PreConnection, PreConnectionRejects, CreateClient, CreateClientFails, InsertClient,
             Accept, AcceptFails, UndoAccept, Ack, HandleUnsupported, AckDisconnect,
             EraseDisconnected, DestroyDisconnected
  <2> QED BY <1>3, <2>1, <2>2
<1>9. CASE HandleEstablished \/ HandleDisconnected \/ MakePeerFails \/ RemoveAllSpins
  <2>1. /\ UNCHANGED <<readers, todo, ref, clients>>
        /\ \A q \in Proc : pc'[q] = pc[q] \/ pc'[q] \notin {"polling"} \cup Refilling
      BY <1>9, GotoFacts DEF HandleEstablished, HandleDisconnected, MakePeerFails, RemoveAllSpins, Die, Refilling, Prepost
  <2> QED BY <1>3, <2>1
<1>10. ASSUME NEW c \in Conn, MakePeer(c) \/ RemoveConnection(c) PROVE LockInv'
  <2>1. /\ UNCHANGED <<readers, todo, ref, clients>>
        /\ \A q \in Proc : pc'[q] = pc[q] \/ pc'[q] \notin {"polling"} \cup Refilling
      BY <1>10, GotoFacts DEF MakePeer, RemoveConnection, Refilling, Prepost
  <2> QED BY <1>3, <2>1
<1>11. CASE \/ InsertPeer \/ SetMemoryPool \/ SetInitiated \/ DisconnectedOut \/ ErasePeer
            \/ DestroyPeer
  <2>1. pc'[App] \notin {"polling"} \cup Refilling /\ \A q \in Proc : q # App => pc'[q] = pc[q]
      BY <1>11, GotoFacts
         DEF InsertPeer, SetMemoryPool, SetInitiated, DisconnectedOut, ErasePeer, DestroyPeer,
             Refilling, Prepost
  <2>2. UNCHANGED <<readers, todo, ref>> /\ (clients \subseteq clients' \/ MayWrite)
      BY <1>11 DEF InsertPeer, SetMemoryPool, SetInitiated, DisconnectedOut, ErasePeer, DestroyPeer
  <2> QED BY <1>3, <2>1, <2>2
<1>12. CASE UNCHANGED <<readers, clients, pc, todo, ref>>
    BY <1>12 DEF LockInv
<1> QED BY <1>1, <1>2, <1>4, <1>4a, <1>5, <1>6, <1>7, <1>8, <1>9, <1>10, <1>11, <1>12
        DEF Next, HandlerNext, AppCall, AppStep, RefillStep, PollStep, vars,
            PeerConnects, PeerDisconnects, Established, EstablishFails

-----------------------------------------------------------------------------
(* The events on the channel *)

\* Events are added when the state of their connection changes, and the handler
\* changes it only when no event of the connection is left.
LEMMA EventStep == TypeOK /\ ThreadInv /\ EventInv /\ [Next]_vars => EventInv'
<1> SUFFICES ASSUME TypeOK, HandlerInv, AppInv, ClientInv, EventInv, [Next]_vars
             PROVE  EventInv'
    BY DEF ThreadInv
<1> USE Procs DEF recvVars, cmVars
<1>ev. ev \in Seq(Event) /\ Len(ev) \in Nat /\ \A i \in 1..Len(ev) : ev[i] \in Event
    BY DEF TypeOK
<1>type. /\ link \in [Conn -> Link] /\ obj \in [Conn -> {"none", "alive", "dead"}]
         /\ cur \in [Proc -> Conn \cup {None}] /\ None \notin Conn
    BY ControllerAssumption DEF TypeOK
<1>event. \A e \in Event : e.conn \in Conn /\ e.type \in Type
    BY DEF Event
<1>frame. ASSUME ev' = ev, \A e \in Event : EventOK(e) => EventOK(e)'
          PROVE  EventInv'
    BY <1>ev, <1>frame DEF EventInv, Ordered
<1>add. ASSUME NEW f \in Event, ev' = Append(ev, f), EventOK(f)',
               \A e \in Event : EventOK(e) => EventOK(e)' /\ Ordered(e, f)
        PROVE  EventInv'
  <2>1. /\ Len(ev') = Len(ev) + 1
        /\ \A i \in 1..Len(ev) : ev'[i] = ev[i]
        /\ ev'[Len(ev) + 1] = f
      BY ONLY <1>ev, <1>add, AppendFacts
  <2>2. \A i \in 1..Len(ev') : i \in 1..Len(ev) \/ i = Len(ev) + 1
      BY <1>ev, <2>1
  <2>3. (\A i \in 1..Len(ev) : EventOK(ev[i]))'
    <3>1. ASSUME NEW i \in 1..Len(ev') PROVE EventOK(ev[i])'
      <4>1. PICK e \in Event : e = ev'[i] /\ EventOK(e)'
        <5>1. CASE i \in 1..Len(ev)
          <6>1. ev'[i] = ev[i] /\ ev[i] \in Event /\ EventOK(ev[i])
              BY <1>ev, <2>1, <5>1 DEF EventInv
          <6> QED BY <1>add, <6>1
        <5>2. CASE i = Len(ev) + 1
            BY <1>add, <2>1, <5>2
        <5> QED BY <2>2, <5>1, <5>2
      <4> QED BY <4>1 DEF EventOK
    <3> QED BY <3>1
  <2>4. \A i, j \in 1..Len(ev') : i < j => Ordered(ev'[i], ev'[j])
    <3>1. ASSUME NEW i \in 1..Len(ev'), NEW j \in 1..Len(ev'), i < j
          PROVE  Ordered(ev'[i], ev'[j])
      <4>1. i \in 1..Len(ev)
          BY <1>ev, <2>1, <3>1
      <4>2. CASE j \in 1..Len(ev)
          BY <2>1, <3>1, <4>1, <4>2 DEF EventInv
      <4>3. CASE j = Len(ev) + 1
        <5>1. ev'[i] = ev[i] /\ ev[i] \in Event /\ EventOK(ev[i]) /\ ev'[j] = f
            BY <1>ev, <2>1, <4>1, <4>3 DEF EventInv
        <5> QED BY <1>add, <5>1
      <4> QED BY <2>2, <4>2, <4>3
    <3> QED BY <3>1
  <2>5. (\A i, j \in 1..Len(ev) : i < j => Ordered(ev[i], ev[j]))'
      BY <2>4 DEF Ordered
  <2> QED BY <2>3, <2>5 DEF EventInv
<1>1. ASSUME NEW c \in Conn, PeerConnects(c) PROVE EventInv'
  <2> DEFINE f == [type |-> "CONNECT_REQUEST", conn |-> c]
  <2>1. f \in Event /\ f.type = "CONNECT_REQUEST" /\ f.conn = c /\ ev' = Append(ev, f)
      BY <1>1 DEF PeerConnects, Signal, Event, Type
  <2> HIDE DEF f
  <2>2. link[c] = "none" /\ link' = [link EXCEPT ![c] = "asked"] /\ UNCHANGED <<pc, cur, obj>>
      BY <1>1 DEF PeerConnects
  <2>3. cur[Handler] # c /\ obj[c] = "none"
      BY <2>2 DEF HandlerInv, ClientInv, In
  <2>4. EventOK(f)'
      BY <1>type, <2>1, <2>2, <2>3 DEF EventOK
  <2>5. \A e \in Event : EventOK(e) => e.conn # c
      BY <1>event, <2>2 DEF EventOK, Type
  <2>6. \A e \in Event : EventOK(e) => EventOK(e)' /\ Ordered(e, f)
      BY <1>type, <1>event, <2>1, <2>2, <2>5 DEF EventOK, Ordered
  <2> QED BY ONLY <1>add, <2>1, <2>4, <2>6
<1>2. ASSUME NEW c \in Conn, Established(c) PROVE EventInv'
  <2> DEFINE f == [type |-> "ESTABLISHED", conn |-> c]
  <2>1. f \in Event /\ f.type = "ESTABLISHED" /\ f.conn = c /\ ev' = Append(ev, f)
      BY <1>2 DEF Established, Signal, Event, Type
  <2> HIDE DEF f
  <2>2. link[c] = "accepted" /\ link' = [link EXCEPT ![c] = "up"] /\ UNCHANGED <<pc, cur, obj>>
      BY <1>2 DEF Established
  <2>3. ~(pc[Handler] = "DISCONNECTED" /\ cur[Handler] = c)
      BY <2>2 DEF HandlerInv
  <2>4. EventOK(f)'
      BY <1>type, <2>1, <2>2, <2>3 DEF EventOK
  <2>5. \A e \in Event : EventOK(e) => e.conn # c
      BY <1>event, <2>2 DEF EventOK, Type
  <2>6. \A e \in Event : EventOK(e) => EventOK(e)' /\ Ordered(e, f)
      BY <1>type, <1>event, <2>1, <2>2, <2>5 DEF EventOK, Ordered
  <2> QED BY ONLY <1>add, <2>1, <2>4, <2>6
<1>3. ASSUME NEW c \in Conn, EstablishFails(c) PROVE EventInv'
  <2> DEFINE f == [type |-> "OTHER", conn |-> c]
  <2>1. f \in Event /\ f.type = "OTHER" /\ f.conn = c /\ ev' = Append(ev, f)
      BY <1>3 DEF EstablishFails, Signal, Event, Type
  <2> HIDE DEF f
  <2>2. link[c] = "accepted" /\ link' = [link EXCEPT ![c] = "broken"] /\ UNCHANGED <<pc, cur, obj>>
      BY <1>3 DEF EstablishFails
  <2>3. EventOK(f)'
      BY <1>type, <2>1, <2>2 DEF EventOK
  <2>4. \A e \in Event : EventOK(e) => e.conn # c
      BY <1>event, <2>2 DEF EventOK, Type
  <2>5. \A e \in Event : EventOK(e) => EventOK(e)' /\ Ordered(e, f)
      BY <1>type, <1>event, <2>1, <2>2, <2>4 DEF EventOK, Ordered
  <2> QED BY ONLY <1>add, <2>1, <2>3, <2>5
<1>4. ASSUME NEW c \in Conn, PeerDisconnects(c), link[c] = "up" PROVE EventInv'
  <2> DEFINE f == [type |-> "DISCONNECTED", conn |-> c]
  <2>1. f \in Event /\ f.type = "DISCONNECTED" /\ f.conn = c /\ ev' = Append(ev, f)
      BY <1>4 DEF PeerDisconnects, Signal, Event, Type
  <2> HIDE DEF f
  <2>2. link' = [link EXCEPT ![c] = "closing"] /\ UNCHANGED <<pc, cur, obj>>
      BY <1>4 DEF PeerDisconnects
  <2>3. ~(pc[Handler] = "DISCONNECTED" /\ cur[Handler] = c)
      BY <1>4 DEF HandlerInv
  <2>4. EventOK(f)'
      BY <1>type, <2>1, <2>2, <2>3 DEF EventOK
  <2>5. \A e \in Event : EventOK(e) /\ e.conn = c => e.type = "ESTABLISHED"
      BY <1>4, <1>event DEF EventOK, Type
  <2>6. \A e \in Event : EventOK(e) => EventOK(e)' /\ Ordered(e, f)
      BY <1>type, <1>event, <2>1, <2>2, <2>3, <2>5 DEF EventOK, Ordered
  <2> QED BY ONLY <1>add, <2>1, <2>4, <2>6
<1>5. CASE WaitForEvent
  <2>1. /\ ev # <<>> /\ ev' = Tail(ev)
        /\ cur' = [cur EXCEPT ![Handler] = Head(ev).conn]
        /\ pc'[Handler] = Head(ev).type
        /\ UNCHANGED <<link, obj>>
      BY <1>5, GotoFacts DEF WaitForEvent
  <2>2. PICK f \in Event : f = Head(ev)
      BY <2>1, HeadFacts
  <2>3. /\ f = ev[1] /\ Len(ev) \in Nat \ {0} /\ Len(ev') = Len(ev) - 1
        /\ \A i \in 1..(Len(ev) - 1) : ev'[i] = ev[i + 1]
      BY <2>1, <2>2, HeadFacts
  <2>4. EventOK(f)
    <3>1. 1 \in 1..Len(ev)
        BY <2>3
    <3> QED BY <2>3, <3>1 DEF EventInv
  <2>5. cur'[Handler] = f.conn /\ pc'[Handler] = f.type
      BY <1>type, <2>1, <2>2
  <2>6. ASSUME NEW e \in Event, EventOK(e), Ordered(f, e) PROVE EventOK(e)'
    <3>1. CASE e.conn = f.conn
      <4>1. e.type # f.type /\ ~(f.type = "DISCONNECTED" /\ e.type = "ESTABLISHED")
          BY <2>6, <3>1 DEF Ordered
      <4>2. e.type # "CONNECT_REQUEST"
          BY <1>event, <2>4, <2>6, <3>1, <4>1 DEF EventOK, Type
      <4> QED BY <2>1, <2>5, <2>6, <4>1, <4>2 DEF EventOK
    <3>2. CASE e.conn # f.conn
        BY <2>1, <2>5, <2>6, <3>2 DEF EventOK
    <3> QED BY <3>1, <3>2
  <2>7. ASSUME NEW i \in 1..Len(ev') PROVE i + 1 \in 1..Len(ev) /\ 1 < i + 1 /\ ev'[i] = ev[i + 1]
      BY ONLY <2>3, <2>7
  <2>8. ASSUME NEW i \in 1..Len(ev') PROVE EventOK(ev[i])'
    <3>1. i + 1 \in 1..Len(ev) /\ 1 \in 1..Len(ev) /\ 1 < i + 1 /\ ev'[i] = ev[i + 1]
        BY <2>3, <2>7
    <3>2. PICK e \in Event : e = ev[i + 1]
        BY <1>ev, <3>1
    <3>3. EventOK(e) /\ Ordered(f, e)
        BY <2>3, <3>1, <3>2 DEF EventInv
    <3>4. EventOK(e)'
        BY <2>6, <3>3
    <3> QED BY <3>1, <3>2, <3>4 DEF EventOK
  <2>9. ASSUME NEW i \in 1..Len(ev'), NEW j \in 1..Len(ev'), i < j
        PROVE  Ordered(ev'[i], ev'[j])
    <3>1. i + 1 < j + 1
        BY <2>3, <2>9
    <3> QED BY <2>7, <3>1 DEF EventInv
  <2>10. (\A i \in 1..Len(ev) : EventOK(ev[i]))'
      BY <2>8
  <2>11. (\A i, j \in 1..Len(ev) : i < j => Ordered(ev[i], ev[j]))'
      BY <2>9 DEF Ordered
  <2> QED BY <2>10, <2>11 DEF EventInv
<1>quiet. ASSUME NEW c, ev' = ev,
                 \/ c \notin Conn
                 \/ link[c] \notin {"asked", "up", "closing", "broken"}
                 \/ link[c] = "asked" /\ cur[Handler] = c
                 \/ link[c] = "closing" /\ pc[Handler] = "DISCONNECTED" /\ cur[Handler] = c,
                 \A d \in Conn : d # c => link'[d] = link[d] /\ obj'[d] = obj[d],
                 cur'[Handler] \in {cur[Handler], None},
                 pc'[Handler] \in {pc[Handler]} \/ pc'[Handler] # "DISCONNECTED"
          PROVE  EventInv'
  <2>1. \A e \in Event : EventOK(e) => e.conn # c
      BY <1>quiet, <1>event DEF EventOK, Type
  <2>2. ASSUME NEW e \in Event, EventOK(e) PROVE EventOK(e)'
    <3>1. e.conn # c /\ e.conn \in Conn /\ link'[e.conn] = link[e.conn] /\ obj'[e.conn] = obj[e.conn]
        BY <1>quiet, <1>event, <2>1, <2>2
    <3>2. cur'[Handler] = e.conn => cur[Handler] = e.conn
        BY <1>quiet, <1>type, <3>1
    <3> QED BY <1>quiet, <2>2, <3>1, <3>2 DEF EventOK
  <2> QED BY <1>frame, <1>quiet, <2>2
<1>same. ASSUME UNCHANGED <<ev, link, obj>>, cur'[Handler] \in {cur[Handler], None},
                pc'[Handler] \in {pc[Handler]} \/ pc'[Handler] # "DISCONNECTED"
         PROVE  EventInv'
    BY ONLY <1>quiet, <1>same, <1>type
<1>6. ASSUME NEW c \in Conn, PeerDisconnects(c), link[c] # "up" PROVE EventInv'
  <2>1. /\ ev' = ev /\ link[c] = "upOut" /\ UNCHANGED <<pc, cur, obj>>
        /\ link' = [link EXCEPT ![c] = "closingOut"]
      BY <1>6 DEF PeerDisconnects
  <2>2. \A d \in Conn : d # c => link'[d] = link[d] /\ obj'[d] = obj[d]
      BY <1>type, <2>1
  <2> QED BY <1>quiet, <2>1, <2>2
<1>7. CASE PreConnectionRejects \/ CreateClient \/ CreateClientFails \/ Accept \/ UndoAccept
  <2> DEFINE c == cur[Handler]
  <2>1. /\ c \in Conn /\ link[c] \in {"asked", "rejected"}
        /\ ev' = ev /\ pc'[Handler] # "DISCONNECTED" /\ cur'[Handler] \in {cur[Handler], None}
      BY <1>7, <1>type, GotoFacts
         DEF PreConnectionRejects, CreateClient, CreateClientFails, Accept, UndoAccept, HandlerInv
  <2>2. \A d \in Conn : d # c => link'[d] = link[d] /\ obj'[d] = obj[d]
      BY <1>7, <1>type
         DEF PreConnectionRejects, CreateClient, CreateClientFails, Accept, UndoAccept, Destroy
  <2> QED BY <1>quiet, <2>1, <2>2
<1>8. CASE HandleDisconnected
  <2> DEFINE c == cur[Handler]
  <2>1. /\ c \in Conn /\ link[c] = "closing" /\ pc[Handler] = "DISCONNECTED"
        /\ UNCHANGED <<ev, obj, cur>>
      BY <1>8 DEF HandleDisconnected, HandlerInv
  <2>2. pc'[Handler] # "DISCONNECTED"
    <3>1. Goto(Handler, "ackDisconnect") \/ Die("null client")
        BY <1>8 DEF HandleDisconnected
    <3>2. CASE Goto(Handler, "ackDisconnect")
        BY <3>2, GotoFacts
    <3>3. CASE Die("null client")
        BY <3>3, DieFacts
    <3> QED BY <3>1, <3>2, <3>3
  <2>3. \A d \in Conn : d # c => link'[d] = link[d] /\ obj'[d] = obj[d]
      BY <1>8, <1>type DEF HandleDisconnected
  <2> QED BY <1>quiet, <2>1, <2>2, <2>3
<1>9. CASE DestroyDisconnected
  <2> DEFINE c == cur[Handler]
  <2>1. /\ c \in Conn /\ link[c] = "down" /\ pc'[Handler] = "idle"
        /\ UNCHANGED <<ev, link>> /\ cur'[Handler] = None
      BY <1>9, <1>type, GotoFacts DEF DestroyDisconnected, HandlerInv
  <2>2. \A d \in Conn : d # c => link'[d] = link[d] /\ obj'[d] = obj[d]
      BY <1>9, <1>type DEF DestroyDisconnected, Destroy
  <2> QED BY <1>quiet, <2>1, <2>2
<1>10. ASSUME NEW c \in Conn, MakePeer(c) \/ RemoveConnection(c) PROVE EventInv'
  <2>1. /\ link[c] \in {"none", "down"} \cup Out /\ ev' = ev
        /\ cur'[Handler] = cur[Handler] /\ pc'[Handler] = pc[Handler]
      BY <1>10, <1>type, GotoFacts DEF MakePeer, RemoveConnection, ClientInv
  <2>2. \A d \in Conn : d # c => link'[d] = link[d] /\ obj'[d] = obj[d]
      BY <1>10, <1>type DEF MakePeer, RemoveConnection
  <2>3. link[c] \notin {"asked", "up", "closing", "broken"}
      BY <2>1 DEF Out
  <2> QED BY <1>quiet, <2>1, <2>2, <2>3
<1>11. CASE DisconnectedOut \/ DestroyPeer
  <2> DEFINE c == cur[App]
  <2>1. /\ c \in Conn /\ link[c] \in {"down"} \cup Out /\ ev' = ev
        /\ cur'[Handler] = cur[Handler] /\ pc'[Handler] = pc[Handler]
      BY <1>11, <1>type, GotoFacts DEF DisconnectedOut, DestroyPeer, AppInv
  <2>2. \A d \in Conn : d # c => link'[d] = link[d] /\ obj'[d] = obj[d]
      BY <1>11, <1>type DEF DisconnectedOut, DestroyPeer, Destroy
  <2>3. link[c] \notin {"asked", "up", "closing", "broken"}
      BY <2>1 DEF Out
  <2> QED BY <1>quiet, <2>1, <2>2, <2>3
<1>12. CASE \/ PreConnection \/ InsertClient \/ AcceptFails \/ Ack \/ HandleEstablished
            \/ HandleUnsupported \/ AckDisconnect \/ EraseDisconnected
  <2>1. UNCHANGED <<ev, link, obj>> /\ cur'[Handler] \in {cur[Handler], None}
      BY <1>12, <1>type
         DEF PreConnection, InsertClient, AcceptFails, Ack, HandleEstablished, HandleUnsupported,
             AckDisconnect, EraseDisconnected
  <2>2. pc'[Handler] # "DISCONNECTED"
    <3>1. \/ Die("null client")
          \/ \E l \in {"create", "refill", "undo", "idle", "ack", "erase", "destroy"} : Goto(Handler, l)
        BY <1>12
           DEF PreConnection, InsertClient, AcceptFails, Ack, HandleEstablished, HandleUnsupported,
               AckDisconnect, EraseDisconnected
    <3> QED BY <3>1, GotoFacts, DieFacts
  <2> QED BY <1>same, <2>1, <2>2
<1>13. CASE MakePeerFails \/ RemoveAllSpins \/ InsertPeer \/ SetMemoryPool \/ SetInitiated \/ ErasePeer
  <2>1. /\ UNCHANGED <<ev, link, obj, cur>>
        /\ pc'[Handler] \in {pc[Handler]} \/ pc'[Handler] # "DISCONNECTED"
      BY <1>13, GotoFacts
         DEF MakePeerFails, RemoveAllSpins, InsertPeer, SetMemoryPool, SetInitiated, ErasePeer, Die
  <2> QED BY <1>same, <2>1
<1>14. ASSUME NEW p \in Proc, RefillStep(p) PROVE EventInv'
  <2>1. UNCHANGED <<ev, link, obj>> /\ cur'[Handler] \in {cur[Handler], None}
      BY <1>14, <1>type
         DEF RefillStep, RefillLock, CheckCount, GetRegion, PostReceive, PushReceive, RefillDone
  <2>2. \/ Die("null memory pool")
        \/ \E l \in Refilling \cup {"accept", "idle"} : Goto(p, l)
      BY <1>14
         DEF RefillStep, RefillLock, CheckCount, GetRegion, PostReceive, PushReceive, RefillDone,
             Refilling, Prepost
  <2>3. pc'[Handler] \in {pc[Handler]} \/ pc'[Handler] # "DISCONNECTED"
      BY <2>2, GotoFacts, DieFacts DEF Refilling, Prepost
  <2> QED BY <1>same, <2>1, <2>3
<1>14a. ASSUME NEW p \in Proc, PostFails(p) PROVE EventInv'
  <2> DEFINE c == cur[Handler]
  <2>1. /\ UNCHANGED <<ev, obj>> /\ Goto(p, "idle") /\ pc[p] = "post"
        /\ cur' = [cur EXCEPT ![p] = None]
        /\ link' = IF p = Handler /\ link[cur[p]] = "asked"
                   THEN [link EXCEPT ![cur[p]] = "dropped"] ELSE link
      BY <1>14a DEF PostFails
  <2>2. /\ cur'[Handler] \in {cur[Handler], None}
        /\ pc'[Handler] \in {pc[Handler]} \/ pc'[Handler] # "DISCONNECTED"
      BY <1>type, <2>1, GotoFacts
  <2>3. CASE p = Handler
    <3>1. c \in Conn /\ link[c] \in {"asked", "rejected"}
        BY <2>1, <2>3 DEF HandlerInv, Refilling, Prepost
    <3>2. \A d \in Conn : d # c => link'[d] = link[d] /\ obj'[d] = obj[d]
        BY <1>type, <2>1, <2>3
    <3> QED BY <1>quiet, <2>1, <2>2, <3>1, <3>2
  <2>4. CASE p # Handler
      BY <1>same, <2>1, <2>2, <2>4
  <2> QED BY <2>3, <2>4
<1>15. ASSUME NEW p \in Poller,
              \/ PollLock(p) \/ PollDone(p) \/ CallRefill(p)
              \/ \E c \in Conn : PollReceive(p, c) \/ PollFlushed(p, c) \/ PollEmpty(p, c)
       PROVE  EventInv'
  <2>1. /\ UNCHANGED <<ev, link, obj, cur>>
        /\ pc'[Handler] \in {pc[Handler]} \/ pc'[Handler] # "DISCONNECTED"
      BY <1>15, GotoFacts DEF PollLock, PollDone, CallRefill, PollReceive, PollFlushed, PollEmpty, Die
  <2> QED BY <1>same, <2>1
<1>16. CASE UNCHANGED vars
    BY <1>16, <1>same DEF vars
<1> QED BY <1>1, <1>2, <1>3, <1>4, <1>5, <1>6, <1>7, <1>8, <1>9, <1>10, <1>11, <1>12, <1>13,
           <1>14, <1>14a, <1>15, <1>16
        DEF Next, HandlerNext, AppCall, AppStep, PollStep

-----------------------------------------------------------------------------
(* The threads and the map *)

\* What a peer does: it changes the state of its connection.
LEMMA PeerFacts ==
    ASSUME TypeOK, NEW c \in Conn,
           PeerConnects(c) \/ PeerDisconnects(c) \/ Established(c) \/ EstablishFails(c)
    PROVE  /\ UNCHANGED <<got, obj, clients, pool, init, readers, pc, cur, todo, ref, fault>>
           /\ UNCHANGED <<posted, flushed, free, lost, gone>>
           /\ \A d \in Conn : d # c => link'[d] = link[d]
           /\ \/ link[c] = "none" /\ link'[c] = "asked"
              \/ link[c] = "accepted" /\ link'[c] \in {"up", "broken"}
              \/ link[c] = "up" /\ link'[c] = "closing"
              \/ link[c] = "upOut" /\ link'[c] = "closingOut"
<1>1. link \in [Conn -> Link]
    BY DEF TypeOK
<1>2. UNCHANGED <<got, obj, clients, pool, init, readers, pc, cur, todo, ref, fault,
                  posted, flushed, free, lost, gone>>
    BY DEF PeerConnects, PeerDisconnects, Established, EstablishFails, recvVars
<1>3. \/ link[c] = "none" /\ link' = [link EXCEPT ![c] = "asked"]
      \/ link[c] = "accepted" /\ link' = [link EXCEPT ![c] = "up"]
      \/ link[c] = "accepted" /\ link' = [link EXCEPT ![c] = "broken"]
      \/ link[c] = "up" /\ link' = [link EXCEPT ![c] = "closing"]
      \/ link[c] = "upOut" /\ link' = [link EXCEPT ![c] = "closingOut"]
    BY DEF PeerConnects, PeerDisconnects, Established, EstablishFails
<1> QED BY <1>1, <1>2, <1>3

\* A step of a thread that goes through the map, for polling or for refilling.
Walk(p) ==
    \/ RefillStep(p)
    \/ p \in Poller /\ (PollLock(p) \/ PollStep(p) \/ CallRefill(p))

\* It leaves the map and the connections alone, and ends the process or brings its
\* thread one label further.
LEMMA WalkFacts ==
    ASSUME TypeOK, NEW p \in Proc, Walk(p)
    PROVE  /\ UNCHANGED <<ev, got, link, obj, clients, pool, init>>
           /\ pc[p] # "dead"
           /\ \/ /\ fault' \in {"null memory pool", "failed completion"}
                 /\ \A q \in Proc : pc'[q] = "dead"
                 /\ UNCHANGED cur
              \/ /\ UNCHANGED fault
                 /\ \A q \in Proc : q # p => pc'[q] = pc[q] /\ cur'[q] = cur[q]
                 /\ \/ /\ pc[p] \in {"refill"} \cup Refilling
                       /\ pc'[p] \in Refilling /\ UNCHANGED cur
                    \/ /\ pc[p] = "refilling"
                       /\ IF p = Handler THEN pc'[p] = "accept" /\ UNCHANGED cur ELSE pc'[p] = "idle"
                    \/ p \in Poller /\ UNCHANGED cur
<1> USE Procs DEF recvVars, cmVars
<1>1. CASE RefillLock(p)
    BY <1>1, GotoFacts DEF RefillLock, Refilling
<1>2. CASE CheckCount(p) \/ GetRegion(p) \/ PostReceive(p) \/ PushReceive(p)
  <2>1. \/ UNCHANGED fault /\ \E l \in Refilling : Goto(p, l)
        \/ Die("null memory pool")
      BY <1>2 DEF CheckCount, GetRegion, PostReceive, PushReceive, Refilling, Prepost
  <2>2. /\ pc[p] \in Refilling /\ pc[p] # "dead"
        /\ UNCHANGED <<ev, got, link, obj, clients, pool, init, cur>>
      BY <1>2 DEF CheckCount, GetRegion, PostReceive, PushReceive, Refilling, Prepost
  <2>3. CASE UNCHANGED fault /\ \E l \in Refilling : Goto(p, l)
      BY <2>2, <2>3, GotoFacts
  <2>4. CASE Die("null memory pool")
      BY <2>2, <2>4, DieFacts
  <2> QED BY <2>1, <2>3, <2>4
<1>3. CASE RefillDone(p)
  <2>1. /\ pc[p] = "refilling" /\ UNCHANGED <<ev, got, link, obj, clients, pool, init, fault>>
        /\ IF p = Handler THEN Goto(p, "accept") /\ UNCHANGED cur
                          ELSE Goto(p, "idle") /\ cur' = [cur EXCEPT ![p] = None]
      BY <1>3 DEF RefillDone
  <2>2. \A q \in Proc : q # p => cur'[q] = cur[q]
      BY <2>1 DEF TypeOK
  <2> QED BY <2>1, <2>2, GotoFacts
<1>4. CASE p \in Poller /\ (PollLock(p) \/ PollDone(p) \/ CallRefill(p))
    BY <1>4, GotoFacts DEF PollLock, PollDone, CallRefill
<1>5. ASSUME p \in Poller, NEW c \in Conn, PollReceive(p, c) \/ PollEmpty(p, c)
      PROVE  /\ UNCHANGED <<ev, got, link, obj, clients, pool, init, fault, pc, cur>>
             /\ pc[p] # "dead"
    BY <1>5 DEF PollReceive, PollEmpty
<1>6. ASSUME p \in Poller, NEW c \in Conn, PollFlushed(p, c)
      PROVE  /\ UNCHANGED <<ev, got, link, obj, clients, pool, init, cur>> /\ pc[p] # "dead"
             /\ fault' = "failed completion" /\ \A q \in Proc : pc'[q] = "dead"
    BY <1>6, DieFacts DEF PollFlushed
<1> QED BY <1>1, <1>2, <1>3, <1>4, <1>5, <1>6 DEF Walk, RefillStep, PollStep

\* A post that fails sends its thread back, the handler without an answer.
LEMMA PostFailsFacts ==
    ASSUME TypeOK, HandlerInv, NEW p \in Proc, PostFails(p)
    PROVE  /\ UNCHANGED <<ev, got, obj, clients, pool, init, fault>>
           /\ pc[p] = "post" /\ pc'[p] = "idle" /\ cur'[p] = None
           /\ \A q \in Proc : q # p => pc'[q] = pc[q] /\ cur'[q] = cur[q]
           /\ p # Handler => link' = link
           /\ p = Handler =>
                 /\ cur[Handler] \in Conn /\ cur[Handler] \in clients
                 /\ link'[cur[Handler]] \in {"dropped", "rejected"}
                 /\ \A d \in Conn : d # cur[Handler] => link'[d] = link[d]
<1>1. /\ UNCHANGED <<ev, got, obj, clients, pool, init, fault>>
      /\ Goto(p, "idle") /\ pc[p] = "post" /\ cur' = [cur EXCEPT ![p] = None]
      /\ link' = IF p = Handler /\ link[cur[p]] = "asked"
                 THEN [link EXCEPT ![cur[p]] = "dropped"] ELSE link
    BY DEF PostFails
<1>2. cur \in [Proc -> Conn \cup {None}] /\ link \in [Conn -> Link]
    BY DEF TypeOK
<1>3. /\ pc'[p] = "idle" /\ cur'[p] = None
      /\ \A q \in Proc : q # p => pc'[q] = pc[q] /\ cur'[q] = cur[q]
    BY <1>1, <1>2, GotoFacts
<1>4. p # Handler => link' = link
    BY <1>1
<1>5. ASSUME p = Handler
      PROVE  /\ cur[Handler] \in Conn /\ cur[Handler] \in clients
             /\ link'[cur[Handler]] \in {"dropped", "rejected"}
             /\ \A d \in Conn : d # cur[Handler] => link'[d] = link[d]
  <2>1. /\ cur[Handler] \in Conn /\ cur[Handler] \in clients
        /\ link[cur[Handler]] \in {"asked", "rejected"}
      BY <1>1, <1>5 DEF HandlerInv, Refilling, Prepost
  <2> QED BY <1>1, <1>2, <1>5, <2>1
<1> QED BY <1>1, <1>3, <1>4, <1>5

\* The steps of all threads, as the lemmas below take them apart.
LEMMA NextCases ==
    [Next]_vars =>
        \/ \E c \in Conn : \/ PeerConnects(c) \/ PeerDisconnects(c)
                           \/ Established(c) \/ EstablishFails(c)
        \/ HandlerNext \/ AppCall \/ AppStep
        \/ \E p \in Proc : Walk(p) \/ PostFails(p)
        \/ UNCHANGED vars
BY Procs DEF Next, Walk

\* The process dies of a missing memory pool, peer or success, never of a
\* missing client.
LEMMA FaultStep == TypeOK /\ ThreadInv /\ FaultInv /\ [Next]_vars => FaultInv'
<1> SUFFICES ASSUME TypeOK, HandlerInv, ClientInv, FaultInv, [Next]_vars
             PROVE  FaultInv'
    BY DEF ThreadInv
<1> USE Procs
<1>alive. ASSUME NEW p \in Proc, pc[p] # "dead" PROVE fault = "none"
    BY <1>alive DEF FaultInv
<1>1. ASSUME fault' = "none" PROVE FaultInv'
    BY <1>1 DEF FaultInv
<1>2. ASSUME NEW why, why # "null client", Die(why) PROVE FaultInv'
    BY <1>2, DieFacts DEF FaultInv
<1>3. CASE HandlerNext
  <2>1. pc[Handler] # "dead"
      BY <1>3 DEF HandlerNext, WaitForEvent, PreConnection, PreConnectionRejects, CreateClient,
             CreateClientFails, InsertClient, Accept, AcceptFails, UndoAccept, Ack,
             HandleEstablished, HandleUnsupported, HandleDisconnected, AckDisconnect,
             EraseDisconnected, DestroyDisconnected
  <2>2. CASE HandleEstablished \/ HandleDisconnected
    <3>1. cur[Handler] \in Conn /\ link[cur[Handler]] \in {"up", "closing"}
        BY <2>2 DEF HandleEstablished, HandleDisconnected, HandlerInv
    <3>2. cur[Handler] \in clients
        BY <3>1 DEF ClientInv
    <3> QED BY <1>1, <1>alive, <2>1, <2>2, <3>2 DEF HandleEstablished, HandleDisconnected
  <2>3. CASE ~(HandleEstablished \/ HandleDisconnected)
    <3>1. fault' = fault
        BY <1>3, <2>3
           DEF HandlerNext, WaitForEvent, PreConnection, PreConnectionRejects, CreateClient,
               CreateClientFails, InsertClient, Accept, AcceptFails, UndoAccept, Ack,
               HandleUnsupported, AckDisconnect, EraseDisconnected, DestroyDisconnected
    <3> QED BY <1>1, <1>alive, <2>1, <3>1
  <2> QED BY <2>2, <2>3
<1>4. CASE AppCall \/ AppStep
  <2>1. pc[App] # "dead"
      BY <1>4 DEF AppCall, AppStep, MakePeer, RemoveConnection, MakePeerFails, RemoveAllSpins,
             InsertPeer, SetMemoryPool, SetInitiated, DisconnectedOut, ErasePeer, DestroyPeer
  <2>2. CASE MakePeerFails
      BY <1>2, <2>2 DEF MakePeerFails
  <2>3. CASE ~MakePeerFails
    <3>1. fault' = fault
        BY <1>4, <2>3
           DEF AppCall, AppStep, MakePeer, RemoveConnection, RemoveAllSpins,
               InsertPeer, SetMemoryPool, SetInitiated, DisconnectedOut, ErasePeer, DestroyPeer
    <3> QED BY <1>1, <1>alive, <2>1, <3>1
  <2> QED BY <2>2, <2>3
<1>5. ASSUME NEW p \in Proc, Walk(p) PROVE FaultInv'
    BY <1>5, <1>1, <1>alive, WalkFacts DEF FaultInv
<1>5a. ASSUME NEW p \in Proc, PostFails(p) PROVE FaultInv'
    BY <1>5a, <1>1, <1>alive, PostFailsFacts
<1>6. CASE UNCHANGED <<fault, pc>>
    BY <1>6 DEF FaultInv
<1> QED BY <1>3, <1>4, <1>5, <1>5a, <1>6, NextCases, PeerFacts DEF vars

\* A DISCONNECTED event is acknowledged before the handler goes on to erase.
LEMMA GotStep == TypeOK /\ FaultInv /\ ThreadInv /\ GotInv /\ [Next]_vars => GotInv'
<1> SUFFICES ASSUME TypeOK, FaultInv, HandlerInv, ClientInv, GotInv, [Next]_vars, FaultInv'
             PROVE  GotInv'
    BY FaultStep DEF ThreadInv
<1> USE Procs
<1>alive. ASSUME NEW p \in Proc, pc[p] # "dead" PROVE fault = "none"
    BY <1>alive DEF FaultInv
<1>dead. fault' # "none" => GotInv'
    BY DEF GotInv
<1>other. ASSUME pc[Handler] \notin {"dead", "DISCONNECTED", "ackDisconnect"}, got' = got PROVE GotInv'
    BY <1>other, <1>alive DEF GotInv
<1>same. ASSUME got' = got, fault' = fault, pc'[Handler] = pc[Handler], cur'[Handler] = cur[Handler]
         PROVE GotInv'
    BY <1>same DEF GotInv
<1>1. CASE WaitForEvent
  <2>1. cur' = [cur EXCEPT ![Handler] = Head(ev).conn] /\ Goto(Handler, Head(ev).type) /\ got' = Head(ev)
      BY <1>1 DEF WaitForEvent
  <2>2. cur'[Handler] = got'.conn /\ pc'[Handler] = got'.type
      BY <2>1, GotoFacts DEF TypeOK
  <2> QED BY <2>2 DEF GotInv
<1>2. CASE Ack \/ AckDisconnect
    BY <1>2 DEF Ack, AckDisconnect, NoEvent, GotInv
<1>3. CASE HandleDisconnected
  <2>1. CASE fault' # "none"
      BY <1>dead, <2>1
  <2>2. CASE fault' = "none"
    <3>1. pc[Handler] = "DISCONNECTED" /\ UNCHANGED <<got, cur>>
        BY <1>3 DEF HandleDisconnected
    <3>2. Goto(Handler, "ackDisconnect") \/ Die("null client")
        BY <1>3 DEF HandleDisconnected
    <3>3. CASE Goto(Handler, "ackDisconnect")
      <4>1. pc'[Handler] = "ackDisconnect" /\ fault = "none"
          BY <1>alive, <3>1, <3>3, GotoFacts
      <4> QED BY <3>1, <4>1 DEF GotInv
    <3>4. CASE Die("null client")
      <4>1. fault' = "null client"
          BY <3>4, DieFacts
      <4> QED BY <2>2, <4>1
    <3> QED BY <3>2, <3>3, <3>4
  <2> QED BY <2>1, <2>2
<1>4. CASE \/ PreConnection \/ PreConnectionRejects \/ CreateClient \/ CreateClientFails
           \/ InsertClient \/ Accept \/ AcceptFails \/ UndoAccept \/ HandleEstablished
           \/ HandleUnsupported \/ EraseDisconnected \/ DestroyDisconnected
    BY <1>4, <1>other
       DEF PreConnection, PreConnectionRejects, CreateClient, CreateClientFails, InsertClient,
           Accept, AcceptFails, UndoAccept, HandleEstablished, HandleUnsupported,
           EraseDisconnected, DestroyDisconnected, cmVars
<1>5. CASE AppCall \/ AppStep
  <2>1. CASE MakePeerFails
    <3>1. fault' = "null peer"
        BY <2>1, DieFacts DEF MakePeerFails
    <3> QED BY <1>dead, <3>1
  <2>2. CASE ~MakePeerFails
    <3>1. UNCHANGED <<got, fault>> /\ cur'[Handler] = cur[Handler]
        BY <1>5, <2>2
           DEF AppCall, AppStep, MakePeer, RemoveConnection, RemoveAllSpins, cmVars, TypeOK,
               InsertPeer, SetMemoryPool, SetInitiated, DisconnectedOut, ErasePeer, DestroyPeer
    <3>2. \E l : Goto(App, l)
        BY <1>5, <2>2
           DEF AppCall, AppStep, MakePeer, RemoveConnection, RemoveAllSpins,
               InsertPeer, SetMemoryPool, SetInitiated, DisconnectedOut, ErasePeer, DestroyPeer
    <3> QED BY <1>same, <3>1, <3>2, GotoFacts
  <2> QED BY <2>1, <2>2
<1>6. ASSUME NEW p \in Proc, Walk(p) PROVE GotInv'
  <2>1. CASE p = Handler
    <3>1. got' = got /\ pc[Handler] \in {"refill"} \cup Refilling
      <4>1. RefillStep(Handler)
          BY <1>6, <2>1 DEF Walk
      <4> QED BY <4>1
              DEF RefillStep, RefillLock, CheckCount, GetRegion, PostReceive, PushReceive,
                  RefillDone, cmVars, Refilling, Prepost
    <3> QED BY <1>other, <3>1 DEF Refilling, Prepost
  <2>2. CASE p # Handler
      BY <1>6, <1>dead, <1>same, <2>2, WalkFacts
  <2> QED BY <2>1, <2>2
<1>6a. ASSUME NEW p \in Proc, PostFails(p) PROVE GotInv'
  <2>1. CASE p = Handler
      BY <1>6a, <1>other, <2>1, PostFailsFacts
  <2>2. CASE p # Handler
      BY <1>6a, <1>same, <2>2, PostFailsFacts
  <2> QED BY <2>1, <2>2
<1>7. CASE UNCHANGED <<got, fault, pc, cur>>
    BY <1>7, <1>same
<1> QED BY <1>1, <1>2, <1>3, <1>4, <1>5, <1>6, <1>6a, <1>7, NextCases, PeerFacts DEF vars, HandlerNext

\* What a step of the handler leaves alone: the application, and all connections
\* but the one the handler works on.
LEMMA HandlerFacts ==
    ASSUME TypeOK, FaultInv, FaultInv', HandlerInv, ClientInv, HandlerNext, ~WaitForEvent
    PROVE  /\ cur[Handler] \in Conn
           /\ fault = "none" /\ fault' = "none"
           /\ pc'[App] = pc[App] /\ cur'[App] = cur[App]
           /\ init' = init /\ pool \subseteq pool'
           /\ \A d \in Conn : d # cur[Handler] =>
                 /\ link'[d] = link[d] /\ obj'[d] = obj[d]
                 /\ d \in clients' <=> d \in clients
                 /\ d \in pool' <=> d \in pool
<1> USE Procs DEF recvVars, cmVars, Refilling, Prepost
<1>type. /\ link \in [Conn -> Link] /\ obj \in [Conn -> {"none", "alive", "dead"}]
         /\ cur \in [Proc -> Conn \cup {None}]
    BY DEF TypeOK
<1>1. pc[Handler] \notin {"idle", "dead"}
    BY DEF HandlerNext, PreConnection, PreConnectionRejects, CreateClient, CreateClientFails,
           InsertClient, Accept, AcceptFails, UndoAccept, Ack, HandleEstablished,
           HandleUnsupported, HandleDisconnected, AckDisconnect, EraseDisconnected,
           DestroyDisconnected
<1>2. cur[Handler] \in Conn /\ fault = "none"
    BY <1>1 DEF HandlerInv, FaultInv
<1>3. fault' \in {fault, "null client"}
    BY DEF HandlerNext, PreConnection, PreConnectionRejects, CreateClient, CreateClientFails,
           InsertClient, Accept, AcceptFails, UndoAccept, Ack, HandleEstablished,
           HandleUnsupported, HandleDisconnected, AckDisconnect, EraseDisconnected,
           DestroyDisconnected, Die
<1>4. fault' = "none"
    BY <1>2, <1>3 DEF FaultInv
<1>5. (\E l : Goto(Handler, l)) \/ Die("null client")
    BY DEF HandlerNext, PreConnection, PreConnectionRejects, CreateClient, CreateClientFails,
           InsertClient, Accept, AcceptFails, UndoAccept, Ack, HandleEstablished,
           HandleUnsupported, HandleDisconnected, AckDisconnect, EraseDisconnected,
           DestroyDisconnected
<1>6. Die("null client") => fault' = "null client"
    BY DieFacts
<1>7. pc'[App] = pc[App]
    BY <1>4, <1>5, <1>6, GotoFacts
<1>8. cur'[App] = cur[App] /\ init' = init
    BY <1>type DEF HandlerNext, PreConnection, PreConnectionRejects, CreateClient, CreateClientFails,
           InsertClient, Accept, AcceptFails, UndoAccept, Ack, HandleEstablished,
           HandleUnsupported, HandleDisconnected, AckDisconnect, EraseDisconnected,
           DestroyDisconnected
<1>9. \A d \in Conn : d # cur[Handler] => link'[d] = link[d]
    BY <1>type DEF HandlerNext, PreConnection, PreConnectionRejects, CreateClient, CreateClientFails,
           InsertClient, Accept, AcceptFails, UndoAccept, Ack, HandleEstablished,
           HandleUnsupported, HandleDisconnected, AckDisconnect, EraseDisconnected,
           DestroyDisconnected
<1>10. \A d \in Conn : d # cur[Handler] => obj'[d] = obj[d]
    BY <1>type DEF HandlerNext, PreConnection, PreConnectionRejects, CreateClient, CreateClientFails,
           InsertClient, Accept, AcceptFails, UndoAccept, Ack, HandleEstablished,
           HandleUnsupported, HandleDisconnected, AckDisconnect, EraseDisconnected,
           DestroyDisconnected, Destroy
<1>11. clients' \in {clients, clients \cup {cur[Handler]}, clients \ {cur[Handler]}}
    BY DEF HandlerNext, PreConnection, PreConnectionRejects, CreateClient, CreateClientFails,
           InsertClient, Accept, AcceptFails, UndoAccept, Ack, HandleEstablished,
           HandleUnsupported, HandleDisconnected, AckDisconnect, EraseDisconnected,
           DestroyDisconnected
<1>12. pool' \in {pool, pool \cup {cur[Handler]}}
    BY DEF HandlerNext, PreConnection, PreConnectionRejects, CreateClient, CreateClientFails,
           InsertClient, Accept, AcceptFails, UndoAccept, Ack, HandleEstablished,
           HandleUnsupported, HandleDisconnected, AckDisconnect, EraseDisconnected,
           DestroyDisconnected
<1>13. \A d \in Conn : d # cur[Handler] => (d \in clients' <=> d \in clients)
    BY ONLY <1>11
<1>14. pool \subseteq pool' /\ \A d \in Conn : d # cur[Handler] => (d \in pool' <=> d \in pool)
    BY ONLY <1>12
<1> QED BY <1>2, <1>4, <1>7, <1>8, <1>9, <1>10, <1>13, <1>14

\* A step of the handler prepares its next one and keeps the map right.
LEMMA HandlerStep ==
    TypeOK /\ FaultInv /\ EventInv /\ ThreadInv /\ HandlerNext /\ FaultInv' => ThreadInv'
<1> SUFFICES ASSUME TypeOK, FaultInv, EventInv, HandlerInv, AppInv, ClientInv, HandlerNext, FaultInv'
             PROVE  ThreadInv'
    BY DEF ThreadInv
<1> USE Procs DEF recvVars, cmVars, Refilling, Prepost
<1>type. /\ link \in [Conn -> Link] /\ obj \in [Conn -> {"none", "alive", "dead"}]
         /\ cur \in [Proc -> Conn \cup {None}] /\ None \notin Conn
    BY ControllerAssumption DEF TypeOK
<1>1. CASE WaitForEvent
  <2>1. /\ UNCHANGED <<link, obj, clients, pool, init, fault>>
        /\ ev # <<>> /\ Goto(Handler, Head(ev).type)
        /\ cur' = [cur EXCEPT ![Handler] = Head(ev).conn]
      BY <1>1 DEF WaitForEvent
  <2>2. PICK e \in Event : e = Head(ev) /\ e.type \in Type /\ e.conn \in Conn /\ e = ev[1] /\ 1 \in 1..Len(ev)
      BY <2>1, HeadFacts
  <2>3. EventOK(e)
      BY <2>2 DEF EventInv
  <2>4. /\ pc'[Handler] = e.type /\ pc'[App] = pc[App]
        /\ cur'[Handler] = e.conn /\ cur'[App] = cur[App]
      BY <1>type, <2>1, <2>2, GotoFacts
  <2>5. /\ e.type = "CONNECT_REQUEST" => link[e.conn] = "asked" /\ obj[e.conn] = "none"
        /\ e.type = "ESTABLISHED" => link[e.conn] \in {"up", "closing"}
        /\ e.type = "DISCONNECTED" => link[e.conn] = "closing"
        /\ e.type = "OTHER" => link[e.conn] = "broken"
        /\ e.type \in {"CONNECT_REQUEST", "ESTABLISHED", "DISCONNECTED", "OTHER"}
      BY <2>2, <2>3 DEF EventOK, Type
  <2>6. link[e.conn] \in {"asked", "up", "closing", "broken"}
      BY <2>5
  <2>7. e.conn \notin init
      BY <2>2, <2>6 DEF ClientInv, Out
  <2>8. HandlerInv'
      BY <2>1, <2>2, <2>4, <2>5, <2>6, <2>7 DEF HandlerInv, In
  <2>9. AppInv' /\ ClientInv'
      BY <2>1, <2>4 DEF AppInv, ClientInv
  <2> QED BY <2>8, <2>9 DEF ThreadInv
<1>2. CASE ~WaitForEvent
  <2>1. PICK c \in Conn : c = cur[Handler]
      BY <1>2, HandlerFacts
  <2>2. /\ fault = "none" /\ fault' = "none"
        /\ pc'[App] = pc[App] /\ cur'[App] = cur[App]
        /\ init' = init /\ pool \subseteq pool'
        /\ \A d \in Conn : d # c =>
              /\ link'[d] = link[d] /\ obj'[d] = obj[d]
              /\ d \in clients' <=> d \in clients
              /\ d \in pool' <=> d \in pool
      BY <1>2, <2>1, HandlerFacts
  <2>3. link[c] \in In \cup {"down"} /\ c \notin init
      BY <2>1 DEF HandlerInv
  <2>4. AppInv'
    <3>1. cur[App] = c => pc[App] \notin {"insert", "setPool", "setInitiated", "waitDisconnected",
                                         "erase", "destroy"}
        BY <2>3 DEF AppInv, In, Out
    <3> QED BY <2>2, <3>1 DEF AppInv
  <2>client. ASSUME c \in clients' => obj'[c] = "alive" /\ (c \in pool' \/ c \in clients),
                    link'[c] \in {"accepted", "up", "broken", "closing"} => c \in clients',
                    link'[c] # "none"
             PROVE  ClientInv'
    <3> SUFFICES ASSUME NEW d \in Conn
                 PROVE  /\ d \in clients' =>
                              /\ obj'[d] = "alive"
                              /\ d \in pool' \/ (pc'[App] = "setPool" /\ cur'[App] = d) \/ fault' # "none"
                        /\ link'[d] \in {"accepted", "up", "broken", "closing"} => d \in clients'
                        /\ link'[d] = "none" => obj'[d] = "none"
                        /\ d \in init' => link'[d] \in Out \cup {"down"}
        BY DEF ClientInv
    <3>1. CASE d = c
        BY <2>2, <2>3, <2>client, <3>1 DEF ClientInv
    <3>2. CASE d # c
        BY <2>2, <3>2 DEF ClientInv
    <3> QED BY <3>1, <3>2
  <2>5. link[c] # "none"
      BY <2>3 DEF In
  <2>6. /\ c \in clients => obj[c] = "alive"
        /\ link[c] \in {"accepted", "up", "broken", "closing"} => c \in clients
      BY DEF ClientInv
  <2>idle. ASSUME pc'[Handler] = "idle", cur'[Handler] = None PROVE HandlerInv'
      BY <1>type, <2>idle DEF HandlerInv
  <2>7. CASE CreateClientFails \/ Ack \/ DestroyDisconnected
    <3>1. HandlerInv'
        BY <1>type, <2>7, <2>idle, GotoFacts DEF CreateClientFails, Ack, DestroyDisconnected
    <3>2. CASE CreateClientFails
      <4>1. link'[c] = "dropped" /\ UNCHANGED <<obj, clients>>
          BY <1>type, <2>1, <3>2 DEF CreateClientFails
      <4> QED BY <2>4, <2>6, <2>client, <3>1, <4>1 DEF ThreadInv
    <3>3. CASE Ack
        BY <2>4, <2>5, <2>6, <2>client, <3>1, <3>3 DEF Ack, ThreadInv
    <3>4. CASE DestroyDisconnected
      <4>1. link[c] = "down" /\ c \notin clients /\ UNCHANGED <<link, clients>>
          BY <2>1, <3>4 DEF DestroyDisconnected, HandlerInv
      <4> QED BY <2>4, <2>client, <3>1, <4>1 DEF ThreadInv
    <3> QED BY <2>7, <3>2, <3>3, <3>4
  <2>8. CASE PreConnection \/ PreConnectionRejects \/ CreateClient \/ InsertClient
    <3>1. /\ link[c] \in {"asked", "rejected"} /\ link'[c] \in {"asked", "rejected"}
          /\ cur'[Handler] = c
        BY <1>type, <2>1, <2>8
           DEF PreConnection, PreConnectionRejects, CreateClient, InsertClient, HandlerInv
    <3>2. \/ pc'[Handler] = "create" /\ obj'[c] = "none" /\ clients' = clients
          \/ pc'[Handler] = "insert" /\ obj'[c] = "alive" /\ c \in pool' /\ clients' = clients
          \/ pc'[Handler] = "refill" /\ c \in clients' /\ obj'[c] = "alive" /\ c \in pool'
        BY <1>type, <2>1, <2>8, GotoFacts
           DEF PreConnection, PreConnectionRejects, CreateClient, InsertClient, HandlerInv
    <3>3. c \in clients' => obj'[c] = "alive" /\ (c \in pool' \/ c \in clients)
      <4>1. obj[c] = "none" => c \notin clients
          BY <2>6
      <4>2. obj'[c] = "none" => obj[c] = "none"
          BY <1>type, <2>1, <2>8
             DEF PreConnection, PreConnectionRejects, CreateClient, InsertClient, HandlerInv
      <4> QED BY <3>2, <4>1, <4>2
    <3>4. ClientInv'
        BY <2>client, <3>1, <3>3
    <3>5. HandlerInv'
        BY <2>2, <2>3, <3>1, <3>2 DEF HandlerInv, In
    <3> QED BY <2>4, <3>4, <3>5 DEF ThreadInv
  <2>9. CASE Accept \/ HandleUnsupported \/ HandleEstablished
    <3>1. link'[c] \in In \cup {"down"} /\ cur'[Handler] = c /\ UNCHANGED <<obj, clients>>
        BY <1>type, <2>1, <2>3, <2>9 DEF Accept, HandleUnsupported, HandleEstablished, In
    <3>2. pc'[Handler] = "ack"
      <4>1. Goto(Handler, "ack") \/ Die("null client")
          BY <2>9 DEF Accept, HandleUnsupported, HandleEstablished
      <4>2. Die("null client") => fault' = "null client"
          BY DieFacts
      <4> QED BY <2>2, <4>1, <4>2, GotoFacts
    <3>3. HandlerInv'
        BY <2>2, <2>3, <3>1, <3>2 DEF HandlerInv
    <3>4. link'[c] \in {"accepted", "up", "broken", "closing"} => c \in clients
        BY <1>type, <2>1, <2>6, <2>9 DEF Accept, HandleUnsupported, HandleEstablished, HandlerInv
    <3>5. ClientInv'
        BY <2>6, <2>client, <3>1, <3>4 DEF In
    <3> QED BY <2>4, <3>3, <3>5 DEF ThreadInv
  <2>10. CASE AcceptFails
    <3>1. /\ cur'[Handler] = c /\ pc'[Handler] = "undo" /\ clients' = clients \ {c}
          /\ link[c] \in {"asked", "rejected"} /\ UNCHANGED <<link, obj>>
        BY <2>1, <2>10, GotoFacts DEF AcceptFails, HandlerInv
    <3>2. HandlerInv'
        BY <2>2, <2>3, <3>1 DEF HandlerInv
    <3>3. ClientInv'
        BY <2>client, <3>1
    <3> QED BY <2>4, <3>2, <3>3 DEF ThreadInv
  <2>11. CASE UndoAccept
    <3>1. /\ cur'[Handler] = c /\ pc'[Handler] = "ack" /\ clients' = clients
          /\ link'[c] = "rejected" /\ c \notin clients
        BY <1>type, <2>1, <2>11, GotoFacts DEF UndoAccept, HandlerInv
    <3>2. HandlerInv'
        BY <2>2, <2>3, <3>1 DEF HandlerInv, In
    <3>3. ClientInv'
        BY <2>client, <3>1
    <3> QED BY <2>4, <3>2, <3>3 DEF ThreadInv
  <2>12. CASE HandleDisconnected \/ AckDisconnect
    <3>1. cur'[Handler] = c /\ UNCHANGED <<obj, clients>>
        BY <2>1, <2>12 DEF HandleDisconnected, AckDisconnect
    <3>2. pc'[Handler] \in {"ackDisconnect", "erase"} /\ link'[c] = "down"
      <4>1. CASE AckDisconnect
          BY <2>1, <4>1, GotoFacts DEF AckDisconnect, HandlerInv
      <4>2. CASE HandleDisconnected
        <5>1. \/ Goto(Handler, "ackDisconnect") /\ link' = [link EXCEPT ![c] = "down"]
              \/ Die("null client")
            BY <2>1, <4>2 DEF HandleDisconnected
        <5>2. Die("null client") => fault' = "null client"
            BY DieFacts
        <5>3. Goto(Handler, "ackDisconnect") /\ link' = [link EXCEPT ![c] = "down"]
            BY <2>2, <5>1, <5>2
        <5> QED BY <1>type, <5>3, GotoFacts
      <4> QED BY <2>12, <4>1, <4>2
    <3>3. HandlerInv'
        BY <2>2, <2>3, <3>1, <3>2 DEF HandlerInv
    <3>4. ClientInv'
        BY <2>6, <2>client, <3>1, <3>2
    <3> QED BY <2>4, <3>3, <3>4 DEF ThreadInv
  <2>13. CASE EraseDisconnected
    <3>1. /\ cur'[Handler] = c /\ pc'[Handler] = "destroy" /\ clients' = clients \ {c}
          /\ link[c] = "down" /\ UNCHANGED <<link, obj>>
        BY <2>1, <2>13, GotoFacts DEF EraseDisconnected, HandlerInv
    <3>2. HandlerInv'
        BY <2>2, <2>3, <3>1 DEF HandlerInv
    <3>3. ClientInv'
        BY <2>client, <3>1
    <3> QED BY <2>4, <3>2, <3>3 DEF ThreadInv
  <2> QED BY <1>2, <2>7, <2>8, <2>9, <2>10, <2>11, <2>12, <2>13 DEF HandlerNext
<1> QED BY <1>1, <1>2

\* A step of the application prepares its next one and keeps the map right; it
\* never touches the connection the handler works on.
LEMMA AppThreadStep == TypeOK /\ FaultInv /\ ThreadInv /\ (AppCall \/ AppStep) => ThreadInv'
<1> SUFFICES ASSUME TypeOK, FaultInv, HandlerInv, AppInv, ClientInv, AppCall \/ AppStep
             PROVE  ThreadInv'
    BY DEF ThreadInv
<1> USE Procs DEF recvVars, cmVars
<1>type. /\ link \in [Conn -> Link] /\ obj \in [Conn -> {"none", "alive", "dead"}]
         /\ cur \in [Proc -> Conn \cup {None}] /\ None \notin Conn
    BY ControllerAssumption DEF TypeOK
<1>alive. pc[App] # "dead" => fault = "none"
    BY DEF FaultInv
<1>frame. ASSUME NEW c \in Conn, c # cur[Handler],
                 \A d \in Conn : d # c =>
                    /\ link'[d] = link[d] /\ obj'[d] = obj[d]
                    /\ d \in clients' <=> d \in clients
                    /\ d \in pool' <=> d \in pool
                    /\ d \in init' <=> d \in init,
                 pc'[Handler] = pc[Handler], cur'[Handler] = cur[Handler], fault' = fault,
                 pc[App] = "setPool" => cur[App] = c,
                 c \in clients' =>
                    obj'[c] = "alive" /\ (c \in pool' \/ (pc'[App] = "setPool" /\ cur'[App] = c)),
                 link'[c] \in Out \cup {"down"}
          PROVE  HandlerInv' /\ ClientInv'
  <2>1. HandlerInv'
    <3>1. cur[Handler] \in Conn => link'[cur[Handler]] = link[cur[Handler]] /\ obj'[cur[Handler]] = obj[cur[Handler]]
        BY <1>frame
    <3>2. cur[Handler] \in Conn =>
                 /\ cur[Handler] \in clients' <=> cur[Handler] \in clients
                 /\ cur[Handler] \in pool' <=> cur[Handler] \in pool
                 /\ cur[Handler] \in init' <=> cur[Handler] \in init
        BY <1>frame
    <3> QED BY <1>frame, <3>1, <3>2 DEF HandlerInv, Refilling, Prepost
  <2>2. ClientInv'
    <3> SUFFICES ASSUME NEW d \in Conn
                 PROVE  /\ d \in clients' =>
                              /\ obj'[d] = "alive"
                              /\ d \in pool' \/ (pc'[App] = "setPool" /\ cur'[App] = d) \/ fault' # "none"
                        /\ link'[d] \in {"accepted", "up", "broken", "closing"} => d \in clients'
                        /\ link'[d] = "none" => obj'[d] = "none"
                        /\ d \in init' => link'[d] \in Out \cup {"down"}
        BY DEF ClientInv
    <3>1. CASE d = c
        BY <1>frame, <3>1 DEF Out
    <3>2. CASE d # c
        BY <1>frame, <3>2 DEF ClientInv
    <3> QED BY <3>1, <3>2
  <2> QED BY <2>1, <2>2
<1>1. CASE MakePeerFails \/ RemoveAllSpins
  <2>1. /\ UNCHANGED <<link, obj, clients, pool, init, cur>> /\ pc[App] = "idle"
        /\ pc'[App] \in {"dead", "spin"}
        /\ fault' # "none" \/ fault' = fault
        /\ pc'[Handler] \in {pc[Handler], "dead"}
    <3>1. CASE MakePeerFails
      <4>1. /\ UNCHANGED <<link, obj, clients, pool, init, cur>> /\ pc[App] = "idle"
            /\ Die("null peer")
          BY <3>1 DEF MakePeerFails
      <4>2. fault' = "null peer" /\ \A q \in Proc : pc'[q] = "dead"
          BY <4>1, DieFacts
      <4> QED BY <4>1, <4>2
    <3>2. CASE RemoveAllSpins
        BY <3>2, GotoFacts DEF RemoveAllSpins
    <3> QED BY <1>1, <3>1, <3>2
  <2>2. HandlerInv' /\ AppInv'
      BY <2>1 DEF HandlerInv, AppInv, Refilling, Prepost
  <2>3. ClientInv'
      BY <2>1 DEF ClientInv
  <2> QED BY <2>2, <2>3 DEF ThreadInv
<1>2. ASSUME NEW c \in Conn, MakePeer(c) PROVE ThreadInv'
  <2>1. /\ pc[App] = "idle" /\ link[c] = "none" /\ UNCHANGED <<clients, pool, init, fault>>
        /\ obj' = [obj EXCEPT ![c] = "alive"] /\ cur' = [cur EXCEPT ![App] = c]
        /\ Goto(App, "insert")
      BY <1>2 DEF MakePeer
  <2>2. PICK l \in {"upOut", "failedOut"} : link' = [link EXCEPT ![c] = l]
      BY <1>2 DEF MakePeer
  <2>3. /\ c # cur[Handler] /\ c \notin clients
      BY <2>1 DEF HandlerInv, ClientInv, In
  <2>4. /\ pc'[Handler] = pc[Handler] /\ pc'[App] = "insert" /\ cur'[App] = c
        /\ cur'[Handler] = cur[Handler] /\ obj'[c] = "alive" /\ link'[c] \in Out
        /\ \A d \in Conn : d # c => link'[d] = link[d] /\ obj'[d] = obj[d]
      BY <1>type, <2>1, <2>2, GotoFacts DEF Out
  <2>5. HandlerInv' /\ ClientInv'
      BY <1>frame, <2>1, <2>3, <2>4
  <2>6. AppInv'
      BY <2>4 DEF AppInv
  <2> QED BY <2>5, <2>6 DEF ThreadInv
<1>3. ASSUME NEW c \in Conn, RemoveConnection(c) PROVE ThreadInv'
  <2>1. /\ pc[App] = "idle" /\ UNCHANGED <<obj, clients, pool, init, fault>>
        /\ cur' = [cur EXCEPT ![App] = c] /\ c \in clients /\ c \in init
        /\ \/ Goto(App, "erase") /\ link' = link
           \/ Goto(App, "waitDisconnected") /\ link' = [link EXCEPT ![c] = "closingOut"]
      BY <1>3 DEF RemoveConnection
  <2>2. /\ c # cur[Handler] /\ link[c] \in Out \cup {"down"} /\ obj[c] = "alive"
        /\ c \in pool
      BY <1>alive, <2>1 DEF HandlerInv, ClientInv
  <2>3. /\ pc'[Handler] = pc[Handler] /\ pc'[App] \in {"erase", "waitDisconnected"}
        /\ cur'[App] = c /\ cur'[Handler] = cur[Handler]
        /\ link'[c] \in Out \cup {"down"}
        /\ \A d \in Conn : d # c => link'[d] = link[d]
      BY <1>type, <2>1, <2>2, GotoFacts DEF Out
  <2>4. HandlerInv' /\ ClientInv'
      BY <1>frame, <2>1, <2>2, <2>3
  <2>5. AppInv'
      BY <2>1, <2>3 DEF AppInv
  <2> QED BY <2>4, <2>5 DEF ThreadInv
<1>4. CASE AppStep
  <2>1. pc[App] \in {"insert", "setPool", "setInitiated", "waitDisconnected", "erase", "destroy"}
      BY <1>4 DEF AppStep, InsertPeer, SetMemoryPool, SetInitiated, DisconnectedOut, ErasePeer, DestroyPeer
  <2>2. PICK c \in Conn : c = cur[App]
      BY <2>1 DEF AppInv
  <2>3. link[c] \in Out \cup {"down"} /\ c # cur[Handler] /\ fault = "none"
      BY <1>alive, <2>1, <2>2 DEF AppInv, HandlerInv, In, Out
  <2>4. c \in clients => obj[c] = "alive" /\ (c \in pool \/ pc[App] = "setPool")
      BY <2>3 DEF ClientInv
  <2>5. CASE InsertPeer
    <3>1. /\ UNCHANGED <<link, obj, pool, init, fault, cur>> /\ clients' = clients \cup {c}
          /\ pc[App] = "insert" /\ pc'[App] = "setPool" /\ pc'[Handler] = pc[Handler]
        BY <2>2, <2>5, GotoFacts DEF InsertPeer
    <3>2. obj[c] = "alive" /\ link[c] \in Out
        BY <2>2, <3>1 DEF AppInv
    <3>3. HandlerInv' /\ ClientInv'
        BY <1>frame, <2>2, <2>3, <3>1, <3>2
    <3>4. AppInv'
        BY <2>2, <3>1, <3>2 DEF AppInv
    <3> QED BY <3>3, <3>4 DEF ThreadInv
  <2>6. CASE SetMemoryPool
    <3>1. /\ UNCHANGED <<link, obj, clients, init, fault, cur>> /\ pool' = pool \cup {c}
          /\ pc[App] = "setPool" /\ pc'[App] = "setInitiated" /\ pc'[Handler] = pc[Handler]
        BY <2>2, <2>6, GotoFacts DEF SetMemoryPool
    <3>2. link[c] \in Out
        BY <2>2, <3>1 DEF AppInv
    <3>3. HandlerInv' /\ ClientInv'
        BY <1>frame, <2>2, <2>3, <2>4, <3>1, <3>2
    <3>4. AppInv'
        BY <2>2, <3>1, <3>2 DEF AppInv
    <3> QED BY <3>3, <3>4 DEF ThreadInv
  <2>7. CASE SetInitiated
    <3>1. /\ UNCHANGED <<link, obj, clients, pool, fault, cur>> /\ init' = init \cup {c}
          /\ pc[App] = "setInitiated" /\ pc'[App] = "refill" /\ pc'[Handler] = pc[Handler]
        BY <2>2, <2>7, GotoFacts DEF SetInitiated
    <3>3. HandlerInv' /\ ClientInv'
        BY <1>frame, <2>2, <2>3, <2>4, <3>1
    <3>4. AppInv'
        BY <3>1 DEF AppInv
    <3> QED BY <3>3, <3>4 DEF ThreadInv
  <2>8. CASE DisconnectedOut
    <3>1. /\ UNCHANGED <<obj, clients, pool, init, fault, cur>> /\ link' = [link EXCEPT ![c] = "down"]
          /\ pc[App] = "waitDisconnected" /\ pc'[App] = "erase" /\ pc'[Handler] = pc[Handler]
        BY <2>2, <2>8, GotoFacts DEF DisconnectedOut
    <3>2. link'[c] = "down" /\ \A d \in Conn : d # c => link'[d] = link[d]
        BY <1>type, <3>1
    <3>3. HandlerInv' /\ ClientInv'
        BY <1>frame, <2>2, <2>3, <2>4, <3>1, <3>2
    <3>4. c \in init
        BY <2>2, <3>1 DEF AppInv
    <3>5. AppInv'
        BY <2>2, <3>1, <3>2, <3>4 DEF AppInv
    <3> QED BY <3>3, <3>5 DEF ThreadInv
  <2>9. CASE ErasePeer
    <3>1. /\ UNCHANGED <<link, obj, pool, init, fault, cur>> /\ clients' = clients \ {c}
          /\ pc[App] = "erase" /\ pc'[App] = "destroy" /\ pc'[Handler] = pc[Handler]
        BY <2>2, <2>9, GotoFacts DEF ErasePeer
    <3>3. HandlerInv' /\ ClientInv'
        BY <1>frame, <2>2, <2>3, <3>1
    <3>4. c \in init
        BY <2>2, <3>1 DEF AppInv
    <3>5. AppInv'
        BY <2>2, <2>3, <3>1, <3>4 DEF AppInv
    <3> QED BY <3>3, <3>5 DEF ThreadInv
  <2>10. CASE DestroyPeer
    <3>1. /\ UNCHANGED <<link, clients, pool, init, fault>> /\ obj' = [obj EXCEPT ![c] = "dead"]
          /\ cur' = [cur EXCEPT ![App] = None]
          /\ pc[App] = "destroy" /\ pc'[App] = "idle" /\ pc'[Handler] = pc[Handler]
        BY <2>2, <2>10, GotoFacts DEF DestroyPeer, Destroy
    <3>2. c \notin clients /\ cur'[Handler] = cur[Handler] /\ \A d \in Conn : d # c => obj'[d] = obj[d]
        BY <1>type, <2>2, <3>1 DEF AppInv
    <3>3. HandlerInv' /\ ClientInv'
        BY <1>frame, <2>2, <2>3, <3>1, <3>2
    <3>4. AppInv'
        BY <3>1 DEF AppInv
    <3> QED BY <3>3, <3>4 DEF ThreadInv
  <2> QED BY <1>4, <2>5, <2>6, <2>7, <2>8, <2>9, <2>10 DEF AppStep
<1> QED BY <1>1, <1>2, <1>3, <1>4 DEF AppCall

\* Every step keeps the connections of the threads and the map right.
LEMMA ThreadStep ==
    TypeOK /\ FaultInv /\ EventInv /\ ThreadInv /\ [Next]_vars => ThreadInv'
<1> SUFFICES ASSUME TypeOK, FaultInv, EventInv, ThreadInv, [Next]_vars, FaultInv'
             PROVE  ThreadInv'
    BY FaultStep
<1> USE Procs
<1>inv. HandlerInv /\ AppInv /\ ClientInv
    BY DEF ThreadInv
<1>1. CASE HandlerNext
    BY <1>1, HandlerStep
<1>2. CASE AppCall \/ AppStep
    BY <1>2, AppThreadStep
<1>3. ASSUME NEW c \in Conn, PeerConnects(c) \/ PeerDisconnects(c) \/ Established(c) \/ EstablishFails(c)
      PROVE  ThreadInv'
  <2>1. /\ UNCHANGED <<obj, clients, pool, init, pc, cur, fault>>
        /\ \A d \in Conn : d # c => link'[d] = link[d]
        /\ \/ link[c] = "none" /\ link'[c] = "asked"
           \/ link[c] = "accepted" /\ link'[c] \in {"up", "broken"}
           \/ link[c] = "up" /\ link'[c] = "closing"
           \/ link[c] = "upOut" /\ link'[c] = "closingOut"
      BY <1>3, PeerFacts
  <2>2. HandlerInv'
    <3>1. CASE cur[Handler] = c
        BY <1>inv, <2>1, <3>1 DEF HandlerInv, In
    <3>2. CASE cur[Handler] # c
      <4>1. cur[Handler] \in Conn => link'[cur[Handler]] = link[cur[Handler]]
          BY <2>1, <3>2
      <4> QED BY <1>inv, <2>1, <4>1 DEF HandlerInv, Refilling, Prepost
    <3> QED BY <3>1, <3>2
  <2>3. AppInv'
    <3>1. CASE cur[App] = c
        BY <1>inv, <2>1, <3>1 DEF AppInv, Out
    <3>2. CASE cur[App] # c
      <4>1. cur[App] \in Conn => link'[cur[App]] = link[cur[App]]
          BY <2>1, <3>2
      <4> QED BY <1>inv, <2>1, <4>1 DEF AppInv
    <3> QED BY <3>1, <3>2
  <2>4. ClientInv'
    <3> SUFFICES ASSUME NEW d \in Conn
                 PROVE  /\ d \in clients =>
                              /\ obj[d] = "alive"
                              /\ d \in pool \/ (pc[App] = "setPool" /\ cur[App] = d) \/ fault # "none"
                        /\ link'[d] \in {"accepted", "up", "broken", "closing"} => d \in clients
                        /\ link'[d] = "none" => obj[d] = "none"
                        /\ d \in init => link'[d] \in Out \cup {"down"}
        BY <2>1 DEF ClientInv
    <3> QED BY <1>inv, <2>1 DEF ClientInv, Out
  <2> QED BY <2>2, <2>3, <2>4 DEF ThreadInv
<1>4. ASSUME NEW p \in Proc, Walk(p) PROVE ThreadInv'
  <2>1. UNCHANGED <<link, obj, clients, pool, init>> /\ pc[p] # "dead"
      BY <1>4, WalkFacts
  <2>2. CASE fault' # "none" /\ UNCHANGED cur /\ \A q \in Proc : pc'[q] = "dead"
      BY <1>inv, <2>1, <2>2 DEF ThreadInv, HandlerInv, AppInv, ClientInv, Refilling, Prepost
  <2>3. CASE /\ UNCHANGED fault
             /\ \A q \in Proc : q # p => pc'[q] = pc[q] /\ cur'[q] = cur[q]
             /\ \/ /\ pc[p] \in {"refill"} \cup Refilling
                   /\ pc'[p] \in Refilling /\ UNCHANGED cur
                \/ /\ pc[p] = "refilling"
                   /\ IF p = Handler THEN pc'[p] = "accept" /\ UNCHANGED cur ELSE pc'[p] = "idle"
                \/ p \in Poller /\ UNCHANGED cur
    <3>1. cur'[Handler] = cur[Handler]
        BY <2>3
    <3>2. \/ pc'[Handler] = pc[Handler]
          \/ /\ pc[Handler] \in {"refill"} \cup Refilling
             /\ pc'[Handler] \in {"accept"} \cup Refilling
        BY <2>3 DEF Refilling
    <3>3. HandlerInv'
        BY <1>inv, <2>1, <3>1, <3>2 DEF HandlerInv, Refilling, Prepost
    <3>4. \/ pc'[App] = pc[App] /\ cur'[App] = cur[App]
          \/ /\ pc[App] \in {"refill"} \cup Refilling
             /\ pc'[App] \in {"idle"} \cup Refilling
        BY <2>3 DEF Refilling
    <3>5. AppInv'
        BY <1>inv, <2>1, <3>4 DEF AppInv, Refilling, Prepost
    <3>6. ClientInv'
        BY <1>inv, <2>1, <2>3, <3>4 DEF ClientInv, Refilling, Prepost
    <3> QED BY <3>3, <3>5, <3>6 DEF ThreadInv
  <2> QED BY <1>4, <2>2, <2>3, WalkFacts
<1>4a. ASSUME NEW p \in Proc, PostFails(p) PROVE ThreadInv'
  <2>1. /\ UNCHANGED <<obj, clients, pool, init, fault>>
        /\ pc[p] = "post" /\ pc'[p] = "idle" /\ cur'[p] = None
        /\ \A q \in Proc : q # p => pc'[q] = pc[q] /\ cur'[q] = cur[q]
        /\ p # Handler => link' = link
        /\ p = Handler =>
              /\ cur[Handler] \in Conn /\ cur[Handler] \in clients
              /\ link'[cur[Handler]] \in {"dropped", "rejected"}
              /\ \A d \in Conn : d # cur[Handler] => link'[d] = link[d]
      BY <1>inv, <1>4a, PostFailsFacts
  <2>2. None \notin Conn
      BY ControllerAssumption
  <2>3. CASE p = Handler
    <3>1. PICK c \in Conn : c = cur[Handler]
        BY <2>1, <2>3
    <3>2. /\ c \in clients /\ c \notin init /\ link'[c] \in {"dropped", "rejected"}
          /\ \A d \in Conn : d # c => link'[d] = link[d]
          /\ pc'[App] = pc[App] /\ cur'[App] = cur[App]
          /\ link[c] \in In \cup {"down"}
        BY <1>inv, <2>1, <2>3, <3>1 DEF HandlerInv
    <3>3. HandlerInv'
        BY <2>1, <2>2, <2>3 DEF HandlerInv, Refilling, Prepost
    <3>4. AppInv'
      <4>1. CASE cur[App] = c
        <5>1. pc[App] \notin {"insert", "setPool", "setInitiated", "waitDisconnected",
                              "erase", "destroy"}
            BY <1>inv, <3>2, <4>1 DEF AppInv, In, Out
        <5> QED BY <3>2, <5>1 DEF AppInv
      <4>2. CASE cur[App] # c
        <5>1. cur[App] \in Conn => link'[cur[App]] = link[cur[App]]
            BY <3>2, <4>2
        <5> QED BY <1>inv, <2>1, <3>2, <5>1 DEF AppInv
      <4> QED BY <4>1, <4>2
    <3>5. ClientInv'
      <4> SUFFICES ASSUME NEW d \in Conn
                   PROVE  /\ d \in clients' =>
                                /\ obj'[d] = "alive"
                                /\ d \in pool' \/ (pc'[App] = "setPool" /\ cur'[App] = d) \/ fault' # "none"
                          /\ link'[d] \in {"accepted", "up", "broken", "closing"} => d \in clients'
                          /\ link'[d] = "none" => obj'[d] = "none"
                          /\ d \in init' => link'[d] \in Out \cup {"down"}
          BY DEF ClientInv
      <4>1. CASE d = c
          BY <1>inv, <2>1, <3>2, <4>1 DEF ClientInv
      <4>2. CASE d # c
          BY <1>inv, <2>1, <3>2, <4>2 DEF ClientInv
      <4> QED BY <4>1, <4>2
    <3> QED BY <3>3, <3>4, <3>5 DEF ThreadInv
  <2>4. CASE p # Handler
    <3>1. /\ pc'[Handler] = pc[Handler] /\ cur'[Handler] = cur[Handler]
          /\ UNCHANGED <<link, obj, clients, pool, init, fault>>
        BY <2>1, <2>4
    <3>2. \/ pc'[App] = pc[App] /\ cur'[App] = cur[App]
          \/ pc[App] = "post" /\ pc'[App] = "idle"
        BY <2>1
    <3>3. HandlerInv'
        BY <1>inv, <3>1 DEF HandlerInv
    <3>4. AppInv'
        BY <1>inv, <3>1, <3>2 DEF AppInv
    <3>5. ClientInv'
        BY <1>inv, <3>1, <3>2 DEF ClientInv
    <3> QED BY <3>3, <3>4, <3>5 DEF ThreadInv
  <2> QED BY <2>3, <2>4
<1>5. CASE UNCHANGED vars
    BY <1>inv, <1>5 DEF vars, ThreadInv, HandlerInv, AppInv, ClientInv
<1> QED BY <1>1, <1>2, <1>3, <1>4, <1>4a, <1>5, NextCases

-----------------------------------------------------------------------------
(* The regions of the pool *)

\* k[c] regions for each connection c, as pairs.
Pairs(k) == UNION {{c} \X (1..k[c]) : c \in Conn}

\* One region more for connection c.
LEMMA OnePairMore ==
    ASSUME NEW k \in [Conn -> Nat], NEW m \in [Conn -> Nat], NEW c \in Conn, m[c] = k[c] + 1,
           \A d \in Conn : d # c => m[d] = k[d]
    PROVE  Pairs(m) = Pairs(k) \cup {<<c, k[c] + 1>>} /\ <<c, k[c] + 1>> \notin Pairs(k)
<1>1. k[c] \in Nat
    OBVIOUS
<1>2. \A f : \A x : x \in Pairs(f) <=> \E d \in Conn : \E i \in 1..f[d] : x = <<d, i>>
    BY DEF Pairs
<1>3. ASSUME NEW x \in Pairs(m) PROVE x \in Pairs(k) \cup {<<c, k[c] + 1>>}
  <2>0. PICK d \in Conn : \E i \in 1..m[d] : x = <<d, i>>
      BY <1>2
  <2>1. PICK i \in 1..m[d] : x = <<d, i>>
      BY <2>0
  <2>2. CASE d = c
    <3>1. i \in 1..k[c] \/ i = k[c] + 1
        BY <1>1, <2>1, <2>2
    <3> QED BY <1>2, <2>1, <2>2, <3>1
  <2>3. CASE d # c
      BY <1>2, <2>1, <2>3
  <2> QED BY <2>2, <2>3
<1>4. ASSUME NEW x \in Pairs(k) PROVE x \in Pairs(m)
  <2>0. PICK d \in Conn : \E i \in 1..k[d] : x = <<d, i>>
      BY <1>2
  <2>1. PICK i \in 1..k[d] : x = <<d, i>>
      BY <2>0
  <2>2. i \in 1..m[d]
    <3>1. CASE d = c
        BY <1>1, <2>1, <3>1
    <3>2. CASE d # c
        BY <2>1, <3>2
    <3> QED BY <3>1, <3>2
  <2> QED BY <1>2, <2>1, <2>2
<1>5. <<c, k[c] + 1>> \in Pairs(m)
  <2>1. k[c] + 1 \in 1..m[c]
      BY <1>1
  <2> QED BY <1>2, <2>1
<1>6. ASSUME <<c, k[c] + 1>> \in Pairs(k) PROVE FALSE
  <2>0. PICK d \in Conn : \E i \in 1..k[d] : <<c, k[c] + 1>> = <<d, i>>
      BY <1>2, <1>6
  <2>1. PICK i \in 1..k[d] : <<c, k[c] + 1>> = <<d, i>>
      BY <2>0
  <2>2. d = c /\ i = k[c] + 1
      BY <2>1
  <2> QED BY <1>1, <2>1, <2>2
<1> QED BY <1>3, <1>4, <1>5, <1>6

\* The regions of the connections are these pairs, before and after a step.
LEMMA KeptPairs ==
    ASSUME TypeOK, TypeOK'
    PROVE  \E k, m \in [Conn -> Nat] :
              /\ \A c \in Conn : k[c] = Taken(c) /\ m[c] = Taken(c)'
              /\ Kept = Pairs(k) /\ Kept' = Pairs(m)
<1>1. \A c \in Conn : Taken(c) \in Nat /\ Taken(c)' \in Nat
    BY DEF TypeOK, Taken
<1>2. PICK k : k = [c \in Conn |-> Taken(c)]
    OBVIOUS
<1>3. PICK m : m = [c \in Conn |-> Taken(c)']
    OBVIOUS
<1>4. /\ k \in [Conn -> Nat] /\ m \in [Conn -> Nat]
      /\ \A c \in Conn : k[c] = Taken(c) /\ m[c] = Taken(c)'
    BY <1>1, <1>2, <1>3
<1>5. Kept = Pairs(k)
    BY <1>4 DEF Kept, Pairs
<1>6. Kept' = Pairs(m)
    BY <1>4 DEF Kept, Pairs
<1> QED BY <1>4, <1>5, <1>6

\* No connection takes a region or gives one back.
LEMMA KeptSame ==
    ASSUME TypeOK, TypeOK', \A c \in Conn : Taken(c)' = Taken(c)
    PROVE  Kept' = Kept
<1>1. PICK k, m \in [Conn -> Nat] :
            /\ \A c \in Conn : k[c] = Taken(c) /\ m[c] = Taken(c)'
            /\ Kept = Pairs(k) /\ Kept' = Pairs(m)
    BY KeptPairs
<1>2. k = m
    BY <1>1
<1> QED BY <1>1, <1>2

\* Connection c takes one.
LEMMA KeptMore ==
    ASSUME TypeOK, TypeOK', NEW c \in Conn, Taken(c)' = Taken(c) + 1,
           \A d \in Conn : d # c => Taken(d)' = Taken(d), IsFiniteSet(Kept)
    PROVE  IsFiniteSet(Kept)' /\ Cardinality(Kept)' = Cardinality(Kept) + 1
<1>1. PICK k, m \in [Conn -> Nat] :
            /\ \A d \in Conn : k[d] = Taken(d) /\ m[d] = Taken(d)'
            /\ Kept = Pairs(k) /\ Kept' = Pairs(m)
    BY KeptPairs
<1>2. m[c] = k[c] + 1 /\ \A d \in Conn : d # c => m[d] = k[d]
    BY <1>1
<1>3. Pairs(m) = Pairs(k) \cup {<<c, k[c] + 1>>} /\ <<c, k[c] + 1>> \notin Pairs(k)
    BY <1>2, OnePairMore
<1>4. IsFiniteSet(Pairs(m)) /\ Cardinality(Pairs(m)) = Cardinality(Pairs(k)) + 1
  <2>1. PICK S, x : S = Pairs(k) /\ x = <<c, k[c] + 1>>
      OBVIOUS
  <2>2. IsFiniteSet(S) /\ x \notin S /\ Pairs(m) = S \cup {x}
      BY <1>1, <1>3, <2>1
  <2>3. IsFiniteSet(S \cup {x}) /\ Cardinality(S \cup {x}) = Cardinality(S) + 1
      BY ONLY <2>2, FS_AddElement
  <2> QED BY <2>1, <2>2, <2>3
<1> QED BY <1>1, <1>4

\* Connection c gives one back.
LEMMA KeptLess ==
    ASSUME TypeOK, TypeOK', NEW c \in Conn, Taken(c) = Taken(c)' + 1,
           \A d \in Conn : d # c => Taken(d)' = Taken(d), IsFiniteSet(Kept)
    PROVE  IsFiniteSet(Kept)' /\ Cardinality(Kept)' = Cardinality(Kept) - 1
<1>1. PICK k, m \in [Conn -> Nat] :
            /\ \A d \in Conn : k[d] = Taken(d) /\ m[d] = Taken(d)'
            /\ Kept = Pairs(k) /\ Kept' = Pairs(m)
    BY KeptPairs
<1>2. k[c] = m[c] + 1 /\ \A d \in Conn : d # c => k[d] = m[d]
    BY <1>1
<1>3. Pairs(k) = Pairs(m) \cup {<<c, m[c] + 1>>} /\ <<c, m[c] + 1>> \notin Pairs(m)
    BY <1>2, OnePairMore
<1>4. Pairs(m) = Pairs(k) \ {<<c, m[c] + 1>>} /\ <<c, m[c] + 1>> \in Pairs(k)
    BY <1>3
<1>5. IsFiniteSet(Pairs(m)) /\ Cardinality(Pairs(m)) = Cardinality(Pairs(k)) - 1
  <2>1. PICK S, x : S = Pairs(k) /\ x = <<c, m[c] + 1>>
      OBVIOUS
  <2>2. IsFiniteSet(S) /\ x \in S /\ Pairs(m) = S \ {x}
      BY <1>1, <1>4, <2>1
  <2>3. IsFiniteSet(S \ {x}) /\ Cardinality(S \ {x}) = Cardinality(S) - 1
      BY ONLY <2>2, FS_RemoveElement
  <2> QED BY <2>1, <2>2, <2>3
<1> QED BY <1>1, <1>5

\* Sets of threads are finite, and no larger than the set of all threads.
LEMMA ThreadSet ==
    ASSUME NEW S \in SUBSET Proc
    PROVE  /\ IsFiniteSet(S)
           /\ Cardinality(S) \in Nat /\ Cardinality(Proc) \in Nat
           /\ Cardinality(S) <= Cardinality(Proc)
<1>1. Proc = (Poller \cup {Handler}) \cup {App}
    BY DEF Proc
<1>2. IsFiniteSet(Poller \cup {Handler})
    BY ControllerAssumption, FS_AddElement
<1>3. IsFiniteSet(Proc)
    BY <1>1, <1>2, FS_AddElement
<1> QED BY <1>3, FS_Subset, FS_CardinalityType

\* One thread joins or leaves a set of threads.
LEMMA OneMoves ==
    ASSUME NEW S \in SUBSET Proc, NEW T \in SUBSET Proc, NEW p \in Proc,
           \A q \in Proc \ {p} : q \in S <=> q \in T
    PROVE  /\ (p \in S <=> p \in T) => Cardinality(T) = Cardinality(S)
           /\ p \notin S /\ p \in T => Cardinality(T) = Cardinality(S) + 1
           /\ p \in S /\ p \notin T => Cardinality(T) = Cardinality(S) - 1
<1>1. ASSUME p \in S <=> p \in T PROVE Cardinality(T) = Cardinality(S)
  <2>1. S = T
      BY <1>1
  <2> QED BY <2>1
<1>2. ASSUME p \notin S, p \in T PROVE Cardinality(T) = Cardinality(S) + 1
  <2>1. T = S \cup {p}
      BY <1>2
  <2> QED BY <1>2, <2>1, ThreadSet, FS_AddElement
<1>3. ASSUME p \in S, p \notin T PROVE Cardinality(T) = Cardinality(S) - 1
  <2>1. T = S \ {p}
      BY <1>3
  <2> QED BY <1>3, <2>1, ThreadSet, FS_RemoveElement
<1> QED BY <1>1, <1>2, <1>3

\* What a step of thread p does to the threads that take regions for c.
LEMMA TakingMoves ==
    ASSUME NEW p \in Proc, NEW c \in Conn,
           \A q \in Proc \ {p} : pc'[q] = pc[q] /\ ref'[q] = ref[q]
    PROVE  /\ (p \in Taking(c) <=> p \in Taking(c)')
                  => Cardinality(Taking(c)') = Cardinality(Taking(c))
           /\ p \notin Taking(c) /\ p \in Taking(c)'
                  => Cardinality(Taking(c)') = Cardinality(Taking(c)) + 1
           /\ p \in Taking(c) /\ p \notin Taking(c)'
                  => Cardinality(Taking(c)') = Cardinality(Taking(c)) - 1
<1>1. Taking(c) \in SUBSET Proc /\ Taking(c)' \in SUBSET Proc
    BY DEF Taking
<1>2. \A q \in Proc \ {p} : q \in Taking(c) <=> q \in Taking(c)'
    BY DEF Taking
<1> QED BY ONLY <1>1, <1>2, OneMoves, p \in Proc

\* What it does to the threads with a region in hand.
LEMMA InHandMoves ==
    ASSUME NEW p \in Proc, \A q \in Proc \ {p} : pc'[q] = pc[q]
    PROVE  /\ (p \in InHand <=> p \in InHand') => Cardinality(InHand') = Cardinality(InHand)
           /\ p \notin InHand /\ p \in InHand' => Cardinality(InHand') = Cardinality(InHand) + 1
           /\ p \in InHand /\ p \notin InHand' => Cardinality(InHand') = Cardinality(InHand) - 1
<1>1. InHand \in SUBSET Proc /\ InHand' \in SUBSET Proc
    BY DEF InHand
<1>2. \A q \in Proc \ {p} : q \in InHand <=> q \in InHand'
    BY DEF InHand
<1> QED BY ONLY <1>1, <1>2, OneMoves, p \in Proc

\* The numbers the invariant is about.
LEMMA RegionTypes ==
    ASSUME TypeOK
    PROVE  /\ Preposts \in Nat \ {0} /\ NumRegions \in Nat /\ free \in Nat /\ lost \in Nat
           /\ Cardinality(Proc) \in Nat /\ Cardinality(InHand) \in Nat
           /\ \A c \in Conn : /\ posted[c] \in Nat /\ flushed[c] \in Nat /\ gone[c] \in Nat
                              /\ Taken(c) \in Nat /\ Cardinality(Taking(c)) \in Nat
                              /\ Cardinality(Counting(c)) \in Nat
<1>1. /\ Preposts \in Nat \ {0} /\ NumRegions \in Nat /\ free \in Nat /\ lost \in Nat
      /\ \A c \in Conn : posted[c] \in Nat /\ flushed[c] \in Nat /\ gone[c] \in Nat
    BY ControllerAssumption DEF TypeOK
<1>2. \A c \in Conn : Taken(c) \in Nat
    BY <1>1 DEF Taken
<1>3. InHand \in SUBSET Proc /\ \A c : Taking(c) \in SUBSET Proc /\ Counting(c) \in SUBSET Proc
    BY DEF InHand, Taking, Counting
<1>4. Cardinality(Proc) \in Nat /\ \A S \in SUBSET Proc : Cardinality(S) \in Nat
    BY ThreadSet
<1> QED BY <1>1, <1>2, <1>3, <1>4

\* A step that leaves every connection with as many regions as it had, in its
\* receives or lost with it.
Keeps ==
    /\ \A c \in Conn : /\ Taken(c)' = Taken(c)
                       /\ obj'[c] # "dead" => obj[c] # "dead" /\ gone'[c] = gone[c]
    /\ UNCHANGED <<free, lost>>

\* Such a step keeps the invariant, unless a thread takes or posts a region.
LEMMA KeepsRegions ==
    ASSUME TypeOK, TypeOK', RegionInv, Keeps,
           \A p \in Proc : pc'[p] \in {"get", "post"} => pc'[p] = pc[p] /\ ref'[p] = ref[p],
           fault' = "none" => fault = "none" /\ \A p \in Proc : pc[p] = "post" => pc'[p] = "post"
    PROVE  RegionInv'
<1>1. GoneInv'
    BY DEF Keeps, RegionInv, GoneInv
<1>2. Kept' = Kept
    BY KeptSame DEF Keeps
<1>3. ASSUME NEW c \in Conn
      PROVE  Taken(c)' + Cardinality(Taking(c)') <= Preposts + Cardinality(Proc) - 1
  <2>1. Taking(c)' \subseteq Taking(c) /\ Taking(c) \in SUBSET Proc
      BY DEF Taking
  <2>2. IsFiniteSet(Taking(c))
      BY <2>1, ThreadSet
  <2>3. /\ Cardinality(Taking(c)') <= Cardinality(Taking(c))
        /\ Cardinality(Taking(c)') \in Nat
      BY ONLY <2>1, <2>2, FS_Subset, FS_CardinalityType
  <2>4. Taken(c) + Cardinality(Taking(c)) <= Preposts + Cardinality(Proc) - 1
      BY DEF RegionInv, OverInv
  <2>5. Taken(c)' = Taken(c)
      BY DEF Keeps
  <2>6. Taken(c) \in Nat /\ Cardinality(Taking(c)) \in Nat /\ Preposts \in Nat /\ Cardinality(Proc) \in Nat
      BY RegionTypes
  <2> QED BY ONLY <2>3, <2>4, <2>5, <2>6
<1>4. OverInv'
    BY <1>3 DEF OverInv
<1>5. ASSUME fault' = "none"
      PROVE  free' + lost' + Cardinality(InHand') + Cardinality(Kept') = NumRegions
  <2>1. \A p : p \in InHand' <=> p \in InHand
      BY <1>5 DEF InHand
  <2>2. InHand' = InHand
      BY <2>1
  <2>3. free + lost + Cardinality(InHand) + Cardinality(Kept) = NumRegions
      BY <1>5 DEF RegionInv, RegionsAccounted, InHand
  <2> QED BY <1>2, <2>2, <2>3 DEF Keeps
<1>6. RegionsAccounted'
    BY <1>5 DEF RegionsAccounted, InHand
<1> QED BY <1>1, <1>2, <1>4, <1>6 DEF RegionInv

\* Only a count below the limit lets a thread take a region for a connection, and
\* the count lacks one receive for every other thread at most.
LEMMA PassStep ==
    ASSUME TypeOK, TypeOK', RegionInv, NEW p \in Proc, NEW c \in Conn, obj[c] = "alive",
           pc[p] \in {"refilling", "test"}, Goto(p, "get"),
           \A q \in Proc \ {p} : ref'[q] = ref[q], ref'[p] = c,
           Waiting(c) \in 0..(Preposts - 1), UNCHANGED <<obj, posted, flushed, gone, free, lost, fault>>
    PROVE  RegionInv'
<1>1. pc'[p] = "get" /\ \A q \in Proc \ {p} : pc'[q] = pc[q] /\ ref'[q] = ref[q]
    BY GotoFacts
<1>2. \A d \in Conn : Taken(d)' = Taken(d)
    BY DEF Taken
<1>3. Kept' = Kept
    BY <1>2, KeptSame
<1>4. GoneInv'
    BY DEF RegionInv, GoneInv
<1>5. ASSUME NEW d \in Conn
      PROVE  Taken(d)' + Cardinality(Taking(d)') <= Preposts + Cardinality(Proc) - 1
  <2>1. CASE d = c
    <3>1. p \notin Taking(c) /\ p \in Taking(c)' /\ p \notin Counting(c)
        BY <1>1 DEF Taking, Counting
    <3>2. Cardinality(Taking(c)') = Cardinality(Taking(c)) + 1
        BY ONLY <1>1, <3>1, TakingMoves, p \in Proc, c \in Conn
    <3>3. Taking(c)' \cap Counting(c) = {}
        BY <1>1, <3>1 DEF Taking, Counting
    <3>4. Taking(c)' \in SUBSET Proc /\ Counting(c) \in SUBSET Proc
        BY DEF Taking, Counting
    <3>5. Taking(c)' \cup Counting(c) \in SUBSET Proc
        BY <3>4
    <3>6. /\ IsFiniteSet(Taking(c)') /\ IsFiniteSet(Counting(c))
          /\ Cardinality(Taking(c)' \cup Counting(c)) <= Cardinality(Proc)
          /\ Cardinality(Proc) \in Nat
          /\ Cardinality(Taking(c)') \in Nat /\ Cardinality(Counting(c)) \in Nat
        BY ONLY <3>4, <3>5, ThreadSet
    <3>7. Cardinality(Taking(c)' \cup Counting(c)) =
              Cardinality(Taking(c)') + Cardinality(Counting(c)) - Cardinality(Taking(c)' \cap Counting(c))
        BY ONLY <3>6, FS_Union
    <3>8. Cardinality(Taking(c)' \cap Counting(c)) = 0
        BY ONLY <3>3, FS_EmptySet
    <3>9. Cardinality(Taking(c)') + Cardinality(Counting(c)) <= Cardinality(Proc)
        BY ONLY <3>6, <3>7, <3>8
    <3>10. Waiting(c) = posted[c] + flushed[c] - Cardinality(Counting(c)) /\ Waiting(c) <= Preposts - 1
      <4>1. Waiting(c) = posted[c] + flushed[c] - Cardinality(Counting(c))
          BY DEF Waiting, Counting
      <4>2. Waiting(c) <= Preposts - 1
          BY RegionTypes
      <4> QED BY <4>1, <4>2
    <3>11. gone[c] = 0
        BY DEF RegionInv, GoneInv
    <3>12. posted[c] \in Nat /\ flushed[c] \in Nat /\ Preposts \in Nat
        BY RegionTypes
    <3>13. Taken(c) = posted[c] + flushed[c]
        BY <3>11, <3>12 DEF Taken
    <3>14. Taken(c) + Cardinality(Taking(c)') <= Preposts + Cardinality(Proc) - 1
        BY ONLY <3>6, <3>9, <3>10, <3>12, <3>13
    <3> QED BY <1>2, <2>1, <3>14
  <2>2. CASE d # c
    <3>1. p \notin Taking(d) /\ p \notin Taking(d)'
        BY <1>1, <2>2 DEF Taking
    <3>2. Cardinality(Taking(d)') = Cardinality(Taking(d))
        BY ONLY <1>1, <3>1, TakingMoves, p \in Proc, d \in Conn
    <3> QED BY <1>2, <3>2 DEF RegionInv, OverInv
  <2> QED BY <2>1, <2>2
<1>6. OverInv'
    BY <1>5 DEF OverInv
<1>7. p \notin InHand /\ p \notin InHand'
    BY <1>1 DEF InHand
<1>8. Cardinality(InHand') = Cardinality(InHand)
    BY ONLY <1>1, <1>7, InHandMoves, p \in Proc
<1>9. RegionsAccounted'
    BY <1>3, <1>8 DEF RegionInv, RegionsAccounted, InHand
<1> QED BY <1>3, <1>4, <1>6, <1>9 DEF RegionInv

\* A thread with a region posts it, or loses it.
LEMMA HandStep ==
    ASSUME TypeOK, TypeOK', RegionInv, ThreadInv, LockInv, NEW p \in Proc, PostReceive(p) \/ PostFails(p)
    PROVE  RegionInv'
<1>1. /\ pc[p] = "post" /\ UNCHANGED <<obj, flushed, free, gone, fault>>
      /\ Goto(p, "count") \/ Goto(p, "idle")
    BY DEF PostReceive, PostFails
<1>2. pc'[p] \in {"count", "idle"} /\ \A q \in Proc \ {p} : pc'[q] = pc[q] /\ ref'[q] = ref[q]
    BY <1>1, GotoFacts DEF PostReceive, PostFails, TypeOK
<1>3. GoneInv'
    BY <1>1 DEF RegionInv, GoneInv
<1>4. p \in InHand /\ p \notin InHand'
    BY <1>1, <1>2 DEF InHand
<1>5. Cardinality(InHand') = Cardinality(InHand) - 1
    BY ONLY <1>2, <1>4, InHandMoves, p \in Proc
<1>6. PICK c \in Conn : c = ref[p]
    BY <1>1 DEF LockInv, Prepost, TypeOK
<1>7. /\ p \in Taking(c) /\ p \notin Taking(c)'
      /\ \A d \in Conn : d # c => p \notin Taking(d) /\ p \notin Taking(d)'
    BY <1>1, <1>2, <1>6 DEF Taking
<1>8. /\ Cardinality(Taking(c)') = Cardinality(Taking(c)) - 1
      /\ \A d \in Conn : d # c => Cardinality(Taking(d)') = Cardinality(Taking(d))
    BY ONLY <1>2, <1>7, TakingMoves, p \in Proc, c \in Conn
<1>9. /\ \A d \in Conn : /\ Taken(d) \in Nat /\ Cardinality(Taking(d)) \in Nat
                         /\ Taken(d) + Cardinality(Taking(d)) <= Preposts + Cardinality(Proc) - 1
      /\ Preposts \in Nat /\ Cardinality(Proc) \in Nat /\ Cardinality(InHand) \in Nat
      /\ free \in Nat /\ lost \in Nat
    BY RegionTypes DEF RegionInv, OverInv
<1>10. Cardinality(Kept) \in Nat /\ IsFiniteSet(Kept)
    BY FS_CardinalityType DEF RegionInv
<1>11. fault = "none" => free + lost + Cardinality(InHand) + Cardinality(Kept) = NumRegions
    BY DEF RegionInv, RegionsAccounted, InHand
<1>12. CASE PostReceive(p)
  <2>1. posted' = [posted EXCEPT ![c] = posted[c] + 1] /\ lost' = lost
      BY <1>6, <1>12 DEF PostReceive
  <2>2. posted'[c] = posted[c] + 1 /\ \A d \in Conn : d # c => posted'[d] = posted[d]
      BY <2>1 DEF TypeOK
  <2>3. Taken(c)' = Taken(c) + 1
      BY <1>1, <2>2, RegionTypes DEF Taken
  <2>4. \A d \in Conn : d # c => Taken(d)' = Taken(d)
      BY <1>1, <2>2 DEF Taken
  <2>5. IsFiniteSet(Kept)' /\ Cardinality(Kept)' = Cardinality(Kept) + 1
      BY <1>10, <2>3, <2>4, KeptMore
  <2>6. ASSUME NEW d \in Conn
        PROVE  Taken(d)' + Cardinality(Taking(d)') <= Preposts + Cardinality(Proc) - 1
    <3>1. CASE d = c
        BY ONLY <1>8, <1>9, <2>3, <3>1, c \in Conn
    <3>2. CASE d # c
        BY <1>8, <1>9, <2>4, <3>2
    <3> QED BY <3>1, <3>2
  <2>7. OverInv'
      BY <2>6 DEF OverInv
  <2>8. fault' = "none" => free' + lost' + Cardinality(InHand') + Cardinality(Kept') = NumRegions
      BY <1>1, <1>5, <1>9, <1>10, <1>11, <2>1, <2>5
  <2>9. RegionsAccounted'
      BY <2>8 DEF RegionsAccounted, InHand
  <2> QED BY <1>3, <2>5, <2>7, <2>9 DEF RegionInv
<1>13. CASE PostFails(p)
  <2>1. posted' = posted /\ lost' = lost + 1
      BY <1>13 DEF PostFails
  <2>2. \A d \in Conn : Taken(d)' = Taken(d)
      BY <1>1, <2>1 DEF Taken
  <2>3. Kept' = Kept
      BY <2>2, KeptSame
  <2>4. ASSUME NEW d \in Conn
        PROVE  Taken(d)' + Cardinality(Taking(d)') <= Preposts + Cardinality(Proc) - 1
    <3>1. CASE d = c
        BY <1>8, <1>9, <2>2, <3>1
    <3>2. CASE d # c
        BY <1>8, <1>9, <2>2, <3>2
    <3> QED BY <3>1, <3>2
  <2>5. OverInv'
      BY <2>4 DEF OverInv
  <2>6. fault' = "none" => free' + lost' + Cardinality(InHand') + Cardinality(Kept') = NumRegions
      BY <1>1, <1>5, <1>9, <1>10, <1>11, <2>1, <2>3
  <2>7. RegionsAccounted'
      BY <2>6 DEF RegionsAccounted, InHand
  <2> QED BY <1>3, <1>10, <2>3, <2>5, <2>7 DEF RegionInv
<1> QED BY <1>12, <1>13

\* A thread takes a region from the pool.
LEMMA TakeStep ==
    ASSUME TypeOK, TypeOK', RegionInv, NEW p \in Proc, pc[p] = "get", Goto(p, "post"), ref' = ref,
           free > 0, free' = free - 1, UNCHANGED <<obj, posted, flushed, gone, lost, fault>>
    PROVE  RegionInv'
<1>1. pc'[p] = "post" /\ \A q \in Proc \ {p} : pc'[q] = pc[q] /\ ref'[q] = ref[q]
    BY GotoFacts
<1>2. \A d \in Conn : Taken(d)' = Taken(d)
    BY DEF Taken
<1>3. Kept' = Kept
    BY <1>2, KeptSame
<1>4. GoneInv'
    BY DEF RegionInv, GoneInv
<1>5. ASSUME NEW d \in Conn PROVE Cardinality(Taking(d)') = Cardinality(Taking(d))
  <2>1. p \in Taking(d) <=> p \in Taking(d)'
      BY <1>1 DEF Taking
  <2> QED BY ONLY <1>1, <2>1, TakingMoves, p \in Proc, d \in Conn
<1>6. OverInv'
    BY <1>2, <1>5 DEF RegionInv, OverInv
<1>7. p \notin InHand /\ p \in InHand'
    BY <1>1 DEF InHand
<1>8. Cardinality(InHand') = Cardinality(InHand) + 1
    BY ONLY <1>1, <1>7, InHandMoves, p \in Proc
<1>9. fault' = "none" => free' + lost' + Cardinality(InHand') + Cardinality(Kept') = NumRegions
  <2>1. fault = "none" => free + lost + Cardinality(InHand) + Cardinality(Kept) = NumRegions
      BY DEF RegionInv, RegionsAccounted, InHand
  <2>2. free \in Nat /\ lost \in Nat /\ Cardinality(InHand) \in Nat /\ Cardinality(Kept) \in Nat
      BY RegionTypes, FS_CardinalityType DEF RegionInv
  <2> QED BY <1>3, <1>8, <2>1, <2>2
<1>10. RegionsAccounted'
    BY <1>9 DEF RegionsAccounted, InHand
<1> QED BY <1>3, <1>4, <1>6, <1>10 DEF RegionInv

\* A message gives its region back.
LEMMA ReceiveStep ==
    ASSUME TypeOK, TypeOK', RegionInv, NEW p \in Poller, NEW c \in Conn, PollReceive(p, c)
    PROVE  RegionInv'
<1>1. /\ posted[c] > 0 /\ posted' = [posted EXCEPT ![c] = posted[c] - 1] /\ free' = free + 1
      /\ UNCHANGED <<obj, flushed, lost, gone, pc, ref, fault>>
    BY DEF PollReceive
<1>2. posted'[c] = posted[c] - 1 /\ \A d \in Conn : d # c => posted'[d] = posted[d]
    BY <1>1 DEF TypeOK
<1>3. Taken(c) = Taken(c)' + 1
    BY <1>1, <1>2, RegionTypes DEF Taken
<1>4. \A d \in Conn : d # c => Taken(d)' = Taken(d)
    BY <1>1, <1>2 DEF Taken
<1>5. IsFiniteSet(Kept) /\ Cardinality(Kept) \in Nat
    BY FS_CardinalityType DEF RegionInv
<1>6. IsFiniteSet(Kept)' /\ Cardinality(Kept)' = Cardinality(Kept) - 1
    BY <1>3, <1>4, <1>5, KeptLess
<1>7. GoneInv'
    BY <1>1 DEF RegionInv, GoneInv
<1>8. InHand' = InHand /\ \A d \in Conn : Taking(d)' = Taking(d)
    BY <1>1 DEF InHand, Taking
<1>9. \A d \in Conn : Taken(d) \in Nat /\ Taken(d)' \in Nat
  <2>1. \A d \in Conn : Taken(d) \in Nat
      BY RegionTypes
  <2>2. /\ posted' \in [Conn -> Nat] /\ flushed' \in [Conn -> Nat] /\ gone' \in [Conn -> Nat]
      BY DEF TypeOK
  <2>3. \A d \in Conn : Taken(d)' \in Nat
      BY <2>2 DEF Taken
  <2> QED BY <2>1, <2>3
<1>10. ASSUME NEW d \in Conn
       PROVE  Taken(d)' + Cardinality(Taking(d)') <= Preposts + Cardinality(Proc) - 1
  <2>1. Taken(d)' <= Taken(d)
    <3>1. CASE d = c
        BY <1>3, <1>9, <3>1
    <3>2. CASE d # c
        BY <1>4, <1>9, <3>2
    <3> QED BY <3>1, <3>2
  <2>2. Taken(d) + Cardinality(Taking(d)) <= Preposts + Cardinality(Proc) - 1
      BY DEF RegionInv, OverInv
  <2>3. Cardinality(Taking(d)) \in Nat /\ Preposts \in Nat /\ Cardinality(Proc) \in Nat
      BY RegionTypes
  <2>4. Taking(d)' = Taking(d)
      BY <1>8
  <2> QED BY ONLY <1>9, <2>1, <2>2, <2>3, <2>4, d \in Conn
<1>11. OverInv'
    BY <1>10 DEF OverInv
<1>12. fault' = "none" => free' + lost' + Cardinality(InHand') + Cardinality(Kept') = NumRegions
  <2>1. fault = "none" => free + lost + Cardinality(InHand) + Cardinality(Kept) = NumRegions
      BY DEF RegionInv, RegionsAccounted, InHand
  <2>2. free \in Nat /\ lost \in Nat /\ Cardinality(InHand) \in Nat
      BY RegionTypes
  <2> QED BY <1>1, <1>5, <1>6, <1>8, <2>1, <2>2
<1>13. RegionsAccounted'
    BY <1>12 DEF RegionsAccounted, InHand
<1> QED BY <1>6, <1>7, <1>11, <1>13 DEF RegionInv

\* Regions move between the pool, the threads and the connections; a connection
\* that is destroyed takes along what it has.
LEMMA RegionStep ==
    TypeOK /\ LockInv /\ ThreadInv /\ RegionInv /\ [Next]_vars => RegionInv'
<1> SUFFICES ASSUME TypeOK, LockInv, ThreadInv, RegionInv, [Next]_vars, TypeOK'
             PROVE  RegionInv'
    BY TypeStep
<1> USE Procs DEF recvVars, cmVars
<1>inv. HandlerInv /\ AppInv /\ ClientInv
    BY DEF ThreadInv
<1>type. /\ obj \in [Conn -> {"none", "alive", "dead"}]
         /\ posted \in [Conn -> Nat] /\ flushed \in [Conn -> Nat] /\ gone \in [Conn -> Nat]
    BY DEF TypeOK
<1>same. ASSUME UNCHANGED <<obj, posted, flushed, gone, free, lost>> PROVE Keeps
    BY <1>same DEF Keeps, Taken
<1>flush. ASSUME NEW c \in Conn, Flush(c), UNCHANGED <<obj, gone, free, lost>> PROVE Keeps
  <2>1. /\ flushed' = [flushed EXCEPT ![c] = flushed[c] + posted[c]]
        /\ posted' = [posted EXCEPT ![c] = 0]
      BY <1>flush DEF Flush
  <2>2. /\ \A d \in Conn : d # c => posted'[d] = posted[d] /\ flushed'[d] = flushed[d]
        /\ posted'[c] = 0 /\ flushed'[c] = flushed[c] + posted[c]
      BY ONLY <1>type, <2>1, c \in Conn
  <2>3. ASSUME NEW d \in Conn
        PROVE  posted'[d] + flushed'[d] + gone'[d] = posted[d] + flushed[d] + gone[d]
    <3>1. posted[d] \in Nat /\ flushed[d] \in Nat /\ gone[d] \in Nat /\ gone'[d] = gone[d]
        BY <1>type, <1>flush
    <3>2. CASE d = c
        BY <2>2, <3>1, <3>2
    <3>3. CASE d # c
        BY <2>2, <3>1, <3>3
    <3> QED BY <3>2, <3>3
  <2> QED BY <1>flush, <2>3 DEF Keeps, Taken
<1>create. ASSUME NEW c \in Conn, obj[c] = "none", obj' = [obj EXCEPT ![c] = "alive"],
                  UNCHANGED <<posted, flushed, gone, free, lost>>
           PROVE  Keeps
    BY <1>type, <1>create DEF Keeps, Taken
<1>destroy. ASSUME NEW c \in Conn, Destroy(c), UNCHANGED <<free, lost>> PROVE Keeps
  <2>1. /\ obj' = [obj EXCEPT ![c] = "dead"]
        /\ gone' = [gone EXCEPT ![c] = gone[c] + posted[c] + flushed[c]]
        /\ posted' = [posted EXCEPT ![c] = 0]
        /\ flushed' = [flushed EXCEPT ![c] = 0]
      BY <1>destroy DEF Destroy
  <2>2. /\ obj'[c] = "dead" /\ posted'[c] = 0 /\ flushed'[c] = 0
        /\ gone'[c] = gone[c] + posted[c] + flushed[c]
        /\ \A d \in Conn : d # c => /\ obj'[d] = obj[d] /\ posted'[d] = posted[d]
                                    /\ flushed'[d] = flushed[d] /\ gone'[d] = gone[d]
      BY ONLY <1>type, <2>1, c \in Conn
  <2>3. ASSUME NEW d \in Conn
        PROVE  posted'[d] + flushed'[d] + gone'[d] = posted[d] + flushed[d] + gone[d]
    <3>1. posted[d] \in Nat /\ flushed[d] \in Nat /\ gone[d] \in Nat
        BY <1>type
    <3>2. CASE d = c
        BY <2>2, <3>1, <3>2
    <3>3. CASE d # c
        BY <2>2, <3>3
    <3> QED BY <3>2, <3>3
  <2>4. ASSUME NEW d \in Conn, obj'[d] # "dead" PROVE obj[d] # "dead" /\ gone'[d] = gone[d]
    <3>1. d # c
        BY <2>2, <2>4
    <3> QED BY <2>2, <2>4, <3>1
  <2> QED BY <1>destroy, <2>3, <2>4 DEF Keeps, Taken
<1>goto. ASSUME NEW p \in Proc, NEW l, Goto(p, l), l \notin {"get", "post"}, pc[p] # "post",
                \A q \in Proc \ {p} : ref'[q] = ref[q], UNCHANGED fault, Keeps
         PROVE  RegionInv'
  <2>1. pc'[p] = l /\ \A q \in Proc : q # p => pc'[q] = pc[q]
      BY <1>goto, GotoFacts
  <2>2. /\ \A q \in Proc : pc'[q] \in {"get", "post"} => pc'[q] = pc[q] /\ ref'[q] = ref[q]
        /\ \A q \in Proc : pc[q] = "post" => pc'[q] = "post"
      BY <1>goto, <2>1
  <2> QED BY <1>goto, <2>2, KeepsRegions
<1>die. ASSUME NEW why, why # "none", Die(why), Keeps PROVE RegionInv'
  <2>1. fault' # "none" /\ \A q \in Proc : pc'[q] = "dead"
      BY <1>die, DieFacts
  <2> QED BY <1>die, <2>1, KeepsRegions
<1>still. ASSUME UNCHANGED <<pc, ref, fault>>, Keeps PROVE RegionInv'
    BY <1>still, KeepsRegions
<1>1. ASSUME NEW p \in Proc, CheckCount(p) PROVE RegionInv'
  <2>1. PICK c \in (IF pc[p] = "test" THEN {ref[p]} ELSE todo[p]) :
            \/ /\ Waiting(c) \in 0..(Preposts - 1)
               /\ ref' = [ref EXCEPT ![p] = c]
               /\ Goto(p, "get")
            \/ /\ ref' = [ref EXCEPT ![p] = None]
               /\ Goto(p, "refilling")
      BY <1>1 DEF CheckCount
  <2>2. /\ pc[p] \in {"refilling", "test"}
        /\ UNCHANGED <<obj, posted, flushed, gone, free, lost, fault>>
      BY <1>1 DEF CheckCount
  <2>3. c \in clients
      BY <2>1, <2>2 DEF LockInv, Refilling, Prepost
  <2>4. c \in Conn /\ obj[c] = "alive"
      BY <1>inv, <2>3 DEF TypeOK, ClientInv
  <2>5. CASE /\ Waiting(c) \in 0..(Preposts - 1)
             /\ ref' = [ref EXCEPT ![p] = c]
             /\ Goto(p, "get")
    <3>1. ref'[p] = c /\ \A q \in Proc \ {p} : ref'[q] = ref[q]
        BY <2>5 DEF TypeOK
    <3> QED BY <2>2, <2>4, <2>5, <3>1, PassStep
  <2>6. CASE ref' = [ref EXCEPT ![p] = None] /\ Goto(p, "refilling")
    <3>1. \A q \in Proc \ {p} : ref'[q] = ref[q]
        BY <2>6 DEF TypeOK
    <3> QED BY <1>same, <1>goto, <2>2, <2>6, <3>1
  <2> QED BY <2>1, <2>5, <2>6
<1>2. ASSUME NEW p \in Proc, GetRegion(p) PROVE RegionInv'
  <2>1. /\ pc[p] = "get" /\ UNCHANGED <<obj, posted, flushed, gone, lost, ref>>
        /\ \/ Die("null memory pool") /\ UNCHANGED free
           \/ free > 0 /\ free' = free - 1 /\ Goto(p, "post") /\ UNCHANGED fault
           \/ Goto(p, "test") /\ UNCHANGED <<free, fault>>
      BY <1>2 DEF GetRegion
  <2>2. CASE Die("null memory pool") /\ UNCHANGED free
      BY <1>same, <1>die, <2>1, <2>2
  <2>3. CASE free > 0 /\ free' = free - 1 /\ Goto(p, "post") /\ UNCHANGED fault
      BY <2>1, <2>3, TakeStep
  <2>4. CASE Goto(p, "test") /\ UNCHANGED <<free, fault>>
      BY <1>same, <1>goto, <2>1, <2>4
  <2> QED BY <2>1, <2>2, <2>3, <2>4
<1>3. ASSUME NEW p \in Proc, PostReceive(p) \/ PostFails(p) PROVE RegionInv'
    BY <1>3, HandStep
<1>4. ASSUME NEW p \in Poller, NEW c \in Conn, PollReceive(p, c) PROVE RegionInv'
    BY <1>4, ReceiveStep
<1>5. ASSUME NEW p \in Proc, RefillLock(p) \/ PushReceive(p) \/ RefillDone(p) PROVE RegionInv'
  <2>1. /\ UNCHANGED <<obj, posted, flushed, gone, free, lost, ref, fault>> /\ pc[p] # "post"
        /\ \E l \in {"refilling", "test", "accept", "idle"} : Goto(p, l)
      BY <1>5 DEF RefillLock, PushReceive, RefillDone
  <2> QED BY <1>same, <1>goto, <2>1
<1>6. ASSUME NEW p \in Poller, PollLock(p) \/ PollDone(p) \/ CallRefill(p) PROVE RegionInv'
  <2>1. /\ UNCHANGED <<obj, posted, flushed, gone, free, lost, ref, fault>> /\ pc[p] # "post"
        /\ \E l \in {"polling", "refill", "idle"} : Goto(p, l)
      BY <1>6 DEF PollLock, PollDone, CallRefill
  <2> QED BY <1>same, <1>goto, <2>1
<1>7. ASSUME NEW p \in Poller, NEW c \in Conn, PollFlushed(p, c) \/ PollEmpty(p, c) PROVE RegionInv'
  <2>1. /\ UNCHANGED <<obj, posted, flushed, gone, free, lost, ref>>
        /\ Die("failed completion") \/ UNCHANGED <<pc, fault>>
      BY <1>7 DEF PollFlushed, PollEmpty
  <2> QED BY <1>same, <1>die, <1>still, <2>1
<1>8. CASE WaitForEvent
  <2>1. /\ UNCHANGED <<obj, posted, flushed, gone, free, lost, ref, fault>> /\ pc[Handler] # "post"
        /\ ev # <<>> /\ Goto(Handler, Head(ev).type)
      BY <1>8 DEF WaitForEvent
  <2>2. Head(ev).type \notin {"get", "post"}
      BY <2>1, HeadFacts DEF Type
  <2> QED BY <1>same, <1>goto, <2>1, <2>2
<1>9. CASE \/ PreConnection \/ PreConnectionRejects \/ CreateClientFails \/ InsertClient \/ Accept
           \/ AcceptFails \/ Ack \/ HandleUnsupported \/ AckDisconnect \/ EraseDisconnected
  <2>1. /\ UNCHANGED <<obj, posted, flushed, gone, free, lost, ref, fault>> /\ pc[Handler] # "post"
        /\ \E l \in {"create", "idle", "refill", "ack", "undo", "erase", "destroy"} : Goto(Handler, l)
      BY <1>9
         DEF PreConnection, PreConnectionRejects, CreateClientFails, InsertClient, Accept,
             AcceptFails, Ack, HandleUnsupported, AckDisconnect, EraseDisconnected
  <2> QED BY <1>same, <1>goto, <2>1
<1>10. CASE CreateClient
  <2>1. /\ UNCHANGED <<posted, flushed, gone, free, lost, ref, fault>> /\ pc[Handler] = "create"
        /\ Goto(Handler, "insert") /\ obj' = [obj EXCEPT ![cur[Handler]] = "alive"]
      BY <1>10 DEF CreateClient
  <2>2. cur[Handler] \in Conn /\ obj[cur[Handler]] = "none"
      BY <1>inv, <2>1 DEF HandlerInv
  <2>3. Keeps
      BY <1>create, <2>1, <2>2
  <2> QED BY <1>goto, <2>1, <2>3
<1>11. CASE UndoAccept \/ DestroyDisconnected
  <2>1. /\ Destroy(cur[Handler]) /\ UNCHANGED <<free, lost, ref, fault>>
        /\ pc[Handler] \in {"undo", "destroy"}
        /\ Goto(Handler, "ack") \/ Goto(Handler, "idle")
      BY <1>11 DEF UndoAccept, DestroyDisconnected
  <2>2. cur[Handler] \in Conn /\ pc[Handler] # "post"
      BY <1>inv, <1>11 DEF UndoAccept, DestroyDisconnected, HandlerInv
  <2>3. Keeps
      BY <1>destroy, <2>1, <2>2
  <2> QED BY <1>goto, <2>1, <2>2, <2>3
<1>12. CASE HandleEstablished
  <2>1. /\ UNCHANGED <<obj, posted, flushed, gone, free, lost, ref>> /\ pc[Handler] # "post"
        /\ (Goto(Handler, "ack") /\ UNCHANGED fault) \/ Die("null client")
      BY <1>12 DEF HandleEstablished
  <2> QED BY <1>same, <1>goto, <1>die, <2>1
<1>13. CASE HandleDisconnected
  <2>1. /\ UNCHANGED <<obj, gone, free, lost, ref>> /\ pc[Handler] = "DISCONNECTED"
        /\ Flush(cur[Handler]) \/ UNCHANGED <<posted, flushed>>
        /\ (Goto(Handler, "ackDisconnect") /\ UNCHANGED fault) \/ Die("null client")
      BY <1>13 DEF HandleDisconnected
  <2>2. cur[Handler] \in Conn
      BY <1>inv, <2>1 DEF HandlerInv
  <2>3. Keeps
      BY <1>same, <1>flush, <2>1, <2>2
  <2> QED BY <1>goto, <1>die, <2>1, <2>3
<1>14. ASSUME NEW c \in Conn, MakePeer(c) PROVE RegionInv'
  <2>1. /\ UNCHANGED <<posted, flushed, gone, free, lost, ref, fault>> /\ pc[App] = "idle"
        /\ Goto(App, "insert") /\ obj' = [obj EXCEPT ![c] = "alive"] /\ link[c] = "none"
      BY <1>14 DEF MakePeer
  <2>2. obj[c] = "none"
      BY <1>inv, <2>1 DEF ClientInv
  <2>3. Keeps
      BY <1>create, <2>1, <2>2
  <2> QED BY <1>goto, <2>1, <2>3
<1>15. ASSUME NEW c \in Conn, RemoveConnection(c) PROVE RegionInv'
  <2>1. /\ UNCHANGED <<obj, gone, free, lost, ref, fault>> /\ pc[App] = "idle"
        /\ Flush(c) \/ UNCHANGED <<posted, flushed>>
        /\ Goto(App, "erase") \/ Goto(App, "waitDisconnected")
      BY <1>15 DEF RemoveConnection
  <2>2. Keeps
      BY <1>same, <1>flush, <2>1
  <2> QED BY <1>goto, <2>1, <2>2
<1>16. CASE MakePeerFails
  <2>1. UNCHANGED <<obj, posted, flushed, gone, free, lost, ref>> /\ Die("null peer")
      BY <1>16 DEF MakePeerFails
  <2> QED BY <1>same, <1>die, <2>1
<1>17. CASE \/ RemoveAllSpins \/ InsertPeer \/ SetMemoryPool \/ SetInitiated \/ DisconnectedOut
            \/ ErasePeer
  <2>1. /\ UNCHANGED <<obj, posted, flushed, gone, free, lost, ref, fault>> /\ pc[App] # "post"
        /\ \E l \in {"spin", "setPool", "setInitiated", "refill", "erase", "destroy"} : Goto(App, l)
      BY <1>17
         DEF RemoveAllSpins, InsertPeer, SetMemoryPool, SetInitiated, DisconnectedOut, ErasePeer
  <2> QED BY <1>same, <1>goto, <2>1
<1>18. CASE DestroyPeer
  <2>1. /\ Destroy(cur[App]) /\ UNCHANGED <<free, lost, ref, fault>>
        /\ pc[App] = "destroy" /\ Goto(App, "idle")
      BY <1>18 DEF DestroyPeer
  <2>2. cur[App] \in Conn
      BY <1>inv, <2>1 DEF AppInv
  <2>3. Keeps
      BY <1>destroy, <2>1, <2>2
  <2> QED BY <1>goto, <2>1, <2>3
<1>19. ASSUME NEW c \in Conn,
              PeerConnects(c) \/ PeerDisconnects(c) \/ Established(c) \/ EstablishFails(c)
       PROVE  RegionInv'
  <2>1. UNCHANGED <<obj, posted, flushed, gone, free, lost, pc, ref, fault>>
      BY <1>19, PeerFacts
  <2> QED BY <1>same, <1>still, <2>1
<1>20. CASE UNCHANGED vars
    BY <1>20, <1>same, <1>still DEF vars
<1> QED BY <1>1, <1>2, <1>3, <1>4, <1>5, <1>6, <1>7, <1>8, <1>9, <1>10, <1>11, <1>12, <1>13,
           <1>14, <1>15, <1>16, <1>17, <1>18, <1>19, <1>20
        DEF Next, HandlerNext, AppCall, AppStep, RefillStep, PollStep

-----------------------------------------------------------------------------
(* The theorems *)

\* The controller starts with no connections and all regions in the pool.
LEMMA InitInv == Init => IInv
<1> SUFFICES ASSUME Init PROVE IInv
    OBVIOUS
<1> USE Procs, ControllerAssumption DEF Init
<1>1. TypeOK
    BY DEF TypeOK, Link, PC
<1>2. FaultInv /\ LockInv /\ EventInv /\ GotInv
    BY DEF FaultInv, LockInv, EventInv, GotInv, NoEvent, Refilling, Prepost
<1>3. ThreadInv
    BY DEF ThreadInv, HandlerInv, AppInv, ClientInv, Refilling, Prepost
<1>4. RegionInv
  <2>1. \A c \in Conn : Taken(c) = 0
      BY DEF Taken
  <2>2. Kept = {}
      BY <2>1 DEF Kept
  <2>3. InHand = {} /\ \A c \in Conn : Taking(c) = {}
      BY DEF InHand, Taking
  <2>4. IsFiniteSet({}) /\ Cardinality({}) = 0
      BY FS_EmptySet
  <2>5. RegionsAccounted
    <3>1. free + lost + Cardinality(InHand) + Cardinality(Kept) = NumRegions
        BY <2>2, <2>3, <2>4
    <3> QED BY <3>1 DEF RegionsAccounted, InHand
  <2>6. Cardinality(Proc) \in Nat /\ Cardinality(Proc) >= 1
    <3>1. Cardinality({Handler}) = 1 /\ {Handler} \in SUBSET Proc
        BY FS_Singleton
    <3> QED BY <3>1, ThreadSet
  <2>7. OverInv
    <3>1. ASSUME NEW c \in Conn PROVE Taken(c) + Cardinality(Taking(c)) = 0
      <4>1. Taken(c) = 0 /\ Taking(c) = {}
          BY <2>1, <2>3
      <4>2. Cardinality(Taking(c)) = 0
          BY ONLY <2>4, <4>1
      <4> QED BY ONLY <4>1, <4>2
    <3>2. 0 <= Preposts + Cardinality(Proc) - 1
        BY <2>6
    <3> QED BY ONLY <3>1, <3>2 DEF OverInv
  <2>8. GoneInv
      BY DEF GoneInv
  <2> QED BY <2>2, <2>4, <2>5, <2>7, <2>8 DEF RegionInv
<1> QED BY <1>1, <1>2, <1>3, <1>4 DEF IInv

\* The inductive invariant holds in every state, whatever the number of
\* connections and of polling threads.
THEOREM Invariance == Spec => []IInv
<1>1. IInv /\ [Next]_vars => IInv'
    BY TypeStep, FaultStep, LockStep, EventStep, ThreadStep, GotStep, RegionStep DEF IInv
<1> QED BY InitInv, <1>1, PTL DEF Spec

\* The state is well typed: no queue pair completes more receives than it has.
THEOREM TypeCorrect == Spec => []TypeOK
<1>1. IInv => TypeOK
    BY DEF IInv
<1> QED BY Invariance, <1>1, PTL

\* eventChannelHandler never follows a null client: the client of an ESTABLISHED
\* or DISCONNECTED event is in _clients.
THEOREM EventCorrect == Spec => []EventFindsClient
<1>1. IInv => EventFindsClient
    BY DEF IInv, FaultInv, EventFindsClient
<1> QED BY Invariance, <1>1, PTL

\* A thread in pollCompletionQueues or refill_client_receives works on clients that
\* are alive and, but for the window before setMemoryPool, have their pool.
THEOREM ClientsCorrect == Spec => []ClientsUsable
<1>1. IInv => ClientsUsable
  <2> SUFFICES ASSUME TypeOK, LockInv, ClientInv PROVE ClientsUsable
      BY DEF IInv, ThreadInv
  <2>1. clients \subseteq Conn
      BY DEF TypeOK
  <2> QED BY <2>1 DEF ClientsUsable, LockInv, ClientInv
<1> QED BY Invariance, <1>1, PTL

\* However connections come and go, requests fail and refills race, every region of
\* the memory pool is free, in hand, posted, lost with a failed post or lost with a
\* destroyed connection.
THEOREM RegionsCorrect == Spec => []RegionsAccounted
<1>1. IInv => RegionsAccounted
    BY DEF IInv, RegionInv
<1> QED BY Invariance, <1>1, PTL

\* A connection takes at most the pre-posted receives and one region for every
\* thread but one, which is how many the refills that race can add.
THEOREM ReceivesCorrect == Spec => []ReceivesBounded
<1>1. IInv => ReceivesBounded
  <2> SUFFICES ASSUME TypeOK, OverInv, NEW c \in Conn
               PROVE  Taken(c) <= Preposts + Cardinality(Proc) - 1
      BY DEF IInv, RegionInv, ReceivesBounded
  <2>1. /\ Taken(c) \in Nat /\ Cardinality(Taking(c)) \in Nat /\ Preposts \in Nat
        /\ Cardinality(Proc) \in Nat
      BY RegionTypes
  <2>2. Taken(c) + Cardinality(Taking(c)) <= Preposts + Cardinality(Proc) - 1
      BY DEF OverInv
  <2> QED BY ONLY <2>1, <2>2
<1> QED BY Invariance, <1>1, PTL

\* A client object is destroyed only when the DISCONNECTED event of its connection
\* is acknowledged ("must be done before removing the rdma cm id").
THEOREM AckCorrect == Spec => AckBeforeDestroy
<1> DEFINE Acked ==
        \A c \in Conn : obj[c] = "alive" /\ obj'[c] = "dead" =>
              ~(got.type = "DISCONNECTED" /\ got.conn = c)
<1>1. IInv /\ [Next]_vars => [Acked]_vars
  <2> SUFFICES ASSUME IInv, Next, NEW c \in Conn, obj[c] = "alive", obj'[c] = "dead",
                      got.type = "DISCONNECTED", got.conn = c
               PROVE  FALSE
      OBVIOUS
  <2> USE Procs
  <2>inv. TypeOK /\ FaultInv /\ HandlerInv /\ AppInv /\ GotInv
      BY DEF IInv, ThreadInv
  <2>1. obj \in [Conn -> {"none", "alive", "dead"}]
      BY <2>inv DEF TypeOK
  <2>2. UndoAccept \/ DestroyDisconnected \/ DestroyPeer
    <3>1. CASE CreateClient \/ \E d \in Conn : MakePeer(d)
        BY <2>1, <3>1 DEF CreateClient, MakePeer
    <3>2. ASSUME NEW d \in Conn, PeerConnects(d) \/ PeerDisconnects(d) \/ Established(d) \/ EstablishFails(d)
          PROVE  FALSE
        BY <2>inv, <3>2, PeerFacts
    <3>3. ASSUME NEW p \in Proc, Walk(p) \/ PostFails(p) PROVE FALSE
        BY <2>inv, <3>3, WalkFacts, PostFailsFacts
    <3>4. CASE HandlerNext \/ AppCall \/ AppStep
        BY <3>1, <3>4
           DEF HandlerNext, AppCall, AppStep, WaitForEvent, PreConnection, PreConnectionRejects,
               CreateClientFails, InsertClient, Accept, AcceptFails, Ack, HandleEstablished,
               HandleUnsupported, HandleDisconnected, AckDisconnect, EraseDisconnected,
               RemoveConnection, MakePeerFails, RemoveAllSpins, InsertPeer, SetMemoryPool,
               SetInitiated, DisconnectedOut, ErasePeer
    <3> QED BY <3>2, <3>3, <3>4, NextCases DEF vars
  <2>3. CASE UndoAccept \/ DestroyDisconnected
    <3>1. pc[Handler] \in {"undo", "destroy"}
        BY <2>3 DEF UndoAccept, DestroyDisconnected
    <3> QED BY <2>inv, <3>1 DEF GotInv, FaultInv
  <2>4. CASE DestroyPeer
    <3>1. pc[App] = "destroy" /\ c = cur[App]
        BY <2>1, <2>4 DEF DestroyPeer, Destroy
    <3>2. fault = "none" /\ cur[App] \in init
        BY <2>inv, <3>1 DEF FaultInv, AppInv
    <3>3. cur[Handler] = c
        BY <2>inv, <3>2 DEF GotInv
    <3> QED BY <2>inv, <3>1, <3>2, <3>3 DEF HandlerInv
  <2> QED BY <2>2, <2>3, <2>4
<1>2. AckBeforeDestroy <=> [][Acked]_vars
    BY DEF AckBeforeDestroy
<1> QED BY Invariance, <1>1, <1>2, PTL DEF Spec
=============================================================================
