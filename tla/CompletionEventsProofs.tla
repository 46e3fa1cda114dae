----------------------- MODULE CompletionEventsProofs -----------------------
(***************************************************************************)
(* Proofs, for any number of handlers, queues and completions and any      *)
(* length of the array, of the safety properties of CompletionEvents.      *)
(*                                                                         *)
(* None of them is inductive.  ArrayInBounds and HandledInOrder rest on    *)
(* how far the one handler of a queue is (DrainInv), NoMissedEvent on when *)
(* the device is armed (ArmInv).  For queues that several handlers drain,  *)
(* CountInv still ties the two indices to the handlers about to pop: that  *)
(* keeps the indices apart and every pointer inside the memory.            *)
(***************************************************************************)
EXTENDS CompletionEvents, FiniteSetTheorems, TLAPS

\* A handler that is not idle has a queue.
HandlerInv == \A h \in Handler : pc[h] = "idle" <=> hq[h] = NoQueue

\* The handlers that took a completion from the device and have not popped one.
AtPop(q) == {h \in Handler : hq[h] = q /\ pc[h] = "pop"}

\* Between the two indices there is one completion for every handler about to
\* pop; they go back to zero together.  A pointer stays inside the memory.
CountInv ==
    /\ \A q \in Queue :
          /\ num[q] = next[q] + Cardinality(AtPop(q))
          /\ AtPop(q) = {} => next[q] = 0
          /\ num[q] + Len(cq[q]) <= made[q]
    /\ \A h \in Handler : pc[h] = "use" => ptr[h] \in Slot

\* Only a queue in shared has more than one handler.
SharedInv ==
    \A q \in Queue \ shared : \A g, h \in Handler : hq[g] = q /\ hq[h] = q => g = h

\* The completions still with the device are the youngest, in order.
DeviceInv ==
    \A q \in Queue :
        /\ Len(cq[q]) <= made[q]
        /\ \A i \in 1..Len(cq[q]) : cq[q][i] = made[q] - Len(cq[q]) + i

\* The handlers that carry a completion of q, and the completions of q taken from
\* the device so far.
Carrying(q) == {h \in Handler : hq[h] = q /\ pc[h] \in {"pop", "use"}}
Taken(q) == made[q] - Len(cq[q])

\* All completions taken from the device have been read in order, but the one a
\* handler carries, and that one is in the first slot.
DrainAt(q) ==
    /\ next[q] = 0
    /\ \A i \in 1..Len(handled[q]) : handled[q][i] = i
    /\ Carrying(q) = {} => Len(handled[q]) = Taken(q)
    /\ \A h \in Carrying(q) : /\ Len(handled[q]) + 1 = Taken(q)
                              /\ slots[q][0] = Taken(q)
                              /\ pc[h] = "use" => ptr[h] = 0

\* So it is for a queue with one handler at a time.
DrainInv == \A q \in Queue \ shared : DrainAt(q)

\* There is an event for q on the channel.
Announced(q) == \E i \in 1..Len(events) : events[i] = q

\* The queue is armed, and then empty or being drained; or there is an event for
\* it; or a handler is about to arm it.
ArmAt(q) ==
    \/ /\ armed[q]
       /\ \/ cq[q] = <<>>
          \/ \E h \in Handler : hq[h] = q /\ pc[h] \in {"remove", "pop", "use"}
    \/ Announced(q)
    \/ \E h \in Handler : hq[h] = q /\ pc[h] = "arm"

\* So it is for every registered queue on which no call failed.  A queue that
\* never had a completion is armed and empty.
ArmInv ==
    /\ \A q \in queues \ failed : ArmAt(q)
    /\ \A q \in Queue : made[q] = 0 => armed[q] /\ cq[q] = <<>>

IInv ==
    TypeOK /\ HandlerInv /\ CountInv /\ SharedInv /\ DeviceInv /\ DrainInv /\ ArmInv
-----------------------------------------------------------------------------
(* Sequences *)

\* Taking the head of a sequence.
LEMMA TailFacts ==
    ASSUME NEW S, NEW s \in Seq(S), s # <<>>
    PROVE  /\ Len(s) \in Nat \ {0}
           /\ Head(s) = s[1] /\ Head(s) \in S
           /\ Tail(s) \in Seq(S)
           /\ Len(Tail(s)) = Len(s) - 1
           /\ \A i \in 1..(Len(s) - 1) : Tail(s)[i] = s[i + 1]
OBVIOUS

\* Appending to a sequence.
LEMMA AppendFacts ==
    ASSUME NEW S, NEW s \in Seq(S), NEW e \in S
    PROVE  /\ Len(s) \in Nat
           /\ Append(s, e) \in Seq(S)
           /\ Append(s, e) # <<>>
           /\ Len(Append(s, e)) = Len(s) + 1
           /\ \A i \in 1..Len(s) : Append(s, e)[i] = s[i]
           /\ Append(s, e)[Len(s) + 1] = e
OBVIOUS

\* A well-typed update of a function.
LEMMA UpdateFacts ==
    ASSUME NEW S, NEW T, NEW f \in [S -> T], NEW x \in S, NEW v \in T
    PROVE  /\ [f EXCEPT ![x] = v] \in [S -> T]
           /\ [f EXCEPT ![x] = v][x] = v
           /\ \A y \in S : y # x => [f EXCEPT ![x] = v][y] = f[y]
OBVIOUS

-----------------------------------------------------------------------------
(* Types, and who has a queue *)

\* Every step leaves the state well typed; that a handler reads memory that is
\* there (UseCompletion) needs CountInv.
LEMMA TypeStep == TypeOK /\ HandlerInv /\ CountInv /\ [Next]_vars => TypeOK' /\ HandlerInv'
<1> SUFFICES ASSUME TypeOK, HandlerInv, CountInv, [Next]_vars
             PROVE  TypeOK' /\ HandlerInv'
    OBVIOUS
<1> USE DEF queueVars, deviceVars, handlerVars
<1>num. num \in [Queue -> Nat] /\ next \in [Queue -> Nat] /\ ptr \in [Handler -> Nat]
    BY DEF TypeOK
<1>hq. ASSUME NEW h \in Handler, pc[h] # "idle" PROVE hq[h] \in Queue
    BY <1>hq DEF TypeOK, HandlerInv
<1>1. ASSUME NEW q \in Queue, WorkCompletes(q) PROVE TypeOK' /\ HandlerInv'
  <2>1. made[q] + (IF q = q THEN 0 ELSE made[q]) < MaxCompletions
      BY <1>1 DEF WorkCompletes
  <2>2. made[q] \in 0..MaxCompletions /\ MaxCompletions \in Nat
      BY QueueAssumption DEF TypeOK
  <2>3. made[q] + 0 < MaxCompletions
      BY <2>1, <2>2
  <2>4. made[q] + 1 \in 1..MaxCompletions /\ made[q] + 1 \in 0..MaxCompletions
      BY <2>2, <2>3
  <2>5. made' \in [Queue -> 0..MaxCompletions] /\ made'[q] = made[q] + 1
    <3>1. made \in [Queue -> 0..MaxCompletions]
        BY DEF TypeOK
    <3>2. made' = [made EXCEPT ![q] = made[q] + 1]
        BY <1>1 DEF WorkCompletes
    <3> QED BY ONLY <2>4, <3>1, <3>2, UpdateFacts, q \in Queue
  <2>6. Append(cq[q], made[q] + 1) \in Seq(1..MaxCompletions)
      BY <2>4 DEF TypeOK
  <2>7. cq' \in [Queue -> Seq(1..MaxCompletions)]
      BY <1>1, <2>5, <2>6 DEF WorkCompletes, TypeOK
  <2>8. events' \in Seq(Queue) /\ armed' \in [Queue -> BOOLEAN]
      BY <1>1 DEF WorkCompletes, TypeOK
  <2> QED BY <1>1, <2>5, <2>7, <2>8 DEF WorkCompletes, TypeOK, HandlerInv
<1>2. ASSUME NEW q \in Queue, AddCompletionQ(q) PROVE TypeOK' /\ HandlerInv'
    BY <1>2 DEF AddCompletionQ, TypeOK, HandlerInv
<1>3. ASSUME NEW q \in Queue, RemoveCompletionQ(q) PROVE TypeOK' /\ HandlerInv'
    BY <1>3 DEF RemoveCompletionQ, TypeOK, HandlerInv
<1>4. ASSUME NEW h \in Handler, GetEvent(h) PROVE TypeOK' /\ HandlerInv'
  <2>1. Head(events) \in Queue /\ Tail(events) \in Seq(Queue)
      BY <1>4, TailFacts DEF GetEvent, TypeOK
  <2> QED BY <1>4, <2>1, QueueAssumption DEF GetEvent, TypeOK, HandlerInv, PC
<1>5. ASSUME NEW h \in Handler, GetEventUnknown(h) PROVE TypeOK' /\ HandlerInv'
    BY <1>5, TailFacts DEF GetEventUnknown, TypeOK, HandlerInv
<1>6. ASSUME NEW h \in Handler, RequestEvent(h) PROVE TypeOK' /\ HandlerInv'
    BY <1>6 DEF RequestEvent, TypeOK, HandlerInv, PC
<1>7. ASSUME NEW h \in Handler, CallFails(h) PROVE TypeOK' /\ HandlerInv'
    BY <1>7 DEF CallFails, TypeOK, HandlerInv, PC
<1>8. ASSUME NEW h \in Handler, RemoveCompletion(h) PROVE TypeOK' /\ HandlerInv'
  <2>1. hq[h] \in Queue
      BY <1>8, <1>hq DEF RemoveCompletion
  <2>2. /\ Head(cq[hq[h]]) \in 0..MaxCompletions
        /\ Tail(cq[hq[h]]) \in Seq(1..MaxCompletions)
      BY <1>8, <2>1, TailFacts, QueueAssumption DEF RemoveCompletion, TypeOK
  <2>3. cq' \in [Queue -> Seq(1..MaxCompletions)]
      BY <1>8, <2>1, <2>2 DEF RemoveCompletion, TypeOK
  <2>4. slots' \in [Queue -> [Slot -> 0..MaxCompletions]]
    <3>1. slots' = [slots EXCEPT ![hq[h]] = [slots[hq[h]] EXCEPT ![num[hq[h]]] = Head(cq[hq[h]])]]
        BY <1>8, <2>1 DEF RemoveCompletion, TypeOK
    <3>2. slots \in [Queue -> [Slot -> 0..MaxCompletions]]
        BY DEF TypeOK
    <3>3. [slots[hq[h]] EXCEPT ![num[hq[h]]] = Head(cq[hq[h]])] \in [Slot -> 0..MaxCompletions]
        BY ONLY <2>1, <2>2, <3>2
    <3> QED BY ONLY <2>1, <3>1, <3>2, <3>3
  <2>5. num' \in [Queue -> Nat]
    <3>1. num' = [num EXCEPT ![hq[h]] = num[hq[h]] + 1]
        BY <1>8 DEF RemoveCompletion
    <3>2. num[hq[h]] + 1 \in Nat
        BY <1>num, <2>1
    <3> QED BY ONLY <1>num, <2>1, <3>1, <3>2
  <2>6. pc' \in [Handler -> PC] /\ HandlerInv'
      BY <1>8, <2>1, QueueAssumption DEF RemoveCompletion, TypeOK, HandlerInv, PC
  <2> QED BY <1>8, <2>3, <2>4, <2>5, <2>6 DEF RemoveCompletion, TypeOK
<1>9. ASSUME NEW h \in Handler, RemoveNothing(h) PROVE TypeOK' /\ HandlerInv'
    BY <1>9 DEF RemoveNothing, TypeOK, HandlerInv, PC
<1>10. ASSUME NEW h \in Handler, PopCompletion(h) PROVE TypeOK' /\ HandlerInv'
  <2>1. hq[h] \in Queue
      BY <1>10, <1>hq DEF PopCompletion
  <2>2. PICK m, n \in Nat : /\ num' = [num EXCEPT ![hq[h]] = m]
                            /\ next' = [next EXCEPT ![hq[h]] = n]
    <3>1. num[hq[h]] \in Nat /\ next[hq[h]] + 1 \in Nat
        BY <1>num, <2>1
    <3> QED BY <1>10, <3>1 DEF PopCompletion
  <2>3. num' \in [Queue -> Nat] /\ next' \in [Queue -> Nat]
      BY ONLY <1>num, <2>1, <2>2
  <2>4. ptr' \in [Handler -> Nat] /\ pc' \in [Handler -> PC] /\ HandlerInv'
      BY <1>10, <1>num, <2>1, QueueAssumption DEF PopCompletion, TypeOK, HandlerInv, PC
  <2> QED BY <1>10, <2>3, <2>4 DEF PopCompletion, TypeOK
<1>11. ASSUME NEW h \in Handler, UseCompletion(h) PROVE TypeOK' /\ HandlerInv'
  <2>1. hq[h] \in Queue /\ ptr[h] \in Slot
      BY <1>11, <1>hq DEF UseCompletion, CountInv
  <2>2. slots[hq[h]][ptr[h]] \in 0..MaxCompletions
      BY <2>1 DEF TypeOK
  <2>3. Append(handled[hq[h]], slots[hq[h]][ptr[h]]) \in Seq(0..MaxCompletions)
      BY <2>1, <2>2 DEF TypeOK
  <2> QED BY <1>11, <2>1, <2>3, QueueAssumption DEF UseCompletion, TypeOK, HandlerInv, PC
<1>12. CASE UNCHANGED vars
    BY <1>12 DEF vars, TypeOK, HandlerInv
<1> QED BY <1>1, <1>2, <1>3, <1>4, <1>5, <1>6, <1>7, <1>8, <1>9, <1>10, <1>11, <1>12
        DEF Next, HandlerStep

-----------------------------------------------------------------------------
(* The device's queues, and queues with one handler *)

\* The device adds at the end, removeCompletions takes from the front.
LEMMA DeviceStep == TypeOK /\ HandlerInv /\ DeviceInv /\ [Next]_vars => DeviceInv'
<1> SUFFICES ASSUME TypeOK, HandlerInv, DeviceInv, [Next]_vars
             PROVE  DeviceInv'
    OBVIOUS
<1> USE DEF queueVars, deviceVars, handlerVars
<1>type. ASSUME NEW q \in Queue
         PROVE  made[q] \in Int /\ cq[q] \in Seq(Int) /\ Len(cq[q]) \in Nat
    BY QueueAssumption DEF TypeOK
<1>1. ASSUME NEW q \in Queue, WorkCompletes(q) PROVE DeviceInv'
  <2>1. /\ made' = [made EXCEPT ![q] = made[q] + 1]
        /\ cq' = [cq EXCEPT ![q] = Append(cq[q], made[q] + 1)]
      BY <1>1 DEF WorkCompletes, TypeOK
  <2>2. ASSUME NEW p \in Queue, p # q
        PROVE  cq'[p] = cq[p] /\ made'[p] = made[p]
      BY <2>1, <2>2 DEF TypeOK
  <2>3. cq'[q] = Append(cq[q], made[q] + 1) /\ made'[q] = made[q] + 1
      BY <2>1 DEF TypeOK
  <2>4. /\ Len(cq'[q]) = Len(cq[q]) + 1
        /\ \A i \in 1..Len(cq[q]) : cq'[q][i] = cq[q][i]
        /\ cq'[q][Len(cq[q]) + 1] = made[q] + 1
      BY ONLY <1>type, <2>3, AppendFacts, q \in Queue
  <2>5. /\ Len(cq[q]) <= made[q]
        /\ \A i \in 1..Len(cq[q]) : cq[q][i] = made[q] - Len(cq[q]) + i
      BY DEF DeviceInv
  <2>6. /\ Len(cq'[q]) <= made'[q]
        /\ \A i \in 1..Len(cq'[q]) : cq'[q][i] = made'[q] - Len(cq'[q]) + i
      BY ONLY <1>type, <2>3, <2>4, <2>5, q \in Queue
  <2> QED BY <2>2, <2>6 DEF DeviceInv
<1>2. ASSUME NEW h \in Handler, RemoveCompletion(h) PROVE DeviceInv'
  <2> DEFINE q == hq[h]
  <2>1. q \in Queue
      BY <1>2 DEF RemoveCompletion, TypeOK, HandlerInv
  <2>2. made' = made /\ cq' = [cq EXCEPT ![q] = Tail(cq[q])] /\ cq[q] # <<>>
      BY <1>2 DEF RemoveCompletion
  <2> HIDE DEF q
  <2>3. ASSUME NEW p \in Queue, p # q PROVE cq'[p] = cq[p]
      BY <2>1, <2>2, <2>3 DEF TypeOK
  <2>4. cq'[q] = Tail(cq[q])
      BY <2>1, <2>2 DEF TypeOK
  <2>5. /\ Len(cq[q]) \in Nat \ {0}
        /\ Len(cq'[q]) = Len(cq[q]) - 1
        /\ \A i \in 1..(Len(cq[q]) - 1) : cq'[q][i] = cq[q][i + 1]
      BY ONLY <1>type, <2>1, <2>2, <2>4, TailFacts
  <2>6. /\ Len(cq[q]) <= made[q]
        /\ \A i \in 1..Len(cq[q]) : cq[q][i] = made[q] - Len(cq[q]) + i
      BY <2>1 DEF DeviceInv
  <2>7. made[q] \in Int
      BY <1>type, <2>1
  <2>8. /\ Len(cq'[q]) <= made[q]
        /\ \A i \in 1..Len(cq'[q]) : cq'[q][i] = made[q] - Len(cq'[q]) + i
    <3>1. ASSUME NEW i \in 1..Len(cq'[q])
          PROVE  cq'[q][i] = made[q] - Len(cq'[q]) + i
      <4>1. i \in 1..(Len(cq[q]) - 1) /\ i + 1 \in 1..Len(cq[q])
          BY ONLY <2>5, <3>1
      <4>2. cq'[q][i] = made[q] - Len(cq[q]) + (i + 1)
          BY ONLY <2>5, <2>6, <4>1
      <4> QED BY ONLY <2>5, <2>7, <4>1, <4>2
    <3> QED BY <2>5, <2>6, <2>7, <3>1
  <2> QED BY <2>2, <2>3, <2>8 DEF DeviceInv
<1>3. CASE UNCHANGED <<cq, made>>
    BY <1>3 DEF DeviceInv
<1> QED BY <1>1, <1>2, <1>3
        DEF Next, HandlerStep, vars, AddCompletionQ, RemoveCompletionQ, GetEvent, GetEventUnknown,
            RequestEvent, CallFails, RemoveNothing, PopCompletion, UseCompletion

\* A handler that takes a queue another one has puts it in shared.
LEMMA SharedStep == TypeOK /\ HandlerInv /\ SharedInv /\ [Next]_vars => SharedInv'
<1> SUFFICES ASSUME TypeOK, HandlerInv, SharedInv, [Next]_vars
             PROVE  SharedInv'
    OBVIOUS
<1> USE DEF queueVars, deviceVars, handlerVars
<1>1. ASSUME NEW h \in Handler, GetEvent(h) PROVE SharedInv'
    BY <1>1 DEF GetEvent, TypeOK, SharedInv
<1>2. ASSUME NEW h \in Handler, CallFails(h) \/ RemoveNothing(h) PROVE SharedInv'
    BY <1>2, QueueAssumption DEF CallFails, RemoveNothing, TypeOK, SharedInv
<1>3. CASE UNCHANGED <<hq, shared>>
    BY <1>3 DEF SharedInv
<1> QED BY <1>1, <1>2, <1>3
        DEF Next, HandlerStep, vars, WorkCompletes, AddCompletionQ, RemoveCompletionQ,
            GetEventUnknown, RequestEvent, RemoveCompletion, PopCompletion, UseCompletion

-----------------------------------------------------------------------------
(* The indices of a queue *)

\* removeCompletions and popCompletion keep the distance between the indices, and
\* the last of the handlers to pop resets both.
LEMMA CountStep == TypeOK /\ HandlerInv /\ CountInv /\ [Next]_vars => CountInv'
<1> SUFFICES ASSUME TypeOK, HandlerInv, CountInv, [Next]_vars
             PROVE  CountInv'
    OBVIOUS
<1> USE DEF queueVars, deviceVars, handlerVars
<1>type. ASSUME NEW q \in Queue
         PROVE  /\ made[q] \in 0..MaxCompletions /\ MaxCompletions \in Nat
                /\ cq[q] \in Seq(1..MaxCompletions) /\ Len(cq[q]) \in Nat
                /\ num[q] \in Nat /\ next[q] \in Nat
    BY QueueAssumption DEF TypeOK
<1>fin. ASSUME NEW q \in Queue
        PROVE  IsFiniteSet(AtPop(q)) /\ Cardinality(AtPop(q)) \in Nat
    BY QueueAssumption, FS_Subset, FS_CardinalityType DEF AtPop
<1>inv. ASSUME NEW q \in Queue
        PROVE  /\ num[q] = next[q] + Cardinality(AtPop(q))
               /\ AtPop(q) = {} => next[q] = 0
               /\ num[q] + Len(cq[q]) <= made[q]
    BY DEF CountInv
<1>ptr. \A h \in Handler : pc[h] = "use" => ptr[h] \in Slot
    BY DEF CountInv
<1>1. ASSUME NEW q \in Queue, WorkCompletes(q) PROVE CountInv'
  <2>1. /\ made' = [made EXCEPT ![q] = made[q] + 1]
        /\ cq' = [cq EXCEPT ![q] = Append(cq[q], made[q] + 1)]
        /\ UNCHANGED <<num, next, pc, hq, ptr>>
      BY <1>1 DEF WorkCompletes, TypeOK
  <2>2. ASSUME NEW p \in Queue PROVE num[p] + Len(cq'[p]) <= made'[p]
    <3>1. CASE p = q
      <4>1. cq'[q] = Append(cq[q], made[q] + 1) /\ made'[q] = made[q] + 1
          BY <2>1 DEF TypeOK
      <4>2. Len(cq'[q]) = Len(cq[q]) + 1
        <5>1. cq[q] \in Seq(Int) /\ made[q] + 1 \in Int
            BY <1>type
        <5> QED BY ONLY <4>1, <5>1, AppendFacts
      <4> QED BY ONLY <1>type, <1>inv, <3>1, <4>1, <4>2, q \in Queue
    <3>2. CASE p # q
      <4>1. cq'[p] = cq[p] /\ made'[p] = made[p]
          BY <2>1, <3>2 DEF TypeOK
      <4> QED BY <1>inv, <4>1
    <3> QED BY <3>1, <3>2
  <2>3. \A p \in Queue : AtPop(p)' = AtPop(p)
      BY <2>1 DEF AtPop
  <2> QED BY <1>inv, <1>ptr, <2>1, <2>2, <2>3 DEF CountInv
<1>2. ASSUME NEW h \in Handler, RemoveCompletion(h) PROVE CountInv'
  <2>1. PICK q \in Queue : q = hq[h]
      BY <1>2 DEF RemoveCompletion, TypeOK, HandlerInv
  <2>2. /\ UNCHANGED <<made, next, hq, ptr>>
        /\ cq[q] # <<>>
        /\ cq' = [cq EXCEPT ![q] = Tail(cq[q])]
        /\ num' = [num EXCEPT ![q] = num[q] + 1]
        /\ pc[h] = "remove" /\ pc' = [pc EXCEPT ![h] = "pop"]
      BY <1>2, <2>1 DEF RemoveCompletion
  <2>3. /\ AtPop(q)' = AtPop(q) \cup {h} /\ h \notin AtPop(q)
        /\ \A p \in Queue : p # q => AtPop(p)' = AtPop(p)
      BY <2>1, <2>2 DEF AtPop, TypeOK
  <2>4. \A g \in Handler : pc'[g] = "use" => ptr'[g] \in Slot
      BY <1>ptr, <2>2 DEF TypeOK
  <2>5. ASSUME NEW p \in Queue, p # q
        PROVE  cq'[p] = cq[p] /\ num'[p] = num[p]
      BY <2>1, <2>2, <2>5 DEF TypeOK
  <2>6. cq'[q] = Tail(cq[q]) /\ num'[q] = num[q] + 1
      BY <2>1, <2>2 DEF TypeOK
  <2>7. Len(cq[q]) \in Nat \ {0} /\ Len(cq'[q]) = Len(cq[q]) - 1
      BY ONLY <1>type, <2>1, <2>2, <2>6, TailFacts
  <2>8. Cardinality(AtPop(q)') = Cardinality(AtPop(q)) + 1
      BY ONLY <1>fin, <2>1, <2>3, FS_AddElement
  <2>9. num'[q] = next'[q] + Cardinality(AtPop(q)')
    <3>1. /\ num[q] = next[q] + Cardinality(AtPop(q)) /\ next'[q] = next[q]
          /\ next[q] \in Nat /\ Cardinality(AtPop(q)) \in Nat
        BY <1>type, <1>inv, <1>fin, <2>2
    <3> QED BY ONLY <2>6, <2>8, <3>1
  <2>10. num'[q] + Len(cq'[q]) <= made'[q]
      BY ONLY <1>type, <1>inv, <2>1, <2>2, <2>6, <2>7
  <2>11. AtPop(q)' # {}
      BY <2>3
  <2>12. ASSUME NEW p \in Queue
         PROVE  /\ num'[p] = next'[p] + Cardinality(AtPop(p)')
                /\ AtPop(p)' = {} => next'[p] = 0
                /\ num'[p] + Len(cq'[p]) <= made'[p]
    <3>1. CASE p = q
        BY ONLY <2>9, <2>10, <2>11, <3>1
    <3>2. CASE p # q
      <4>1. num'[p] = num[p] /\ next'[p] = next[p] /\ cq'[p] = cq[p] /\ made'[p] = made[p]
            /\ AtPop(p)' = AtPop(p)
          BY <2>2, <2>3, <2>5, <3>2
      <4> QED BY ONLY <1>inv, <4>1, p \in Queue
    <3> QED BY <3>1, <3>2
  <2> QED BY <2>4, <2>12 DEF CountInv
<1>3. ASSUME NEW h \in Handler, PopCompletion(h) PROVE CountInv'
  <2>1. PICK q \in Queue : q = hq[h]
      BY <1>3 DEF PopCompletion, TypeOK, HandlerInv
  <2> DEFINE C == Cardinality(AtPop(q))
             last == next[q] + 1 = num[q]
  <2>2. /\ UNCHANGED <<made, cq, hq>>
        /\ ptr' = [ptr EXCEPT ![h] = next[q]]
        /\ next' = [next EXCEPT ![q] = IF last THEN 0 ELSE next[q] + 1]
        /\ num' = [num EXCEPT ![q] = IF last THEN 0 ELSE num[q]]
        /\ pc[h] = "pop" /\ pc' = [pc EXCEPT ![h] = "use"]
      BY <1>3, <2>1 DEF PopCompletion
  <2>3. /\ AtPop(q)' = AtPop(q) \ {h} /\ h \in AtPop(q)
        /\ \A p \in Queue : p # q => AtPop(p)' = AtPop(p)
      BY <2>1, <2>2 DEF AtPop, TypeOK
  <2>4. IsFiniteSet(AtPop(q) \ {h}) /\ Cardinality(AtPop(q)') = C - 1
      BY <1>fin, <2>1, <2>3, FS_RemoveElement
  <2>5. Cardinality(AtPop(q)') \in Nat /\ (AtPop(q)' = {} <=> Cardinality(AtPop(q)') = 0)
      BY <2>3, <2>4, FS_CardinalityType, FS_EmptySet
  <2>6. C \in Nat /\ num[q] = next[q] + C
      BY <1>fin, <1>inv, <2>1
  <2>ty. num[q] \in Nat /\ next[q] \in Nat /\ Len(cq[q]) \in Nat /\ made[q] \in 0..MaxCompletions
         /\ MaxCompletions \in Nat
      BY <1>type, <2>1
  <2>ty2. num \in [Queue -> Nat] /\ next \in [Queue -> Nat] /\ ptr \in [Handler -> Nat]
          /\ pc \in [Handler -> PC]
      BY DEF TypeOK
  <2>inv. num[q] + Len(cq[q]) <= made[q]
      BY <1>inv, <2>1
  <2> HIDE DEF C, last
  <2>7. ASSUME NEW p \in Queue, p # q
        PROVE  next'[p] = next[p] /\ num'[p] = num[p]
      BY ONLY <2>1, <2>2, <2>7, <2>ty2
  <2>8. /\ next'[q] = IF last THEN 0 ELSE next[q] + 1
        /\ num'[q] = IF last THEN 0 ELSE num[q]
      BY ONLY <2>1, <2>2, <2>ty2
  <2>9. last <=> C = 1
      BY <2>6, <2>ty DEF last
  <2>10. /\ num'[q] = next'[q] + Cardinality(AtPop(q)')
         /\ AtPop(q)' = {} => next'[q] = 0
         /\ num'[q] + Len(cq[q]) <= made[q]
    <3>1. CASE last
        BY ONLY <2>4, <2>5, <2>6, <2>8, <2>9, <2>ty, <2>inv, <3>1
    <3>2. CASE ~last
        BY ONLY <2>4, <2>5, <2>6, <2>8, <2>9, <2>ty, <2>inv, <3>2
    <3> QED BY <3>1, <3>2
  <2>11. next[q] \in Slot
      BY <2>4, <2>5, <2>6, <2>ty, <2>inv DEF Slot
  <2>12. ASSUME NEW g \in Handler, pc'[g] = "use" PROVE ptr'[g] \in Slot
    <3>1. CASE g = h
        BY <2>2, <2>11, <2>ty2, <3>1
    <3>2. CASE g # h
        BY <1>ptr, <2>2, <2>12, <2>ty2, <3>2
    <3> QED BY <3>1, <3>2
  <2>13. ASSUME NEW p \in Queue
         PROVE  /\ num'[p] = next'[p] + Cardinality(AtPop(p)')
                /\ AtPop(p)' = {} => next'[p] = 0
                /\ num'[p] + Len(cq'[p]) <= made'[p]
    <3>1. CASE p = q
        BY <2>2, <2>10, <3>1
    <3>2. CASE p # q
      <4>1. num'[p] = num[p] /\ next'[p] = next[p] /\ cq'[p] = cq[p] /\ made'[p] = made[p]
            /\ AtPop(p)' = AtPop(p)
          BY <2>2, <2>3, <2>7, <3>2
      <4> QED BY ONLY <1>inv, <4>1, p \in Queue
    <3> QED BY <3>1, <3>2
  <2> QED BY <2>12, <2>13 DEF CountInv
<1>4. CASE /\ UNCHANGED <<num, next, cq, made, ptr>>
           /\ \A g \in Handler : /\ (pc'[g] = "pop" \/ pc[g] = "pop") => pc'[g] = pc[g] /\ hq'[g] = hq[g]
                                 /\ pc'[g] = "use" => pc[g] = "use"
  <2>1. \A p \in Queue : AtPop(p)' = AtPop(p)
      BY <1>4 DEF AtPop
  <2> QED BY <1>4, <1>inv, <1>ptr, <2>1 DEF CountInv
<1>5. ASSUME NEW h \in Handler,
             GetEvent(h) \/ RequestEvent(h) \/ CallFails(h) \/ RemoveNothing(h) \/ UseCompletion(h)
      PROVE  CountInv'
    BY <1>4, <1>5 DEF TypeOK, GetEvent, RequestEvent, CallFails, RemoveNothing, UseCompletion
<1>6. CASE UNCHANGED <<num, next, cq, made, ptr, pc, hq>>
    BY <1>4, <1>6
<1> QED BY <1>1, <1>2, <1>3, <1>5, <1>6
        DEF Next, HandlerStep, vars, AddCompletionQ, RemoveCompletionQ, GetEventUnknown

-----------------------------------------------------------------------------
(* Draining a queue *)

\* A handler that has its queue for itself takes completions one by one, each
\* through the first slot.
LEMMA DrainStep ==
    /\ TypeOK /\ HandlerInv /\ CountInv /\ SharedInv /\ DeviceInv /\ DrainInv
    /\ [Next]_vars
    => DrainInv'
<1> SUFFICES ASSUME TypeOK, HandlerInv, CountInv, SharedInv, DeviceInv, DrainInv, [Next]_vars
             PROVE  DrainInv'
    OBVIOUS
<1> USE DEF queueVars, deviceVars, handlerVars
<1>type. ASSUME NEW q \in Queue
         PROVE  /\ made[q] \in Int /\ cq[q] \in Seq(Int) /\ Len(cq[q]) \in Nat
                /\ handled[q] \in Seq(0..MaxCompletions) /\ Len(handled[q]) \in Nat
    BY QueueAssumption DEF TypeOK
<1>inv. ASSUME NEW q \in Queue \ shared PROVE DrainAt(q)
    BY DEF DrainInv
<1>frame. ASSUME NEW p \in Queue \ shared,
                 next'[p] = next[p], handled'[p] = handled[p], slots'[p] = slots[p],
                 Taken(p)' = Taken(p),
                 Carrying(p)' = Carrying(p),
                 \A g \in Carrying(p) : pc'[g] = pc[g] /\ ptr'[g] = ptr[g]
          PROVE  DrainAt(p)'
    BY <1>inv, <1>frame DEF DrainAt
<1>1. ASSUME NEW q \in Queue, WorkCompletes(q) PROVE DrainInv'
  <2>1. /\ made' = [made EXCEPT ![q] = made[q] + 1]
        /\ cq' = [cq EXCEPT ![q] = Append(cq[q], made[q] + 1)]
        /\ UNCHANGED <<slots, num, next, pc, hq, ptr, handled, shared>>
      BY <1>1 DEF WorkCompletes, TypeOK
  <2>2. ASSUME NEW p \in Queue PROVE Taken(p)' = Taken(p)
    <3>1. CASE p = q
      <4>1. cq'[q] = Append(cq[q], made[q] + 1) /\ made'[q] = made[q] + 1
          BY <2>1 DEF TypeOK
      <4>2. cq[q] \in Seq(Int) /\ made[q] + 1 \in Int
          BY <1>type
      <4>3. Len(cq'[q]) = Len(cq[q]) + 1
          BY ONLY <4>1, <4>2, AppendFacts
      <4> QED BY <1>type, <3>1, <4>1, <4>3 DEF Taken
    <3>2. CASE p # q
        BY <2>1, <3>2 DEF TypeOK, Taken
    <3> QED BY <3>1, <3>2
  <2> QED BY <1>frame, <2>1, <2>2 DEF DrainInv, Carrying
<1>2. ASSUME NEW h \in Handler, RemoveCompletion(h) PROVE DrainInv'
  <2>1. PICK q \in Queue : q = hq[h]
      BY <1>2 DEF RemoveCompletion, TypeOK, HandlerInv
  <2>2. /\ UNCHANGED <<made, next, hq, ptr, handled, shared>>
        /\ cq[q] # <<>>
        /\ slots' = [slots EXCEPT ![q][num[q]] = Head(cq[q])]
        /\ cq' = [cq EXCEPT ![q] = Tail(cq[q])]
        /\ pc[h] = "remove" /\ pc' = [pc EXCEPT ![h] = "pop"]
      BY <1>2, <2>1 DEF RemoveCompletion
  <2>3. ASSUME NEW p \in Queue \ shared, p # q PROVE DrainAt(p)'
    <3>1. Carrying(p)' = Carrying(p) /\ \A g \in Carrying(p) : pc'[g] = pc[g]
        BY <2>1, <2>2, <2>3 DEF Carrying, TypeOK
    <3>2. slots'[p] = slots[p] /\ cq'[p] = cq[p]
        BY <2>2, <2>3 DEF TypeOK
    <3> QED BY <1>frame, <2>2, <3>1, <3>2 DEF Taken
  <2>4. ASSUME q \notin shared PROVE DrainAt(q)'
    <3>1. Carrying(q) = {} /\ AtPop(q) = {} /\ Carrying(q)' = {h} /\ pc'[h] = "pop"
        BY <2>1, <2>2, <2>4 DEF SharedInv, Carrying, AtPop, TypeOK
    <3>2. num[q] = 0 /\ next[q] = 0
      <4>1. next[q] = 0 /\ num[q] = next[q] + Cardinality(AtPop(q))
          BY <3>1 DEF CountInv
      <4>2. Cardinality(AtPop(q)) = 0
          BY <3>1, FS_EmptySet
      <4> QED BY ONLY <4>1, <4>2
    <3>3. Len(handled[q]) = made[q] - Len(cq[q]) /\ \A i \in 1..Len(handled[q]) : handled[q][i] = i
        BY <1>inv, <2>4, <3>1 DEF DrainAt, Taken
    <3>4. /\ Len(cq[q]) \in Nat \ {0} /\ Len(Tail(cq[q])) = Len(cq[q]) - 1
          /\ Head(cq[q]) = cq[q][1]
        BY ONLY <1>type, <2>2, TailFacts, q \in Queue
    <3>5. cq'[q] = Tail(cq[q])
        BY <2>2 DEF TypeOK
    <3>6. cq[q][1] = made[q] - Len(cq[q]) + 1
        BY <3>4 DEF DeviceInv
    <3>7. slots'[q][0] = Head(cq[q])
      <4>1. slots \in [Queue -> [Slot -> 0..MaxCompletions]]
          BY DEF TypeOK
      <4>2. 0 \in Slot
          BY QueueAssumption DEF Slot
      <4> QED BY <2>2, <3>2, <4>1, <4>2
    <3>8. made[q] \in Int
        BY <1>type
    <3>9. Taken(q)' = made[q] - Len(cq[q]) + 1
      <4>1. Taken(q)' = made[q] - Len(Tail(cq[q]))
          BY <2>2, <3>5 DEF Taken
      <4> QED BY ONLY <3>4, <3>8, <4>1
    <3>10. slots'[q][0] = Taken(q)'
        BY ONLY <3>4, <3>6, <3>7, <3>9
    <3>11. Len(handled'[q]) + 1 = Taken(q)'
        BY <2>2, <3>3, <3>9
    <3>12. next'[q] = 0 /\ \A i \in 1..Len(handled'[q]) : handled'[q][i] = i
        BY <2>2, <3>2, <3>3
    <3> QED BY ONLY <3>1, <3>10, <3>11, <3>12 DEF DrainAt
  <2> QED BY <2>2, <2>3, <2>4 DEF DrainInv
<1>3. ASSUME NEW h \in Handler, PopCompletion(h) PROVE DrainInv'
  <2>1. PICK q \in Queue : q = hq[h]
      BY <1>3 DEF PopCompletion, TypeOK, HandlerInv
  <2> DEFINE last == next[q] + 1 = num[q]
  <2>2. /\ UNCHANGED <<made, cq, hq, slots, handled, shared>>
        /\ ptr' = [ptr EXCEPT ![h] = next[q]]
        /\ next' = [next EXCEPT ![q] = IF last THEN 0 ELSE next[q] + 1]
        /\ pc[h] = "pop" /\ pc' = [pc EXCEPT ![h] = "use"]
      BY <1>3, <2>1 DEF PopCompletion
  <2>3. ASSUME NEW p \in Queue \ shared, p # q PROVE DrainAt(p)'
    <3>1. /\ Carrying(p)' = Carrying(p)
          /\ \A g \in Carrying(p) : pc'[g] = pc[g] /\ ptr'[g] = ptr[g]
        BY <2>1, <2>2, <2>3 DEF Carrying, TypeOK
    <3>2. next'[p] = next[p]
      <4>1. next \in [Queue -> Nat]
          BY DEF TypeOK
      <4> QED BY ONLY <2>2, <2>3, <4>1
    <3> QED BY <1>frame, <2>2, <3>1, <3>2 DEF Taken
  <2>4. ASSUME q \notin shared PROVE DrainAt(q)'
    <3>1. AtPop(q) = {h} /\ Carrying(q) = {h} /\ Carrying(q)' = {h}
        BY <2>1, <2>2, <2>4 DEF SharedInv, Carrying, AtPop, TypeOK
    <3>2. next[q] = 0
        BY <1>inv, <2>4 DEF DrainAt
    <3>3. last
      <4>1. Cardinality(AtPop(q)) = 1
          BY <3>1, FS_Singleton
      <4>2. num[q] = next[q] + Cardinality(AtPop(q))
          BY DEF CountInv
      <4> QED BY <3>2, <4>1, <4>2
    <3>4. next'[q] = 0
        BY <2>2, <3>3 DEF TypeOK
    <3>5. ptr'[h] = 0
        BY <2>2, <3>2 DEF TypeOK
    <3>6. Taken(q)' = Taken(q)
        BY <2>2 DEF Taken
    <3> QED BY <1>inv, <2>2, <2>4, <3>1, <3>4, <3>5, <3>6 DEF DrainAt
  <2> QED BY <2>2, <2>3, <2>4 DEF DrainInv
<1>4. ASSUME NEW h \in Handler, UseCompletion(h) PROVE DrainInv'
  <2>1. PICK q \in Queue : q = hq[h]
      BY <1>4 DEF UseCompletion, TypeOK, HandlerInv
  <2>2. /\ UNCHANGED <<made, cq, hq, slots, next, ptr, shared>>
        /\ handled' = [handled EXCEPT ![q] = Append(handled[q], slots[q][ptr[h]])]
        /\ pc[h] = "use" /\ pc' = [pc EXCEPT ![h] = "remove"]
      BY <1>4, <2>1 DEF UseCompletion
  <2>3. ASSUME NEW p \in Queue \ shared, p # q PROVE DrainAt(p)'
    <3>1. Carrying(p)' = Carrying(p) /\ \A g \in Carrying(p) : pc'[g] = pc[g]
        BY <2>1, <2>2, <2>3 DEF Carrying, TypeOK
    <3>2. handled'[p] = handled[p]
        BY <2>2, <2>3 DEF TypeOK
    <3> QED BY <1>frame, <2>2, <3>1, <3>2 DEF Taken
  <2>4. ASSUME q \notin shared PROVE DrainAt(q)'
    <3>1. h \in Carrying(q) /\ Carrying(q)' = {}
        BY <2>1, <2>2, <2>4 DEF SharedInv, Carrying, TypeOK
    <3>2. /\ ptr[h] = 0 /\ slots[q][0] = Taken(q) /\ Len(handled[q]) + 1 = Taken(q)
          /\ next[q] = 0 /\ \A i \in 1..Len(handled[q]) : handled[q][i] = i
        BY <1>inv, <2>2, <2>4, <3>1 DEF DrainAt
    <3>3. handled'[q] = Append(handled[q], Len(handled[q]) + 1)
        BY <2>2, <3>2 DEF TypeOK
    <3>4. handled[q] \in Seq(Int) /\ Len(handled[q]) + 1 \in Int
        BY QueueAssumption DEF TypeOK
    <3>5. /\ Len(handled[q]) \in Nat
          /\ Len(handled'[q]) = Len(handled[q]) + 1
          /\ \A i \in 1..Len(handled[q]) : handled'[q][i] = handled[q][i]
          /\ handled'[q][Len(handled[q]) + 1] = Len(handled[q]) + 1
        BY ONLY <3>3, <3>4, AppendFacts
    <3>6. \A i \in 1..Len(handled'[q]) : handled'[q][i] = i
        BY ONLY <3>2, <3>5
    <3>7. Taken(q)' = Taken(q) /\ next'[q] = 0
        BY <2>2, <3>2 DEF Taken
    <3> QED BY ONLY <3>1, <3>2, <3>5, <3>6, <3>7 DEF DrainAt
  <2> QED BY <2>2, <2>3, <2>4 DEF DrainInv
<1>5. CASE /\ UNCHANGED <<next, handled, slots, made, cq, ptr>>
           /\ shared \subseteq shared'
           /\ \A g \in Handler :
                  pc[g] \in {"pop", "use"} \/ pc'[g] \in {"pop", "use"}
                  => pc'[g] = pc[g] /\ hq'[g] = hq[g]
  <2>1. \A p \in Queue : Carrying(p)' = Carrying(p) /\ \A g \in Carrying(p) : pc'[g] = pc[g]
      BY <1>5 DEF Carrying
  <2> QED BY <1>5, <1>frame, <2>1 DEF DrainInv, Taken
<1>6. ASSUME NEW h \in Handler,
             GetEvent(h) \/ RequestEvent(h) \/ CallFails(h) \/ RemoveNothing(h)
      PROVE  DrainInv'
    BY <1>5, <1>6 DEF TypeOK, GetEvent, RequestEvent, CallFails, RemoveNothing
<1>7. CASE UNCHANGED <<next, handled, slots, made, cq, ptr, pc, hq, shared>>
    BY <1>5, <1>7
<1> QED BY <1>1, <1>2, <1>3, <1>4, <1>6, <1>7
        DEF Next, HandlerStep, vars, AddCompletionQ, RemoveCompletionQ, GetEventUnknown

-----------------------------------------------------------------------------
(* Arming a queue *)

\* A handler arms its queue before it drains it, and leaves it only when it is empty.
LEMMA ArmStep == TypeOK /\ HandlerInv /\ ArmInv /\ [Next]_vars => ArmInv'
<1> SUFFICES ASSUME TypeOK, HandlerInv, ArmInv, [Next]_vars
             PROVE  ArmInv'
    OBVIOUS
<1> USE DEF queueVars, deviceVars, handlerVars
<1>inv. ASSUME NEW q \in queues \ failed PROVE q \in Queue /\ ArmAt(q)
    BY DEF ArmInv, TypeOK
<1>fresh. \A q \in Queue : made[q] = 0 => armed[q] /\ cq[q] = <<>>
    BY DEF ArmInv
<1>tail. ASSUME events # <<>>, NEW p \in Queue, p # Head(events),
                events' = Tail(events), Announced(p)
         PROVE  Announced(p)'
  <2>1. events \in Seq(Queue)
      BY DEF TypeOK
  <2>2. /\ Len(events) \in Nat \ {0} /\ Head(events) = events[1]
        /\ Len(Tail(events)) = Len(events) - 1
        /\ \A i \in 1..(Len(events) - 1) : Tail(events)[i] = events[i + 1]
      BY ONLY <1>tail, <2>1, TailFacts
  <2>3. PICK i \in 1..Len(events) : events[i] = p
      BY <1>tail DEF Announced
  <2>4. i # 1
      BY <1>tail, <2>2, <2>3
  <2>5. i - 1 \in 1..(Len(events) - 1) /\ (i - 1) + 1 = i
      BY ONLY <2>2, <2>3, <2>4
  <2>6. Tail(events)[i - 1] = p
      BY ONLY <2>2, <2>3, <2>5
  <2> QED BY <1>tail, <2>2, <2>5, <2>6 DEF Announced
<1>1. ASSUME NEW q \in Queue, WorkCompletes(q) PROVE ArmInv'
  <2>1. /\ UNCHANGED <<queues, failed, pc, hq>>
        /\ made' = [made EXCEPT ![q] = made[q] + 1]
        /\ cq' = [cq EXCEPT ![q] = Append(cq[q], made'[q])]
        /\ events' = IF armed[q] THEN Append(events, q) ELSE events
        /\ armed' = [armed EXCEPT ![q] = FALSE]
      BY <1>1 DEF WorkCompletes
  <2>2. events \in Seq(Queue)
      BY DEF TypeOK
  <2>3. /\ Len(events) \in Nat /\ Len(Append(events, q)) = Len(events) + 1
        /\ \A i \in 1..Len(events) : Append(events, q)[i] = events[i]
        /\ Append(events, q)[Len(events) + 1] = q
      BY ONLY <2>2, AppendFacts, q \in Queue
  <2>4. ASSUME NEW p, Announced(p) PROVE Announced(p)'
    <3>1. CASE armed[q]
        BY <2>1, <2>3, <2>4, <3>1 DEF Announced
    <3>2. CASE ~armed[q]
        BY <2>1, <2>4, <3>2 DEF Announced
    <3> QED BY <3>1, <3>2
  <2>5. armed[q] => Announced(q)'
    <3>1. Len(events) + 1 \in 1..(Len(events) + 1)
        BY <2>3
    <3> QED BY <2>1, <2>3, <3>1 DEF Announced
  <2>6. ASSUME NEW p \in queues \ failed PROVE ArmAt(p)'
    <3>1. CASE p = q
        BY <1>inv, <2>1, <2>4, <2>5, <3>1 DEF ArmAt
    <3>2. CASE p # q
      <4>1. armed'[p] = armed[p] /\ cq'[p] = cq[p]
          BY <1>inv, <2>1, <3>2 DEF TypeOK
      <4> QED BY <1>inv, <2>1, <2>4, <4>1 DEF ArmAt
    <3> QED BY <3>1, <3>2
  <2>7. ASSUME NEW p \in Queue, made'[p] = 0 PROVE armed'[p] /\ cq'[p] = <<>>
    <3>1. p # q
      <4>1. made \in [Queue -> Nat]
          BY QueueAssumption DEF TypeOK
      <4>2. made'[q] = made[q] + 1 /\ made[q] \in Nat
          BY <2>1, <4>1
      <4> QED BY <2>7, <4>2
    <3>2. made'[p] = made[p] /\ armed'[p] = armed[p] /\ cq'[p] = cq[p]
        BY <2>1, <3>1 DEF TypeOK
    <3> QED BY <1>fresh, <2>7, <3>2
  <2> QED BY <2>1, <2>6, <2>7 DEF ArmInv
<1>2. ASSUME NEW q \in Queue, AddCompletionQ(q) PROVE ArmInv'
    BY <1>2, <1>fresh DEF AddCompletionQ, ArmInv, ArmAt, Announced
<1>3. ASSUME NEW q \in Queue, RemoveCompletionQ(q) PROVE ArmInv'
    BY <1>3 DEF RemoveCompletionQ, ArmInv, ArmAt, Announced
<1>4. ASSUME NEW h \in Handler, GetEvent(h) PROVE ArmInv'
  <2>1. /\ UNCHANGED <<cq, made, armed, queues, failed>>
        /\ pc[h] = "idle" /\ events # <<>> /\ events' = Tail(events)
        /\ hq' = [hq EXCEPT ![h] = Head(events)]
        /\ pc' = [pc EXCEPT ![h] = "arm"]
      BY <1>4 DEF GetEvent
  <2>2. ASSUME NEW p \in queues \ failed PROVE ArmAt(p)'
    <3>1. CASE p = Head(events)
        BY <2>1, <3>1 DEF ArmAt, TypeOK
    <3>2. CASE p # Head(events)
      <4>1. Announced(p) => Announced(p)'
          BY <1>inv, <1>tail, <2>1, <3>2
      <4>2. \A g \in Handler : pc[g] # "idle" => hq'[g] = hq[g] /\ pc'[g] = pc[g]
          BY <2>1 DEF TypeOK
      <4> QED BY <1>inv, <2>1, <4>1, <4>2 DEF ArmAt
    <3> QED BY <3>1, <3>2
  <2> QED BY <1>fresh, <2>1, <2>2 DEF ArmInv
<1>5. ASSUME NEW h \in Handler, GetEventUnknown(h) PROVE ArmInv'
  <2>1. /\ UNCHANGED <<cq, made, armed, queues, failed, pc, hq>>
        /\ events # <<>> /\ events' = Tail(events) /\ Head(events) \notin queues
      BY <1>5 DEF GetEventUnknown
  <2>2. ASSUME NEW p \in queues \ failed PROVE ArmAt(p)'
    <3>1. Announced(p) => Announced(p)'
        BY <1>inv, <1>tail, <2>1
    <3> QED BY <1>inv, <2>1, <3>1 DEF ArmAt
  <2> QED BY <1>fresh, <2>1, <2>2 DEF ArmInv
<1>6. ASSUME NEW h \in Handler, RequestEvent(h) PROVE ArmInv'
  <2>1. PICK q \in Queue : q = hq[h]
      BY <1>6 DEF RequestEvent, TypeOK, HandlerInv
  <2>2. /\ UNCHANGED <<cq, made, events, queues, failed, hq>>
        /\ armed' = [armed EXCEPT ![q] = TRUE]
        /\ pc[h] = "arm" /\ pc' = [pc EXCEPT ![h] = "remove"]
      BY <1>6, <2>1 DEF RequestEvent
  <2>3. /\ \A p \in Queue : armed[p] => armed'[p]
        /\ armed'[q] /\ pc'[h] = "remove"
        /\ \A g \in Handler : g # h => pc'[g] = pc[g]
      BY <2>2 DEF TypeOK
  <2> QED BY <1>inv, <1>fresh, <2>1, <2>2, <2>3 DEF ArmInv, ArmAt, Announced
<1>7. ASSUME NEW h \in Handler, CallFails(h) PROVE ArmInv'
  <2>1. /\ UNCHANGED <<cq, made, armed, events, queues>>
        /\ failed' = failed \cup {hq[h]}
        /\ \A g \in Handler : g # h => pc'[g] = pc[g] /\ hq'[g] = hq[g]
      BY <1>7 DEF CallFails, TypeOK
  <2> QED BY <1>inv, <1>fresh, <2>1 DEF ArmInv, ArmAt, Announced
<1>8. ASSUME NEW h \in Handler, RemoveCompletion(h) PROVE ArmInv'
  <2>1. PICK q \in Queue : q = hq[h]
      BY <1>8 DEF RemoveCompletion, TypeOK, HandlerInv
  <2>2. /\ UNCHANGED <<made, armed, events, queues, failed, hq>>
        /\ cq' = [cq EXCEPT ![q] = Tail(cq[q])]
        /\ cq[q] # <<>>
        /\ pc[h] = "remove" /\ pc' = [pc EXCEPT ![h] = "pop"]
      BY <1>8, <2>1 DEF RemoveCompletion
  <2>3. /\ \A p \in Queue : p # q => cq'[p] = cq[p]
        /\ pc'[h] = "pop"
        /\ \A g \in Handler : g # h => pc'[g] = pc[g]
      BY <2>2 DEF TypeOK
  <2>4. \A p \in queues \ failed : ArmAt(p)'
      BY <1>inv, <2>1, <2>2, <2>3 DEF ArmAt, Announced
  <2>5. \A p \in Queue : made'[p] = 0 => armed'[p] /\ cq'[p] = <<>>
      BY <1>fresh, <2>2, <2>3
  <2> QED BY <2>2, <2>4, <2>5 DEF ArmInv
<1>9. ASSUME NEW h \in Handler, RemoveNothing(h) PROVE ArmInv'
  <2>1. /\ UNCHANGED <<cq, made, armed, events, queues, failed>>
        /\ cq[hq[h]] = <<>> /\ pc[h] = "remove"
        /\ \A g \in Handler : g # h => pc'[g] = pc[g] /\ hq'[g] = hq[g]
      BY <1>9 DEF RemoveNothing, TypeOK
  <2> QED BY <1>inv, <1>fresh, <2>1 DEF ArmInv, ArmAt, Announced
<1>10. ASSUME NEW h \in Handler, PopCompletion(h) \/ UseCompletion(h) PROVE ArmInv'
  <2>1. /\ UNCHANGED <<cq, made, armed, events, queues, failed, hq>>
        /\ pc[h] \in {"pop", "use"} /\ pc'[h] \in {"remove", "use"}
        /\ \A g \in Handler : g # h => pc'[g] = pc[g]
      BY <1>10 DEF PopCompletion, UseCompletion, TypeOK
  <2> QED BY <1>inv, <1>fresh, <2>1 DEF ArmInv, ArmAt, Announced
<1>11. CASE UNCHANGED vars
    BY <1>11 DEF vars, ArmInv, ArmAt, Announced
<1> QED BY <1>1, <1>2, <1>3, <1>4, <1>5, <1>6, <1>7, <1>8, <1>9, <1>10, <1>11
        DEF Next, HandlerStep

-----------------------------------------------------------------------------
(* The theorems *)

\* The constructors establish the invariant.
LEMMA InitInv == Init => IInv
<1> SUFFICES ASSUME Init PROVE IInv
    OBVIOUS
<1>0. MaxCompletions \in Nat /\ NoQueue \notin Queue
    BY QueueAssumption
<1>1. TypeOK
    BY <1>0 DEF Init, TypeOK, Slot, PC
<1>2. HandlerInv /\ SharedInv /\ DeviceInv /\ ArmInv
    BY <1>0 DEF Init, HandlerInv, SharedInv, DeviceInv, ArmInv, ArmAt
<1>3. \A q \in Queue : AtPop(q) = {} /\ Carrying(q) = {}
    BY <1>0 DEF Init, AtPop, Carrying
<1>4. CountInv
  <2>1. \A q \in Queue : num[q] = 0 /\ next[q] = 0 /\ Len(cq[q]) = 0 /\ made[q] = 0
      BY DEF Init
  <2>2. \A q \in Queue : Cardinality(AtPop(q)) = 0
      BY <1>3, FS_EmptySet
  <2>3. \A h \in Handler : pc[h] # "use"
      BY DEF Init
  <2> QED BY <2>1, <2>2, <2>3 DEF CountInv
<1>5. DrainInv
    BY <1>3 DEF Init, DrainInv, DrainAt, Taken
<1> QED BY <1>1, <1>2, <1>4, <1>5 DEF IInv

\* Every reachable state satisfies the inductive invariant.
THEOREM Invariance == Spec => []IInv
<1>1. IInv /\ [Next]_vars => IInv'
    BY TypeStep, DeviceStep, SharedStep, CountStep, DrainStep, ArmStep DEF IInv
<1> QED BY <1>1, InitInv, PTL DEF Spec

\* The state of the queues, of the channel and of the handlers is always well
\* typed: in particular the indices of a queue are never negative and a handler
\* never reads beyond the memory at _completions.
THEOREM TypeCorrect == Spec => []TypeOK
<1>1. IInv => TypeOK
    BY DEF IInv
<1> QED BY <1>1, Invariance, PTL

\* A queue that no two handlers drain at the same time never outgrows its array,
\* whatever the length of the array: it holds at most one completion.
THEOREM ArrayCorrect == Spec => []ArrayInBounds
<1>1. IInv => ArrayInBounds
  <2> SUFFICES ASSUME IInv, NEW q \in Queue \ shared
               PROVE  num[q] <= MaxQueueSize
      BY DEF ArrayInBounds
  <2>1. next[q] = 0
      BY DEF IInv, DrainInv, DrainAt
  <2>2. num[q] = next[q] + Cardinality(AtPop(q))
      BY DEF IInv, CountInv
  <2>3. Cardinality(AtPop(q)) <= 1
    <3>1. CASE AtPop(q) = {}
        BY <3>1, FS_EmptySet
    <3>2. CASE AtPop(q) # {}
      <4>1. PICK h \in Handler : AtPop(q) = {h}
          BY <3>2 DEF IInv, SharedInv, AtPop
      <4>2. Cardinality(AtPop(q)) = 1
          BY <4>1, FS_Singleton
      <4> QED BY ONLY <4>2
    <3> QED BY <3>1, <3>2
  <2>4. MaxQueueSize \in Nat \ {0} /\ Cardinality(AtPop(q)) \in Nat
      BY QueueAssumption, FS_Subset, FS_CardinalityType DEF AtPop
  <2> QED BY ONLY <2>1, <2>2, <2>3, <2>4
<1> QED BY <1>1, Invariance, PTL

\* The handlers of a queue that no two of them drain at the same time read its
\* completions once each and in the device's order.
THEOREM OrderCorrect == Spec => []HandledInOrder
<1>1. IInv => HandledInOrder
  <2> SUFFICES ASSUME IInv, NEW q \in Queue \ shared
               PROVE  /\ Len(handled[q]) <= made[q]
                      /\ \A i \in 1..Len(handled[q]) : handled[q][i] = i
      BY DEF HandledInOrder
  <2>1. DrainAt(q)
      BY DEF IInv, DrainInv
  <2>2. Len(handled[q]) = Taken(q) \/ Len(handled[q]) + 1 = Taken(q)
      BY <2>1 DEF DrainAt
  <2>3. made[q] \in 0..MaxCompletions /\ Len(cq[q]) \in Nat /\ Len(handled[q]) \in Nat
      BY DEF IInv, TypeOK
  <2>4. Len(handled[q]) <= made[q]
      BY <2>2, <2>3, QueueAssumption DEF Taken
  <2> QED BY <2>1, <2>4 DEF DrainAt
<1> QED BY <1>1, Invariance, PTL

\* A registered queue on which no call failed never holds completions that
\* neither an event nor a handler will lead to: getEvent arms the queue before it
\* is drained.
THEOREM EventsCorrect == Spec => []NoMissedEvent
<1>1. IInv => NoMissedEvent
    BY DEF IInv, ArmInv, ArmAt, Announced, NoMissedEvent
<1> QED BY <1>1, Invariance, PTL
=============================================================================
