-------------------------- MODULE CompletionEvents --------------------------
(***************************************************************************)
(* Event-driven completions: RdmaCompletionQueue's array of completions    *)
(* taken from the device, RdmaCompletionChannel, and the loop of           *)
(* RdmaController::completionChannelHandler that drains a queue when the   *)
(* channel reports an event for it.                                        *)
(*                                                                         *)
(* The device (external) reports at most one event per arming: the first   *)
(* completion added after ibv_req_notify_cq puts an event on the channel   *)
(* and disarms the queue.  The completions of a queue are numbered in the  *)
(* order in which the device adds them.                                    *)
(***************************************************************************)
EXTENDS Integers, Sequences, FiniteSets

CONSTANTS
    Handler,          \* the threads that run completionChannelHandler
    Queue,            \* the completion queues
    NoQueue,
    MaxQueueSize,     \* length of the array _completions
    MaxCompletions    \* bound: completions of any two queues

ASSUME QueueAssumption ==
    /\ IsFiniteSet(Handler)
    /\ NoQueue \notin Queue
    /\ MaxQueueSize \in Nat \ {0}
    /\ MaxCompletions \in Nat \ {0}

VARIABLES
    cq,       \* queue -> completions in the device's queue, oldest first
    made,     \* queue -> number of completions the device has added so far
    armed,    \* queue -> the device will report the next completion
    events,   \* events on the completion channel, oldest first
    queues,   \* _queues: queues known to the channel
    slots,    \* queue -> memory at _completions, the array and what follows it
    num,      \* queue -> _numCompletions
    next,     \* queue -> _nextCompletion
    pc, hq,   \* handler -> where it is, the queue it drains
    ptr,      \* handler -> index of the slot popCompletion returned
    handled,  \* queue -> completions read by handlers, in order
    failed,   \* queues on which a call of the verbs library failed
    shared    \* history: queues two handlers have drained at the same time

vars == <<cq, made, armed, events, queues, slots, num, next, pc, hq, ptr, handled,
          failed, shared>>

queueVars   == <<slots, num, next>>
deviceVars  == <<cq, made, armed>>
handlerVars == <<pc, hq, ptr>>

Slot == 0 .. MaxCompletions

PC == {"idle", "arm", "remove", "pop", "use"}

\* The constructors: each queue is armed once it is created.
Init ==
    /\ cq = [q \in Queue |-> <<>>]
    /\ made = [q \in Queue |-> 0]
    /\ armed = [q \in Queue |-> TRUE]
    /\ events = <<>>
    /\ queues = {}
    /\ slots = [q \in Queue |-> [i \in Slot |-> 0]]
    /\ num = [q \in Queue |-> 0]
    /\ next = [q \in Queue |-> 0]
    /\ pc = [h \in Handler |-> "idle"]
    /\ hq = [h \in Handler |-> NoQueue]
    /\ ptr = [h \in Handler |-> 0]
    /\ handled = [q \in Queue |-> <<>>]
    /\ failed = {}
    /\ shared = {}

-----------------------------------------------------------------------------
(* The device *)

\* A work request completes; requests are posted once the queue is registered.
WorkCompletes(q) ==
    /\ \A p \in Queue : made[q] + (IF p = q THEN 0 ELSE made[p]) < MaxCompletions
    /\ q \in queues
    /\ made' = [made EXCEPT ![q] = @ + 1]
    /\ cq' = [cq EXCEPT ![q] = Append(@, made'[q])]
    /\ events' = IF armed[q] THEN Append(events, q) ELSE events
    /\ armed' = [armed EXCEPT ![q] = FALSE]
    /\ UNCHANGED <<queues, queueVars, handlerVars, handled, failed, shared>>

-----------------------------------------------------------------------------
(* RdmaCompletionChannel *)

AddCompletionQ(q) ==
    /\ q \notin queues
    /\ made[q] = 0
    /\ queues' = queues \cup {q}
    /\ UNCHANGED <<deviceVars, events, queueVars, handlerVars, handled, failed, shared>>

\* A handler may be at work on the queue: it goes on with the pointer it has.
RemoveCompletionQ(q) ==
    /\ q \in queues
    /\ queues' = queues \ {q}
    /\ UNCHANGED <<deviceVars, events, queueVars, handlerVars, handled, failed, shared>>

\* getEvent up to ackEvents: the handler blocks until there is an event.
GetEvent(h) ==
    /\ pc[h] = "idle"
    /\ events # <<>>
    /\ Head(events) \in queues
    /\ events' = Tail(events)
    /\ hq' = [hq EXCEPT ![h] = Head(events)]
    /\ pc' = [pc EXCEPT ![h] = "arm"]
    /\ shared' = IF \E g \in Handler : hq[g] = Head(events)
                 THEN shared \cup {Head(events)} ELSE shared
    /\ UNCHANGED <<deviceVars, queues, queueVars, ptr, handled, failed>>

\* The queue is not in _queues: the exception ends the handler, the event is
\* neither acknowledged nor is the queue armed again.
GetEventUnknown(h) ==
    /\ pc[h] = "idle"
    /\ events # <<>>
    /\ Head(events) \notin queues
    /\ events' = Tail(events)
    /\ UNCHANGED <<deviceVars, queues, queueVars, handlerVars, handled, failed, shared>>

\* mutant: the queue is not armed again.
RequestEventNever(h) ==
    /\ pc[h] = "arm"
    /\ pc' = [pc EXCEPT ![h] = "remove"]
    /\ UNCHANGED <<cq, made, armed, events, queues, queueVars, hq, ptr, handled, failed, shared>>

\* The last step of getEvent, before the queue is drained.
RequestEvent(h) ==
    /\ pc[h] = "arm"
    /\ armed' = [armed EXCEPT ![hq[h]] = TRUE]
    /\ pc' = [pc EXCEPT ![h] = "remove"]
    /\ UNCHANGED <<cq, made, events, queues, queueVars, hq, ptr, handled, failed, shared>>

\* ibv_req_notify_cq or ibv_poll_cq fails: the exception ends the handler.
CallFails(h) ==
    /\ pc[h] \in {"arm", "remove"}
    /\ failed' = failed \cup {hq[h]}
    /\ pc' = [pc EXCEPT ![h] = "idle"]
    /\ hq' = [hq EXCEPT ![h] = NoQueue]
    /\ UNCHANGED <<deviceVars, events, queues, queueVars, ptr, handled, shared>>

-----------------------------------------------------------------------------
(* RdmaCompletionQueue; both operations run under completion_mutex *)

\* removeCompletions(1) finds an entry and puts it behind the others.
RemoveCompletion(h) ==
    LET q == hq[h]
    IN  /\ pc[h] = "remove"
        /\ cq[q] # <<>>
        /\ slots' = [slots EXCEPT ![q][num[q]] = Head(cq[q])]
        /\ cq' = [cq EXCEPT ![q] = Tail(@)]
        /\ num' = [num EXCEPT ![q] = @ + 1]
        /\ pc' = [pc EXCEPT ![h] = "pop"]
        /\ UNCHANGED <<made, armed, events, queues, next, hq, ptr, handled, failed, shared>>

\* mutant: an error of ibv_poll_cq, -1, is taken for a number of entries.
RemoveNothingUnchecked(h) ==
    LET q == hq[h]
    IN  /\ pc[h] = "remove"
        /\ cq[q] = <<>>
        /\ num' = [num EXCEPT ![q] = @ - 1]
        /\ pc' = [pc EXCEPT ![h] = "idle"]
        /\ hq' = [hq EXCEPT ![h] = NoQueue]
        /\ UNCHANGED <<deviceVars, events, queues, slots, next, ptr, handled, failed, shared>>

\* removeCompletions finds nothing: the handler is done.
RemoveNothing(h) ==
    LET q == hq[h]
    IN  /\ pc[h] = "remove"
        /\ cq[q] = <<>>
        /\ pc' = [pc EXCEPT ![h] = "idle"]
        /\ hq' = [hq EXCEPT ![h] = NoQueue]
        /\ UNCHANGED <<deviceVars, events, queues, slots, num, next, ptr, handled, failed, shared>>

\* mutant: the indices are not reset when the last completion is popped.
PopCompletionNoReset(h) ==
    LET q == hq[h]
    IN  /\ pc[h] = "pop"
        /\ ptr' = [ptr EXCEPT ![h] = next[q]]
        /\ next' = [next EXCEPT ![q] = @ + 1]
        /\ pc' = [pc EXCEPT ![h] = "use"]
        /\ UNCHANGED <<deviceVars, events, queues, slots, num, hq, handled, failed, shared>>

\* mutant: the index is incremented before the slot is chosen.
PopCompletionLate(h) ==
    LET q == hq[h]
        last == next[q] + 1 = num[q]
    IN  /\ pc[h] = "pop"
        /\ ptr' = [ptr EXCEPT ![h] = next[q] + 1]
        /\ next' = [next EXCEPT ![q] = IF last THEN 0 ELSE @ + 1]
        /\ num' = [num EXCEPT ![q] = IF last THEN 0 ELSE @]
        /\ pc' = [pc EXCEPT ![h] = "use"]
        /\ UNCHANGED <<deviceVars, events, queues, slots, hq, handled, failed, shared>>

\* popCompletion returns a pointer into the array.  A handler calls it after it
\* removed a completion, so there is one to pop.
PopCompletion(h) ==
    LET q == hq[h]
        last == next[q] + 1 = num[q]
    IN  /\ pc[h] = "pop"
        /\ ptr' = [ptr EXCEPT ![h] = next[q]]
        /\ next' = [next EXCEPT ![q] = IF last THEN 0 ELSE @ + 1]
        /\ num' = [num EXCEPT ![q] = IF last THEN 0 ELSE @]
        /\ pc' = [pc EXCEPT ![h] = "use"]
        /\ UNCHANGED <<deviceVars, events, queues, slots, hq, handled, failed, shared>>

\* The handler reads what the pointer points to, outside the mutex.
UseCompletion(h) ==
    LET q == hq[h]
    IN  /\ pc[h] = "use"
        /\ handled' = [handled EXCEPT ![q] = Append(@, slots[q][ptr[h]])]
        /\ pc' = [pc EXCEPT ![h] = "remove"]
        /\ UNCHANGED <<deviceVars, events, queues, queueVars, hq, ptr, failed, shared>>

-----------------------------------------------------------------------------
HandlerStep(h) ==
    \/ GetEvent(h) \/ GetEventUnknown(h) \/ RequestEvent(h) \/ CallFails(h)
    \/ RemoveCompletion(h) \/ RemoveNothing(h)
    \/ PopCompletion(h) \/ UseCompletion(h)

Next ==
    \/ \E h \in Handler : HandlerStep(h)
    \/ \E q \in Queue : WorkCompletes(q) \/ AddCompletionQ(q) \/ RemoveCompletionQ(q)

\* No fairness: completionChannelHandler is private and nothing in the controller
\* calls it, so nothing can be said of when it runs.
Spec == Init /\ [][Next]_vars

-----------------------------------------------------------------------------
\* The types of the state: the indices into the array are never negative.
TypeOK ==
    /\ cq \in [Queue -> Seq(1..MaxCompletions)]
    /\ made \in [Queue -> 0..MaxCompletions]
    /\ armed \in [Queue -> BOOLEAN]
    /\ events \in Seq(Queue)
    /\ queues \subseteq Queue
    /\ slots \in [Queue -> [Slot -> 0..MaxCompletions]]
    /\ num \in [Queue -> Nat]
    /\ next \in [Queue -> Nat]
    /\ pc \in [Handler -> PC]
    /\ hq \in [Handler -> Queue \cup {NoQueue}]
    /\ ptr \in [Handler -> Nat]
    /\ handled \in [Queue -> Seq(0..MaxCompletions)]
    /\ failed \subseteq Queue
    /\ shared \subseteq Queue

\* removeCompletions has no test against the length of the array: what keeps it
\* inside is that the indices go back to zero whenever the queue is drained.
\* Two handlers that drain one queue in turns never let it become empty; as long
\* as no two do, the array suffices.
ArrayInBounds == \A q \in Queue \ shared : num[q] <= MaxQueueSize

\* Every completion reaches a handler once, in the order of the device,
\* although popCompletion returns a pointer to a slot that is reused.  "The
\* completion queue isn't yet thread safe, so only allow one thread at a time to
\* pop a completion" (completionChannelHandler), but nothing enforces it: only a
\* queue that two handlers drain at the same time may lose a completion.
HandledInOrder ==
    \A q \in Queue \ shared :
        /\ Len(handled[q]) <= made[q]
        /\ \A i \in 1..Len(handled[q]) : handled[q][i] = i

\* No event is missed between draining and arming: a registered queue that holds
\* completions has an event on the channel or a handler that will look again,
\* unless the device failed on it.
NoMissedEvent ==
    \A q \in queues \ failed :
        cq[q] # <<>> => \/ \E i \in 1..Len(events) : events[i] = q
                        \/ \E h \in Handler : hq[h] = q
=============================================================================
