\* Two handler threads and two queues.
CONSTANTS
    Handler = {h1, h2}
    Queue = {q1, q2}
    NoQueue = NoQueue
    MaxQueueSize = 2
    MaxCompletions = 4
SPECIFICATION Spec
CHECK_DEADLOCK FALSE
INVARIANTS
    TypeOK
    ArrayInBounds
    HandledInOrder
    NoMissedEvent
