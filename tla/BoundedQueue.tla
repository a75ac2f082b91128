--------------------------- MODULE BoundedQueue ---------------------------
(* What a message queue promises, whoever its threads are: a bounded first-in *)
(* first-out store between inputs and consumers.  A message is put in once,   *)
(* taken out in order, and then finished, put back at the end, or given up.   *)
EXTENDS Integers, Sequences, FiniteSets

CONSTANTS Messages, Capacity

VARIABLES
    queue,      \* messages that wait, oldest first
    taken,      \* messages with a consumer
    finished,   \* messages a consumer is done with
    lost        \* messages given up

vars == <<queue, taken, finished, lost>>

Queued == {queue[i] : i \in DOMAIN queue}

\* Messages no operation has touched
Fresh == Messages \ (Queued \cup taken \cup finished \cup lost)

Init == queue = <<>> /\ taken = {} /\ finished = {} /\ lost = {}

\* A capacity of 0 is no limit.
HasRoom == Capacity > 0 => Len(queue) + Cardinality(taken) < Capacity

\* doEnqSingleObj stores a new message, if there is room for it.
Put(m) ==
    /\ m \in Fresh
    /\ HasRoom
    /\ queue' = Append(queue, m)
    /\ UNCHANGED <<taken, finished, lost>>

\* doEnqSingleObj refuses one or, when inputs terminate, several new messages.
Refuse(ms) ==
    /\ ms \subseteq Fresh
    /\ lost' = lost \cup ms
    /\ UNCHANGED <<queue, taken, finished>>

\* DequeueConsumableElements hands the oldest message to a consumer,
Take ==
    /\ queue # <<>>
    /\ queue' = Tail(queue)
    /\ taken' = taken \cup {Head(queue)}
    /\ UNCHANGED <<finished, lost>>

\* or discards it.
Discard ==
    /\ queue # <<>>
    /\ queue' = Tail(queue)
    /\ lost' = lost \cup {Head(queue)}
    /\ UNCHANGED <<taken, finished>>

\* The consumer is done with m.
Finish(m) ==
    /\ m \in taken
    /\ taken' = taken \ {m}
    /\ finished' = finished \cup {m}
    /\ UNCHANGED <<queue, lost>>

\* DeleteProcessedBatch puts m back,
PutBack(m) ==
    /\ m \in taken
    /\ taken' = taken \ {m}
    /\ queue' = Append(queue, m)
    /\ UNCHANGED <<finished, lost>>

\* or gives it up.
GiveUp(m) ==
    /\ m \in taken
    /\ taken' = taken \ {m}
    /\ lost' = lost \cup {m}
    /\ UNCHANGED <<queue, finished>>

Next ==
    \/ \E m \in Messages : Put(m) \/ Finish(m) \/ PutBack(m) \/ GiveUp(m)
    \/ \E ms \in SUBSET Messages : Refuse(ms)
    \/ Take
    \/ Discard

Spec == Init /\ [][Next]_vars
=============================================================================
