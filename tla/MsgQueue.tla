----------------------------- MODULE MsgQueue -----------------------------
(* The in-memory message queue of rsyslog (a qqueue_t of type LinkedList or   *)
(* FixedArray): the threads that enqueue, with their flow control, the worker *)
(* threads that dequeue batches, hand them to the consumer and put back what  *)
(* the consumer left over, and the phases of queue shutdown.                  *)
(*                                                                            *)
(* Every step between a lock and an unlock of the queue mutex is an action    *)
(* that requires mut to be the thread's own; a condition wait releases mut.   *)
(* The store has two parts: the entries between its delete and its dequeue    *)
(* pointer (pDelRoot and pDeqRoot of the linked list, head and deqhead of the *)
(* ring), which only take up room, are counted by nOut; the entries behind    *)
(* the dequeue pointer are the sequence pend.                                 *)
EXTENDS Integers, Sequences, FiniteSets

CONSTANTS
    Producers,          \* threads that enqueue messages
    NumWorkers,         \* iNumWorkerThreads; the pool's threads are started
    NoThread,           \* value of mut while no thread holds the mutex
    MaxMsgs,            \* bound: messages submitted in a behaviour
    MaxMulti,           \* bound: messages in one multi-submit
    MaxFail,            \* bound: times a consumer leaves a message unprocessed
    LowSev,             \* messages whose severity is iDiscardSeverity or above
    IsMainQueue,        \* consumer: msgConsumer (TRUE), processBatchMain (FALSE)
    iMaxQueueSize,      \* 0: no limit
    iDeqBatchSize, iMinDeqBatchSize, iMinMsgsPerWrkr,
    iFullDlyMrk, iLightDlyMrk, iDiscardMrk, iSmpInterval,
    toEnq               \* 0: drop at once when full

Workers == 0 .. NumWorkers - 1
Msgs == 1 .. MaxMsgs

ASSUME QueueAssumption ==
    /\ NumWorkers \in Nat \ {0}
    /\ MaxMsgs \in Nat /\ MaxMulti \in Nat /\ MaxFail \in Nat
    /\ LowSev \subseteq Msgs
    /\ IsMainQueue \in BOOLEAN
    /\ iMaxQueueSize \in Nat
    /\ iDeqBatchSize \in Nat \ {0}
    /\ iMinDeqBatchSize \in Nat /\ iMinMsgsPerWrkr \in Nat
    /\ iFullDlyMrk \in Int /\ iLightDlyMrk \in Int /\ iDiscardMrk \in Int
    /\ iSmpInterval \in Nat /\ toEnq \in Nat

ASSUME ThreadAssumption ==
    /\ NoThread \notin Producers \cup Workers
    /\ Producers \cap Workers = {}

VARIABLES
    pend, nOut,                 \* the store
    iQueueSize, nLogDeq,        \* the queue object's counters
    mut,                        \* the queue mutex
    nSub, todo, ppc,            \* producers: messages to enqueue, control state
    wpc, batch, idx, stop, keep,\* workers: control state, batch, loop index,
                                \* terminateRet, keep_running
    spc, wtpState,              \* the thread that shuts the queue down
    bEnqOnly, bShutdownImmediate,
    inputTerm,                  \* the global input termination state
    nProc, gone, nFail          \* what became of each message

store == <<pend, nOut, iQueueSize, nLogDeq>>
producer == <<nSub, todo, ppc>>
worker == <<wpc, batch, idx, stop, keep>>
control == <<spc, wtpState, bEnqOnly, bShutdownImmediate, inputTerm>>
history == <<nProc, gone, nFail>>
vars == <<store, mut, producer, worker, control, history>>

\* What became of a message that will not be processed: "refused" before it was
\* ever stored, "discarded" or "dropped" after that.
Fates == {"none", "refused", "discarded", "dropped"}
Elements == [msg: Msgs, st: {"RDY", "COMM"}]

StoreType ==
    /\ pend \in Seq(Msgs) /\ nOut \in Nat
    /\ iQueueSize \in Nat /\ nLogDeq \in Nat

ProducerType ==
    /\ nSub \in 0 .. MaxMsgs
    /\ todo \in [Producers -> Seq(Msgs)]
    /\ ppc \in [Producers -> {"idle", "enq", "fullDelay", "lightDelay", "store",
                              "notFull", "woken", "advise"}]

WorkerType ==
    /\ wpc \in [Workers -> {"loop", "delete", "restore", "reenqWait", "reenqWoken",
                            "dequeue", "minWait", "minWoken", "idle", "consume",
                            "mark", "done"}]
    /\ batch \in [Workers -> Seq(Elements)]
    /\ idx \in [Workers -> Nat \ {0}]
    /\ stop \in [Workers -> {"no", "idle", "now"}]
    /\ keep \in [Workers -> BOOLEAN]

ControlType ==
    /\ spc \in {"run", "drain", "enqonly", "flagging", "flagged", "immediate", "end"}
    /\ wtpState \in {"RUNNING", "SHUTDOWN", "SHUTDOWN_IMMEDIATE"}
    /\ bEnqOnly \in BOOLEAN /\ bShutdownImmediate \in BOOLEAN
    /\ inputTerm \in BOOLEAN

HistoryType ==
    /\ nProc \in [Msgs -> Nat]
    /\ gone \in [Msgs -> Fates]
    /\ nFail \in Nat

TypeOK ==
    /\ StoreType /\ ProducerType /\ WorkerType /\ ControlType /\ HistoryType
    /\ mut \in Producers \cup Workers \cup {NoThread}

Init ==
    /\ pend = <<>> /\ nOut = 0
    /\ iQueueSize = 0 /\ nLogDeq = 0
    /\ mut = NoThread
    /\ nSub = 0
    /\ todo = [p \in Producers |-> <<>>]
    /\ ppc = [p \in Producers |-> "idle"]
    /\ wpc = [w \in Workers |-> "loop"]
    /\ batch = [w \in Workers |-> <<>>]
    /\ idx = [w \in Workers |-> 1]
    /\ stop = [w \in Workers |-> "no"]
    /\ keep = [w \in Workers |-> TRUE]
    /\ spc = "run" /\ wtpState = "RUNNING"
    /\ bEnqOnly = FALSE /\ bShutdownImmediate = FALSE /\ inputTerm = FALSE
    /\ nProc = [m \in Msgs |-> 0]
    /\ gone = [m \in Msgs |-> "none"]
    /\ nFail = 0
---------------------------------------------------------------------------
(* Helpers shared by producers and workers.                                   *)

getLogicalQueueSize == iQueueSize - nLogDeq

\* qqueueChkDiscardMsg: the queue is nearly full and the message unimportant
ChkDiscardMsg(m) ==
    iDiscardMrk > 0 /\ iQueueSize >= iDiscardMrk /\ m \in LowSev

QueueFull == iMaxQueueSize > 0 /\ iQueueSize >= iMaxQueueSize

qqueueAddInFront(m) ==
    /\ pend' = <<m>> \o pend
    /\ iQueueSize' = iQueueSize + 1
    /\ UNCHANGED <<nOut, nLogDeq>>

\* The driver stores m and the queue counts it.
qqueueAdd(m) ==
    /\ pend' = Append(pend, m)
    /\ iQueueSize' = iQueueSize + 1
    /\ UNCHANGED <<nOut, nLogDeq>>

\* qqueueAdd drops what is not sampled.  msgCnt is shared by all queues of the
\* process and guarded by no common lock, so any message may be the one dropped.
SampledOut == iSmpInterval > 1

\* A signal on pcondBusy: only a worker that waits on it notices.
Busy(pc) ==
    CASE pc = "idle" -> "loop"
      [] pc = "minWait" -> "minWoken"
      [] OTHER -> pc

Wake(ws) == wpc' = [w \in Workers |-> IF w \in ws THEN Busy(wpc[w]) ELSE wpc[w]]

AdvisedWorkersRoundedDown ==
    IF bEnqOnly \/ iMinMsgsPerWrkr = 0 THEN 0
    ELSE getLogicalQueueSize \div iMinMsgsPerWrkr

\* qqueueAdviseMaxWorkers and the signal loop of wtpAdviseMaxWorkers: the number
\* of workers, in table order, that are told there is work.
AdvisedWorkers ==
    IF bEnqOnly \/ getLogicalQueueSize = 0 THEN 0
    ELSE IF iMinMsgsPerWrkr = 0 THEN 1
    ELSE getLogicalQueueSize \div iMinMsgsPerWrkr + 1
---------------------------------------------------------------------------
(* Producers: qqueueEnqMsg (one message) and qqueueMultiEnqObjNonDirect        *)
(* (several) under one lock of the mutex; doEnqSingleObj for each message.     *)

\* The call starts: messages numbered in order of submission, mutex taken.
Submit(p) ==
    /\ ppc[p] = "idle" /\ mut = NoThread
    /\ spc # "end"
    /\ \E k \in 1 .. MaxMulti :
          /\ nSub + k <= MaxMsgs
          /\ nSub' = nSub + k
          /\ todo' = [todo EXCEPT ![p] = [i \in 1 .. k |-> nSub + i]]
    /\ ppc' = [ppc EXCEPT ![p] = "enq"]
    /\ mut' = p
    /\ UNCHANGED <<store, worker, control, history>>

\* doEnqSingleObj is done with the first message of todo; the caller goes on to
\* the next one or to its finalize_it.
Finish(p) ==
    /\ todo' = [todo EXCEPT ![p] = Tail(@)]
    /\ ppc' = [ppc EXCEPT ![p] = IF Len(todo[p]) > 1 THEN "enq" ELSE "advise"]
    /\ mut' = p
    /\ UNCHANGED nSub

Refuse(m) ==
    /\ gone' = [gone EXCEPT ![m] = "refused"]
    /\ UNCHANGED <<nProc, nFail>>

\* doEnqSingleObj up to its flow control waits.  The source of the message
\* decides on the flow control type.
EnqEntry(p) ==
    /\ ppc[p] = "enq" /\ mut = p
    /\ \/ /\ ChkDiscardMsg(Head(todo[p]))
          /\ Refuse(Head(todo[p]))
          /\ Finish(p)
          /\ UNCHANGED <<store, worker, control>>
       \/ /\ ~ChkDiscardMsg(Head(todo[p]))
          /\ \E pc \in {"fullDelay", "lightDelay", "store"} :
                /\ pc = "fullDelay" => iQueueSize >= iFullDlyMrk /\ ~inputTerm
                /\ pc = "lightDelay" => iQueueSize >= iLightDlyMrk /\ ~inputTerm
                /\ ppc' = [ppc EXCEPT ![p] = pc]
                /\ mut' = IF pc = "store" THEN p ELSE NoThread
          /\ UNCHANGED <<store, nSub, todo, worker, control, history>>

FullDelayWakeBelowMark(p) ==
    /\ ppc[p] = "fullDelay" /\ mut = NoThread
    /\ iQueueSize < iFullDlyMrk
    /\ ppc' = [ppc EXCEPT ![p] = "store"]
    /\ mut' = p
    /\ UNCHANGED <<store, nSub, todo, worker, control, history>>

\* A full-delayable producer leaves its loop of 1-second waits once the queue is
\* below the mark or inputs terminate; before that a wakeup changes nothing.
FullDelayWake(p) ==
    /\ ppc[p] = "fullDelay" /\ mut = NoThread
    /\ iQueueSize < iFullDlyMrk \/ inputTerm
    /\ ppc' = [ppc EXCEPT ![p] = "store"]
    /\ mut' = p
    /\ UNCHANGED <<store, nSub, todo, worker, control, history>>

\* A light-delayable producer waits once, at most a second, and goes on.
LightDelayWake(p) ==
    /\ ppc[p] = "lightDelay" /\ mut = NoThread
    /\ ppc' = [ppc EXCEPT ![p] = "store"]
    /\ mut' = p
    /\ UNCHANGED <<store, nSub, todo, worker, control, history>>

\* One pass of doEnqSingleObj's "queue FULL" loop, and qqueueAdd behind it.  With
\* inputs terminating, a full queue makes the call return RS_RET_FORCE_TERM and
\* the caller give up the rest of its messages.
EnqStore(p) ==
    /\ ppc[p] = "store" /\ mut = p
    /\ \/ /\ QueueFull /\ (toEnq = 0 \/ bEnqOnly)
          /\ Refuse(Head(todo[p]))
          /\ Finish(p)
          /\ UNCHANGED store
       \/ /\ QueueFull /\ toEnq # 0 /\ ~bEnqOnly /\ inputTerm
          /\ gone' = [m \in Msgs |-> IF \E i \in DOMAIN todo[p] : todo[p][i] = m
                                     THEN "refused" ELSE gone[m]]
          /\ todo' = [todo EXCEPT ![p] = <<>>]
          /\ ppc' = [ppc EXCEPT ![p] = "advise"]
          /\ UNCHANGED <<store, mut, nSub, nProc, nFail>>
       \/ /\ QueueFull /\ toEnq # 0 /\ ~bEnqOnly /\ ~inputTerm
          /\ ppc' = [ppc EXCEPT ![p] = "notFull"]
          /\ mut' = NoThread
          /\ UNCHANGED <<store, nSub, todo, history>>
       \/ /\ ~QueueFull
          /\ qqueueAdd(Head(todo[p]))
          /\ Finish(p)
          /\ UNCHANGED history
       \/ /\ ~QueueFull /\ SampledOut
          /\ Refuse(Head(todo[p]))
          /\ Finish(p)
          /\ UNCHANGED store
    /\ UNCHANGED <<worker, control>>

\* The wait on notFull ends by a signal: test the queue again.
NotFullSignalled(p) ==
    /\ ppc[p] = "woken" /\ mut = NoThread
    /\ ppc' = [ppc EXCEPT ![p] = "store"]
    /\ mut' = p
    /\ UNCHANGED <<store, nSub, todo, worker, control, history>>

\* The wait on notFull ends by ETIMEDOUT: the message is dropped, without
\* another look at the queue.
NotFullTimeout(p) ==
    /\ ppc[p] = "notFull" /\ mut = NoThread
    /\ Refuse(Head(todo[p]))
    /\ Finish(p)
    /\ UNCHANGED <<store, worker, control>>

\* finalize_it of the enqueue functions
Advise(p) ==
    /\ ppc[p] = "advise" /\ mut = p
    /\ Wake({w \in Workers : w < AdvisedWorkers})
    /\ ppc' = [ppc EXCEPT ![p] = "idle"]
    /\ mut' = NoThread
    /\ UNCHANGED <<store, nSub, todo, batch, idx, stop, keep, control, history>>
---------------------------------------------------------------------------
(* Workers: the loop of wtiWorker with ConsumerReg, for a queue that is not     *)
(* the disk child of another one.                                              *)

\* wtpChkStopWrkr with ChkStopWrkrReg
ChkStopWrkr ==
    IF wtpState = "SHUTDOWN_IMMEDIATE" THEN "now"
    ELSE IF wtpState = "SHUTDOWN" THEN "idle"
    ELSE IF bEnqOnly THEN "now" ELSE "no"

\* Head of the loop.  Whether it terminates now or asks for more work, the worker
\* first deletes its previous batch.
WorkerLoop(w) ==
    /\ wpc[w] = "loop" /\ mut = NoThread
    /\ stop' = [stop EXCEPT ![w] = ChkStopWrkr]
    /\ idx' = [idx EXCEPT ![w] = 1]
    /\ wpc' = [wpc EXCEPT ![w] = "delete"]
    /\ mut' = w
    /\ UNCHANGED <<store, producer, batch, keep, control, history>>

Element(w) == batch[w][idx[w]]

\* DeleteProcessedBatch goes to the next element of the batch.
NextElement(w) ==
    /\ idx' = [idx EXCEPT ![w] = @ + 1]
    /\ wpc' = [wpc EXCEPT ![w] = "delete"]

Lose(m, fate) ==
    /\ gone' = [gone EXCEPT ![m] = fate]
    /\ UNCHANGED <<nProc, nFail>>

DeleteElementForgetting(w) ==
    /\ wpc[w] = "delete" /\ mut = w
    /\ idx[w] <= Len(batch[w])
    /\ NextElement(w)
    /\ UNCHANGED <<store, mut, producer, batch, stop, keep, control, history>>

DeleteElementRestoringAll(w) ==
    /\ wpc[w] = "delete" /\ mut = w
    /\ idx[w] <= Len(batch[w])
    /\ wpc' = [wpc EXCEPT ![w] = "restore"]
    /\ UNCHANGED <<store, mut, producer, batch, idx, stop, keep, control, history>>

\* DeleteProcessedBatch, one element: an element that is not finally processed
\* is passed to doEnqSingleObj, without flow control.
DeleteElement(w) ==
    /\ wpc[w] = "delete" /\ mut = w
    /\ idx[w] <= Len(batch[w])
    /\ \/ /\ Element(w).st # "RDY"
          /\ NextElement(w)
          /\ UNCHANGED history
       \/ /\ Element(w).st = "RDY" /\ ChkDiscardMsg(Element(w).msg)
          /\ Lose(Element(w).msg, "discarded")
          /\ NextElement(w)
       \/ /\ Element(w).st = "RDY" /\ ~ChkDiscardMsg(Element(w).msg)
          /\ wpc' = [wpc EXCEPT ![w] = "restore"]
          /\ UNCHANGED <<idx, history>>
    /\ UNCHANGED <<store, mut, producer, batch, stop, keep, control>>

RestoreElementUnchecked(w) ==
    /\ wpc[w] = "restore" /\ mut = w
    /\ qqueueAdd(Element(w).msg)
    /\ NextElement(w)
    /\ UNCHANGED <<mut, history, producer, batch, stop, keep, control>>

\* One pass of doEnqSingleObj's "queue FULL" loop for a put-back element.  The
\* slots of the worker's own batch still count: they are deleted afterwards.
RestoreElement(w) ==
    /\ wpc[w] = "restore" /\ mut = w
    /\ \/ /\ QueueFull /\ (toEnq = 0 \/ bEnqOnly \/ inputTerm)
          /\ Lose(Element(w).msg, "dropped")
          /\ NextElement(w)
          /\ UNCHANGED <<store, mut>>
       \/ /\ QueueFull /\ toEnq # 0 /\ ~bEnqOnly /\ ~inputTerm
          /\ wpc' = [wpc EXCEPT ![w] = "reenqWait"]
          /\ mut' = NoThread
          /\ UNCHANGED <<store, idx, history>>
       \/ /\ ~QueueFull
          /\ qqueueAdd(Element(w).msg)
          /\ NextElement(w)
          /\ UNCHANGED <<mut, history>>
       \/ /\ ~QueueFull /\ SampledOut
          /\ Lose(Element(w).msg, "dropped")
          /\ NextElement(w)
          /\ UNCHANGED <<store, mut>>
    /\ UNCHANGED <<producer, batch, stop, keep, control>>

RestoreSignalled(w) ==
    /\ wpc[w] = "reenqWoken" /\ mut = NoThread
    /\ wpc' = [wpc EXCEPT ![w] = "restore"]
    /\ mut' = w
    /\ UNCHANGED <<store, producer, batch, idx, stop, keep, control, history>>

RestoreTimeout(w) ==
    /\ wpc[w] = "reenqWait" /\ mut = NoThread
    /\ Lose(Element(w).msg, "dropped")
    /\ NextElement(w)
    /\ mut' = w
    /\ UNCHANGED <<store, producer, batch, stop, keep, control>>

\* The rest of DeleteBatchFromQStore and of the worker's loop head: the batch is
\* reset, and a worker told to terminate now leaves its loop.
ResetBatch(w) ==
    /\ batch' = [batch EXCEPT ![w] = <<>>]
    /\ idx' = [idx EXCEPT ![w] = 1]
    /\ keep' = [keep EXCEPT ![w] = TRUE]
    /\ IF stop[w] = "now"
       THEN wpc' = [wpc EXCEPT ![w] = "done"] /\ mut' = NoThread
       ELSE wpc' = [wpc EXCEPT ![w] = "dequeue"] /\ UNCHANGED mut
    /\ UNCHANGED stop

DeleteBatchKeepingLogDeq(w) ==
    /\ wpc[w] = "delete" /\ mut = w
    /\ idx[w] > Len(batch[w])
    /\ nOut' = nOut - Len(batch[w])
    /\ iQueueSize' = iQueueSize - Len(batch[w])
    /\ ResetBatch(w)
    /\ UNCHANGED <<pend, nLogDeq, producer, control, history>>

DeleteBatchFullSize(w) ==
    /\ wpc[w] = "delete" /\ mut = w
    /\ idx[w] > Len(batch[w])
    /\ nOut' = nOut - Len(batch[w])
    /\ iQueueSize' = iQueueSize - iDeqBatchSize
    /\ nLogDeq' = nLogDeq - Len(batch[w])
    /\ ResetBatch(w)
    /\ UNCHANGED <<pend, producer, control, history>>

DeleteBatchProcessedOnly(w) ==
    LET nElem == Cardinality({i \in DOMAIN batch[w] : batch[w][i].st = "COMM"})
    IN /\ wpc[w] = "delete" /\ mut = w
       /\ idx[w] > Len(batch[w])
       /\ nOut' = nOut - nElem
       /\ iQueueSize' = iQueueSize - nElem
       /\ nLogDeq' = nLogDeq - nElem
       /\ ResetBatch(w)
       /\ UNCHANGED <<pend, producer, control, history>>

\* DeleteBatchFromQStore: as many of the oldest entries of the store are deleted
\* as the batch has elements (nElem).
DeleteBatch(w) ==
    LET nElem == Len(batch[w])
    IN /\ wpc[w] = "delete" /\ mut = w
       /\ idx[w] > nElem
       /\ nOut' = nOut - nElem
       /\ iQueueSize' = iQueueSize - nElem
       /\ nLogDeq' = nLogDeq - nElem
       /\ ResetBatch(w)
       /\ UNCHANGED <<pend, producer, control, history>>

\* The loop condition of DequeueConsumableElements
MoreToDequeue(w) == getLogicalQueueSize > 0 /\ Len(batch[w]) < iDeqBatchSize

\* A batch below its minimum size waits for more messages.
WaitForMore(w, n, logical) ==
    /\ n < iMinDeqBatchSize /\ logical = 0
    /\ keep[w] /\ ~bShutdownImmediate

\* One pass of the loop of DequeueConsumableElements
DequeueElement(w) ==
    LET m == Head(pend)
    IN /\ wpc[w] = "dequeue" /\ mut = w
       /\ MoreToDequeue(w)
       /\ pend' = Tail(pend)
       /\ nOut' = nOut + 1
       /\ nLogDeq' = nLogDeq + 1
       /\ \/ /\ ChkDiscardMsg(m)
             /\ Lose(m, "discarded")
             /\ UNCHANGED <<mut, wpc, batch>>
          \/ /\ ~ChkDiscardMsg(m)
             /\ batch' = [batch EXCEPT ![w] = Append(@, [msg |-> m, st |-> "RDY"])]
             /\ IF WaitForMore(w, Len(batch[w]) + 1, getLogicalQueueSize - 1)
                THEN wpc' = [wpc EXCEPT ![w] = "minWait"] /\ mut' = NoThread
                ELSE UNCHANGED <<wpc, mut>>
             /\ UNCHANGED history
       /\ UNCHANGED <<iQueueSize, producer, idx, stop, keep, control>>

\* The wait for a minimum batch ends, by a signal or by its timeout; after a
\* signal the worker may have to wait on.
MinBatchWake(w) ==
    /\ wpc[w] \in {"minWait", "minWoken"} /\ mut = NoThread
    /\ IF wpc[w] = "minWoken" /\ WaitForMore(w, Len(batch[w]), getLogicalQueueSize)
       THEN wpc' = [wpc EXCEPT ![w] = "minWait"] /\ UNCHANGED <<keep, mut>>
       ELSE /\ wpc' = [wpc EXCEPT ![w] = "dequeue"]
            /\ keep' = [keep EXCEPT ![w] = wpc[w] = "minWoken"]
            /\ mut' = w
    /\ UNCHANGED <<store, producer, batch, idx, stop, control, history>>

NotFullWaiters == {p \in Producers : ppc[p] = "notFull"}
RestoreWaiters == {w \in Workers : wpc[w] = "reenqWait"}

AfterDequeueNoTerm(w) == IF batch[w] # <<>> THEN "consume" ELSE "idle"

\* An empty batch makes the worker idle or, when it is to terminate once idle,
\* leave; otherwise the batch goes to the consumer.
AfterDequeue(w) ==
    IF batch[w] # <<>> THEN "consume"
    ELSE IF stop[w] = "idle" THEN "done" ELSE "idle"

\* The rest of DequeueConsumable, DequeueForConsumer and the worker's loop: one
\* thread that waits for room is signalled.
DequeueDone(w) ==
    LET next == AfterDequeue(w)
    IN /\ wpc[w] = "dequeue" /\ mut = w
       /\ ~MoreToDequeue(w)
       /\ \/ \E p \in NotFullWaiters :
                /\ ppc' = [ppc EXCEPT ![p] = "woken"]
                /\ wpc' = [wpc EXCEPT ![w] = next]
          \/ \E v \in RestoreWaiters :
                /\ wpc' = [wpc EXCEPT ![w] = next, ![v] = "reenqWoken"]
                /\ UNCHANGED ppc
          \/ /\ NotFullWaiters = {} /\ RestoreWaiters = {}
             /\ wpc' = [wpc EXCEPT ![w] = next]
             /\ UNCHANGED ppc
       /\ idx' = [idx EXCEPT ![w] = 1]
       /\ mut' = NoThread
       /\ UNCHANGED <<store, nSub, todo, batch, stop, keep, control, history>>
---------------------------------------------------------------------------
(* The consumer, which runs without the mutex and looks at bShutdownImmediate   *)
(* before each message.                                                        *)

SetElemState(w, st) == batch' = [batch EXCEPT ![w][idx[w]].st = st]

\* The loop condition of both consumers
NextToConsume(w) ==
    /\ wpc[w] = "consume"
    /\ idx[w] <= Len(batch[w]) /\ ~bShutdownImmediate

\* processBatchMain, the consumer of an action queue: a message is processed and
\* marked COMM, or its action is suspended and it stays RDY.
processBatchMain(w) ==
    /\ ~IsMainQueue /\ NextToConsume(w)
    /\ \/ /\ SetElemState(w, "COMM")
          /\ nProc' = [nProc EXCEPT ![Element(w).msg] = @ + 1]
          /\ UNCHANGED nFail
       \/ /\ nFail < MaxFail
          /\ nFail' = nFail + 1
          /\ UNCHANGED <<batch, nProc>>
    /\ idx' = [idx EXCEPT ![w] = @ + 1]
    /\ UNCHANGED <<store, mut, producer, wpc, stop, keep, control, gone>>

\* processBatch, which msgConsumer calls for a main queue: a message is processed and
\* marked COMM or, when its ruleset ends it with a "stop", it is processed and stays
\* RDY for now.  The retry on RS_RET_SUSPENDED is dead code: execAct drops what
\* actions return, and no other statement of scriptExec returns it.
processBatch(w) ==
    /\ IsMainQueue /\ NextToConsume(w)
    /\ \/ SetElemState(w, "COMM")
       \/ UNCHANGED batch
    /\ nProc' = [nProc EXCEPT ![Element(w).msg] = @ + 1]
    /\ idx' = [idx EXCEPT ![w] = @ + 1]
    /\ UNCHANGED <<store, mut, producer, wpc, stop, keep, control, gone, nFail>>

ConsumeEndUnmarked(w) ==
    /\ wpc[w] = "consume"
    /\ idx[w] > Len(batch[w]) \/ bShutdownImmediate
    /\ wpc' = [wpc EXCEPT ![w] = "loop"]
    /\ idx' = [idx EXCEPT ![w] = 1]
    /\ UNCHANGED <<store, mut, producer, batch, stop, keep, control, history>>

\* The consumer returns to the worker loop; msgConsumer first goes through the
\* batch once more.
ConsumeEnd(w) ==
    /\ wpc[w] = "consume"
    /\ idx[w] > Len(batch[w]) \/ bShutdownImmediate
    /\ wpc' = [wpc EXCEPT ![w] = IF IsMainQueue THEN "mark" ELSE "loop"]
    /\ idx' = [idx EXCEPT ![w] = 1]
    /\ UNCHANGED <<store, mut, producer, batch, stop, keep, control, history>>

\* msgConsumer's own loop marks every message COMM.
Mark(w) ==
    /\ wpc[w] = "mark"
    /\ idx[w] <= Len(batch[w]) /\ ~bShutdownImmediate
    /\ SetElemState(w, "COMM")
    /\ idx' = [idx EXCEPT ![w] = @ + 1]
    /\ UNCHANGED <<store, mut, producer, wpc, stop, keep, control, history>>

MarkEnd(w) ==
    /\ wpc[w] = "mark"
    /\ idx[w] > Len(batch[w]) \/ bShutdownImmediate
    /\ wpc' = [wpc EXCEPT ![w] = "loop"]
    /\ idx' = [idx EXCEPT ![w] = 1]
    /\ UNCHANGED <<store, mut, producer, batch, stop, keep, control, history>>
---------------------------------------------------------------------------
(* Shutdown: qqueueShutdownWorkers up to the point where workers that still     *)
(* run would be cancelled.                                                     *)

SetGlobalInputTermination ==
    /\ ~inputTerm
    /\ inputTerm' = TRUE
    /\ UNCHANGED <<store, mut, producer, worker, spc, wtpState, bEnqOnly,
                   bShutdownImmediate, history>>

ShutdownAllUnsignalled(state) ==
    /\ mut = NoThread
    /\ wtpState' = state
    /\ UNCHANGED <<store, mut, producer, worker, history>>

\* wtpShutdownAll up to its wait: the state is set and every worker signalled,
\* under the mutex.
ShutdownAll(state) ==
    /\ mut = NoThread
    /\ wtpState' = state
    /\ Wake(Workers)
    /\ UNCHANGED <<store, mut, producer, batch, idx, stop, keep, history>>

\* tryShutdownWorkersWithinQueueTimeout; deinitAll terminates the inputs first
ShutdownWithinQueueTimeout ==
    /\ spc = "run" /\ inputTerm
    /\ spc' = "drain"
    /\ ShutdownAll("SHUTDOWN")
    /\ UNCHANGED <<bEnqOnly, bShutdownImmediate, inputTerm>>

WorkersDone == \A w \in Workers : wpc[w] = "done"

\* All workers have ended or the queue timeout has passed; qqueueShutdownWorkers
\* reads the physical queue size under the mutex.
DrainEnds ==
    /\ spc = "drain" /\ mut = NoThread
    /\ spc' = IF iQueueSize > 0 THEN "enqonly" ELSE "end"
    /\ UNCHANGED <<store, mut, producer, worker, wtpState, bEnqOnly,
                   bShutdownImmediate, inputTerm, history>>

\* tryShutdownWorkersWithinActionTimeout sets its two flags one after the other and
\* without the mutex,
SetEnqOnly ==
    /\ spc = "enqonly"
    /\ spc' = "flagging"
    /\ bEnqOnly' = TRUE
    /\ UNCHANGED <<store, mut, producer, worker, wtpState, bShutdownImmediate,
                   inputTerm, history>>

SetShutdownImmediate ==
    /\ spc = "flagging"
    /\ spc' = "flagged"
    /\ bShutdownImmediate' = TRUE
    /\ UNCHANGED <<store, mut, producer, worker, wtpState, bEnqOnly, inputTerm, history>>

\* and then calls wtpShutdownAll.
ShutdownWithinActionTimeout ==
    /\ spc = "flagged"
    /\ spc' = "immediate"
    /\ ShutdownAll("SHUTDOWN_IMMEDIATE")
    /\ UNCHANGED <<bEnqOnly, bShutdownImmediate, inputTerm>>

ShutdownEnds ==
    /\ spc = "immediate" /\ WorkersDone
    /\ spc' = "end"
    /\ UNCHANGED <<store, mut, producer, worker, wtpState, bEnqOnly,
                   bShutdownImmediate, inputTerm, history>>

ProducerStep(p) ==
    \/ Submit(p) \/ EnqEntry(p) \/ FullDelayWake(p) \/ LightDelayWake(p)
    \/ EnqStore(p) \/ NotFullSignalled(p) \/ NotFullTimeout(p) \/ Advise(p)

WorkerStep(w) ==
    \/ WorkerLoop(w) \/ DeleteElement(w) \/ RestoreElement(w)
    \/ RestoreSignalled(w) \/ RestoreTimeout(w) \/ DeleteBatch(w)
    \/ DequeueElement(w) \/ MinBatchWake(w) \/ DequeueDone(w)
    \/ processBatchMain(w) \/ processBatch(w) \/ ConsumeEnd(w) \/ Mark(w) \/ MarkEnd(w)

Shutdown ==
    \/ SetGlobalInputTermination \/ ShutdownWithinQueueTimeout \/ DrainEnds
    \/ SetEnqOnly \/ SetShutdownImmediate \/ ShutdownWithinActionTimeout \/ ShutdownEnds

\* The queue is shut down and every call has returned: nothing is left to do.
Terminated ==
    /\ spc = "end" /\ WorkersDone
    /\ \A p \in Producers : ppc[p] = "idle"
    /\ UNCHANGED vars

Next ==
    \/ \E p \in Producers : ProducerStep(p)
    \/ \E w \in Workers : WorkerStep(w)
    \/ Shutdown
    \/ Terminated

Spec == Init /\ [][Next]_vars

\* Threads that have something to do get the processor and, eventually, the mutex;
\* timed waits end and consumers return.  Nothing makes anyone submit a message
\* or shut the daemon down.
Fairness ==
    /\ \A p \in Producers : SF_vars(ProducerStep(p) /\ ppc[p] # "idle")
    /\ \A w \in Workers : SF_vars(WorkerStep(w))
    /\ WF_vars(SetEnqOnly \/ SetShutdownImmediate) /\ WF_vars(ShutdownEnds)
    /\ SF_vars(DrainEnds) /\ SF_vars(ShutdownWithinActionTimeout)

FairSpec == Spec /\ Fairness
---------------------------------------------------------------------------
(* Properties.                                                                *)

\* The elements of the batches that workers hold
InFlight == UNION {{w} \X (1 .. Len(batch[w])) : w \in Workers}

\* qqueueAdd, qqueueDeq, DoDeleteBatchFromQStore: the counters the queue works
\* with agree with its store, and the entries that all workers together have yet
\* to delete are entries that were dequeued, so that the delete pointer never
\* overtakes the dequeue pointer, in whatever order batches complete.
CountersMatchStore ==
    /\ iQueueSize = nOut + Len(pend)
    /\ nLogDeq = nOut
    /\ Cardinality(InFlight) <= nOut

\* doEnqSingleObj: "makes sure no more data is enqueued than the queue is
\* configured to support", also when workers put unprocessed messages back into
\* a full queue.
CapacityRespected == iMaxQueueSize > 0 => iQueueSize <= iMaxQueueSize

\* Places where a message that still has to be processed can be
InHand(m) == {p \in Producers : \E i \in DOMAIN todo[p] : todo[p][i] = m}
Stored(m) == {i \in DOMAIN pend : pend[i] = m}
Pending(w, i) ==
    /\ batch[w][i].st = "RDY"
    /\ wpc[w] \in {"delete", "restore", "reenqWait", "reenqWoken"} => i >= idx[w]
InBatch(m) == {w \in Workers : \E i \in DOMAIN batch[w] :
                                  batch[w][i].msg = m /\ Pending(w, i)}
Copies(m) == Cardinality(InHand(m)) + Cardinality(Stored(m)) + Cardinality(InBatch(m))

\* A submitted message that was neither processed nor given up is in exactly one
\* place: in its producer's hand, in the store, or unprocessed in one batch.  No
\* interleaving of re-enqueue, out-of-order batch completion, timeouts and
\* shutdown makes a message vanish or appear twice.
NoMessageVanishes ==
    \A m \in 1 .. nSub : (gone[m] = "none" /\ nProc[m] = 0) => Copies(m) = 1

\* DeleteProcessedBatch, processBatchMain: a message that was processed, or that
\* was given up, is nowhere in the queue any more, so that it is not processed a
\* second time.  (The main queue's consumer may leave processed messages in the
\* queue when it is told to shut down immediately.)
NoSecondCopy ==
    \A m \in 1 .. nSub :
        /\ nProc[m] <= 1
        /\ (gone[m] # "none" \/ (nProc[m] = 1 /\ ~IsMainQueue)) => Copies(m) = 0

\* The comment on batch_s, "all Elements are only deleted when the batch is
\* processed": once nothing is stored and no worker holds a batch, the queue's
\* size is back at zero.
EmptyWhenDrained ==
    (pend = <<>> /\ \A w \in Workers : batch[w] = <<>>) => iQueueSize = 0

\* The comments on wtpSetState ("during shutdown they are awoken in any case") and
\* wtpChkStopWrkr ("then we simply do one more iteration in the worker"): once
\* workers are told to shut down none of them waits for work.
NoWorkerStranded ==
    wtpState # "RUNNING" => \A w \in Workers : wpc[w] # "idle"

\* qqueueEnqMsg, qqueueMultiEnqObjNonDirect: whatever delays and waits a call goes
\* through, it returns to the input that made it.
ProducersReturn ==
    \A p \in Producers : ppc[p] # "idle" ~> ppc[p] = "idle"

\* qqueueAdviseMaxWorkers, wtiWorker: while the queue runs, stored messages are
\* dequeued; no wakeup of the workers is lost.
BacklogIsDequeued ==
    pend # <<>> ~> (pend = <<>> \/ spc # "run")

\* qqueueShutdownWorkers: shutdown ends, with every worker out of its loop, so
\* that none has to be cancelled.
ShutdownCompletes ==
    spc # "run" ~> (spc = "end" /\ WorkersDone)

\* The abstract queue's view of the messages
TakenMsgs == {m \in Msgs : InBatch(m) # {}}
FinishedMsgs == {m \in Msgs : nProc[m] > 0 /\ gone[m] = "none" /\ Copies(m) = 0}
LostMsgs == {m \in Msgs : gone[m] # "none"}

Abstract == INSTANCE BoundedQueue WITH
    Messages <- Msgs, Capacity <- iMaxQueueSize,
    queue <- pend, taken <- TakenMsgs, finished <- FinishedMsgs, lost <- LostMsgs

\* The queue, with its threads, flow control, batches, put-back and shutdown,
\* implements the bounded first-in first-out queue that its users rely on.
ImplementsBoundedQueue == Abstract!Spec
=============================================================================
