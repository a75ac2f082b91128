---------------------------- MODULE WorkerPool ----------------------------
(* The worker thread pool of a queue (wtp.c, wti.c): starting threads on      *)
(* demand while an enqueue holds the queue mutex, threads that go idle, time   *)
(* out and terminate, joining terminated threads so that their slot can be     *)
(* used again, and the pool's shutdown, cancellation and destruction.          *)
(*                                                                            *)
(* mutUsr is the queue's mutex, mutWtp the pool's own.  What a worker does      *)
(* with a batch is abstracted to "it takes up to DeqBatch messages, is with the *)
(* consumer for a while, and puts some of them back"; module MsgQueue has the   *)
(* details.                                                                    *)
EXTENDS Integers, FiniteSets

CONSTANTS
    iNumWorkerThreads,
    MsgsPerWrkr,        \* iMinMsgsPerWrkr of the queue
    DeqBatch,           \* iDeqBatchSize of the queue
    KeepWorkers,        \* toWrkShutdown = -1: no worker has an inactivity timeout
    IsChild,            \* pool of the disk child of a disk-assisted queue
    MaxWork,            \* bound: enqueue operations in a behaviour
    MaxCreateFail       \* bound: calls of pthread_create that fail

ASSUME PoolAssumption ==
    /\ iNumWorkerThreads \in Nat \ {0}
    /\ MsgsPerWrkr \in Nat \ {0} /\ DeqBatch \in Nat \ {0}
    /\ KeepWorkers \in BOOLEAN /\ IsChild \in BOOLEAN
    /\ MaxWork \in Nat /\ MaxCreateFail \in Nat

Wrkrs == 0 .. iNumWorkerThreads - 1
NoWrkr == -1

VARIABLES
    mutUsr,             \* "adviser" while an enqueue waits with the queue mutex
    mutWtp,             \* a worker on its way out that holds the pool mutex
    wtpState, iCurNumWrkThrd,
    bIsRunning,         \* state of each slot of the thread table
    thr,                \* control state of the thread in each slot
    inactive,           \* bInactivityTOOccurred of each worker
    held,               \* messages of its batch a worker has yet to delete or put back
    stop,               \* terminateRet, if it was kept across a put-back wait
    cancel,             \* a cancellation request is pending
    backlog, nWork,     \* messages in the queue, messages enqueued so far
    apc, nStart, slot,  \* adviser: control state, workers to start, new worker
    nCreateFail,
    spc, ci             \* shutdown: control state, next worker to cancel

pool == <<wtpState, iCurNumWrkThrd, bIsRunning>>
threads == <<thr, inactive, held, stop, cancel>>
adviser == <<apc, nStart, slot, nWork, nCreateFail>>
shutdown == <<spc, ci>>
vars == <<mutUsr, mutWtp, pool, threads, backlog, adviser, shutdown>>

TypeOK ==
    /\ mutUsr \in {"free", "adviser"}
    /\ mutWtp \in Wrkrs \cup {NoWrkr}
    /\ wtpState \in {"RUNNING", "SHUTDOWN", "SHUTDOWN_IMMEDIATE"}
    /\ iCurNumWrkThrd \in 0 .. iNumWorkerThreads
    /\ bIsRunning \in [Wrkrs -> {"STOPPED", "INITIALIZING", "RUNNING", "WAIT_JOIN"}]
    /\ thr \in [Wrkrs -> {"none", "init", "loop", "putback", "work", "idle", "exit",
                           "dec", "ended"}]
    /\ inactive \in [Wrkrs -> BOOLEAN]
    /\ held \in [Wrkrs -> 0 .. DeqBatch]
    /\ stop \in [Wrkrs -> {"none", "no", "whenIdle", "now"}]
    /\ cancel \in [Wrkrs -> BOOLEAN]
    /\ backlog \in 0 .. MaxWork /\ nWork \in 0 .. MaxWork
    /\ apc \in {"out", "start", "initWait"}
    /\ nStart \in 0 .. iNumWorkerThreads
    /\ slot \in Wrkrs
    /\ nCreateFail \in 0 .. MaxCreateFail
    /\ spc \in {"run", "wait1", "size", "wait2", "cancel", "destruct"}
    /\ ci \in 0 .. iNumWorkerThreads

Init ==
    /\ mutUsr = "free" /\ mutWtp = NoWrkr
    /\ wtpState = "RUNNING" /\ iCurNumWrkThrd = 0
    /\ bIsRunning = [w \in Wrkrs |-> "STOPPED"]
    /\ thr = [w \in Wrkrs |-> "none"]
    /\ inactive = [w \in Wrkrs |-> FALSE]
    /\ held = [w \in Wrkrs |-> 0]
    /\ stop = [w \in Wrkrs |-> "none"]
    /\ cancel = [w \in Wrkrs |-> FALSE]
    /\ backlog = 0 /\ nWork = 0
    /\ apc = "out" /\ nStart = 0 /\ slot = 0 /\ nCreateFail = 0
    /\ spc = "run" /\ ci = 0

Minimum(a, b) == IF a < b THEN a ELSE b
---------------------------------------------------------------------------
(* Joining and signalling.                                                    *)

Terminated == {w \in Wrkrs : bIsRunning[w] = "WAIT_JOIN"}

wtpJoinNoWait(ws) ==
    /\ bIsRunning' = [w \in Wrkrs |-> IF w \in ws THEN "STOPPED" ELSE bIsRunning[w]]
    /\ thr' = [w \in Wrkrs |-> IF w \in ws /\ thr[w] = "ended" THEN "none" ELSE thr[w]]

\* wtiJoinThrd for each worker of ws: pthread_join blocks until the thread has
\* ended, then the slot is free.
wtpJoin(ws) ==
    /\ \A w \in ws : thr[w] = "ended"
    /\ bIsRunning' = [w \in Wrkrs |-> IF w \in ws THEN "STOPPED" ELSE bIsRunning[w]]
    /\ thr' = [w \in Wrkrs |-> IF w \in ws THEN "none" ELSE thr[w]]

\* A signal on pcondBusy of each worker of ws
Awake(ws) == [w \in Wrkrs |-> IF w \in ws /\ thr[w] = "idle" THEN "loop" ELSE thr[w]]

\* The first n workers, in table order, whose slot is not STOPPED
FirstRunning(n) ==
    {w \in Wrkrs : /\ bIsRunning[w] # "STOPPED"
                   /\ Cardinality({v \in 0 .. w - 1 : bIsRunning[v] # "STOPPED"}) < n}
---------------------------------------------------------------------------
(* An enqueue: one more message, and wtpAdviseMaxWorkers with the queue mutex   *)
(* held.                                                                      *)

MissingAll(nMaxWrkr) == nMaxWrkr

\* The number of threads the pool is short of
Missing(nMaxWrkr) == nMaxWrkr - iCurNumWrkThrd

AdviseWithoutSignal ==
    /\ mutUsr = "free" /\ spc # "destruct"
    /\ nWork < MaxWork
    /\ nWork' = nWork + 1
    /\ backlog' = backlog + 1
    /\ LET nMaxWrkr == Minimum((backlog + 1) \div MsgsPerWrkr + 1, iNumWorkerThreads)
           nMissing == Missing(nMaxWrkr)
       IN IF nMissing > 0 /\ wtpState = "RUNNING"
          THEN apc' = "start" /\ nStart' = nMissing /\ mutUsr' = "adviser"
          ELSE UNCHANGED <<apc, nStart, mutUsr>>
    /\ UNCHANGED <<mutWtp, pool, threads, slot, nCreateFail, shutdown>>

\* With too few threads the adviser goes on to start some, unless the pool is
\* shutting down; otherwise it signals threads that may be sleeping.
AdviseMaxWorkers ==
    /\ mutUsr = "free" /\ spc # "destruct"
    /\ nWork < MaxWork
    /\ nWork' = nWork + 1
    /\ backlog' = backlog + 1
    /\ LET nMaxWrkr == Minimum((backlog + 1) \div MsgsPerWrkr + 1, iNumWorkerThreads)
           nMissing == Missing(nMaxWrkr)
       IN IF nMissing > 0
          THEN /\ IF wtpState = "RUNNING"
                  THEN apc' = "start" /\ nStart' = nMissing /\ mutUsr' = "adviser"
                  ELSE UNCHANGED <<apc, nStart, mutUsr>>
               /\ UNCHANGED thr
          ELSE /\ thr' = Awake(FirstRunning(nMaxWrkr))
               /\ UNCHANGED <<apc, nStart, mutUsr>>
    /\ UNCHANGED <<mutWtp, pool, inactive, held, stop, cancel, slot, nCreateFail, shutdown>>

\* wtpStartWrkr up to its wait: joins, takes the first free slot and creates the
\* thread there.  If pthread_create fails nobody notices.
StartWrkr ==
    /\ apc = "start" /\ mutWtp = NoWrkr
    /\ \A w \in Terminated : thr[w] = "ended"
    /\ LET free == {w \in Wrkrs : bIsRunning[w] \in {"STOPPED", "WAIT_JOIN"}}
           i == CHOOSE w \in free : \A v \in free : w <= v
           create(t) ==
              /\ slot' = i
              /\ bIsRunning' = [w \in Wrkrs |->
                                  IF w = i THEN "INITIALIZING"
                                  ELSE IF w \in free THEN "STOPPED" ELSE bIsRunning[w]]
              /\ thr' = [w \in Wrkrs |->
                           IF w = i THEN t ELSE IF w \in free THEN "none" ELSE thr[w]]
       IN /\ free # {}
          /\ \/ create("init") /\ UNCHANGED nCreateFail
             \/ /\ nCreateFail < MaxCreateFail
                /\ create("none") /\ nCreateFail' = nCreateFail + 1
    /\ iCurNumWrkThrd' = iCurNumWrkThrd + 1
    /\ apc' = "initWait"
    /\ UNCHANGED <<mutUsr, mutWtp, wtpState, inactive, held, stop, cancel, backlog,
                   nStart, nWork, shutdown>>

\* The new thread has initialized: the adviser starts the next one or is done.
StartedWrkr ==
    /\ apc = "initWait" /\ mutWtp = NoWrkr
    /\ bIsRunning[slot] # "INITIALIZING"
    /\ nStart' = nStart - 1
    /\ IF nStart > 1 THEN apc' = "start" /\ UNCHANGED mutUsr
                     ELSE apc' = "out" /\ mutUsr' = "free"
    /\ UNCHANGED <<mutWtp, pool, threads, backlog, slot, nWork, nCreateFail, shutdown>>
---------------------------------------------------------------------------
(* A worker thread.                                                           *)

WorkerInitQueueMutex(w) ==
    /\ thr[w] = "init" /\ mutWtp = NoWrkr /\ mutUsr = "free"
    /\ bIsRunning' = [bIsRunning EXCEPT ![w] = "RUNNING"]
    /\ thr' = [thr EXCEPT ![w] = "loop"]
    /\ inactive' = [inactive EXCEPT ![w] = FALSE]
    /\ UNCHANGED <<mutUsr, mutWtp, wtpState, iCurNumWrkThrd, held, stop, cancel, backlog,
                   adviser, shutdown>>

\* wtpWorker up to its call of wtiWorker
WorkerInit(w) ==
    /\ thr[w] = "init" /\ mutWtp = NoWrkr
    /\ bIsRunning' = [bIsRunning EXCEPT ![w] = "RUNNING"]
    /\ thr' = [thr EXCEPT ![w] = "loop"]
    /\ inactive' = [inactive EXCEPT ![w] = FALSE]
    /\ UNCHANGED <<mutUsr, mutWtp, wtpState, iCurNumWrkThrd, held, stop, cancel, backlog,
                   adviser, shutdown>>

ChkStopNever == "no"

\* wtpChkStopWrkr with ChkStopWrkrReg: workers of a child queue have done their
\* duty when the queue is empty.
ChkStop ==
    IF wtpState = "SHUTDOWN_IMMEDIATE" THEN "now"
    ELSE IF wtpState = "SHUTDOWN" \/ IsChild THEN "whenIdle" ELSE "no"

\* wtiWorker behind DeleteProcessedBatch: with n messages in the queue the worker
\* leaves, takes work, or goes idle.
DequeueOrLeave(w, terminateRet, n) ==
    /\ held' = [held EXCEPT ![w] = IF terminateRet = "now" THEN 0 ELSE Minimum(n, DeqBatch)]
    /\ \/ /\ terminateRet = "now"
          /\ thr' = [thr EXCEPT ![w] = "exit"]
          /\ backlog' = n
          /\ UNCHANGED inactive
       \/ /\ terminateRet # "now" /\ n > 0
          /\ thr' = [thr EXCEPT ![w] = "work"]
          /\ backlog' = n - Minimum(n, DeqBatch)
          /\ inactive' = [inactive EXCEPT ![w] = FALSE]
       \/ /\ terminateRet # "now" /\ n = 0
          /\ thr' = [thr EXCEPT ![w] =
                       IF terminateRet = "whenIdle" \/ inactive[w] THEN "exit" ELSE "idle"]
          /\ backlog' = n
          /\ UNCHANGED inactive

\* The wait for room in doEnqSingleObj, which releases the queue mutex, when the
\* worker has put k messages back.  Once inputs terminate, and they do so before
\* the pool is shut down, a full queue makes nobody wait.
PutBackWait(w, k) ==
    /\ k < held[w] /\ wtpState = "RUNNING"
    /\ thr' = [thr EXCEPT ![w] = "putback"]
    /\ held' = [held EXCEPT ![w] = @ - k]
    /\ backlog' = backlog + k
    /\ UNCHANGED inactive

\* One pass of the loop of wtiWorker, with the queue mutex held: terminateRet is
\* fetched, what the consumer left over of the previous batch is put back or
\* dropped, and the batch is deleted.
WorkerLoop(w) ==
    /\ thr[w] = "loop" /\ mutUsr = "free"
    /\ \E k \in 0 .. held[w] :
          \/ /\ DequeueOrLeave(w, ChkStop, backlog + k)
             /\ stop' = [stop EXCEPT ![w] = "none"]
          \/ /\ PutBackWait(w, k)
             /\ stop' = [stop EXCEPT ![w] = ChkStop]
    /\ UNCHANGED <<mutUsr, mutWtp, pool, cancel, adviser, shutdown>>

\* The pass goes on after a put-back wait, with what was fetched before it.
PutBackWoken(w) ==
    /\ thr[w] = "putback" /\ mutUsr = "free"
    /\ \E k \in 0 .. held[w] :
          DequeueOrLeave(w, stop[w], backlog + k) \/ PutBackWait(w, k)
    /\ UNCHANGED <<mutUsr, mutWtp, pool, stop, cancel, adviser, shutdown>>

AlwaysRunningNone(w) == FALSE

\* wtpStartWrkr's wtiSetAlwaysRunning
AlwaysRunning(w) == w = 0 \/ KeepWorkers

\* doIdleProcessing: the inactivity timeout of a worker that is not always running
IdleTimeout(w) ==
    /\ thr[w] = "idle" /\ mutUsr = "free"
    /\ ~AlwaysRunning(w)
    /\ thr' = [thr EXCEPT ![w] = "loop"]
    /\ inactive' = [inactive EXCEPT ![w] = TRUE]
    /\ UNCHANGED <<mutUsr, mutWtp, pool, held, stop, cancel, backlog, adviser, shutdown>>

\* The consumer returns.
WorkDone(w) ==
    /\ thr[w] = "work"
    /\ thr' = [thr EXCEPT ![w] = "loop"]
    /\ UNCHANGED <<mutUsr, mutWtp, pool, inactive, held, stop, cancel, backlog, adviser,
                   shutdown>>

\* wtpWorker behind wtiWorker takes the pool mutex; then wtpWrkrExecCleanup sets
\* the state,
WorkerExit(w) ==
    /\ thr[w] = "exit" /\ mutWtp = NoWrkr
    /\ mutWtp' = w
    /\ bIsRunning' = [bIsRunning EXCEPT ![w] = "WAIT_JOIN"]
    /\ thr' = [thr EXCEPT ![w] = "dec"]
    /\ UNCHANGED <<mutUsr, wtpState, iCurNumWrkThrd, inactive, held, stop, cancel, backlog,
                   adviser, shutdown>>

\* A cancellation request takes effect while the consumer runs; the cleanup
\* handlers delete the batch and call wtpWrkrExecCleanup without the pool mutex.
WorkerCancelled(w) ==
    /\ thr[w] = "work" /\ cancel[w]
    /\ bIsRunning' = [bIsRunning EXCEPT ![w] = "WAIT_JOIN"]
    /\ thr' = [thr EXCEPT ![w] = "dec"]
    /\ held' = [held EXCEPT ![w] = 0]
    /\ UNCHANGED <<mutUsr, mutWtp, wtpState, iCurNumWrkThrd, inactive, stop, cancel,
                   backlog, adviser, shutdown>>

WorkerEndUncounted(w) ==
    /\ thr[w] = "dec"
    /\ iCurNumWrkThrd' = IF mutWtp = w THEN iCurNumWrkThrd - 1 ELSE iCurNumWrkThrd
    /\ thr' = [thr EXCEPT ![w] = "ended"]
    /\ mutWtp' = IF mutWtp = w THEN NoWrkr ELSE mutWtp
    /\ UNCHANGED <<mutUsr, wtpState, bIsRunning, inactive, held, stop, cancel, backlog,
                   adviser, shutdown>>

WorkerEndTwice(w) ==
    /\ thr[w] = "dec"
    /\ iCurNumWrkThrd' = iCurNumWrkThrd - 2
    /\ thr' = [thr EXCEPT ![w] = "ended"]
    /\ mutWtp' = IF mutWtp = w THEN NoWrkr ELSE mutWtp
    /\ UNCHANGED <<mutUsr, wtpState, bIsRunning, inactive, held, stop, cancel, backlog,
                   adviser, shutdown>>

\* and decrements the number of threads, before the thread ends.
WorkerEnd(w) ==
    /\ thr[w] = "dec"
    /\ iCurNumWrkThrd' = iCurNumWrkThrd - 1
    /\ thr' = [thr EXCEPT ![w] = "ended"]
    /\ mutWtp' = IF mutWtp = w THEN NoWrkr ELSE mutWtp
    /\ UNCHANGED <<mutUsr, wtpState, bIsRunning, inactive, held, stop, cancel, backlog,
                   adviser, shutdown>>
---------------------------------------------------------------------------
(* Shutdown: wtpShutdownAll in two phases, wtpCancelAll, wtpDestruct, in the     *)
(* order qqueueShutdownWorkers and qqueueDestruct call them.                    *)

\* wtpShutdownAll up to its wait, with the queue mutex held
ShutdownAll(state) ==
    /\ mutUsr = "free"
    /\ \A w \in Terminated : thr[w] = "ended"
    /\ wtpState' = state
    /\ bIsRunning' = [w \in Wrkrs |-> IF w \in Terminated THEN "STOPPED" ELSE bIsRunning[w]]
    /\ thr' = [w \in Wrkrs |-> IF w \in Terminated THEN "none" ELSE Awake(Wrkrs)[w]]
    /\ UNCHANGED <<mutUsr, mutWtp, iCurNumWrkThrd, inactive, held, stop, cancel, backlog,
                   adviser, ci>>

ShutdownWhenIdle == spc = "run" /\ spc' = "wait1" /\ ShutdownAll("SHUTDOWN")

AfterWait == IF spc = "wait1" THEN "size" ELSE "cancel"

\* The wait loop of wtpShutdownAll joins threads that have terminated
ShutdownJoin ==
    /\ spc \in {"wait1", "wait2"} /\ mutWtp = NoWrkr
    /\ iCurNumWrkThrd > 0 /\ Terminated # {}
    /\ wtpJoin(Terminated)
    /\ UNCHANGED <<mutUsr, mutWtp, wtpState, iCurNumWrkThrd, inactive, held, stop, cancel,
                   backlog, adviser, shutdown>>

\* until there are none left or its time is up.
ShutdownWaited ==
    /\ spc \in {"wait1", "wait2"} /\ mutWtp = NoWrkr
    /\ spc' = AfterWait
    /\ UNCHANGED <<mutUsr, mutWtp, pool, threads, backlog, adviser, ci>>

\* Batches that were not deleted count for the physical queue size.
PhysicalSizeZero == backlog = 0 /\ \A w \in Wrkrs : held[w] = 0

\* qqueueShutdownWorkers: only a queue that is not empty needs the second phase.
ShutdownSkip ==
    /\ spc = "size" /\ mutUsr = "free" /\ PhysicalSizeZero
    /\ spc' = "cancel"
    /\ UNCHANGED <<mutUsr, mutWtp, pool, threads, backlog, adviser, ci>>

ShutdownImmediate ==
    /\ spc = "size" /\ ~PhysicalSizeZero
    /\ spc' = "wait2"
    /\ ShutdownAll("SHUTDOWN_IMMEDIATE")

CancelRequestLast ==
    /\ spc = "cancel" /\ ci < iNumWorkerThreads
    /\ bIsRunning[ci] \notin {"STOPPED", "WAIT_JOIN"}
    /\ ci' = ci + 1
    /\ cancel' = [cancel EXCEPT ![ci] = TRUE]
    /\ UNCHANGED <<mutUsr, mutWtp, pool, thr, inactive, held, stop, backlog, adviser, spc>>

\* wtpCancelAll, wtiCancelThrd: a thread that still runs is cancelled,
CancelRequest ==
    /\ spc = "cancel" /\ ci < iNumWorkerThreads
    /\ bIsRunning[ci] \notin {"STOPPED", "WAIT_JOIN"} /\ ~cancel[ci]
    /\ cancel' = [cancel EXCEPT ![ci] = TRUE]
    /\ UNCHANGED <<mutUsr, mutWtp, pool, thr, inactive, held, stop, backlog, adviser, shutdown>>

\* and joined once it has terminated.
CancelJoin ==
    /\ spc = "cancel" /\ ci < iNumWorkerThreads
    /\ bIsRunning[ci] \in {"STOPPED", "WAIT_JOIN"}
    /\ wtpJoin({ci} \cap Terminated)
    /\ ci' = ci + 1
    /\ UNCHANGED <<mutUsr, mutWtp, wtpState, iCurNumWrkThrd, inactive, held, stop, cancel,
                   backlog, adviser, spc>>

\* wtpDestruct, under the pool mutex
Destruct ==
    /\ spc = "cancel" /\ ci = iNumWorkerThreads /\ mutWtp = NoWrkr /\ mutUsr = "free"
    /\ spc' = "destruct"
    /\ UNCHANGED <<mutUsr, mutWtp, pool, threads, backlog, adviser, ci>>

Done == spc = "destruct" /\ UNCHANGED vars

WorkerStep(w) ==
    \/ WorkerInit(w) \/ WorkerLoop(w) \/ PutBackWoken(w) \/ IdleTimeout(w)
    \/ WorkerExit(w) \/ WorkerCancelled(w) \/ WorkerEnd(w)

ShutdownStep ==
    \/ ShutdownJoin \/ ShutdownWaited \/ ShutdownSkip \/ ShutdownImmediate
    \/ CancelRequest \/ CancelJoin \/ Destruct

Next ==
    \/ AdviseMaxWorkers \/ StartWrkr \/ StartedWrkr
    \/ \E w \in Wrkrs : WorkerStep(w) \/ WorkDone(w)
    \/ ShutdownWhenIdle \/ ShutdownStep
    \/ Done

Spec == Init /\ [][Next]_vars

\* Threads run, mutexes are granted and timed waits end, and a cancellation request
\* reaches a consumer that is entered again and again: consumers do I/O and sleep.
\* Nothing makes anyone enqueue or shut down, and a consumer need not return: that
\* is what cancellation is for.
Fairness ==
    /\ \A w \in Wrkrs : SF_vars(WorkerStep(w)) /\ SF_vars(WorkerCancelled(w))
    /\ WF_vars(StartWrkr \/ StartedWrkr)
    /\ SF_vars(ShutdownWaited)
    /\ SF_vars(ShutdownSkip) /\ SF_vars(ShutdownImmediate)
    /\ WF_vars(CancelRequest) /\ WF_vars(CancelJoin) /\ WF_vars(Destruct)

FairSpec == Spec /\ Fairness
---------------------------------------------------------------------------
(* Properties.                                                                *)

\* wtpStartWrkr, wtpWrkrExecCleanup: the pool's thread count, which is changed by
\* starters under both mutexes, by leaving workers under the pool's and by
\* cancelled workers under none, is the number of threads that have yet to leave,
\* and of those whose creation failed.
CountMatchesThreads ==
    iCurNumWrkThrd =
        Cardinality({w \in Wrkrs : thr[w] \notin {"none", "ended"}}) + nCreateFail

\* wtiJoinThrd: a slot that is free for a new thread has no old one in it, however
\* joins by starters, by the shutdown wait and by cancellation follow each other.
FreeSlotHasNoThread ==
    \A w \in Wrkrs : bIsRunning[w] = "STOPPED" => thr[w] = "none"

\* wtpStartWrkr: when the count says that a worker is missing there is a slot for
\* it; RS_RET_NO_MORE_THREADS does not happen.
StarterFindsSlot ==
    (apc = "start" /\ mutWtp = NoWrkr)
        => \E w \in Wrkrs : bIsRunning[w] \in {"STOPPED", "WAIT_JOIN"}

\* wtpDestruct, wtiDestruct: the assertions that no thread is counted and every
\* worker is STOPPED hold, however workers were ended.
DestructSafe ==
    spc = "destruct" =>
        /\ iCurNumWrkThrd = 0
        /\ \A w \in Wrkrs : bIsRunning[w] = "STOPPED" /\ thr[w] = "none"

\* The comment on wtpAdviseMaxWorkers, "the caller can assume that there is at
\* least one worker re-checking if there is "work to do" after this function
\* call": while the pool runs and there is work, some thread is going to look.
SomeoneLooks ==
    (backlog > 0 /\ wtpState = "RUNNING" /\ mutUsr = "free")
        => \E w \in Wrkrs : thr[w] \in {"init", "loop", "putback", "work"}

\* wtpAdviseMaxWorkers, wtiWorker: work is taken by a worker, unless the pool is
\* shut down or every thread that could is kept by its consumer.
WorkIsTaken ==
    backlog > 0 ~> (backlog = 0 \/ spc # "run" \/ \E w \in Wrkrs : thr[w] = "work")

\* wtpStartWrkr: an enqueue that starts workers returns; it waits for the new
\* thread with the queue mutex held.
AdviserReturns == apc # "out" ~> apc = "out"

\* An always-running worker went idle on a terminateRet that it had fetched before a
\* put-back wait: it takes neither the signal that the shutdown sent during that
\* wait nor a cancellation request.
Stranded(w) == thr[w] = "idle" /\ AlwaysRunning(w) /\ stop[w] # "none"

\* qqueueShutdownWorkers, "waits until they have terminated.  If they timeout, they
\* are cancelled": shutdown ends in the pool's destruction, whether or not consumers
\* return.  It can hang in one place only, wtiCancelThrd's wait for a worker that
\* is stranded.
ShutdownTerminates ==
    <>(spc # "run") => \/ <>(spc = "destruct")
                       \/ <>[](spc = "cancel" /\ ci < iNumWorkerThreads /\ Stranded(ci))
=============================================================================
