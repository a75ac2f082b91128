# A TLA+ verification of the syslog image's rsyslog core

The repository packages rsyslog, a few helper programs and start scripts into a
container. rsyslog receives log messages (`imuxsock`, `imudp`, `imtcp`), stores
them in queues, and worker threads take them out in batches and run rulesets and
actions on them (`omfwd`, `omhttp`). The queue and its pool of worker threads
are the concurrent heart of the program: everything else is either a producer
for a queue or a consumer behind one. This development starts there.

All paths below are relative to `src/rsyslog/` unless they start with `src/`.

## 1. Inventory of the system

| part | source | state | operations | interacts with |
|---|---|---|---|---|
| in-memory queue | `runtime/queue.c` | store (linked list or ring with a delete and a dequeue pointer), `iQueueSize`, `nLogDeq`, marks, mutex, conditions `notFull`, `belowFullDlyWtrMrk`, `belowLightDlyWtrMrk` | `qqueueEnqMsg`, `qqueueMultiEnqObjNonDirect`, `doEnqSingleObj`, `DequeueConsumable`, `DeleteProcessedBatch`, `qqueueShutdownWorkers` | inputs, worker pool, consumers |
| queue parameters | `runtime/queue.c` | the size and mark parameters | `qqueueCorrectParams`, `qqueueStart` | queue |
| dequeue window | `runtime/queue.c`, `runtime/srutils.c` | two hours, the clock, the sleep | `RateLimiter`, `wtiWakeupThrd` | worker loop, shutdown |
| worker pool | `runtime/wtp.c`, `runtime/wti.c` | thread table, `iCurNumWrkThrd`, `wtpState`, per-thread `bIsRunning`, batch, `pcondBusy` | `wtpAdviseMaxWorkers`, `wtpStartWrkr`, `wtiWorker`, `wtpShutdownAll`, `wtpCancelAll`, `wtpDestruct` | queue |
| disk queue | `runtime/queue.c`, `runtime/stream.c` | numbered files, read/write/delete streams, `.qi` file | `qAddDisk`, `qDeqDisk`, `qDelDisk`, checkpoints, reload | queue, file system |
| disk-assisted queue | `runtime/queue.c` | parent and child queue, DA worker pool, water marks | `ConsumerDA`, `StartDA`, `DoSaveOnShutdown` | both queues |
| action execution | `action.c` | action state, retry counters, transaction | `actionPrepare`, `processBatchMain`, `actionCommit`, retry and suspend | output modules |
| rulesets | `runtime/ruleset.c`, `grammar/rainerscript.c` | none shared | `processBatch` | actions |
| input rate limiter | `runtime/ratelimit.c` | interval, burst counters, repeated message | `ratelimitMsg` | inputs |
| TCP server | `runtime/tcpsrv.c`, `runtime/tcps_sess.c` | session table, framing automaton | accept, receive, close | inputs |
| outputs | `tools/omfwd.c`, `contrib/omhttp/omhttp.c` | connections, targets, HTTP batches | `doAction`, commit, resume | actions |
| input threads, daemon | `threads.c`, `tools/rsyslogd.c` | thread list, global termination state | start, terminate, HUP, `deinitAll` | all |
| helpers of the image | `src/tcptunnel-master`, `src/server-app`, `src/*.sh` | sockets, terminal pool, processes | relay loop, connection handlers, restart loops | none of the above |

`PROJECT.json` lists every part with what is modelled of it, and every hazard
with the line where it bites.

What is hard here and hardly reached by tests:

- workers complete batches in any order, and each deletes the *oldest* entries
  of the store, whoever took them;
- messages a consumer did not process are put back at the end of a queue in
  which their old slots still count, by a worker that may have to wait for room
  and releases the mutex while it does;
- a producer can wait in four ways (full delay, light delay, not-full, new
  thread) and a worker in three (work, minimum batch, room for a put-back);
- shutdown changes three flags, two of them without the mutex, while all of
  this goes on, and a worker uses a termination order it read before waiting;
- threads are counted, joined and reused by starters, by shutdown and by
  cancellation under different locks or none;
- marks and delays are integer arithmetic with many configuration corners.

## 2. Modules

| module | models | role |
|---|---|---|
| `QueueParams` | `qqueueCorrectParams`, `qqueueStart`'s DA adjustment | parameters from the configuration to the running queue |
| `DequeueWindow` | `RateLimiter`, the signal that interrupts its sleep, the look at the pool state behind it | one pass of a worker up to its dequeue |
| `BoundedQueue` | what a queue promises to inputs and consumers | abstract specification |
| `MsgQueue` | the in-memory queue, its producers, workers, consumers' marking, shutdown | detailed specification; refines `BoundedQueue` |
| `WorkerPool` | thread table, start on demand, idle timeout, join, shutdown, cancel, destroy | detailed specification of the pool |
| `MC*` | instances for TLC | |
| `*Proofs` | theorems about the module they are named after | |

### MsgQueue

The store is split at the dequeue pointer: `nOut` counts the entries between the
delete and the dequeue pointer (their content is never read again), `pend` is the
sequence behind it. `iQueueSize` and `nLogDeq` are the counters of the queue
object, kept apart from the store so that they can disagree with it. `mut` is the
queue mutex: every action between a lock and an unlock requires it to be the
thread's own, a condition wait releases it, and the consumer runs without it.
Loops that hold the mutex are one action per pass; since they exclude each other
this only adds interleavings with what runs without the mutex, which is the point:
`SetEnqOnly`, `SetShutdownImmediate`, `SetGlobalInputTermination` and consumers do.

| code | actions |
|---|---|
| `qqueueEnqMsg`, `qqueueMultiEnqObjNonDirect` | `Submit`, `Advise` |
| `doEnqSingleObj` by an input | `EnqEntry`, `FullDelayWake`, `LightDelayWake`, `EnqStore`, `NotFullSignalled`, `NotFullTimeout` |
| `wtiWorker` loop head | `WorkerLoop` |
| `DeleteProcessedBatch` (with `doEnqSingleObj` for put-back) | `DeleteElement`, `RestoreElement`, `RestoreSignalled`, `RestoreTimeout` |
| `DeleteBatchFromQStore` | `DeleteBatch` |
| `DequeueConsumableElements`, `DequeueConsumable`, end of loop | `DequeueElement`, `MinBatchWake`, `DequeueDone` |
| `processBatchMain` (action queue), `processBatch` and `msgConsumer` (main queue) | `processBatchMain`, `processBatch`, `ConsumeEnd`, `Mark`, `MarkEnd` |
| `deinitAll`, `qqueueShutdownWorkers` | `SetGlobalInputTermination`, `ShutdownWithinQueueTimeout`, `DrainEnds`, `SetEnqOnly`, `SetShutdownImmediate`, `ShutdownWithinActionTimeout`, `ShutdownEnds` |

Messages are numbered in order of submission. The data of a message is reduced
to whether its severity lets it be discarded (`LowSev`); its flow control type is
a choice made when it is enqueued. `nProc`, `gone` and `nFail` are history.
Timed waits may end at any time. `msgCnt`, which decides on sampling, is one
static counter that all queues change under their own mutexes, so for one queue
any message may be the sampled one.
`iMaxQueueSize` 0 is a queue without a limit.

`processBatch` has a branch that repeats a message when its ruleset returns
`RS_RET_SUSPENDED`. No ruleset does: `scriptExec`'s `execAct` drops what actions
return and no other statement returns that code, so the branch is not an action
of the model.

All workers run from the start here. `WorkerPool` has how they come and go, and
reduces what a worker does with a batch to "takes up to `DeqBatch` messages and
is with the consumer for a while, and puts some of them back". It keeps what makes
the put-back matter to the pool: the wait for room in the middle of a pass of
`wtiWorker`, with the queue mutex released, and `terminateRet`, which was fetched
before it and is used after it (`stop`).

### WorkerPool

One slot per worker. `bIsRunning` is the slot's state as the code keeps it, `thr`
what the thread in it really does; their disagreement is what the properties are
about. `mutUsr` is the queue mutex (an adviser keeps it while it waits for a new
thread), `mutWtp` the pool's own. `AdviseMaxWorkers`, `StartWrkr` and
`StartedWrkr` are an enqueue's `wtpAdviseMaxWorkers`; `WorkerInit`, `WorkerLoop`,
`PutBackWoken`, `IdleTimeout`, `WorkDone`, `WorkerExit`, `WorkerCancelled` and
`WorkerEnd` a worker thread;
`ShutdownWhenIdle` to `Destruct` the two phases of `wtpShutdownAll`,
`wtpCancelAll` and `wtpDestruct` in the order the queue calls them. `wtiJoinThrd`
(look at the slot, join, mark it STOPPED) is one step: starters and the shutdown
wait hold the pool mutex around it, the first round of a shutdown the queue mutex,
which a starter holds too. So the model can show a slot that is used too early, but
not two joins of one thread that overlap.

### QueueParams and DequeueWindow

`QueueParams` is the arithmetic that turns configured parameters into the ones a
queue runs with. C's integer division is kept (percentages divide first, and a
quotient by a negative number truncates), so the corners below 100 are the code's
own. Sizes are naturals, 0 being "no limit"; every other parameter is any integer,
because the configuration parser bounds none of them. `conf` remembers what was
configured, so that the properties can say which odd results come from odd settings
and which from the code. A number of worker threads of 0 is divided by:
`CorrectParamsCrashes`.

`DequeueWindow` is one pass of a worker from `RateLimiter` to the dequeue, next to
the two phases of a shutdown. `srSleep` is a `select` that `wtiWakeupThrd`'s signal
interrupts (`Interrupted`), after which nobody looks at the clock again.

## 3. Runs

Passing runs:

| run | shows |
|---|---|
| `queue_settings` | the marks of a queue with a limit lie inside it, but for delay marks below -1 (and 0 for full delay), which the code takes as they are; exactly these, and every queue without a limit, hold full-delayable inputs on an empty queue; from a high mark of 100 on no full-delayable message starts the DA worker; a worker dequeues inside its window and starts at most a minute late, unless the first phase of a shutdown cut its sleep short; no delay while the window is open |
| `msg_queue_action` | counters, capacity, nothing vanishes or is duplicated, size returns to zero, refinement of `BoundedQueue`, with put-back and timeouts |
| `msg_queue_main` | the same questions for multi-submit, flow control, minimum batches, severity discard, sampling and `msgConsumer`'s second marking loop; no worker sleeps through shutdown (no put-back waits for room here: `msg_queue_stranded` has that) |
| `msg_queue_live` | enqueue calls return, backlog is dequeued, shutdown completes |
| `worker_pool` | thread count, slots, joins and destruction are right; with work and a running pool some thread is going to look at the queue |
| `worker_pool_live` | work is taken, starters return, shutdown ends in destruction even if consumers hang; the one place where it may itself hang is `wtiCancelThrd` waiting for a worker that went idle on a stale `terminateRet` |

Runs that show a disagreement between the code and its own comments (each has an
entry under `findings`):

| run | shows |
|---|---|
| `queue_da_full_delay` | in a disk-assisted queue of size 100 with default marks, the full-delay mark stays at the high mark, so that full-delayable messages do go to disk |
| `msg_queue_full_delay` | a multi-submit that reaches the full-delay mark by itself waits for workers that nobody has told of its messages, as long as no other input enqueues and no second worker runs into its inactivity timeout |
| `msg_queue_stranded` | a worker that waits for room to put a message back misses the shutdown signal and then waits for work with its old termination order; `worker_pool_live` shows that the shutdown then hangs |
| `msg_queue_leak` | entries discarded while dequeuing are never deleted: the physical size stays above zero |
| `worker_pool_lost_wakeup` | a worker of a child queue that is on its way out is still counted; an enqueue then starts nobody |
| `worker_pool_create` | a failed `pthread_create` is not noticed; the starter waits for the thread with the queue mutex held |

### Bounds

Two producers, two workers and three or four messages in a queue of size two with
batches of two: the queue is full, batches complete out of order, a put-back
waits for room, and a producer and a worker wait for the same signal. `MaxMulti` 2
gives multi-submits, `MaxFail` 1 one suspension of an action (more only repeat
it). The pool has three slots and five messages, so that all slots are started,
time out, are joined and reused, and batches of two, so that a put-back can wait
after some of its messages are back. `queue_settings` takes sizes at both sides of
the steps of the percentages and the size 0, marks that are not set, negative, 0,
inside and above, and negative, zero and positive thread numbers, in all
combinations; then all hours and windows with minutes and seconds at the ends, and
signals at the start of a sleep, a second later and after 40000 seconds. The two
have no state in common, so the run varies one while the other stands still.

`CHECK_DEADLOCK FALSE` is set where the system may stop: the two sequential
modules end; `msg_queue_action` and `worker_pool_live` can leave a worker stranded and
`worker_pool` can have a failed thread creation, both shown by violation runs.

Producers are a symmetry set in the safety runs. Workers are not: the table order
decides who is signalled. The liveness runs use no symmetry.

### Fairness

`MsgQueue`: strong fairness for each thread's step, because a step needs the
mutex, which others take in between; pthread mutexes on the scheduling policy in
use do not starve a thread. Timed waits end. Consumers return, since the module
ends before cancellation. No fairness for submitting a message or for starting
the shutdown. `WorkerPool`: the same, except that a consumer need not return
(`WorkDone` has no fairness), since cancellation is there for that, and that a
cancellation request reaches a worker which enters its consumer again and again
(strong fairness of `WorkerCancelled`): consumers do I/O and sleep, which are
cancellation points.

## 4. Proofs

TLAPS proves, for all values of the constants that satisfy the modules'
assumptions:

- `QueueParamsProofs`: `MarksInsideQueue`, `FullDelayStaysUsable` and
  `LargeQueueSparesDisk`. The only assumptions are that sizes are naturals and the
  other parameters integers. The inductive invariant `ParamsInv` says that `q` is
  `conf`, `Corrected(conf)` or `Adjusted(Corrected(conf))`, by phase, and that a
  queue which got past the division has threads or a plausible
  `iMinMsgsPerWrkr`; the arithmetic is in lemmas about `Percent` and each
  correction.
- `DequeueWindowProofs`: `DequeuesInsideWindow`, `WakesAtOpening` and
  `OpenWindowNeverDelays` for every window, every second of the day, every length
  of an interrupted sleep and every interleaving with the shutdown. The inductive
  invariant relates the clock reading, the time slept, the delay and the pool
  state: a sleep shorter than the delay implies that a shutdown has begun.
- `MsgQueueProofs`: `TypeOK`, `CountersMatchStore` and `CapacityRespected` for any
  number of producers, workers and messages, any batch size and any marks. The
  inductive invariant `QueueInv` is these three and
  - `TodoInv`: a producer inside `doEnqSingleObj` has a message in hand (else
    `Head` of nothing is stored);
  - `RestoreInv`: a worker that puts an element back points inside its batch;
  - `BatchBound`: no batch is longer than `iDeqBatchSize`.

  The core is the counting argument: the elements of all batches together
  (`InFlight`) are at most `nOut`. A dequeue adds one to both sides or, when it
  discards, only to `nOut`; a delete takes the size of one batch from both. So no
  order of completion lets the delete pointer overtake the dequeue pointer,
  and no counter becomes negative. `CapacityRespected` follows because both callers of
  `qqueueAdd` test for room with the mutex held; it is about queues with a limit. There is one lemma per action
  or group of actions, and frame lemmas for what an action leaves alone.

Only model-checked: the liveness properties (fairness is out of the prover's
reach), `NoMessageVanishes`, `NoSecondCopy`, `EmptyWhenDrained`, the refinement of
`BoundedQueue`, and everything about `WorkerPool`.

## 5. Not modelled, and the plan

Not in `MsgQueue`: direct queues (no state), `shutdownQueueDoubleSize`, hard
cancellation of a worker (its cleanup deletes a batch without the mutex), the DISC
state of batch elements, the transition of a memory queue to its disk child.
Not in `WorkerPool`: the DA worker pool's restart during shutdown.

Order of the next modules:

1. `DiskQueue`: files, three streams, `.qi` checkpoints, crash between any two
   writes, reload; promise: nothing checkpointed is lost, duplicates at most back
   to the last checkpoint. `deqOffs` per queue instead of per batch.
2. `DAQueue`: parent, child and DA worker, water marks, save on shutdown;
   composes `MsgQueue`'s store with an abstract disk queue.
3. `CancelCleanup`: hard cancellation at the grain of single counter updates;
   `FixedArrayRing`: the ring's indices, refined by `MsgQueue`'s store.
4. `ActionExec`: action states, retry and suspension, transactions, commit; then
   `RateLimit`, `TcpFraming`, `TcpTunnel` and the terminal pool of the web server.
5. Proofs: the pool's `CountMatchesThreads`, `FreeSlotHasNoThread` and
   `DestructSafe`; `NoMessageVanishes` and the refinement of `BoundedQueue`.
