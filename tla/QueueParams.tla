---------------------------- MODULE QueueParams ----------------------------
(* How a queue object's size parameters reach the values the queue runs with: *)
(* the configured values (-1 is "not set"), the plausibility corrections of    *)
(* qqueueCorrectParams, and the adjustment qqueueStart makes for a            *)
(* disk-assisted (DA) queue.  All percentages are computed in C integer       *)
(* arithmetic, dividing first.                                                *)
EXTENDS Integers

CONSTANTS
    Sizes,      \* configured values of iMaxQueueSize; 0 means "no limit"
    Marks,      \* configured values of a water mark; -1 means "not set"
    Threads,    \* configured values of iNumWorkerThreads
    Batches     \* configured values of iDeqBatchSize

\* What the configuration accepts: queue.size is parsed as a size, which has no
\* sign; the other parameters are integers without a bound.
ASSUME ParamAssumption ==
    /\ Sizes \subseteq Nat
    /\ Marks \subseteq Int /\ Threads \subseteq Int /\ Batches \subseteq Int

VARIABLES
    conf,       \* the parameters as they were configured
    q,          \* the queue object's parameters
    phase       \* "configured", "corrected", "started" or "crashed"

paramVars == <<conf, q, phase>>

Params == [iMaxQueueSize: Nat, iHighWtrMrk: Int, iLowWtrMrk: Int,
           iMinMsgsPerWrkr: Int, iFullDlyMrk: Int, iLightDlyMrk: Int,
           iDiscardMrk: Int, iDeqBatchSize: Int, iNumWorkerThreads: Int,
           bIsDA: BOOLEAN]

\* (max / 100) * pct, as the code writes it
Percent(max, pct) == (max \div 100) * pct

\* C's division of a size, which truncates
Quotient(a, b) == IF b > 0 THEN a \div b ELSE -(a \div (-b))

HighWtrMrkUnguarded(max, high) ==
    IF high < 2 \/ high > max THEN Percent(max, 90) ELSE high

HighWtrMrk(max, high) ==
    IF high < 2 \/ high > max
    THEN IF Percent(max, 90) = 0 THEN max ELSE Percent(max, 90)
    ELSE high

\* high is the already corrected high water mark
LowWtrMrk(max, high, low) ==
    IF low < 2 \/ low > max \/ low > high
    THEN IF Percent(max, 70) = 0 THEN 1 ELSE Percent(max, 70)
    ELSE low

MinMsgsImplausible(max, min) == min < 1 \/ min > max

MinMsgsPerWrkr(max, threads, min) ==
    IF MinMsgsImplausible(max, min) THEN Quotient(max, threads) ELSE min

SmallQueueMarkPlain(max) == max - 1

SmallQueueMark(max) == IF max = 1 THEN 1 ELSE max - 1

\* Only -1 is "not set": 0 and other negative values stay.
FullDlyMrk(max, full) ==
    IF full = -1 \/ full > max
    THEN IF Percent(max, 97) = 0 THEN SmallQueueMark(max) ELSE Percent(max, 97)
    ELSE full

\* The replacement of 0 by the queue's size comes first.
LightDlyMrk(max, light) ==
    LET set == IF light = 0 THEN max ELSE light
    IN IF set = -1 \/ set > max
       THEN IF Percent(max, 70) = 0 THEN SmallQueueMark(max) ELSE Percent(max, 70)
       ELSE set

DiscardMrk(max, mark) ==
    IF mark < 1 \/ mark > max
    THEN IF Percent(max, 98) = 0 THEN max ELSE Percent(max, 98)
    ELSE mark

DeqBatchSize(max, size) == IF max > 0 /\ size > max THEN max ELSE size

\* The assignments of qqueueCorrectParams in their order: the low mark sees
\* the corrected high mark.
Corrected(p) ==
    LET max  == p.iMaxQueueSize
        high == HighWtrMrk(max, p.iHighWtrMrk)
    IN [p EXCEPT
          !.iHighWtrMrk     = high,
          !.iLowWtrMrk      = LowWtrMrk(max, high, p.iLowWtrMrk),
          !.iMinMsgsPerWrkr = MinMsgsPerWrkr(max, p.iNumWorkerThreads, p.iMinMsgsPerWrkr),
          !.iFullDlyMrk     = FullDlyMrk(max, p.iFullDlyMrk),
          !.iLightDlyMrk    = LightDlyMrk(max, p.iLightDlyMrk),
          !.iDiscardMrk     = DiscardMrk(max, p.iDiscardMrk),
          !.iDeqBatchSize   = DeqBatchSize(max, p.iDeqBatchSize)]

\* "50% of high water mark", by which qqueueStart caps the full-delay mark of
\* a DA queue
HalfHighMark(high) == high - (high \div 100) * 50

AdjustedNever(p) == p

\* What qqueueStart makes of the corrected parameters
Adjusted(p) ==
    IF p.bIsDA /\ HalfHighMark(p.iHighWtrMrk) < p.iFullDlyMrk
    THEN [p EXCEPT !.iFullDlyMrk = HalfHighMark(p.iHighWtrMrk)]
    ELSE p

ParamsInit ==
    /\ conf \in [iMaxQueueSize: Sizes, iHighWtrMrk: Marks, iLowWtrMrk: Marks,
                 iMinMsgsPerWrkr: Marks, iFullDlyMrk: Marks, iLightDlyMrk: Marks,
                 iDiscardMrk: Marks, iDeqBatchSize: Batches,
                 iNumWorkerThreads: Threads, bIsDA: BOOLEAN]
    /\ q = conf
    /\ phase = "configured"

\* The number of worker threads is not checked before the queue's size is
\* divided by it.
DividesByZero(p) ==
    p.iNumWorkerThreads = 0 /\ MinMsgsImplausible(p.iMaxQueueSize, p.iMinMsgsPerWrkr)

qqueueCorrectParams ==
    /\ phase = "configured" /\ ~DividesByZero(q)
    /\ q' = Corrected(q)
    /\ phase' = "corrected"
    /\ UNCHANGED conf

\* qqueueCorrectParams ends the process with a SIGFPE.
CorrectParamsCrashes ==
    /\ phase = "configured" /\ DividesByZero(q)
    /\ phase' = "crashed"
    /\ UNCHANGED <<conf, q>>

qqueueStart ==
    /\ phase = "corrected"
    /\ q' = Adjusted(q)
    /\ phase' = "started"
    /\ UNCHANGED conf

ParamsNext == qqueueCorrectParams \/ CorrectParamsCrashes \/ qqueueStart

ParamsSpec == ParamsInit /\ [][ParamsNext]_paramVars

\* qqueueCorrectParams: in a queue with a limit, every mark its size is compared
\* with lies inside the queue, so that each of them can be reached and none holds
\* from the start.  The high, low and discard marks are corrected whatever was
\* configured; the delay marks only if they are above the queue's size or not
\* set, so that configured values below -1, and 0 for the full-delay mark, stay
\* as they are.  A batch is never larger than the queue, and a thread is never
\* asked to wait for more messages than fit.
MarksInsideQueue ==
    (phase \in {"corrected", "started"} /\ q.iMaxQueueSize > 0) =>
        LET inside == 1 .. q.iMaxQueueSize
        IN /\ {q.iHighWtrMrk, q.iLowWtrMrk, q.iDiscardMrk} \subseteq inside
           /\ q.iLightDlyMrk \in inside \/ conf.iLightDlyMrk < -1
           /\ \/ q.iFullDlyMrk \in inside
              \/ conf.iFullDlyMrk < -1 \/ conf.iFullDlyMrk = 0
           /\ q.iMinMsgsPerWrkr \in 0 .. q.iMaxQueueSize \/ conf.iNumWorkerThreads < 0
           /\ q.iDeqBatchSize <= q.iMaxQueueSize

\* The loop condition of doEnqSingleObj's full-delay wait, iQueueSize >=
\* iFullDlyMrk, in an empty queue
HoldsWhenEmpty(p) == 0 >= p.iFullDlyMrk

\* qqueueCorrectParams, qqueueStart: a running queue holds full-delayable producers
\* although it is empty, and so for ever, exactly if that mark was configured (as
\* 0, or as a negative value other than -1) or if the queue has no size limit, for
\* which every setting of the mark, and none, ends at 0 or below.
FullDelayStaysUsable ==
    phase = "started" =>
        (HoldsWhenEmpty(q) <=> \/ conf.iMaxQueueSize = 0
                               \/ conf.iFullDlyMrk = 0
                               \/ conf.iFullDlyMrk < -1)

\* qqueueStart, "if we are in DA mode, we must make sure full delayable messages do
\* not initiate going to disk!": a full-delayable producer stores its message while
\* the queue is below the full-delay mark and so brings it to that mark at most,
\* and the DA worker is started at the high water mark.
FullDelayNeverStartsDisk ==
    (phase = "started" /\ q.bIsDA) => q.iFullDlyMrk < q.iHighWtrMrk

\* qqueueStart: where the comment is right.  From a high water mark of 100 on, no
\* setting of the full-delay mark lets such a message start the DA worker.
LargeQueueSparesDisk ==
    (phase = "started" /\ q.bIsDA /\ q.iHighWtrMrk >= 100)
        => q.iFullDlyMrk < q.iHighWtrMrk
=============================================================================
