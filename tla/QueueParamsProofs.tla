------------------------ MODULE QueueParamsProofs ------------------------
(* Proofs about the parameters a queue runs with, for every queue size, mark,  *)
(* number of threads and batch size that can be configured.                    *)
EXTENDS QueueParams, TLAPS

\* (max / 100) * pct, with C's integer division, is a size inside the queue.
LEMMA PercentInside ==
    ASSUME NEW max \in Nat, NEW pct \in 1 .. 100
    PROVE  Percent(max, pct) \in 0 .. max
  <1>1. PICK d \in Nat : d = max \div 100 /\ 100 * d <= max
    OBVIOUS
  <1>2. d * pct \in Nat /\ d * pct <= d * 100
    BY <1>1
  <1> QED  BY <1>1, <1>2 DEF Percent

LEMMA HighInside ==
    ASSUME NEW max \in Nat, NEW high \in Int
    PROVE  /\ HighWtrMrk(max, high) \in 0 .. max
           /\ max > 0 => HighWtrMrk(max, high) \in 1 .. max
  <1>1. Percent(max, 90) \in 0 .. max
    BY PercentInside
  <1> QED  BY <1>1 DEF HighWtrMrk

LEMMA LowInside ==
    ASSUME NEW max \in Nat, NEW high \in 0 .. max, NEW low \in Int
    PROVE  /\ LowWtrMrk(max, high, low) \in Int
           /\ max > 0 => LowWtrMrk(max, high, low) \in 1 .. max
  <1>1. Percent(max, 70) \in 0 .. max
    BY PercentInside
  <1> QED  BY <1>1 DEF LowWtrMrk

LEMMA MinMsgsInside ==
    ASSUME NEW max \in Nat, NEW threads \in Int, NEW min \in Int,
           threads # 0 \/ ~MinMsgsImplausible(max, min)
    PROVE  /\ MinMsgsPerWrkr(max, threads, min) \in Int
           /\ threads >= 0 => MinMsgsPerWrkr(max, threads, min) \in 0 .. max
  <1>1. CASE ~MinMsgsImplausible(max, min)
    BY <1>1 DEF MinMsgsPerWrkr, MinMsgsImplausible
  <1>2. CASE MinMsgsImplausible(max, min) /\ threads > 0
    <2>1. max \div threads \in 0 .. max
      BY <1>2
    <2> QED  BY <1>2, <2>1 DEF MinMsgsPerWrkr, Quotient
  <1>3. CASE MinMsgsImplausible(max, min) /\ threads < 0
    <2>1. PICK n \in Nat \ {0} : n = -threads
      BY <1>3
    <2>2. max \div n \in Int
      BY <2>1
    <2>3. MinMsgsPerWrkr(max, threads, min) = -(max \div n)
      BY <1>3, <2>1 DEF MinMsgsPerWrkr, Quotient
    <2> QED  BY <1>3, <2>2, <2>3
  <1> QED  BY <1>1, <1>2, <1>3

\* The full-delay mark in a queue with a limit, and in one without
LEMMA FullDlyInside ==
    ASSUME NEW max \in Nat, NEW full \in Int
    PROVE  /\ FullDlyMrk(max, full) \in Int
           /\ (full < -1 \/ full = 0) => FullDlyMrk(max, full) = full
           /\ (max > 0 /\ ~(full < -1 \/ full = 0)) => FullDlyMrk(max, full) \in 1 .. max
           /\ max = 0 => FullDlyMrk(max, full) <= 0
  <1>1. Percent(max, 97) \in 0 .. max
    BY PercentInside
  <1> QED  BY <1>1 DEF FullDlyMrk, SmallQueueMark

LEMMA LightDlyInside ==
    ASSUME NEW max \in Nat, NEW light \in Int
    PROVE  /\ LightDlyMrk(max, light) \in Int
           /\ (max > 0 /\ ~(light < -1)) => LightDlyMrk(max, light) \in 1 .. max
  <1>1. Percent(max, 70) \in 0 .. max
    BY PercentInside
  <1> QED  BY <1>1 DEF LightDlyMrk, SmallQueueMark

LEMMA DiscardInside ==
    ASSUME NEW max \in Nat, NEW mark \in Int
    PROVE  /\ DiscardMrk(max, mark) \in Int
           /\ max > 0 => DiscardMrk(max, mark) \in 1 .. max
  <1>1. Percent(max, 98) \in 0 .. max
    BY PercentInside
  <1> QED  BY <1>1 DEF DiscardMrk

\* The cap qqueueStart puts on the full-delay mark of a disk-assisted queue
LEMMA HalfHighInside ==
    ASSUME NEW high \in Nat
    PROVE  /\ HalfHighMark(high) \in 0 .. high
           /\ high > 0 => HalfHighMark(high) > 0
           /\ high >= 100 => HalfHighMark(high) < high
  BY DEF HalfHighMark

\* What qqueueCorrectParams makes of the parameters p, as c
CorrectedFrom(p, c) ==
    LET max == p.iMaxQueueSize
        asIs(mark) == mark < -1 \/ mark = 0
    IN /\ c \in Params
       /\ c.iMaxQueueSize = max
       /\ c.iHighWtrMrk \in 0 .. max
       /\ max > 0 => {c.iHighWtrMrk, c.iLowWtrMrk, c.iDiscardMrk} \subseteq 1 .. max
       /\ (max > 0 /\ ~(p.iLightDlyMrk < -1)) => c.iLightDlyMrk \in 1 .. max
       /\ (max > 0 /\ ~asIs(p.iFullDlyMrk)) => c.iFullDlyMrk \in 1 .. max
       /\ asIs(p.iFullDlyMrk) => c.iFullDlyMrk = p.iFullDlyMrk
       /\ max = 0 => c.iFullDlyMrk <= 0
       /\ p.iNumWorkerThreads >= 0 => c.iMinMsgsPerWrkr \in 0 .. max
       /\ max > 0 => c.iDeqBatchSize <= max

LEMMA CorrectedParams ==
    ASSUME NEW p \in Params, ~DividesByZero(p)
    PROVE  CorrectedFrom(p, Corrected(p))
  <1> DEFINE max == p.iMaxQueueSize
             high == HighWtrMrk(max, p.iHighWtrMrk)
             low == LowWtrMrk(max, high, p.iLowWtrMrk)
             min == MinMsgsPerWrkr(max, p.iNumWorkerThreads, p.iMinMsgsPerWrkr)
             full == FullDlyMrk(max, p.iFullDlyMrk)
             light == LightDlyMrk(max, p.iLightDlyMrk)
             discard == DiscardMrk(max, p.iDiscardMrk)
             size == DeqBatchSize(max, p.iDeqBatchSize)
  <1>1. /\ max \in Nat
        /\ p.iHighWtrMrk \in Int /\ p.iLowWtrMrk \in Int
        /\ p.iMinMsgsPerWrkr \in Int /\ p.iNumWorkerThreads \in Int
        /\ p.iFullDlyMrk \in Int /\ p.iLightDlyMrk \in Int
        /\ p.iDiscardMrk \in Int /\ p.iDeqBatchSize \in Int
    BY DEF Params
  <1>2. high \in 0 .. max /\ (max > 0 => high \in 1 .. max)
    BY <1>1, HighInside
  <1>3. low \in Int /\ (max > 0 => low \in 1 .. max)
    BY <1>1, <1>2, LowInside
  <1>4. min \in Int /\ (p.iNumWorkerThreads >= 0 => min \in 0 .. max)
    BY <1>1, MinMsgsInside DEF DividesByZero
  <1>5. /\ full \in Int
        /\ (p.iFullDlyMrk < -1 \/ p.iFullDlyMrk = 0) => full = p.iFullDlyMrk
        /\ (max > 0 /\ ~(p.iFullDlyMrk < -1 \/ p.iFullDlyMrk = 0)) => full \in 1 .. max
        /\ max = 0 => full <= 0
    BY <1>1, FullDlyInside
  <1>6. light \in Int /\ ((max > 0 /\ ~(p.iLightDlyMrk < -1)) => light \in 1 .. max)
    BY <1>1, LightDlyInside
  <1>7. discard \in Int /\ (max > 0 => discard \in 1 .. max)
    BY <1>1, DiscardInside
  <1>8. size \in Int /\ (max > 0 => size <= max)
    BY <1>1 DEF DeqBatchSize
  <1>9. Corrected(p) = [p EXCEPT !.iHighWtrMrk = high, !.iLowWtrMrk = low,
                          !.iMinMsgsPerWrkr = min, !.iFullDlyMrk = full,
                          !.iLightDlyMrk = light, !.iDiscardMrk = discard,
                          !.iDeqBatchSize = size]
    BY DEF Corrected
  <1> HIDE DEF high, low, min, full, light, discard, size
  <1>10. high \in Int
    BY <1>1, <1>2
  <1>11. Corrected(p) \in Params
    BY <1>3, <1>4, <1>5, <1>6, <1>7, <1>8, <1>9, <1>10 DEF Params
  <1>12. /\ Corrected(p).iMaxQueueSize = max
         /\ Corrected(p).iHighWtrMrk = high /\ Corrected(p).iLowWtrMrk = low
         /\ Corrected(p).iMinMsgsPerWrkr = min /\ Corrected(p).iFullDlyMrk = full
         /\ Corrected(p).iLightDlyMrk = light /\ Corrected(p).iDiscardMrk = discard
         /\ Corrected(p).iDeqBatchSize = size
    BY <1>9 DEF Params
  <1> QED
    BY <1>2, <1>3, <1>4, <1>5, <1>6, <1>7, <1>8, <1>11, <1>12 DEF CorrectedFrom

\* qqueueStart changes the full-delay mark alone, and only lowers it, to a value
\* that is positive wherever the high water mark is.
LEMMA AdjustedParams ==
    ASSUME NEW c \in Params, c.iHighWtrMrk >= 0
    PROVE  /\ Adjusted(c) = [c EXCEPT !.iFullDlyMrk = Adjusted(c).iFullDlyMrk]
           /\ Adjusted(c).iFullDlyMrk \in Int
           /\ Adjusted(c).iFullDlyMrk <= c.iFullDlyMrk
           /\ (c.iHighWtrMrk > 0 /\ c.iFullDlyMrk > 0) => Adjusted(c).iFullDlyMrk > 0
           /\ (c.bIsDA /\ c.iHighWtrMrk >= 100) => Adjusted(c).iFullDlyMrk < c.iHighWtrMrk
  <1> DEFINE half == HalfHighMark(c.iHighWtrMrk)
  <1>1. c.iHighWtrMrk \in Nat /\ c.iFullDlyMrk \in Int /\ c.bIsDA \in BOOLEAN
    BY DEF Params
  <1>2. /\ half \in 0 .. c.iHighWtrMrk
        /\ c.iHighWtrMrk > 0 => half > 0
        /\ c.iHighWtrMrk >= 100 => half < c.iHighWtrMrk
    BY <1>1, HalfHighInside
  <1> HIDE DEF half
  <1>3. CASE c.bIsDA /\ half < c.iFullDlyMrk
    <2>1. Adjusted(c) = [c EXCEPT !.iFullDlyMrk = half]
      BY <1>3 DEF Adjusted, half
    <2> QED  BY <1>1, <1>2, <1>3, <2>1 DEF Params
  <1>4. CASE ~(c.bIsDA /\ half < c.iFullDlyMrk)
    <2>1. Adjusted(c) = c
      BY <1>4 DEF Adjusted, half
    <2> QED  BY <1>1, <1>2, <1>4, <2>1 DEF Params
  <1> QED  BY <1>3, <1>4

\* The inductive invariant: what the queue runs with is computed from the
\* configured parameters, to which the properties compare it.
ParamsInv ==
    /\ conf \in Params
    /\ phase \in {"configured", "crashed", "corrected", "started"}
    /\ phase \in {"configured", "crashed"} => q = conf
    /\ phase \in {"corrected", "started"} => ~DividesByZero(conf)
    /\ phase = "corrected" => q = Corrected(conf)
    /\ phase = "started" => q = Adjusted(Corrected(conf))

LEMMA InitParamsInv == ParamsInit => ParamsInv
  <1> SUFFICES ASSUME ParamsInit PROVE ParamsInv
    OBVIOUS
  <1>1. conf \in Params
    BY ParamAssumption DEF ParamsInit, Params
  <1> QED  BY <1>1 DEF ParamsInit, ParamsInv

LEMMA NextParamsInv == ParamsInv /\ [ParamsNext]_paramVars => ParamsInv'
  <1> SUFFICES ASSUME ParamsInv, [ParamsNext]_paramVars PROVE ParamsInv'
    OBVIOUS
  <1>1. CASE qqueueCorrectParams
    BY <1>1 DEF ParamsInv, qqueueCorrectParams
  <1>2. CASE CorrectParamsCrashes
    BY <1>2 DEF ParamsInv, CorrectParamsCrashes
  <1>3. CASE qqueueStart
    BY <1>3 DEF ParamsInv, qqueueStart
  <1>4. CASE UNCHANGED paramVars
    BY <1>4 DEF ParamsInv, paramVars
  <1> QED  BY <1>1, <1>2, <1>3, <1>4 DEF ParamsNext

\* What the two steps make of the configured parameters, together: the queue runs
\* with the corrected parameters c except for the full-delay mark.
RunsWith(c) ==
    /\ CorrectedFrom(conf, c)
    /\ q = [c EXCEPT !.iFullDlyMrk = q.iFullDlyMrk]
    /\ q.iFullDlyMrk \in Int
    /\ q.iFullDlyMrk <= c.iFullDlyMrk
    /\ (c.iHighWtrMrk > 0 /\ c.iFullDlyMrk > 0) => q.iFullDlyMrk > 0
    /\ (phase = "started" /\ c.bIsDA /\ c.iHighWtrMrk >= 100)
         => q.iFullDlyMrk < c.iHighWtrMrk

LEMMA RunningParams ==
    ASSUME ParamsInv, phase \in {"corrected", "started"}
    PROVE  \E c : RunsWith(c)
  <1>1. PICK c : c = Corrected(conf)
    OBVIOUS
  <1>2. CorrectedFrom(conf, c)
    BY <1>1, CorrectedParams DEF ParamsInv
  <1>3. c \in Params /\ c.iHighWtrMrk >= 0
    BY <1>2 DEF ParamsInv, CorrectedFrom, Params
  <1>4. CASE phase = "corrected"
    <2>1. q = c
      BY <1>1, <1>4 DEF ParamsInv
    <2>2. q = [c EXCEPT !.iFullDlyMrk = q.iFullDlyMrk]
      BY <1>3, <2>1 DEF Params
    <2>3. RunsWith(c)
      BY <1>2, <1>3, <1>4, <2>1, <2>2 DEF Params, RunsWith
    <2> QED  BY <2>3
  <1>5. CASE phase = "started"
    <2>1. q = Adjusted(c)
      BY <1>1, <1>5 DEF ParamsInv
    <2>2. RunsWith(c)
      BY <1>2, <1>3, <2>1, AdjustedParams DEF RunsWith
    <2> QED  BY <2>2
  <1> QED  BY <1>4, <1>5

\* qqueueCorrectParams: for every size above 0 and whatever is configured, the
\* high, low and discard marks lie inside the queue, and the delay marks unless a
\* value below -1, or 0 for the full-delay mark, was configured.
THEOREM MarksAreInside == ParamsSpec => []MarksInsideQueue
  <1>1. ParamsInv => MarksInsideQueue
    <2> SUFFICES ASSUME ParamsInv, phase \in {"corrected", "started"},
                        q.iMaxQueueSize > 0
                 PROVE  MarksInsideQueue
      BY DEF MarksInsideQueue
    <2>1. PICK c : RunsWith(c)
      BY RunningParams
    <2>2. conf \in Params
      BY DEF ParamsInv
    <2>3. /\ c \in Params
          /\ q.iMaxQueueSize = conf.iMaxQueueSize /\ q.iHighWtrMrk = c.iHighWtrMrk
          /\ q.iLowWtrMrk = c.iLowWtrMrk /\ q.iDiscardMrk = c.iDiscardMrk
          /\ q.iLightDlyMrk = c.iLightDlyMrk /\ q.iMinMsgsPerWrkr = c.iMinMsgsPerWrkr
          /\ q.iDeqBatchSize = c.iDeqBatchSize
      BY <2>1 DEF RunsWith, CorrectedFrom, Params
    <2>4. conf.iFullDlyMrk < -1 \/ conf.iFullDlyMrk = 0 \/ q.iFullDlyMrk \in 1 .. q.iMaxQueueSize
      BY <2>1, <2>2, <2>3 DEF RunsWith, CorrectedFrom, Params
    <2> QED  BY <2>1, <2>2, <2>3, <2>4 DEF RunsWith, CorrectedFrom, Params, MarksInsideQueue
  <1> QED  BY <1>1, InitParamsInv, NextParamsInv, PTL DEF ParamsSpec

\* qqueueCorrectParams, qqueueStart: an empty queue holds full-delayable producers
\* exactly if it has no size limit or its mark was configured as 0 or below -1.
THEOREM FullDelayUsable == ParamsSpec => []FullDelayStaysUsable
  <1>1. ParamsInv => FullDelayStaysUsable
    <2> SUFFICES ASSUME ParamsInv, phase = "started"
                 PROVE  FullDelayStaysUsable
      BY DEF FullDelayStaysUsable
    <2>1. PICK c : RunsWith(c)
      BY RunningParams
    <2>2. conf \in Params
      BY DEF ParamsInv
    <2> QED  BY <2>1, <2>2 DEF RunsWith, CorrectedFrom, Params, FullDelayStaysUsable, HoldsWhenEmpty
  <1> QED  BY <1>1, InitParamsInv, NextParamsInv, PTL DEF ParamsSpec

\* qqueueStart: in a DA queue whose high water mark is 100 or more, no setting of
\* the full-delay mark lets a full-delayable message start the DA worker.
THEOREM LargeQueuesSpareDisk == ParamsSpec => []LargeQueueSparesDisk
  <1>1. ParamsInv => LargeQueueSparesDisk
    <2> SUFFICES ASSUME ParamsInv, phase = "started", q.bIsDA, q.iHighWtrMrk >= 100
                 PROVE  q.iFullDlyMrk < q.iHighWtrMrk
      BY DEF LargeQueueSparesDisk
    <2>1. PICK c : RunsWith(c)
      BY RunningParams
    <2>2. q.bIsDA = c.bIsDA /\ q.iHighWtrMrk = c.iHighWtrMrk
      BY <2>1 DEF RunsWith, CorrectedFrom, Params
    <2> QED  BY <2>1, <2>2 DEF RunsWith
  <1> QED  BY <1>1, InitParamsInv, NextParamsInv, PTL DEF ParamsSpec
===========================================================================
