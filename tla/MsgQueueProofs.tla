--------------------------- MODULE MsgQueueProofs ---------------------------
(* Proofs about the message queue for every number of producers, workers and   *)
(* messages and every setting of its parameters: the types of its state, the   *)
(* agreement of its counters with its store, and its capacity.                 *)
EXTENDS MsgQueue, FiniteSetTheorems, SequenceTheorems, TLAPS

\* A producer that is not done has a message in hand.
TodoInv ==
    \A p \in Producers : ppc[p] \notin {"idle", "advise"} => todo[p] # <<>>

\* A worker that puts a message back is at an element of its batch.
RestoreInv ==
    \A w \in Workers : wpc[w] \in {"restore", "reenqWait", "reenqWoken"}
                          => idx[w] <= Len(batch[w])

BatchBound == \A w \in Workers : Len(batch[w]) <= iDeqBatchSize

\* The inductive invariant.
QueueInv ==
    /\ TypeOK /\ TodoInv /\ RestoreInv /\ BatchBound
    /\ CountersMatchStore /\ CapacityRespected

---------------------------------------------------------------------------
(* Sequences.                                                                 *)

LEMMA HeadTail ==
    ASSUME NEW S, NEW s \in Seq(S), s # <<>>
    PROVE  /\ Head(s) \in S /\ Tail(s) \in Seq(S)
           /\ Len(s) \in Nat \ {0} /\ Len(Tail(s)) = Len(s) - 1
           /\ Len(s) > 1 => Tail(s) # <<>>
  <1>1. /\ Head(s) \in S /\ Tail(s) \in Seq(S)
        /\ Len(s) \in Nat \ {0} /\ Len(Tail(s)) = Len(s) - 1
    OBVIOUS
  <1>2. ASSUME Len(s) > 1  PROVE Tail(s) # <<>>
    <2>1. Len(Tail(s)) # 0
      BY <1>1, <1>2
    <2> QED  BY <2>1, EmptySeq
  <1> QED  BY <1>1, <1>2

\* Marking an element keeps a batch a batch of the same length.
LEMMA MarkedElement ==
    ASSUME NEW s \in Seq(Elements), NEW i \in Nat \ {0}, i <= Len(s),
           NEW st \in {"RDY", "COMM"}
    PROVE  /\ [s EXCEPT ![i].st = st] \in Seq(Elements)
           /\ Len([s EXCEPT ![i].st = st]) = Len(s)
  <1> DEFINE e == [s[i] EXCEPT !.st = st]
  <1>1. s[i] \in Elements
    OBVIOUS
  <1>2. e \in Elements
    BY <1>1 DEF Elements
  <1>3. [s EXCEPT ![i].st = st] = [s EXCEPT ![i] = e]
    OBVIOUS
  <1> HIDE DEF e
  <1>4. [s EXCEPT ![i] = e] \in Seq(Elements) /\ Len([s EXCEPT ![i] = e]) = Len(s)
    BY <1>2, ExceptSeq
  <1> QED  BY <1>3, <1>4

---------------------------------------------------------------------------
(* Counting the elements of all batches.                                      *)

LEMMA InFlightElements ==
    \A s : s \in InFlight <=> \E w \in Workers : \E i \in 1 .. Len(batch[w]) : s = <<w, i>>
  BY DEF InFlight

LEMMA InFlightFinite ==
    ASSUME TypeOK, BatchBound
    PROVE  IsFiniteSet(InFlight) /\ Cardinality(InFlight) \in Nat
  <1>1. IsFiniteSet(Workers) /\ IsFiniteSet(1 .. iDeqBatchSize)
    BY FS_Interval, QueueAssumption DEF Workers
  <1>2. IsFiniteSet(Workers \X (1 .. iDeqBatchSize))
    BY <1>1, FS_Product
  <1>3. InFlight \subseteq Workers \X (1 .. iDeqBatchSize)
    <2> SUFFICES ASSUME NEW w \in Workers, NEW i \in 1 .. Len(batch[w])
                 PROVE  <<w, i>> \in Workers \X (1 .. iDeqBatchSize)
      BY InFlightElements
    <2>1. Len(batch[w]) \in Nat /\ Len(batch[w]) <= iDeqBatchSize
      BY DEF TypeOK, WorkerType, BatchBound
    <2> QED  BY <2>1, QueueAssumption
  <1> QED  BY <1>2, <1>3, FS_Subset, FS_CardinalityType

LEMMA InFlightNext ==
    \A s : s \in InFlight' <=> \E w \in Workers : \E i \in 1 .. Len(batch'[w]) : s = <<w, i>>
  BY DEF InFlight

\* A worker's batch grows by one element.
LEMMA InFlightGrows ==
    ASSUME TypeOK, BatchBound, NEW w \in Workers,
           \A v \in Workers : Len(batch'[v]) = IF v = w THEN Len(batch[w]) + 1
                                                        ELSE Len(batch[v])
    PROVE  Cardinality(InFlight') = Cardinality(InFlight) + 1
  <1> DEFINE n == Len(batch[w]) + 1
  <1>1. \A v \in Workers : Len(batch[v]) \in Nat
    BY DEF TypeOK, WorkerType
  <1>2. <<w, n>> \notin InFlight
    BY <1>1, InFlightElements
  <1>3. InFlight' = InFlight \cup {<<w, n>>}
    <2>1. ASSUME NEW s \in InFlight'  PROVE s \in InFlight \cup {<<w, n>>}
      BY <1>1, <2>1, InFlightElements, InFlightNext
    <2>2. ASSUME NEW s \in InFlight  PROVE s \in InFlight'
      <3>1. PICK v \in Workers : \E i \in 1 .. Len(batch[v]) : s = <<v, i>>
        BY <2>2, InFlightElements
      <3>i. PICK i \in 1 .. Len(batch[v]) : s = <<v, i>>
        BY <3>1
      <3>2. i \in 1 .. Len(batch'[v])
        BY <1>1, <3>i
      <3> QED  BY <3>i, <3>2, InFlightNext
    <2>3. <<w, n>> \in InFlight'
      BY <1>1, InFlightNext
    <2> QED  BY <2>1, <2>2, <2>3
  <1> QED  BY <1>2, <1>3, InFlightFinite, FS_AddElement

\* A worker's batch of n elements is reset.
LEMMA InFlightShrinks ==
    ASSUME TypeOK, BatchBound, NEW w \in Workers,
           \A v \in Workers : Len(batch'[v]) = IF v = w THEN 0 ELSE Len(batch[v])
    PROVE  /\ Cardinality(InFlight') = Cardinality(InFlight) - Len(batch[w])
           /\ Len(batch[w]) <= Cardinality(InFlight)
  <1> DEFINE own == {w} \X (1 .. Len(batch[w]))
  <1>1. \A v \in Workers : Len(batch[v]) \in Nat
    BY DEF TypeOK, WorkerType
  <1>2. IsFiniteSet(own) /\ Cardinality(own) = Len(batch[w])
    <2>1. IsFiniteSet({w}) /\ Cardinality({w}) = 1
      BY FS_Singleton
    <2>2. IsFiniteSet(1 .. Len(batch[w])) /\ Cardinality(1 .. Len(batch[w])) = Len(batch[w])
      BY <1>1, FS_Interval
    <2>3. /\ IsFiniteSet(own)
          /\ Cardinality(own) = Cardinality({w}) * Cardinality(1 .. Len(batch[w]))
      BY <2>1, <2>2, FS_Product
    <2> QED  BY <1>1, <2>1, <2>2, <2>3
  <1>3. own \subseteq InFlight
    BY InFlightElements
  <1>4. InFlight' = InFlight \ own
    <2>1. ASSUME NEW s \in InFlight'  PROVE s \in InFlight \ own
      <3>1. PICK v \in Workers : \E i \in 1 .. Len(batch'[v]) : s = <<v, i>>
        BY <2>1, InFlightNext
      <3>i. PICK i \in 1 .. Len(batch'[v]) : s = <<v, i>>
        BY <3>1
      <3>2. v # w
        BY <3>i
      <3>3. i \in 1 .. Len(batch[v])
        BY <3>i, <3>2
      <3> QED  BY <3>i, <3>2, <3>3, InFlightElements
    <2>2. ASSUME NEW s \in InFlight, s \notin own  PROVE s \in InFlight'
      <3>1. PICK v \in Workers : \E i \in 1 .. Len(batch[v]) : s = <<v, i>>
        BY <2>2, InFlightElements
      <3>i. PICK i \in 1 .. Len(batch[v]) : s = <<v, i>>
        BY <3>1
      <3>2. v # w
        BY <2>2, <3>i
      <3> QED  BY <3>i, <3>2, InFlightNext
    <2> QED  BY <2>1, <2>2
  <1>5. InFlight \cap own = own
    BY <1>3
  <1> HIDE DEF own
  <1>6. Cardinality(InFlight \ own) = Cardinality(InFlight) - Cardinality(InFlight \cap own)
    BY InFlightFinite, FS_Difference
  <1>7. Cardinality(own) <= Cardinality(InFlight)
    BY <1>3, InFlightFinite, FS_Subset
  <1> QED  BY <1>2, <1>4, <1>5, <1>6, <1>7

\* No batch changes its length.
LEMMA InFlightSame ==
    ASSUME \A v \in Workers : Len(batch'[v]) = Len(batch[v])
    PROVE  InFlight' = InFlight
  BY InFlightElements, InFlightNext
---------------------------------------------------------------------------
(* The invariant holds initially.                                             *)

LEMMA InitQueueInv == Init => QueueInv
  <1> SUFFICES ASSUME Init PROVE QueueInv
    OBVIOUS
  <1>1. TypeOK
    <2>1. StoreType /\ HistoryType /\ ProducerType
      BY QueueAssumption DEF Init, StoreType, HistoryType, ProducerType, Fates
    <2>2. WorkerType
      BY DEF Init, WorkerType
    <2>3. ControlType
      BY DEF Init, ControlType
    <2> QED  BY <2>1, <2>2, <2>3 DEF TypeOK, Init
  <1>2. TodoInv /\ RestoreInv /\ BatchBound
    BY QueueAssumption DEF Init, TodoInv, RestoreInv, BatchBound
  <1>3. InFlight = {}
    BY InFlightElements DEF Init
  <1>4. CountersMatchStore /\ CapacityRespected
    BY <1>3, FS_EmptySet, QueueAssumption DEF Init, CountersMatchStore, CapacityRespected
  <1> QED  BY <1>1, <1>2, <1>4 DEF QueueInv

---------------------------------------------------------------------------
(* Steps.  Most of them leave the store and the batches alone,                *)

LEMMA FrameKeeps ==
    ASSUME QueueInv, UNCHANGED <<store, batch>>
    PROVE  BatchBound' /\ CountersMatchStore' /\ CapacityRespected'
  BY DEF QueueInv, store, BatchBound, CountersMatchStore, InFlight, CapacityRespected

LEMMA TypeFrame ==
    /\ StoreType /\ UNCHANGED store => StoreType'
    /\ ProducerType /\ UNCHANGED producer => ProducerType'
    /\ WorkerType /\ UNCHANGED worker => WorkerType'
    /\ ControlType /\ UNCHANGED control => ControlType'
    /\ HistoryType /\ UNCHANGED history => HistoryType'
  <1>1. StoreType /\ UNCHANGED store => StoreType'
    BY DEF StoreType, store
  <1>2. ProducerType /\ UNCHANGED producer => ProducerType'
    BY DEF ProducerType, producer
  <1>3. WorkerType /\ UNCHANGED worker => WorkerType'
    BY DEF WorkerType, worker
  <1>4. ControlType /\ UNCHANGED control => ControlType'
    BY DEF ControlType, control
  <1>5. HistoryType /\ UNCHANGED history => HistoryType'
    BY DEF HistoryType, history
  <1> QED  BY <1>1, <1>2, <1>3, <1>4, <1>5

\* or store one more message after a test that there is room.
LEMMA AddKeeps ==
    ASSUME QueueInv, NEW m \in Msgs, ~QueueFull, qqueueAdd(m), UNCHANGED batch
    PROVE  /\ pend' \in Seq(Msgs) /\ nOut' \in Nat /\ iQueueSize' \in Nat /\ nLogDeq' \in Nat
           /\ BatchBound' /\ CountersMatchStore' /\ CapacityRespected'
  <1>1. /\ pend \in Seq(Msgs) /\ nOut \in Nat /\ iQueueSize \in Nat /\ nLogDeq \in Nat
        /\ iQueueSize = nOut + Len(pend) /\ nLogDeq = nOut
        /\ Cardinality(InFlight) <= nOut
    BY DEF QueueInv, TypeOK, StoreType, CountersMatchStore
  <1>2. /\ pend' = Append(pend, m) /\ iQueueSize' = iQueueSize + 1
        /\ nOut' = nOut /\ nLogDeq' = nLogDeq
    BY DEF qqueueAdd
  <1>3. pend' \in Seq(Msgs) /\ Len(pend') = Len(pend) + 1
    BY <1>1, <1>2
  <1>4. InFlight' = InFlight
    BY DEF InFlight
  <1>5. CountersMatchStore'
    BY <1>1, <1>2, <1>3, <1>4 DEF CountersMatchStore
  <1>6. CapacityRespected'
    BY <1>1, <1>2, QueueAssumption DEF QueueFull, CapacityRespected
  <1>7. BatchBound'
    BY DEF QueueInv, BatchBound
  <1> QED  BY <1>1, <1>2, <1>3, <1>5, <1>6, <1>7

LEMMA SubmitStep ==
    ASSUME QueueInv, NEW p \in Producers, Submit(p)
    PROVE  QueueInv'
  <1>1. PICK k \in 1 .. MaxMulti :
          /\ nSub + k <= MaxMsgs /\ nSub' = nSub + k
          /\ todo' = [todo EXCEPT ![p] = [i \in 1 .. k |-> nSub + i]]
    BY DEF Submit
  <1> DEFINE new == [i \in 1 .. k |-> nSub + i]
  <1>2. nSub \in Nat /\ k \in Nat /\ k >= 1 /\ MaxMsgs \in Nat
    BY <1>1, QueueAssumption DEF QueueInv, TypeOK, ProducerType
  <1>3. new \in Seq(Msgs) /\ new # <<>>
    BY <1>1, <1>2 DEF Msgs
  <1>4. /\ todo' = [todo EXCEPT ![p] = new] /\ ppc' = [ppc EXCEPT ![p] = "enq"]
        /\ mut' = p /\ UNCHANGED <<store, worker, control, history>>
    BY <1>1 DEF Submit
  <1> HIDE DEF new
  <1>5. ProducerType'
    <2>1. nSub' \in 0 .. MaxMsgs
      BY <1>1, <1>2
    <2>2. todo' \in [Producers -> Seq(Msgs)]
      BY <1>3, <1>4 DEF QueueInv, TypeOK, ProducerType
    <2> QED  BY <1>4, <2>1, <2>2 DEF QueueInv, TypeOK, ProducerType
  <1>6. TypeOK'
    BY <1>4, <1>5, TypeFrame DEF QueueInv, TypeOK
  <1>7. TodoInv' /\ RestoreInv'
    BY <1>3, <1>4 DEF QueueInv, TypeOK, ProducerType, TodoInv, RestoreInv, worker
  <1> QED  BY <1>4, <1>6, <1>7, FrameKeeps DEF QueueInv, worker

\* The flow control waits of a producer move its control state only.
LEMMA WaitStep ==
    ASSUME QueueInv, NEW p \in Producers,
           NEW pc \in {"fullDelay", "lightDelay", "store", "notFull"},
           ppc[p] \notin {"idle", "advise"},
           ppc' = [ppc EXCEPT ![p] = pc], mut' \in {p, NoThread},
           UNCHANGED <<store, nSub, todo, worker, control, history>>
    PROVE  QueueInv'
  <1>1. ProducerType'
    BY DEF QueueInv, TypeOK, ProducerType
  <1>2. TypeOK'
    BY <1>1, TypeFrame DEF QueueInv, TypeOK
  <1>3. TodoInv' /\ RestoreInv'
    BY DEF QueueInv, TypeOK, ProducerType, TodoInv, RestoreInv, worker
  <1> QED  BY <1>2, <1>3, FrameKeeps DEF QueueInv, worker

\* doEnqSingleObj is done with a message, whether it stored or refused it.
LEMMA FinishKeeps ==
    ASSUME QueueInv, NEW p \in Producers, ppc[p] \notin {"idle", "advise"}, Finish(p)
    PROVE  ProducerType' /\ TodoInv' /\ mut' = p
  <1>1. /\ Tail(todo[p]) \in Seq(Msgs)
        /\ Len(todo[p]) > 1 => Tail(todo[p]) # <<>>
    <2>1. todo[p] \in Seq(Msgs) /\ todo[p] # <<>>
      BY DEF QueueInv, TypeOK, ProducerType, TodoInv
    <2> QED  BY <2>1, HeadTail
  <1>2. ProducerType'
    BY <1>1 DEF QueueInv, TypeOK, ProducerType, Finish
  <1>3. TodoInv'
    BY <1>1 DEF QueueInv, TypeOK, ProducerType, TodoInv, Finish
  <1> QED  BY <1>2, <1>3 DEF Finish

LEMMA RefuseStep ==
    ASSUME QueueInv, NEW p \in Producers, ppc[p] \notin {"idle", "advise"},
           Refuse(Head(todo[p])), Finish(p), UNCHANGED <<store, worker, control>>
    PROVE  QueueInv'
  <1>1. HistoryType'
    BY DEF QueueInv, TypeOK, HistoryType, Refuse, Fates
  <1>2. TypeOK'
    BY <1>1, FinishKeeps, TypeFrame DEF QueueInv, TypeOK
  <1>3. RestoreInv'
    BY DEF QueueInv, RestoreInv, worker
  <1> QED  BY <1>2, <1>3, FinishKeeps, FrameKeeps DEF QueueInv, worker

LEMMA EnqEntryStep ==
    ASSUME QueueInv, NEW p \in Producers, EnqEntry(p)
    PROVE  QueueInv'
  <1>1. ppc[p] = "enq" /\ mut = p
    BY DEF EnqEntry
  <1>2. CASE ChkDiscardMsg(Head(todo[p]))
    BY <1>1, <1>2, RefuseStep DEF EnqEntry
  <1>3. CASE ~ChkDiscardMsg(Head(todo[p]))
    BY <1>1, <1>3, WaitStep DEF EnqEntry
  <1> QED  BY <1>2, <1>3

LEMMA EnqStoreStep ==
    ASSUME QueueInv, NEW p \in Producers, EnqStore(p)
    PROVE  QueueInv'
  <1>1. ppc[p] = "store" /\ mut = p /\ UNCHANGED <<worker, control>>
    BY DEF EnqStore
  <1>2. CASE Refuse(Head(todo[p])) /\ Finish(p) /\ UNCHANGED store
    BY <1>1, <1>2, RefuseStep
  <1>3. CASE /\ gone' = [m \in Msgs |-> IF \E i \in DOMAIN todo[p] : todo[p][i] = m
                                        THEN "refused" ELSE gone[m]]
             /\ todo' = [todo EXCEPT ![p] = <<>>]
             /\ ppc' = [ppc EXCEPT ![p] = "advise"]
             /\ UNCHANGED <<store, mut, nSub, nProc, nFail>>
    <2>1. ProducerType'
      BY <1>3 DEF QueueInv, TypeOK, ProducerType
    <2>2. HistoryType'
      BY <1>3 DEF QueueInv, TypeOK, HistoryType, Fates
    <2>3. TypeOK'
      BY <1>1, <1>3, <2>1, <2>2, TypeFrame DEF QueueInv, TypeOK
    <2>4. TodoInv' /\ RestoreInv'
      BY <1>1, <1>3 DEF QueueInv, TypeOK, ProducerType, TodoInv, RestoreInv, worker
    <2> QED  BY <1>1, <1>3, <2>3, <2>4, FrameKeeps DEF QueueInv, worker
  <1>4. CASE /\ ppc' = [ppc EXCEPT ![p] = "notFull"] /\ mut' = NoThread
             /\ UNCHANGED <<store, nSub, todo, history>>
    BY <1>1, <1>4, WaitStep
  <1>5. CASE ~QueueFull /\ qqueueAdd(Head(todo[p])) /\ Finish(p) /\ UNCHANGED history
    <2>1. Head(todo[p]) \in Msgs
      BY <1>1 DEF QueueInv, TypeOK, ProducerType, TodoInv
    <2>2. UNCHANGED batch
      BY <1>1 DEF worker
    <2>3. StoreType' /\ BatchBound' /\ CountersMatchStore' /\ CapacityRespected'
      BY <1>5, <2>1, <2>2, AddKeeps DEF StoreType
    <2>4. TypeOK'
      BY <1>1, <1>5, <2>3, FinishKeeps, TypeFrame DEF QueueInv, TypeOK
    <2>5. RestoreInv'
      BY <1>1 DEF QueueInv, RestoreInv, worker
    <2> QED  BY <1>1, <1>5, <2>3, <2>4, <2>5, FinishKeeps DEF QueueInv
  <1> QED  BY <1>2, <1>3, <1>4, <1>5 DEF EnqStore

LEMMA ProducerStepKeeps ==
    ASSUME QueueInv, NEW p \in Producers, ProducerStep(p)
    PROVE  QueueInv'
  <1>1. CASE FullDelayWake(p) \/ LightDelayWake(p) \/ NotFullSignalled(p)
    BY <1>1, WaitStep DEF FullDelayWake, LightDelayWake, NotFullSignalled
  <1>2. CASE NotFullTimeout(p)
    BY <1>2, RefuseStep DEF NotFullTimeout
  <1>3. CASE Advise(p)
    <2>1. ProducerType'
      BY <1>3 DEF QueueInv, TypeOK, ProducerType, Advise
    <2>2. WorkerType'
      BY <1>3 DEF QueueInv, TypeOK, WorkerType, Advise, Wake, Busy
    <2>3. TypeOK'
      BY <1>3, <2>1, <2>2, TypeFrame DEF QueueInv, TypeOK, Advise
    <2>4. TodoInv'
      BY <1>3 DEF QueueInv, TypeOK, ProducerType, TodoInv, Advise
    <2>5. RestoreInv'
      BY <1>3 DEF QueueInv, TypeOK, WorkerType, RestoreInv, Advise, Wake, Busy
    <2> QED  BY <1>3, <2>3, <2>4, <2>5, FrameKeeps DEF QueueInv, Advise
  <1> QED
    BY <1>1, <1>2, <1>3, SubmitStep, EnqEntryStep, EnqStoreStep DEF ProducerStep
---------------------------------------------------------------------------
(* Worker steps.                                                              *)

\* A step of a worker that moves its control state, loop index, terminateRet and
\* keep_running, and maybe wakes others, but no message
LEMMA WorkerMoves ==
    ASSUME QueueInv, UNCHANGED <<store, batch, nSub, todo, control>>,
           WorkerType', ProducerType', HistoryType', TodoInv', RestoreInv',
           mut' \in Producers \cup Workers \cup {NoThread}
    PROVE  QueueInv'
  <1>1. TypeOK'
    BY TypeFrame DEF QueueInv, TypeOK
  <1> QED  BY <1>1, FrameKeeps DEF QueueInv

LEMMA ProducerFrame ==
    ASSUME QueueInv, UNCHANGED producer
    PROVE  ProducerType' /\ TodoInv' /\ UNCHANGED <<nSub, todo>>
  BY TypeFrame DEF QueueInv, TypeOK, TodoInv, producer

LEMMA LoseKeeps ==
    ASSUME QueueInv, NEW m, NEW fate \in Fates, Lose(m, fate)
    PROVE  HistoryType'
  BY DEF QueueInv, TypeOK, HistoryType, Lose

\* DeleteProcessedBatch goes to its next element.
LEMMA NextElementKeeps ==
    ASSUME QueueInv, NEW w \in Workers, NextElement(w), UNCHANGED <<batch, stop, keep>>
    PROVE  WorkerType' /\ RestoreInv'
  <1>1. WorkerType'
    BY DEF QueueInv, TypeOK, WorkerType, NextElement
  <1>2. RestoreInv'
    BY DEF QueueInv, TypeOK, WorkerType, RestoreInv, NextElement
  <1> QED  BY <1>1, <1>2

LEMMA WorkerLoopStep ==
    ASSUME QueueInv, NEW w \in Workers, WorkerLoop(w)
    PROVE  QueueInv'
  <1>1. ChkStopWrkr \in {"no", "idle", "now"}
    BY DEF ChkStopWrkr
  <1>2. WorkerType'
    BY <1>1 DEF QueueInv, TypeOK, WorkerType, WorkerLoop
  <1>3. RestoreInv'
    BY DEF QueueInv, TypeOK, WorkerType, RestoreInv, WorkerLoop
  <1>4. HistoryType'
    BY TypeFrame DEF QueueInv, TypeOK, WorkerLoop
  <1> QED  BY <1>2, <1>3, <1>4, ProducerFrame, WorkerMoves DEF WorkerLoop

LEMMA DeleteElementStep ==
    ASSUME QueueInv, NEW w \in Workers, DeleteElement(w)
    PROVE  QueueInv'
  <1>1. /\ idx[w] <= Len(batch[w])
        /\ UNCHANGED <<store, mut, producer, batch, stop, keep, control>>
    BY DEF DeleteElement
  <1>2. HistoryType'
    BY TypeFrame, LoseKeeps DEF QueueInv, TypeOK, DeleteElement, Fates
  <1>3. WorkerType' /\ RestoreInv'
    <2>1. CASE NextElement(w)
      BY <1>1, <2>1, NextElementKeeps
    <2>2. CASE wpc' = [wpc EXCEPT ![w] = "restore"] /\ UNCHANGED idx
      BY <1>1, <2>2 DEF QueueInv, TypeOK, WorkerType, RestoreInv
    <2> QED  BY <2>1, <2>2 DEF DeleteElement
  <1>4. mut' \in Producers \cup Workers \cup {NoThread}
    BY <1>1 DEF QueueInv, TypeOK
  <1> QED  BY <1>1, <1>2, <1>3, <1>4, ProducerFrame, WorkerMoves

LEMMA RestoreElementStep ==
    ASSUME QueueInv, NEW w \in Workers, RestoreElement(w)
    PROVE  QueueInv'
  <1>1. /\ wpc[w] = "restore" /\ mut = w
        /\ UNCHANGED <<producer, batch, stop, keep, control>>
    BY DEF RestoreElement
  <1>2. CASE Lose(Element(w).msg, "dropped") /\ NextElement(w) /\ UNCHANGED <<store, mut>>
    <2>1. HistoryType'
      BY <1>2, LoseKeeps DEF Fates
    <2> QED  BY <1>1, <1>2, <2>1, NextElementKeeps, ProducerFrame, WorkerMoves
  <1>3. CASE /\ wpc' = [wpc EXCEPT ![w] = "reenqWait"] /\ mut' = NoThread
             /\ UNCHANGED <<store, idx, history>>
    <2>1. WorkerType' /\ RestoreInv'
      BY <1>1, <1>3 DEF QueueInv, TypeOK, WorkerType, RestoreInv
    <2>2. HistoryType'
      BY <1>3, TypeFrame DEF QueueInv, TypeOK
    <2> QED  BY <1>1, <1>3, <2>1, <2>2, ProducerFrame, WorkerMoves
  <1>4. CASE /\ ~QueueFull /\ qqueueAdd(Element(w).msg) /\ NextElement(w)
             /\ UNCHANGED <<mut, history>>
    <2>1. Element(w).msg \in Msgs
      <3>1. /\ batch[w] \in Seq(Elements) /\ idx[w] \in Nat \ {0}
            /\ idx[w] <= Len(batch[w])
        BY <1>1 DEF QueueInv, TypeOK, WorkerType, RestoreInv
      <3>2. batch[w][idx[w]] \in Elements
        BY <3>1
      <3> QED  BY <3>2 DEF Element, Elements
    <2>2. StoreType' /\ BatchBound' /\ CountersMatchStore' /\ CapacityRespected'
      BY <1>1, <1>4, <2>1, AddKeeps DEF StoreType
    <2>3. WorkerType' /\ RestoreInv'
      BY <1>1, <1>4, NextElementKeeps
    <2>4. TypeOK'
      BY <1>1, <1>4, <2>2, <2>3, TypeFrame DEF QueueInv, TypeOK
    <2> QED  BY <1>1, <2>2, <2>3, <2>4, ProducerFrame DEF QueueInv
  <1> QED  BY <1>2, <1>3, <1>4 DEF RestoreElement

LEMMA RestoreWaitStep ==
    ASSUME QueueInv, NEW w \in Workers, RestoreSignalled(w) \/ RestoreTimeout(w)
    PROVE  QueueInv'
  <1>1. CASE RestoreSignalled(w)
    <2>1. WorkerType' /\ RestoreInv'
      BY <1>1 DEF QueueInv, TypeOK, WorkerType, RestoreInv, RestoreSignalled
    <2>2. HistoryType'
      BY <1>1, TypeFrame DEF QueueInv, TypeOK, RestoreSignalled
    <2> QED  BY <1>1, <2>1, <2>2, ProducerFrame, WorkerMoves DEF RestoreSignalled
  <1>2. CASE RestoreTimeout(w)
    <2>1. HistoryType'
      BY <1>2, LoseKeeps DEF RestoreTimeout, Fates
    <2> QED
      BY <1>2, <2>1, NextElementKeeps, ProducerFrame, WorkerMoves DEF RestoreTimeout
  <1> QED  BY <1>1, <1>2

\* DeleteBatchFromQStore takes its own batch out of the counters and the store.
LEMMA DeleteBatchStep ==
    ASSUME QueueInv, NEW w \in Workers, DeleteBatch(w)
    PROVE  QueueInv'
  <1> DEFINE n == Len(batch[w])
  <1>1. /\ nOut' = nOut - n /\ iQueueSize' = iQueueSize - n /\ nLogDeq' = nLogDeq - n
        /\ UNCHANGED <<pend, producer, control, history>>
        /\ batch' = [batch EXCEPT ![w] = <<>>] /\ idx' = [idx EXCEPT ![w] = 1]
        /\ keep' = [keep EXCEPT ![w] = TRUE] /\ UNCHANGED stop
        /\ \/ wpc' = [wpc EXCEPT ![w] = "done"] /\ mut' = NoThread
           \/ wpc' = [wpc EXCEPT ![w] = "dequeue"] /\ UNCHANGED mut
    BY DEF DeleteBatch, ResetBatch
  <1>2. /\ pend \in Seq(Msgs) /\ nOut \in Nat /\ iQueueSize \in Nat /\ nLogDeq \in Nat
        /\ iQueueSize = nOut + Len(pend) /\ nLogDeq = nOut
        /\ Cardinality(InFlight) <= nOut
        /\ iMaxQueueSize > 0 => iQueueSize <= iMaxQueueSize
        /\ n \in Nat
    BY DEF QueueInv, TypeOK, StoreType, WorkerType, CountersMatchStore, CapacityRespected
  <1>3. \A v \in Workers : Len(batch'[v]) = IF v = w THEN 0 ELSE Len(batch[v])
    BY <1>1 DEF QueueInv, TypeOK, WorkerType
  <1>4. /\ Cardinality(InFlight') = Cardinality(InFlight) - n
        /\ n <= Cardinality(InFlight) /\ Cardinality(InFlight) \in Nat
    BY <1>3, InFlightShrinks, InFlightFinite DEF QueueInv
  <1>5. StoreType' /\ CountersMatchStore' /\ CapacityRespected'
    BY <1>1, <1>2, <1>4, QueueAssumption
       DEF StoreType, CountersMatchStore, CapacityRespected
  <1>6. WorkerType'
    BY <1>1 DEF QueueInv, TypeOK, WorkerType
  <1>7. RestoreInv' /\ BatchBound'
    BY <1>1, <1>3, QueueAssumption
       DEF QueueInv, TypeOK, WorkerType, RestoreInv, BatchBound
  <1>8. TypeOK'
    BY <1>1, <1>5, <1>6, TypeFrame DEF QueueInv, TypeOK
  <1> QED  BY <1>1, <1>5, <1>7, <1>8, ProducerFrame DEF QueueInv

\* DequeueConsumableElements moves the dequeue pointer over one entry.
LEMMA DequeueElementStep ==
    ASSUME QueueInv, NEW w \in Workers, DequeueElement(w)
    PROVE  QueueInv'
  <1> DEFINE m == Head(pend)
             new == Append(batch[w], [msg |-> m, st |-> "RDY"])
  <1>1. /\ wpc[w] = "dequeue" /\ MoreToDequeue(w)
        /\ pend' = Tail(pend) /\ nOut' = nOut + 1 /\ nLogDeq' = nLogDeq + 1
        /\ UNCHANGED <<iQueueSize, producer, idx, stop, keep, control>>
    BY DEF DequeueElement
  <1>2. /\ pend \in Seq(Msgs) /\ nOut \in Nat /\ iQueueSize \in Nat /\ nLogDeq \in Nat
        /\ iQueueSize = nOut + Len(pend) /\ nLogDeq = nOut
        /\ Cardinality(InFlight) <= nOut
        /\ iMaxQueueSize > 0 => iQueueSize <= iMaxQueueSize
        /\ batch[w] \in Seq(Elements) /\ Cardinality(InFlight) \in Nat
    BY InFlightFinite
       DEF QueueInv, TypeOK, StoreType, WorkerType, CountersMatchStore, CapacityRespected
  <1>3. Len(pend) > 0 /\ Len(batch[w]) < iDeqBatchSize
    BY <1>1, <1>2 DEF MoreToDequeue, getLogicalQueueSize
  <1>4. m \in Msgs /\ Tail(pend) \in Seq(Msgs) /\ Len(Tail(pend)) = Len(pend) - 1
    BY <1>2, <1>3, HeadTail
  <1>5. StoreType' /\ iQueueSize' = nOut' + Len(pend') /\ nLogDeq' = nOut'
    BY <1>1, <1>2, <1>3, <1>4 DEF StoreType
  <1>6. CapacityRespected'
    BY <1>1, <1>2 DEF CapacityRespected
  <1>7. CASE Lose(m, "discarded") /\ UNCHANGED <<mut, wpc, batch>>
    <2>1. HistoryType'
      BY <1>7, LoseKeeps DEF Fates
    <2>2. WorkerType' /\ RestoreInv' /\ BatchBound'
      BY <1>1, <1>7 DEF QueueInv, TypeOK, WorkerType, RestoreInv, BatchBound
    <2>3. InFlight' = InFlight
      BY <1>7 DEF InFlight
    <2>4. CountersMatchStore'
      <3>1. Cardinality(InFlight') <= nOut'
        BY <1>1, <1>2, <2>3
      <3> QED  BY <1>5, <3>1 DEF CountersMatchStore
    <2>5. TypeOK'
      BY <1>1, <1>5, <1>7, <2>1, <2>2, TypeFrame, ProducerFrame DEF QueueInv, TypeOK
    <2> QED  BY <1>1, <1>6, <2>2, <2>4, <2>5, ProducerFrame DEF QueueInv
  <1>8. CASE /\ batch' = [batch EXCEPT ![w] = new] /\ UNCHANGED history
             /\ \/ wpc' = [wpc EXCEPT ![w] = "minWait"] /\ mut' = NoThread
                \/ UNCHANGED <<wpc, mut>>
    <2>1. new \in Seq(Elements) /\ Len(new) = Len(batch[w]) + 1
      <3>1. [msg |-> m, st |-> "RDY"] \in Elements
        BY <1>4 DEF Elements
      <3> QED  BY <1>2, <3>1, AppendProperties
    <2> HIDE DEF new
    <2>2. WorkerType'
      BY <1>1, <1>8, <2>1 DEF QueueInv, TypeOK, WorkerType
    <2>3. \A v \in Workers : Len(batch'[v]) = IF v = w THEN Len(batch[w]) + 1
                                                       ELSE Len(batch[v])
      BY <1>8, <2>1 DEF QueueInv, TypeOK, WorkerType
    <2>4. Cardinality(InFlight') = Cardinality(InFlight) + 1
      BY <2>3, InFlightGrows DEF QueueInv
    <2>5. CountersMatchStore'
      <3>1. Cardinality(InFlight') <= nOut'
        BY <1>1, <1>2, <2>4
      <3> QED  BY <1>5, <3>1 DEF CountersMatchStore
    <2>6. BatchBound'
      BY <1>2, <1>3, <2>3, QueueAssumption DEF QueueInv, BatchBound
    <2>7. RestoreInv'
      BY <1>1, <1>8, <2>3 DEF QueueInv, TypeOK, WorkerType, RestoreInv
    <2>8. TypeOK'
      BY <1>1, <1>5, <1>8, <2>2, TypeFrame, ProducerFrame DEF QueueInv, TypeOK
    <2> QED  BY <1>1, <1>6, <2>5, <2>6, <2>7, <2>8, ProducerFrame DEF QueueInv
  <1> QED  BY <1>7, <1>8 DEF DequeueElement

LEMMA MinBatchWakeStep ==
    ASSUME QueueInv, NEW w \in Workers, MinBatchWake(w)
    PROVE  QueueInv'
  <1>1. UNCHANGED <<store, producer, batch, idx, stop, control, history>>
    BY DEF MinBatchWake
  <1>2. WorkerType'
    BY DEF QueueInv, TypeOK, WorkerType, MinBatchWake
  <1>3. RestoreInv'
    BY DEF QueueInv, TypeOK, WorkerType, RestoreInv, MinBatchWake
  <1>4. HistoryType'
    BY <1>1, TypeFrame DEF QueueInv, TypeOK
  <1>5. mut' \in Producers \cup Workers \cup {NoThread}
    BY DEF QueueInv, TypeOK, MinBatchWake
  <1> QED  BY <1>1, <1>2, <1>3, <1>4, <1>5, ProducerFrame, WorkerMoves

LEMMA DequeueDoneStep ==
    ASSUME QueueInv, NEW w \in Workers, DequeueDone(w)
    PROVE  QueueInv'
  <1> DEFINE next == AfterDequeue(w)
  <1>1. /\ wpc[w] = "dequeue" /\ mut' = NoThread /\ idx' = [idx EXCEPT ![w] = 1]
        /\ UNCHANGED <<store, nSub, todo, batch, stop, keep, control, history>>
    BY DEF DequeueDone
  <1>2. next \in {"consume", "done", "idle"}
    BY DEF AfterDequeue
  <1>3. /\ \/ \E p \in NotFullWaiters : ppc' = [ppc EXCEPT ![p] = "woken"]
           \/ UNCHANGED ppc
        /\ \/ wpc' = [wpc EXCEPT ![w] = next]
           \/ \E v \in RestoreWaiters : wpc' = [wpc EXCEPT ![w] = next, ![v] = "reenqWoken"]
    BY DEF DequeueDone
  <1> HIDE DEF next
  <1>4. ProducerType' /\ TodoInv'
    BY <1>1, <1>3 DEF QueueInv, TypeOK, ProducerType, TodoInv, NotFullWaiters
  <1>5. WorkerType'
    <2>1. idx' \in [Workers -> Nat \ {0}]
      BY <1>1 DEF QueueInv, TypeOK, WorkerType
    <2>2. CASE wpc' = [wpc EXCEPT ![w] = next]
      BY <1>1, <1>2, <2>1, <2>2 DEF QueueInv, TypeOK, WorkerType
    <2>3. ASSUME NEW v \in RestoreWaiters,
                 wpc' = [wpc EXCEPT ![w] = next, ![v] = "reenqWoken"]
          PROVE  WorkerType'
      BY <1>1, <1>2, <2>1, <2>3 DEF QueueInv, TypeOK, WorkerType
    <2> QED  BY <1>3, <2>2, <2>3
  <1>6. RestoreInv'
    <2> SUFFICES ASSUME NEW u \in Workers,
                        wpc'[u] \in {"restore", "reenqWait", "reenqWoken"}
                 PROVE  idx'[u] <= Len(batch'[u])
      BY DEF RestoreInv
    <2>1. u # w /\ wpc[u] \in {"restore", "reenqWait", "reenqWoken"}
      BY <1>1, <1>2, <1>3 DEF QueueInv, TypeOK, WorkerType, RestoreWaiters
    <2> QED  BY <1>1, <2>1 DEF QueueInv, TypeOK, WorkerType, RestoreInv
  <1>7. HistoryType'
    BY <1>1, TypeFrame DEF QueueInv, TypeOK
  <1> QED  BY <1>1, <1>4, <1>5, <1>6, <1>7, WorkerMoves

\* The consumers mark elements of a batch, or end.
LEMMA MarkStep ==
    ASSUME QueueInv, NEW w \in Workers,
           wpc[w] \in {"consume", "mark"}, idx[w] <= Len(batch[w]),
           SetElemState(w, "COMM"), idx' = [idx EXCEPT ![w] = @ + 1], HistoryType',
           UNCHANGED <<store, mut, producer, wpc, stop, keep, control>>
    PROVE  QueueInv'
  <1> DEFINE new == [batch[w] EXCEPT ![idx[w]].st = "COMM"]
  <1>1. batch[w] \in Seq(Elements) /\ idx[w] \in Nat \ {0}
    BY DEF QueueInv, TypeOK, WorkerType
  <1>2. new \in Seq(Elements) /\ Len(new) = Len(batch[w])
    BY <1>1, MarkedElement
  <1>3. batch' = [batch EXCEPT ![w] = new]
    BY DEF SetElemState
  <1> HIDE DEF new
  <1>4. WorkerType'
    BY <1>1, <1>2, <1>3 DEF QueueInv, TypeOK, WorkerType
  <1>5. \A v \in Workers : Len(batch'[v]) = Len(batch[v])
    BY <1>2, <1>3 DEF QueueInv, TypeOK, WorkerType
  <1>6. InFlight' = InFlight
    BY <1>5, InFlightSame
  <1>7. BatchBound' /\ CapacityRespected'
    BY <1>5 DEF QueueInv, BatchBound, CapacityRespected, store
  <1>8. CountersMatchStore'
    BY <1>6 DEF QueueInv, CountersMatchStore, store
  <1>9. RestoreInv'
    BY <1>5 DEF QueueInv, TypeOK, WorkerType, RestoreInv
  <1>10. TypeOK'
    BY <1>4, TypeFrame DEF QueueInv, TypeOK
  <1> QED  BY <1>7, <1>8, <1>9, <1>10, ProducerFrame DEF QueueInv

LEMMA ConsumeStep ==
    ASSUME QueueInv, NEW w \in Workers, processBatchMain(w) \/ processBatch(w)
    PROVE  QueueInv'
  <1>1. /\ wpc[w] = "consume" /\ idx[w] <= Len(batch[w])
        /\ idx' = [idx EXCEPT ![w] = @ + 1]
        /\ UNCHANGED <<store, mut, producer, wpc, stop, keep, control, gone>>
    BY DEF processBatchMain, processBatch, NextToConsume
  <1>2. HistoryType'
    BY DEF QueueInv, TypeOK, HistoryType, processBatchMain, processBatch
  <1>3. CASE SetElemState(w, "COMM")
    BY <1>1, <1>2, <1>3, MarkStep
  <1>4. CASE UNCHANGED batch
    <2>1. WorkerType' /\ RestoreInv'
      BY <1>1, <1>4 DEF QueueInv, TypeOK, WorkerType, RestoreInv
    <2>2. mut' \in Producers \cup Workers \cup {NoThread}
      BY <1>1 DEF QueueInv, TypeOK
    <2> QED  BY <1>1, <1>2, <1>4, <2>1, <2>2, ProducerFrame, WorkerMoves
  <1> QED  BY <1>3, <1>4 DEF processBatchMain, processBatch

LEMMA ConsumerEndStep ==
    ASSUME QueueInv, NEW w \in Workers, ConsumeEnd(w) \/ MarkEnd(w)
    PROVE  QueueInv'
  <1>1. /\ wpc' = [wpc EXCEPT ![w] = "loop"] \/ wpc' = [wpc EXCEPT ![w] = "mark"]
        /\ idx' = [idx EXCEPT ![w] = 1]
        /\ UNCHANGED <<store, mut, producer, batch, stop, keep, control, history>>
    BY DEF ConsumeEnd, MarkEnd
  <1>2. WorkerType' /\ RestoreInv'
    <2>1. idx' \in [Workers -> Nat \ {0}]
      BY <1>1 DEF QueueInv, TypeOK, WorkerType
    <2>2. WorkerType'
      BY <1>1, <2>1 DEF QueueInv, TypeOK, WorkerType
    <2>3. RestoreInv'
      BY <1>1 DEF QueueInv, TypeOK, WorkerType, RestoreInv
    <2> QED  BY <2>2, <2>3
  <1>3. HistoryType' /\ mut' \in Producers \cup Workers \cup {NoThread}
    BY <1>1, TypeFrame DEF QueueInv, TypeOK
  <1> QED  BY <1>1, <1>2, <1>3, ProducerFrame, WorkerMoves

LEMMA WorkerStepKeeps ==
    ASSUME QueueInv, NEW w \in Workers, WorkerStep(w)
    PROVE  QueueInv'
  <1>1. CASE Mark(w)
    <2>1. HistoryType'
      BY <1>1, TypeFrame DEF QueueInv, TypeOK, Mark
    <2> QED  BY <1>1, <2>1, MarkStep DEF Mark
  <1> QED
    BY <1>1, WorkerLoopStep, DeleteElementStep, RestoreElementStep, RestoreWaitStep,
       DeleteBatchStep, DequeueElementStep, MinBatchWakeStep, DequeueDoneStep,
       ConsumeStep, ConsumerEndStep
       DEF WorkerStep
---------------------------------------------------------------------------
(* Shutdown steps, and the theorems.                                          *)

LEMMA ShutdownKeeps ==
    ASSUME QueueInv, Shutdown
    PROVE  QueueInv'
  <1>1. ControlType' /\ UNCHANGED <<store, mut, producer, batch, idx, stop, keep, history>>
    <2>1. CASE SetGlobalInputTermination
      BY <2>1 DEF QueueInv, TypeOK, ControlType, SetGlobalInputTermination, worker
    <2>2. CASE ShutdownWithinQueueTimeout
      BY <2>2 DEF QueueInv, TypeOK, ControlType, ShutdownWithinQueueTimeout, ShutdownAll
    <2>3. CASE DrainEnds
      BY <2>3 DEF QueueInv, TypeOK, ControlType, DrainEnds, worker
    <2>4. CASE SetEnqOnly
      BY <2>4 DEF QueueInv, TypeOK, ControlType, SetEnqOnly, worker
    <2>5. CASE SetShutdownImmediate
      BY <2>5 DEF QueueInv, TypeOK, ControlType, SetShutdownImmediate, worker
    <2>6. CASE ShutdownWithinActionTimeout
      BY <2>6 DEF QueueInv, TypeOK, ControlType, ShutdownWithinActionTimeout, ShutdownAll
    <2>7. CASE ShutdownEnds
      BY <2>7 DEF QueueInv, TypeOK, ControlType, ShutdownEnds, worker
    <2> QED  BY <2>1, <2>2, <2>3, <2>4, <2>5, <2>6, <2>7 DEF Shutdown
  <1>2. wpc' = wpc \/ Wake(Workers)
    BY DEF Shutdown, SetGlobalInputTermination, ShutdownWithinQueueTimeout, DrainEnds,
           SetEnqOnly, SetShutdownImmediate, ShutdownWithinActionTimeout, ShutdownEnds,
           ShutdownAll, worker
  <1>3. WorkerType'
    BY <1>1, <1>2 DEF QueueInv, TypeOK, WorkerType, Wake, Busy
  <1>4. RestoreInv'
    BY <1>1, <1>2 DEF QueueInv, TypeOK, WorkerType, RestoreInv, Wake, Busy
  <1>5. TypeOK'
    BY <1>1, <1>3, TypeFrame DEF QueueInv, TypeOK
  <1> QED  BY <1>1, <1>4, <1>5, ProducerFrame, FrameKeeps DEF QueueInv

LEMMA NextQueueInv == QueueInv /\ [Next]_vars => QueueInv'
  <1> SUFFICES ASSUME QueueInv, [Next]_vars PROVE QueueInv'
    OBVIOUS
  <1>1. CASE UNCHANGED vars
    <2>1. TypeOK'
      BY <1>1, TypeFrame DEF QueueInv, TypeOK, vars
    <2>2. UNCHANGED <<store, batch, producer>> /\ RestoreInv'
      BY <1>1 DEF QueueInv, RestoreInv, vars, worker
    <2> QED  BY <2>1, <2>2, ProducerFrame, FrameKeeps DEF QueueInv
  <1> QED
    BY <1>1, ProducerStepKeeps, WorkerStepKeeps, ShutdownKeeps DEF Next, Terminated

\* The state of the queue object, its producers, its workers and its shutdown keep
\* their types; in particular none of its counters ever becomes negative.
THEOREM TypeCorrect == Spec => []TypeOK
  <1>1. QueueInv => TypeOK
    BY DEF QueueInv
  <1> QED  BY <1>1, InitQueueInv, NextQueueInv, PTL DEF Spec

\* qqueueAdd, qqueueDeq, DoDeleteBatchFromQStore: iQueueSize and nLogDeq agree with
\* the store, and no order of batch completion makes the delete pointer overtake
\* the dequeue pointer.
THEOREM CountersCorrect == Spec => []CountersMatchStore
  <1>1. QueueInv => CountersMatchStore
    BY DEF QueueInv
  <1> QED  BY <1>1, InitQueueInv, NextQueueInv, PTL DEF Spec

\* doEnqSingleObj, DeleteProcessedBatch: a queue with a limit never holds more than
\* iMaxQueueSize entries, put-back messages included.
THEOREM CapacityIsRespected == Spec => []CapacityRespected
  <1>1. QueueInv => CapacityRespected
    BY DEF QueueInv
  <1> QED  BY <1>1, InitQueueInv, NextQueueInv, PTL DEF Spec
=============================================================================
