------------------------ MODULE DequeueWindowProofs ------------------------
(* Proofs about the dequeue time window for every window and every second of   *)
(* the day, without the choice of hours and minutes a model checker makes.     *)
EXTENDS DequeueWindow, TLAPS

\* The clock and the window are what WindowAssumption says of the constants.
WindowType ==
    /\ iDeqtWinFromHr \in 0 .. 23 /\ iDeqtWinToHr \in 0 .. 25
    /\ tm \in [hour: 0 .. 23, min: 0 .. 59, sec: 0 .. 59]
    /\ wtpState \in {"RUNNING", "SHUTDOWN", "SHUTDOWN_IMMEDIATE"}
    /\ pc \in {"check", "sleep", "chkStop", "dequeue", "left"}

\* A time of day within its hour
LEMMA HourOfSecond ==
    ASSUME NEW h \in 0 .. 23, NEW s \in 0 .. 3599
    PROVE  (h * 3600 + s) \div 3600 = h
  OBVIOUS

\* Times of day are seconds of the day.
LEMMA DaySeconds ==
    ASSUME NEW h \in 0 .. 23, NEW m \in 0 .. 59, NEW s \in 0 .. 59
    PROVE  /\ h * SecsPerHour + m * 60 + s \in Nat
           /\ h * SecsPerHour + m * 60 + s < SecsPerDay
  BY SMT DEF SecsPerDay, SecsPerHour

\* The wakeup times, on the clock
LEMMA WakeClock ==
    ASSUME NEW from \in 0 .. 23
    PROVE  /\ (from * 3600) % 86400 = from * 3600
           /\ (from * 3600 + 60) % 86400 = from * 3600 + 60
           /\ (86400 + from * 3600) % 86400 = from * 3600
  OBVIOUS

\* The clock of a state, as numbers
ClockIs(hour, min, sec) ==
    /\ hour = tm.hour /\ min = tm.min /\ sec = tm.sec
    /\ hour \in 0 .. 23 /\ min \in 0 .. 59 /\ sec \in 0 .. 59
    /\ SecondOfDay(tm) = hour * 3600 + min * 60 + sec

LEMMA Clock ==
    ASSUME WindowType
    PROVE  \E hour, min, sec : ClockIs(hour, min, sec)
  <1>1. tm \in [hour: 0 .. 23, min: 0 .. 59, sec: 0 .. 59]
    BY DEF WindowType
  <1>2. ClockIs(tm.hour, tm.min, tm.sec)
    BY <1>1 DEF ClockIs, SecondOfDay, SecsPerHour
  <1> QED  BY <1>2

\* A worker that RateLimiter delays finds the window closed, and wakes up at the
\* start of the window's first hour or a minute later.
LEMMA WakeTime ==
    ASSUME WindowType, Delay > 0
    PROVE  /\ iDeqtWinToHr # Disabled
           /\ ~InWindow(tm.hour, iDeqtWinFromHr, iDeqtWinToHr)
           /\ (SecondOfDay(tm) + Delay) % SecsPerDay
                \in {iDeqtWinFromHr * SecsPerHour, iDeqtWinFromHr * SecsPerHour + 60}
  <1>1. PICK hour, min, sec : ClockIs(hour, min, sec)
    BY Clock
  <1>2. PICK from \in 0 .. 23 : from = iDeqtWinFromHr
    BY DEF WindowType
  <1>3. PICK to \in 0 .. 25 : to = iDeqtWinToHr
    BY DEF WindowType
  <1>4. PICK at \in Int : at = SecondOfDay(tm) /\ at = hour * 3600 + min * 60 + sec
    BY <1>1 DEF ClockIs
  <1>5. hour \in 0 .. 23 /\ min \in 0 .. 59 /\ sec \in 0 .. 59
    BY <1>1 DEF ClockIs
  <1>6. Delay =
          IF to = Disabled THEN 0
          ELSE IF to < from
          THEN IF hour < to \/ hour > from THEN 0
               ELSE (from - hour) * 3600 - min * 60 - sec
          ELSE IF hour >= from /\ hour < to THEN 0
          ELSE IF hour < from
               THEN (from - hour - 1) * 3600 + (60 - min) * 60 + (60 - sec)
               ELSE (24 - hour + from) * 3600 - min * 60 - sec
    BY <1>1, <1>2, <1>3 DEF ClockIs, Delay, RateLimiterDelay, SecsPerHour
  <1>7. SecsPerDay = 86400 /\ SecsPerHour = 3600
    BY DEF SecsPerDay, SecsPerHour
  <1>8. SUFFICES /\ to # Disabled
                 /\ ~InWindow(hour, from, to)
                 /\ (at + Delay) % 86400 \in {from * 3600, from * 3600 + 60}
    BY <1>1, <1>2, <1>3, <1>4, <1>7 DEF ClockIs
  <1>9. to # Disabled
    BY <1>6
  <1>sums.
        /\ at + ((from - hour) * 3600 - min * 60 - sec) = from * 3600
        /\ at + ((from - hour - 1) * 3600 + (60 - min) * 60 + (60 - sec))
             = from * 3600 + 60
        /\ at + ((24 - hour + from) * 3600 - min * 60 - sec) = 86400 + from * 3600
    BY <1>4, <1>5, SMT
  <1>clock.
        /\ (from * 3600) % 86400 = from * 3600
        /\ (from * 3600 + 60) % 86400 = from * 3600 + 60
        /\ (86400 + from * 3600) % 86400 = from * 3600
    BY <1>2, WakeClock, SMT
  <1>10. CASE to < from
    <2>1. /\ ~(hour < to \/ hour > from)
          /\ Delay = (from - hour) * 3600 - min * 60 - sec
      BY <1>6, <1>9, <1>10
    <2>2. hour # from
      BY <1>5, <2>1
    <2>3. ~InWindow(hour, from, to)
      BY <1>5, <1>10, <2>1, <2>2 DEF InWindow
    <2>4. (at + Delay) % 86400 = from * 3600
      BY <1>sums, <1>clock, <2>1, SMT
    <2> QED  BY <1>9, <2>3, <2>4
  <1>11. CASE ~(to < from) /\ hour < from
    <2>1. Delay = (from - hour - 1) * 3600 + (60 - min) * 60 + (60 - sec)
      BY <1>5, <1>6, <1>9, <1>11
    <2>2. (at + Delay) % 86400 = from * 3600 + 60
      BY <1>sums, <1>clock, <2>1, SMT
    <2> QED  BY <1>5, <1>9, <1>11, <2>2 DEF InWindow
  <1>12. CASE ~(to < from) /\ ~(hour < from)
    <2>1. /\ ~(hour >= from /\ hour < to)
          /\ Delay = (24 - hour + from) * 3600 - min * 60 - sec
      BY <1>6, <1>9, <1>12
    <2>2. (at + Delay) % 86400 = from * 3600
      BY <1>sums, <1>clock, <2>1, SMT
    <2> QED  BY <1>9, <1>12, <2>1, <2>2 DEF InWindow
  <1> QED  BY <1>10, <1>11, <1>12

\* A worker that RateLimiter does not delay finds the window open.
LEMMA NoDelayInside ==
    ASSUME WindowType, ~(Delay > 0),
           iDeqtWinToHr # Disabled, iDeqtWinFromHr # iDeqtWinToHr
    PROVE  InWindow(SecondOfDay(tm) \div SecsPerHour, iDeqtWinFromHr, iDeqtWinToHr)
  <1>1. PICK hour, min, sec : ClockIs(hour, min, sec)
    BY Clock
  <1>2. PICK from \in 0 .. 23 : from = iDeqtWinFromHr
    BY DEF WindowType
  <1>3. PICK to \in 0 .. 25 : to = iDeqtWinToHr
    BY DEF WindowType
  <1>4. hour \in 0 .. 23 /\ min \in 0 .. 59 /\ sec \in 0 .. 59
    BY <1>1 DEF ClockIs
  <1>5. SecondOfDay(tm) \div SecsPerHour = hour
    <2>1. min * 60 + sec \in 0 .. 3599
      BY <1>4
    <2>2. SecondOfDay(tm) = hour * 3600 + (min * 60 + sec)
      BY <1>1, <1>4 DEF ClockIs
    <2> QED  BY <1>4, <2>1, <2>2, HourOfSecond DEF SecsPerHour
  <1>6. Delay =
          IF to < from
          THEN IF hour < to \/ hour > from THEN 0
               ELSE (from - hour) * 3600 - min * 60 - sec
          ELSE IF hour >= from /\ hour < to THEN 0
          ELSE IF hour < from
               THEN (from - hour - 1) * 3600 + (60 - min) * 60 + (60 - sec)
               ELSE (24 - hour + from) * 3600 - min * 60 - sec
    BY <1>1, <1>2, <1>3 DEF ClockIs, Delay, RateLimiterDelay, SecsPerHour
  <1>7. from # to
    BY <1>2, <1>3
  <1>8. CASE to < from
    <2>1. hour < to \/ hour > from \/ ~((from - hour) * 3600 - min * 60 - sec > 0)
      BY <1>6, <1>8
    <2>2. hour < to \/ hour >= from
      BY <1>4, <2>1
    <2> QED  BY <1>2, <1>3, <1>5, <1>8, <2>2 DEF InWindow
  <1>9. CASE ~(to < from)
    <2>1. (from - hour - 1) * 3600 + (60 - min) * 60 + (60 - sec) > 0 \/ ~(hour < from)
      BY <1>4
    <2>2. (24 - hour + from) * 3600 - min * 60 - sec > 0
      BY <1>4
    <2>3. hour >= from /\ hour < to
      BY <1>6, <1>9, <2>1, <2>2
    <2> QED  BY <1>2, <1>3, <1>5, <1>9, <2>3 DEF InWindow
  <1> QED  BY <1>8, <1>9

\* How long the worker has slept in each of its states: as long as RateLimiter
\* computed, or not as long because a shutdown has begun.
ClockInv ==
    /\ pc \in {"check", "sleep"} => slept = 0
    /\ pc = "sleep" => Delay > 0
    /\ pc \in {"chkStop", "dequeue"} =>
         \/ slept = IF Delay > 0 THEN Delay ELSE 0
         \/ CutShort /\ wtpState # "RUNNING"
    /\ pc = "dequeue" => wtpState # "SHUTDOWN_IMMEDIATE"

\* The inductive invariant: the properties speak of the time of waking up alone,
\* ClockInv ties it to the time at which the delay was computed.
WindowInv == WindowType /\ ClockInv

LEMMA InitWindowInv == WindowInit => WindowInv
  <1> SUFFICES ASSUME WindowInit PROVE WindowInv
    OBVIOUS
  <1>1. tm \in [hour: 0 .. 23, min: 0 .. 59, sec: 0 .. 59]
    BY WindowAssumption DEF WindowInit
  <1> QED  BY <1>1, WindowAssumption DEF WindowInit, WindowInv, WindowType, ClockInv

LEMMA NextWindowInv == WindowInv /\ [WindowNext]_windowVars => WindowInv'
  <1> SUFFICES ASSUME WindowInv, [WindowNext]_windowVars PROVE WindowInv'
    OBVIOUS
  <1> USE DEF WindowInv, WindowType, ClockInv, CutShort
  <1>0. UNCHANGED window => Delay' = Delay
    BY DEF window, Delay
  <1>1. CASE RateLimiter
    <2>1. CASE Delay > 0
      BY <1>0, <1>1, <2>1 DEF RateLimiter, window
    <2>2. CASE ~(Delay > 0)
      BY <1>0, <1>1, <2>2 DEF RateLimiter, window
    <2> QED  BY <2>1, <2>2
  <1>2. CASE Wakeup
    BY <1>0, <1>2 DEF Wakeup, window
  <1>3. CASE Interrupted
    BY <1>0, <1>3 DEF Interrupted, window
  <1>4. CASE WorkerChkStop
    BY <1>0, <1>4 DEF WorkerChkStop, window
  <1>5. CASE WindowShutdown
    BY <1>0, <1>5 DEF WindowShutdown, window
  <1>6. CASE UNCHANGED windowVars
    BY <1>0, <1>6 DEF windowVars, window
  <1> QED  BY <1>1, <1>2, <1>3, <1>4, <1>5, <1>6 DEF WindowNext

\* A worker that dequeues without its sleep having been cut short slept for the
\* whole delay or not at all.
LEMMA FullSleep ==
    ASSUME WindowInv, pc = "dequeue", ~(CutShort /\ wtpState = "SHUTDOWN")
    PROVE  slept = IF Delay > 0 THEN Delay ELSE 0
  BY DEF WindowInv, WindowType, ClockInv

\* RateLimiter, wtiWakeupThrd: for every window and every time of day, a worker
\* dequeues inside the window or in the first phase of a shutdown.
THEOREM DequeuesInside == WindowSpec => []DequeuesInsideWindow
  <1>1. WindowInv => DequeuesInsideWindow
    <2> SUFFICES ASSUME WindowInv, pc = "dequeue", HasWindow,
                        ~(CutShort /\ wtpState = "SHUTDOWN")
                 PROVE  InWindow(Now \div SecsPerHour, iDeqtWinFromHr, iDeqtWinToHr)
      BY DEF DequeuesInsideWindow
    <2>1. slept = IF Delay > 0 THEN Delay ELSE 0
      BY FullSleep
    <2>2. CASE Delay > 0
      <3>1. PICK from \in 0 .. 23 : from = iDeqtWinFromHr
        BY DEF WindowInv, WindowType
      <3>2. PICK to \in 0 .. 25 : to = iDeqtWinToHr
        BY DEF WindowInv, WindowType
      <3>3. slept = Delay
        BY <2>1, <2>2
      <3>4. Now = from * 3600 \/ Now = from * 3600 + 60
        BY <2>2, <3>1, <3>3, WakeTime DEF WindowInv, Now, SecsPerHour
      <3>5. PICK s \in 0 .. 3599 : Now = from * 3600 + s
        BY <3>4
      <3>6. Now \div SecsPerHour = from
        BY <3>5, HourOfSecond DEF SecsPerHour
      <3>7. from # to /\ InWindow(from, from, to)
        BY <3>1, <3>2 DEF InWindow, HasWindow
      <3> QED  BY <3>1, <3>2, <3>6, <3>7
    <2>3. CASE ~(Delay > 0)
      <3>1. PICK hour, min, sec : ClockIs(hour, min, sec)
        BY Clock DEF WindowInv
      <3>2. /\ hour \in 0 .. 23 /\ min \in 0 .. 59 /\ sec \in 0 .. 59
            /\ SecondOfDay(tm) = hour * SecsPerHour + min * 60 + sec
        BY <3>1 DEF ClockIs, SecsPerHour
      <3>3. SecondOfDay(tm) \in Nat /\ SecondOfDay(tm) < SecsPerDay
        BY <3>2, DaySeconds, Zenon
      <3>4. PICK at \in Nat : at = SecondOfDay(tm) /\ at < SecsPerDay
        BY <3>3
      <3>5. slept = 0
        BY <2>1, <2>3
      <3>6. Now = SecondOfDay(tm)
        BY <3>4, <3>5, SMT DEF Now, SecsPerDay, SecsPerHour
      <3> QED  BY <2>3, <3>6, NoDelayInside DEF WindowInv, HasWindow
    <2> QED  BY <2>2, <2>3
  <1> QED  BY <1>1, InitWindowInv, NextWindowInv, PTL DEF WindowSpec

\* RateLimiter: a worker that slept starts within a minute of the window's opening,
\* unless a shutdown woke it.
THEOREM WakesInTime == WindowSpec => []WakesAtOpening
  <1>1. WindowInv => WakesAtOpening
    <2> SUFFICES ASSUME WindowInv, pc = "dequeue", Delay > 0,
                        ~(CutShort /\ wtpState = "SHUTDOWN")
                 PROVE  Now - iDeqtWinFromHr * SecsPerHour \in 0 .. 60
      BY DEF WakesAtOpening
    <2>1. PICK from \in 0 .. 23 : from = iDeqtWinFromHr
      BY DEF WindowInv, WindowType
    <2>2. slept = Delay
      BY FullSleep
    <2>3. Now = from * 3600 \/ Now = from * 3600 + 60
      BY <2>1, <2>2, WakeTime DEF WindowInv, Now, SecsPerHour
    <2> QED  BY <2>1, <2>3 DEF SecsPerHour
  <1> QED  BY <1>1, InitWindowInv, NextWindowInv, PTL DEF WindowSpec

\* RateLimiter: an open window, or none, never delays a worker.
THEOREM OpenNeverDelays == WindowSpec => []OpenWindowNeverDelays
  <1>1. WindowInv => OpenWindowNeverDelays
    BY WakeTime DEF WindowInv, ClockInv, OpenWindowNeverDelays
  <1> QED  BY <1>1, InitWindowInv, NextWindowInv, PTL DEF WindowSpec
=============================================================================
