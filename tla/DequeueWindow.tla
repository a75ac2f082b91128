--------------------------- MODULE DequeueWindow ---------------------------
(* The dequeue time window: one pass of a worker's loop, from RateLimiter to    *)
(* the dequeue.  A worker that finds itself outside the configured hours first  *)
(* sleeps, with the queue mutex released, for the number of seconds RateLimiter *)
(* computes.  The sleep is a select that the signal of a pool shutdown          *)
(* interrupts, and the worker does not look at the clock again.                 *)
EXTENDS Integers

CONSTANTS
    Hours,      \* hours a window may start at and the clock may show
    ToHours,    \* values of iDeqtWinToHr; 25 means "no window"
    Minutes,    \* minutes the clock may show
    Seconds,    \* seconds the clock may show
    Elapsed     \* seconds of a sleep after which a signal may arrive

\* The configuration takes any integers; a window is defined for hours of the day.
ASSUME WindowAssumption ==
    /\ Hours \subseteq 0 .. 23
    /\ ToHours \subseteq 0 .. 25
    /\ Minutes \subseteq 0 .. 59
    /\ Seconds \subseteq 0 .. 59
    /\ Elapsed \subseteq Nat

VARIABLES
    iDeqtWinFromHr, iDeqtWinToHr,   \* the configured window
    tm,                             \* the clock when RateLimiter reads it
    slept,                          \* seconds the worker has slept since then
    wtpState,                       \* what the worker's pool was told
    pc              \* "check", "sleep", "chkStop", "dequeue" or "left"

window == <<iDeqtWinFromHr, iDeqtWinToHr, tm>>
windowVars == <<window, slept, wtpState, pc>>

Disabled == 25
SecsPerHour == 3600
SecsPerDay == 24 * SecsPerHour

SecondOfDay(t) == t.hour * SecsPerHour + t.min * 60 + t.sec

\* The time of day at which the worker goes on
Now == (SecondOfDay(tm) + slept) % SecsPerDay

\* The hours of the window "from .. to": one interval, or two when it spans
\* midnight.
InWindow(hour, from, to) ==
    IF to < from THEN hour < to \/ hour >= from
                 ELSE hour >= from /\ hour < to

DelayWholeHours(from, to, t) ==
    IF to = Disabled \/ InWindow(t.hour, from, to) THEN 0
    ELSE ((from - t.hour + 24) % 24) * SecsPerHour

DelayHourLate(from, to, t) ==
    IF to = Disabled \/ InWindow(t.hour, from, to) THEN 0
    ELSE IF t.hour < from
         THEN (from - t.hour) * SecsPerHour + (60 - t.min) * 60 + (60 - t.sec)
         ELSE (24 - t.hour + from) * SecsPerHour - t.min * 60 - t.sec

DelayAcrossMidnight(from, to, t) ==
    IF to = Disabled THEN 0
    ELSE IF t.hour >= from /\ t.hour < to THEN 0
    ELSE IF t.hour < from
         THEN (from - t.hour - 1) * SecsPerHour + (60 - t.min) * 60 + (60 - t.sec)
         ELSE (24 - t.hour + from) * SecsPerHour - t.min * 60 - t.sec

\* iDelay of RateLimiter.  A value of 0 or less means "do not delay".
RateLimiterDelay(from, to, t) ==
    IF to = Disabled THEN 0
    ELSE IF to < from
    THEN IF t.hour < to \/ t.hour > from THEN 0
         ELSE (from - t.hour) * SecsPerHour - t.min * 60 - t.sec
    ELSE IF t.hour >= from /\ t.hour < to THEN 0
    ELSE IF t.hour < from
         THEN (from - t.hour - 1) * SecsPerHour + (60 - t.min) * 60 + (60 - t.sec)
         ELSE (24 - t.hour + from) * SecsPerHour - t.min * 60 - t.sec

Delay == RateLimiterDelay(iDeqtWinFromHr, iDeqtWinToHr, tm)

WindowInit ==
    /\ iDeqtWinFromHr \in Hours
    /\ iDeqtWinToHr \in ToHours
    /\ tm \in [hour: Hours, min: Minutes, sec: Seconds]
    /\ slept = 0
    /\ wtpState = "RUNNING"
    /\ pc = "check"

\* RateLimiter up to its srSleep
RateLimiter ==
    /\ pc = "check"
    /\ pc' = IF Delay > 0 THEN "sleep" ELSE "chkStop"
    /\ UNCHANGED <<window, slept, wtpState>>

\* srSleep returns after the whole delay and RateLimiter takes the mutex back.
Wakeup ==
    /\ pc = "sleep"
    /\ slept' = Delay
    /\ pc' = "chkStop"
    /\ UNCHANGED <<window, wtpState>>

\* wtpShutdownAll's wtiWakeupThrd sends SIGTTIN to a worker once the state is set,
\* and again while it waits for workers to terminate: srSleep returns early, and
\* nobody looks at what was left of the delay.  (A signal that comes before the
\* worker is in its select has no effect.)
Interrupted ==
    /\ pc = "sleep" /\ wtpState # "RUNNING"
    /\ \E s \in Elapsed : s < Delay /\ slept' = s
    /\ pc' = "chkStop"
    /\ UNCHANGED <<window, wtpState>>

\* wtiWorker behind RateLimiter: a worker that is to terminate now leaves without
\* another look at the queue; every other one dequeues.
WorkerChkStop ==
    /\ pc = "chkStop"
    /\ pc' = IF wtpState = "SHUTDOWN_IMMEDIATE" THEN "left" ELSE "dequeue"
    /\ UNCHANGED <<window, slept, wtpState>>

\* wtpSetState of the two phases of queue shutdown.  The states that follow the
\* dequeue do not matter here.
WindowShutdown ==
    /\ pc # "dequeue"
    /\ \/ wtpState = "RUNNING" /\ wtpState' = "SHUTDOWN"
       \/ wtpState = "SHUTDOWN" /\ wtpState' = "SHUTDOWN_IMMEDIATE"
    /\ UNCHANGED <<window, slept, pc>>

WindowNext == RateLimiter \/ Wakeup \/ Interrupted \/ WorkerChkStop \/ WindowShutdown

WindowSpec == WindowInit /\ [][WindowNext]_windowVars

HasWindow == iDeqtWinToHr # Disabled /\ iDeqtWinFromHr # iDeqtWinToHr

\* The worker's sleep was cut short.
CutShort == slept < Delay

\* RateLimiter, wtiWakeupThrd: a worker dequeues only inside the configured window,
\* also after a sleep that crosses midnight; the one exception is a worker whose
\* sleep was cut short by the first phase of a shutdown, in which what is queued
\* is still processed.  The immediate shutdown of the second phase makes nobody
\* dequeue outside the window.  (A window that ends in the hour it starts in is
\* empty and is not meant to hold.)
DequeuesInsideWindow ==
    (pc = "dequeue" /\ HasWindow)
        => \/ InWindow(Now \div SecsPerHour, iDeqtWinFromHr, iDeqtWinToHr)
           \/ CutShort /\ wtpState = "SHUTDOWN"

\* RateLimiter, "sleep calculations need to be done up to the minute": a worker
\* that had to sleep starts at the opening of the window, at most one minute late,
\* or earlier in the first phase of a shutdown.
WakesAtOpening ==
    (pc = "dequeue" /\ Delay > 0)
        => \/ Now - iDeqtWinFromHr * SecsPerHour \in 0 .. 60
           \/ CutShort /\ wtpState = "SHUTDOWN"

\* RateLimiter: a worker that finds the window open, or no window configured, is
\* not delayed.
OpenWindowNeverDelays ==
    (pc = "sleep")
        => /\ iDeqtWinToHr # Disabled
           /\ ~InWindow(tm.hour, iDeqtWinFromHr, iDeqtWinToHr)
=============================================================================
