-------------------------- MODULE MCQueueSettings --------------------------
(* The settings of a queue for TLC: its parameters and its dequeue time        *)
(* window.  Neither depends on the other, so that one of the two is at a fixed *)
(* value, with nothing left to do, while the other varies.                     *)
EXTENDS MCQueueParams, DequeueWindow

\* Every window and every hour of the day, at the ends of the hour; signals that
\* come at once, after a second, and hours later
MCHours == 0 .. 23
MCToHours == 0 .. 25
MCMinutes == {0, 59}
MCSeconds == {0, 59}
MCElapsed == {0, 1, 40000}

NoWindow ==
    /\ iDeqtWinFromHr = 0 /\ iDeqtWinToHr = Disabled
    /\ tm = [hour |-> 0, min |-> 0, sec |-> 0]
    /\ slept = 0 /\ wtpState = "RUNNING" /\ pc = "dequeue"

ActionQueue ==
    /\ conf = [iMaxQueueSize |-> 1000, iHighWtrMrk |-> -1, iLowWtrMrk |-> -1,
               iMinMsgsPerWrkr |-> -1, iFullDlyMrk |-> -1, iLightDlyMrk |-> -1,
               iDiscardMrk |-> -1, iDeqBatchSize |-> 128, iNumWorkerThreads |-> 1,
               bIsDA |-> FALSE]
    /\ q = Adjusted(Corrected(conf))
    /\ phase = "started"

SettingsInit == (ParamsInit /\ NoWindow) \/ (WindowInit /\ ActionQueue)

SettingsNext ==
    \/ ParamsNext /\ UNCHANGED windowVars
    \/ WindowNext /\ UNCHANGED paramVars

settingsVars == <<paramVars, windowVars>>

SettingsSpec == SettingsInit /\ [][SettingsNext]_settingsVars
=============================================================================
