SPECIFICATION SettingsSpec
CONSTANTS
    Sizes <- MCSizes
    Marks <- MCMarks
    Threads <- MCThreads
    Batches <- MCBatches
    Hours <- MCHours
    ToHours <- MCToHours
    Minutes <- MCMinutes
    Seconds <- MCSeconds
    Elapsed <- MCElapsed
INVARIANT MarksInsideQueue
INVARIANT FullDelayStaysUsable
INVARIANT LargeQueueSparesDisk
INVARIANT DequeuesInsideWindow
INVARIANT WakesAtOpening
INVARIANT OpenWindowNeverDelays
CHECK_DEADLOCK FALSE
