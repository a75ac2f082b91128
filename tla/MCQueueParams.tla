--------------------------- MODULE MCQueueParams ---------------------------
(* Queue sizes around the steps of the integer percentages (1, 99, 100, 199)  *)
(* and without a limit, marks below, inside and above them, not set and        *)
(* negative, and no, one and several worker threads.                          *)
EXTENDS QueueParams

MCSizes == {0, 1, 99, 100, 199}
MCMarks == {-5, -1, 0, 99, 150}
MCThreads == {-2, 0, 3}
MCBatches == {128}

\* Queues of some sizes with no mark configured
MCPlainSizes == {100, 1000, 10000}
MCNotSet == {-1}
MCOneThread == {1}
=============================================================================
