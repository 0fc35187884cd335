---------------------------- MODULE MCUartPort ----------------------------
(* Two tasks that read from a buffer of three slots, for two laps, and two *)
(* that write.                                                             *)
EXTENDS UartPort

CONSTANTS r1, r2

MCReaders  == {r1, r2}
MCLengths  == {2}
MCTimeouts == {0, 1, Forever}
=============================================================================
