---------------------------- MODULE MCIOManager ----------------------------
(***************************************************************************)
(* Model values for IOManager: two threads, a callback and two timers.     *)
(***************************************************************************)
EXTENDS IOManager

CONSTANTS w1, w2, c1

MCThreads == {w1, w2}
MCCbs == {c1}
MCTimers == {1, 2}
MCNoTimers == {}
MCPeriods == {1, 2}
=============================================================================
