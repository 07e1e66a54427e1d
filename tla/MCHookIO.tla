------------------------------ MODULE MCHookIO ------------------------------
(***************************************************************************)
(* Model values for HookIO: one fiber that reads, one that connects and    *)
(* writes, and two threads.                                                *)
(***************************************************************************)
EXTENDS HookIO, TLC

CONSTANTS r, s, w1, w2

MCFibers == {r, s}
MCPollers == {w1, w2}
MCCalls == r :> {"read"} @@ s :> {"connect"}
MCLimitSets == {{"READ"}, {"WRITE"}}
=============================================================================
