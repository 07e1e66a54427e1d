---------------------------- MODULE MCScheduler ----------------------------
(***************************************************************************)
(* Model values for Scheduler: two threads, a user fiber, callbacks        *)
(* and the fiber objects that are made for them.                           *)
(***************************************************************************)
EXTENDS Scheduler

CONSTANTS w1, w2, f1, x, y, c1, c2

MCThreads == {w1, w2}
MCFibers == {f1, x, y}
MCUserFibers == {f1}
MCCbs == {c1, c2}
=============================================================================
