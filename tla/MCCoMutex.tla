----------------------------- MODULE MCCoMutex -----------------------------
(***************************************************************************)
(* Model values for CoMutex: three fibers, so that one can get hold of the  *)
(* lock between the unlock() of another and the wakeup of a third.         *)
(***************************************************************************)
EXTENDS CoMutex

CONSTANTS f1, f2, f3

MCThree == {f1, f2, f3}
=============================================================================
