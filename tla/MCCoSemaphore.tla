--------------------------- MODULE MCCoSemaphore ---------------------------
(***************************************************************************)
(* Model values for CoSemaphore: four fibers, all of them users, or three  *)
(* users and a poster.                                                     *)
(***************************************************************************)
EXTENDS CoSemaphore

CONSTANTS u1, u2, u3, q

MCCondVars == {Cv}
MCFibers == {u1, u2, u3, q}
MCPosterSets == {{}, {q}}
=============================================================================
