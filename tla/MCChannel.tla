----------------------------- MODULE MCChannel -----------------------------
(***************************************************************************)
(* Model values for Channel: the ways in which four fibers share out the   *)
(* functions of the channel.                                               *)
(***************************************************************************)
EXTENDS Channel, TLC

CONSTANTS p, c1, y, z

MCCondVars == {PushCv, PopCv}
MCFibers == {p, c1, y, z}

Roled(r, s, t, u) == p :> r @@ c1 :> s @@ y :> t @@ z :> u

\* Two producers and two consumers; a producer, a consumer and a closer; the
\* same with a consumer that has a timeout.
MCRoles ==
    { Roled({"push"}, {"pop"}, {"push"}, {"pop"}),
      Roled({"push"}, {"pop"}, {"close"}, {}),
      Roled({"push"}, {"waitFor"}, {"close"}, {}) }
=============================================================================
