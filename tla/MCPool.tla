------------------------------- MODULE MCPool -------------------------------
(***************************************************************************)
(* Model values for Pool: calls of one service with two servers, or of     *)
(* two services.                                                           *)
(***************************************************************************)
EXTENDS Pool, TLC

CONSTANTS c1, c2, c3, A, B, add, sub

MCCallers == {c1, c2, c3}
MCEntries == {<<add, A>>, <<add, B>>, <<sub, A>>}
Load(who, services, entries, changes, closes) ==
    [callers |-> who, service |-> services, registered |-> entries, changes |-> changes, closes |-> closes]
Same == [x \in MCCallers |-> add]
Other == [x \in MCCallers |-> IF x = c1 THEN add ELSE sub]

MCLoads ==
    { Load(MCCallers, Same, {<<add, A>>, <<add, B>>}, {}, FALSE),
      Load(MCCallers, Other, {<<add, A>>}, {}, FALSE),
      Load({c1, c2}, Same, {<<add, A>>}, {<<add, A>>, <<add, B>>}, FALSE),
      Load({c1, c2}, Other, MCEntries, {<<add, A>>, <<sub, A>>}, FALSE),
      Load({c1, c2}, Other, {<<add, A>>, <<sub, A>>}, {}, TRUE),
      Load({c1, c2}, Same, {<<add, A>>}, {<<add, A>>}, TRUE) }
=============================================================================
