----------------------------- MODULE MCRegistry -----------------------------
(***************************************************************************)
(* Model values for Registry: a server with two services, another one or   *)
(* the same after a restart, and a client that subscribes and discovers.   *)
(***************************************************************************)
EXTENDS Registry, TLC

CONSTANTS p1, p2, c1, A, B, add, sub

MCProviders == {p1, p2}
MCConsumers == {c1}
MCOffers == p1 :> <<add, sub>> @@ p2 :> <<add>>
MCAsks == c1 :> <<Message("subscribe", add), Message("discover", add)>>
MCPlaces == {p1 :> A @@ p2 :> A, p1 :> A @@ p2 :> B}
=============================================================================
