---------------------------- MODULE MCRpcClient ----------------------------
(***************************************************************************)
(* Model values for RpcClient: two calls on one connection.                *)
(***************************************************************************)
EXTENDS RpcClient, TLC

CONSTANTS a, b

MCCallers == {a, b}

Load(n, cs, ts, hs, ps) ==
    [capacity |-> n, callers |-> cs, timed |-> ts, beats |-> hs, publications |-> ps]

\* Two heartbeats; a publication; a timeout; a channel that is full.
MCLoads ==
    { Load(6, {a}, {}, 2, 0), Load(6, {a}, {}, 0, 1),
      Load(6, {a, b}, {a}, 0, 0), Load(1, {a, b}, {}, 0, 0) }
=============================================================================
