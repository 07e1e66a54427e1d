---------------------------- MODULE MCRpcSession ----------------------------
(***************************************************************************)
(* RpcSession with headers of two bytes, contents of none, one or more,    *)
(* and a socket that holds less than a message: a pool that discovers and  *)
(* subscribes twice while a service quits; one with two publications to    *)
(* come; a client that sends a message too long; and one whose m_chan has  *)
(* room for one message.                                                   *)
(***************************************************************************)
EXTENDS RpcSession

MCSize == [discover |-> 1, request |-> 1, huge |-> 4, response |-> 1, subscribe |-> 1,
           subscribed |-> 1, publish |-> 1, ack |-> 0, garbage |-> 0]

Case(script, publications, quits, room) ==
    [script |-> script, publications |-> publications, quits |-> quits, room |-> room]
MCLoads ==
    {Case(<<"discover", "subscribe", "discover", "subscribe">>, 1, TRUE, 3),
     Case(<<"discover", "subscribe">>, 2, FALSE, 3),
     Case(<<"huge", "request", "request">>, 0, FALSE, 3),
     Case(<<"subscribe", "request", "request">>, 1, FALSE, 1)}
=============================================================================
