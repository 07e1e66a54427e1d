----------------------------- MODULE RpcSession -----------------------------
(***************************************************************************)
(* One connection, and the fibers that use its two RpcSessions.  On the    *)
(* client, an RpcConnectionPool: a caller that discovers and subscribes,   *)
(* the sender, which empties m_chan, and the receiver, which handles a     *)
(* publication and then answers it through m_chan.  On the server, the     *)
(* registry: the handler (handleClient()), which reads and sends the       *)
(* responses itself, and a publisher, the handler of another connection,   *)
(* which sends with m_sub_mtx held.  RpcClient and RpcServer use a session *)
(* alike, with requests that nobody holds a lock for, but that an          *)
(* RpcServer returns at an acknowledgement (module RpcClient).  Sockets    *)
(* take and give as many bytes as they like, and a full one makes the      *)
(* fiber wait.                                                             *)
(*                                                                         *)
(* A fiber may be "lost", waiting for an event nobody will deliver, and    *)
(* one that uses a session another has destroyed may do anything: "wild"   *)
(* ends the behaviour.                                                     *)
(*                                                                         *)
(* A message of a type has Size[type] bytes after its header.  A byte is   *)
(* its message and its place in it.                                        *)
(***************************************************************************)
EXTENDS Integers, Sequences, SequencesExt

CONSTANTS
    HeaderSize,     \* BASE_LENGTH
    Size,           \* [type -> Nat]
    Loads,          \* the cases to look at: what the caller sends, in order, how often
                    \* publish() is called, whether because a server quit, the capacity of m_chan
    WireCapacity,   \* what the sockets of one direction hold
    IovCapacity,    \* the bytes of IOV_MAX nodes: sendmsg() refuses more
    None

Ends == {"client", "server"}
Peer == [client |-> "server", server |-> "client"]
Fibers == {"caller", "sender", "receiver", "handler", "publisher"}
End == [caller |-> "client", sender |-> "client", receiver |-> "client",
        handler |-> "server", publisher |-> "server"]
Reader == [client |-> "receiver", server |-> "handler"]

VARIABLES
    wire,       \* wire[e]: the bytes on their way to e
    open,       \* open[e]: the socket of e is not closed
    mutex,      \* mutex[e]: the fiber that has the m_mutex of e's session
    connMutex,  \* the fiber that has the m_connMutex of the pool, from call() on
    subMutex, mapMutex, \* the fibers that have m_sub_mtx and m_mutex of the registry
    pc,         \* where each fiber is
    out,        \* out[f]: the bytes f has still to send
    frame,      \* frame[e]: the bytes of the message e is reading
    chan,       \* m_chan
    subscribed, \* the session is in m_subscribes
    load,       \* the case
    pushed, published,
    sent,       \* sent[e]: the messages whose first byte went to e
    got         \* got[e]: the messages e has received

session == <<wire, open, mutex, out, frame, sent, got>>
locks == <<connMutex, subMutex, mapMutex>>
users == <<chan, subscribed, load, pushed, published>>
vars == <<session, users, locks, pc>>

Message(type, n) == [type |-> type, n |-> n]
Encode(m) == [i \in 1..HeaderSize + Size[m.type] |-> [m |-> m, i |-> i]]
Garbage == Message("garbage", 0)
Shorter(a, b) == IF a < b THEN a ELSE b

Init ==
    /\ wire = [e \in Ends |-> <<>>] /\ open = [e \in Ends |-> TRUE]
    /\ mutex = [e \in Ends |-> None] /\ connMutex = None
    /\ subMutex = None /\ mapMutex = None
    /\ pc = [caller |-> "call", sender |-> "pop", receiver |-> "read", handler |-> "read",
             publisher |-> "idle"]
    /\ out = [f \in Fibers |-> <<>>] /\ frame = [e \in Ends |-> <<>>]
    /\ chan = <<>> /\ subscribed = FALSE
    /\ load \in Loads /\ pushed = 0 /\ published = 0
    /\ sent = [e \in Ends |-> <<>>] /\ got = [e \in Ends |-> <<>>]

Goto(f, to) == pc' = [pc EXCEPT ![f] = to]

-----------------------------------------------------------------------------
(* sendProtocol() and recvProtocol() *)

\* encode(), before the lock is taken.
Send(f, m) == out' = [out EXCEPT ![f] = Encode(m)]

\* Where a fiber goes on after sendProtocol(), whose result nobody looks at.
AfterSend == [sender |-> "pop", handler |-> "read", publisher |-> "idle"]

\* Mutant of Lock: the session has no mutex.
LockNothing(f) ==
    /\ pc[f] = "lock"
    /\ Goto(f, "write")
    /\ UNCHANGED <<session, users, locks>>

Lock(f) ==
    /\ pc[f] = "lock" /\ mutex[End[f]] = None
    /\ mutex' = [mutex EXCEPT ![End[f]] = f]
    /\ Goto(f, "write")
    /\ UNCHANGED <<wire, open, out, frame, sent, got, users, locks>>

\* The end of sendProtocol(), and for the publisher of publish() and of what it is part of.
EndSend(f) ==
    /\ out' = [out EXCEPT ![f] = <<>>]
    /\ mutex' = [mutex EXCEPT ![End[f]] = None]
    /\ IF f = "publisher" THEN subMutex' = None /\ mapMutex' = None
                          ELSE UNCHANGED <<subMutex, mapMutex>>
    /\ Goto(f, AfterSend[f])
    /\ UNCHANGED connMutex

\* One turn of writeFixSize(): k bytes.  To a peer that has closed they go nowhere.
Write(f, k) ==
    LET to == Peer[End[f]]
        m == out[f][1].m
    IN  /\ pc[f] = "write" /\ open[End[f]]
        /\ Len(out[f]) <= IovCapacity
        /\ k \in 1..Shorter(Len(out[f]), WireCapacity - Len(wire[to]))
        /\ wire' = IF open[to] THEN [wire EXCEPT ![to] = @ \o SubSeq(out[f], 1, k)] ELSE wire
        /\ sent' = IF open[to] /\ out[f][1].i = 1 THEN [sent EXCEPT ![to] = Append(@, m)] ELSE sent
        /\ \/ k < Len(out[f])
              /\ out' = [out EXCEPT ![f] = SubSeq(@, k + 1, Len(@))]
              /\ UNCHANGED <<mutex, locks, pc>>
           \/ k = Len(out[f]) /\ EndSend(f)
    /\ UNCHANGED <<open, frame, got, users>>

\* Mutant of WriteFails: writeFixSize() goes on after an error.
WriteTriesAgain(f) ==
    /\ pc[f] = "write"
    /\ ~open[End[f]] \/ ~open[Peer[End[f]]] \/ Len(out[f]) > IovCapacity
    /\ UNCHANGED vars

\* write() fails: the socket is closed here or there, or the message too long.
WriteFails(f) ==
    /\ pc[f] = "write"
    /\ ~open[End[f]] \/ ~open[Peer[End[f]]] \/ Len(out[f]) > IovCapacity
    /\ EndSend(f)
    /\ UNCHANGED <<wire, open, frame, sent, got, users>>

\* Mutant of Length: the content is what comes with the header.
LengthOnce(b) == IF Len(b) < HeaderSize THEN HeaderSize ELSE Len(b)

\* How long the message is of which these bytes have been read.
Length(b) == IF Len(b) < HeaderSize THEN HeaderSize
             ELSE HeaderSize + Size[b[HeaderSize].m.type]

\* The message of these bytes.
Decode(b) == IF b = Encode(b[1].m) THEN b[1].m ELSE Garbage

\* The test of the magic number, when the header is there.
Headed(b) == Len(b) >= HeaderSize => b[1].i = 1

\* What the fiber that reads does with a message.
Handle(f, m) ==
    \/ /\ m.type \in {"request", "huge"}
       /\ Send(f, Message("response", m.n)) /\ Goto(f, "lock")
    \/ m.type = "discover" /\ Goto(f, "look") /\ UNCHANGED out
    \/ m.type = "subscribe" /\ Goto(f, "sublock") /\ UNCHANGED out
    \/ m.type = "publish" /\ Goto(f, "publish") /\ UNCHANGED out
    \/ m.type \in {"ack", "response", "subscribed", "garbage"} /\ UNCHANGED <<out, pc>>

\* One turn of a readFixSize() in recvProtocol(): k bytes, never more than it asks for.
Read(e, k) ==
    LET b == frame[e] \o SubSeq(wire[e], 1, k)
    IN  /\ pc[Reader[e]] = "read" /\ open[e] /\ Headed(frame[e])
        /\ k \in 1..Shorter(Length(frame[e]) - Len(frame[e]), Len(wire[e]))
        /\ wire' = [wire EXCEPT ![e] = SubSeq(@, k + 1, Len(@))]
        /\ \/ /\ Len(b) < Length(b) \/ ~Headed(b)
              /\ frame' = [frame EXCEPT ![e] = b]
              /\ UNCHANGED <<got, out, pc>>
           \/ /\ Len(b) = Length(b) /\ Headed(b)
              /\ frame' = [frame EXCEPT ![e] = <<>>]
              /\ got' = [got EXCEPT ![e] = Append(@, Decode(b))]
              /\ Handle(Reader[e], Decode(b))
        /\ UNCHANGED <<open, mutex, sent, users, locks>>

-----------------------------------------------------------------------------
(* The end of a session *)

\* The fibers, at the places p, that a close of e may lose: one that waits in the socket when
\* its event is deleted (the receiver), or that starts to wait after the events of the socket
\* have been cancelled; and of those that wait for room in m_chan, all but the one notified.
Losable(e, p) ==
    {f \in Fibers : End[f] = e /\ p[f] \in {"read", "write"}}
        \cup IF e = "client" /\ Len(chan) = load.room
             THEN {f \in Fibers : p[f] = "push"} ELSE {}

Pushing(p) == {f \in Fibers : p[f] = "push"}

\* The socket of e closes, with the fibers at the places p.  close() of the pool also empties
\* m_chan and resets m_registry, which destroys the session that its two fibers may be using.
Shut(e, p) ==
    /\ open' = [open EXCEPT ![e] = FALSE]
    /\ wire' = [wire EXCEPT ![e] = <<>>] /\ frame' = [frame EXCEPT ![e] = <<>>]
    /\ chan' = IF e = "client" THEN <<>> ELSE chan
    /\ \/ \E lost \in SUBSET Losable(e, p) :
            /\ Pushing(p) \subseteq lost => Pushing(p) = {}
            /\ pc' = [f \in Fibers |-> IF f \in lost THEN "lost" ELSE p[f]]
       \/ \E f \in {"sender", "receiver"} :
            /\ e = "client" /\ p[f] \in {"read", "lock", "write"}
            /\ pc' = [p EXCEPT ![f] = "wild"]

\* close() of the pool by its owner, or the heartbeat timer of the registry.
Close(e) ==
    /\ open[e] /\ Shut(e, pc)
    /\ UNCHANGED <<mutex, out, sent, got, subscribed, load, pushed, published, locks>>

\* The last reference to the server's session goes: the handler has returned, and
\* no publisher has locked the weak pointer.
Destroy ==
    /\ pc["handler"] = "done" /\ pc["publisher"] \in {"idle", "lost"} /\ Close("server")

\* recvProtocol() returns null: the socket is closed here, or there, which may cost the
\* bytes on the way, or the magic is wrong.  The receiver calls close(); the handler returns.
ReadFails(e) ==
    /\ pc[Reader[e]] = "read"
    /\ ~open[e] \/ ~open[Peer[e]] \/ ~Headed(frame[e])
    /\ IF e = "client" /\ open[e]
       THEN Shut(e, [pc EXCEPT !.receiver = "done"])
       ELSE Goto(Reader[e], "done") /\ UNCHANGED <<open, wire, frame, chan>>
    /\ UNCHANGED <<mutex, out, sent, got, subscribed, load, pushed, published, locks>>

-----------------------------------------------------------------------------
(* The fibers around them *)

\* What the caller does after its first n messages: when it subscribes in discover() it keeps
\* m_connMutex.
Onwards(n) ==
    LET more == n < Len(load.script)
    IN  /\ Goto("caller", IF more THEN "call" ELSE "done")
        /\ connMutex' = IF more /\ load.script[n + 1] = "subscribe" THEN connMutex ELSE None

\* The beginning of call(), discover() or subscribe().
Call ==
    LET type == load.script[pushed + 1]
    IN  /\ pc["caller"] = "call"
        /\ \/ /\ type = "discover" /\ connMutex = None
              /\ \/ open["client"] /\ connMutex' = "caller" /\ Goto("caller", "push")
                 \/ ~open["client"] /\ Goto("caller", "done") /\ UNCHANGED connMutex
           \/ /\ type = "subscribe" /\ pc["receiver"] # "publish"  \* which has m_sub_mtx
              /\ Goto("caller", "push") /\ UNCHANGED connMutex
           \/ /\ type \in {"request", "huge"}
              /\ Goto("caller", "push") /\ UNCHANGED connMutex
        /\ UNCHANGED <<session, users, subMutex, mapMutex>>

\* The push to m_chan, which fails when that is closed, unnoticed; discover() then waits.
Push ==
    /\ pc["caller"] = "push"
    /\ \/ /\ open["client"] /\ Len(chan) < load.room
          /\ chan' = Append(chan, Message(load.script[pushed + 1], pushed + 1))
       \/ ~open["client"] /\ UNCHANGED chan
    /\ pushed' = pushed + 1
    /\ IF load.script[pushed'] = "discover" THEN Goto("caller", "await") /\ UNCHANGED connMutex
                                            ELSE Onwards(pushed')
    /\ UNCHANGED <<session, subscribed, load, published, subMutex, mapMutex>>

Response == Message("response", pushed)

\* handleServiceDiscover() has found the caller's channel.
Answered ==
    /\ pc["caller"] = "await" /\ Response \in Range(got["client"])
    /\ Onwards(pushed)
    /\ UNCHANGED <<session, users, subMutex, mapMutex>>

\* handleSend()
Pop ==
    /\ pc["sender"] = "pop"
    /\ \/ /\ open["client"] /\ chan # <<>>
          /\ Send("sender", Head(chan)) /\ Goto("sender", "lock")
          /\ chan' = Tail(chan)
       \/ /\ ~open["client"]
          /\ Goto("sender", "done")
          /\ UNCHANGED <<out, chan>>
    /\ UNCHANGED <<wire, open, mutex, frame, sent, got, subscribed, load, pushed, published, locks>>

\* handlePublish(): the callback of discover() locks m_connMutex, with m_sub_mtx held.
Callback ==
    /\ pc["receiver"] = "publish" /\ connMutex = None
    /\ Goto("receiver", "push")
    /\ UNCHANGED <<session, users, locks>>

\* handleRecv(): the acknowledgement.  During close() of the pool the receiver goes back to
\* a session that fails, that is not there, or whose event is about to be deleted.
PushAck ==
    /\ pc["receiver"] = "push"
    /\ \/ /\ open["client"] /\ Len(chan) < load.room
          /\ chan' = Append(chan, Message("ack", 0)) /\ Goto("receiver", "read")
       \/ /\ ~open["client"] /\ UNCHANGED chan
          /\ \E place \in {"read", "wild", "lost"} : Goto("receiver", place)
    /\ UNCHANGED <<session, subscribed, load, pushed, published, locks>>

\* handleDiscoverService()
Look ==
    /\ pc["handler"] = "look" /\ mapMutex = None
    /\ Send("handler", Message("response", Last(got["server"]).n)) /\ Goto("handler", "lock")
    /\ UNCHANGED <<wire, open, mutex, frame, sent, got, users, locks>>

\* handleSubscribe()
Subscribe ==
    /\ pc["handler"] = "sublock" /\ subMutex = None
    /\ subscribed' = TRUE
    /\ Send("handler", Message("subscribed", 0)) /\ Goto("handler", "lock")
    /\ UNCHANGED <<wire, open, mutex, frame, sent, got, chan, load, pushed, published, locks>>

\* publish(), with m_mutex held when a service is unregistered: m_sub_mtx is kept until the
\* message is sent; a closed session is left out.
Publish ==
    /\ pc["publisher"] = "idle" /\ subMutex = None /\ subscribed
    /\ published < load.publications /\ published' = published + 1
    /\ \/ /\ open["server"] /\ pc["handler"] # "done"
          /\ subMutex' = "publisher" /\ mapMutex' = IF load.quits THEN "publisher" ELSE None
          /\ Send("publisher", Message("publish", published + 1)) /\ Goto("publisher", "lock")
       \/ /\ ~open["server"] \/ pc["handler"] = "done"
          /\ UNCHANGED <<out, subMutex, mapMutex, pc>>
    /\ UNCHANGED <<wire, open, mutex, frame, sent, got, chan, subscribed, load, pushed, connMutex>>

-----------------------------------------------------------------------------

Wild == \E f \in Fibers : pc[f] = "wild"
Closed == ~open["client"] \/ ~open["server"]

\* The receiver waits for m_connMutex, whose holder waits for what only the receiver brings:
\* its answer, or m_sub_mtx.
Held ==
    /\ pc["receiver"] = "publish" /\ connMutex = "caller"
    /\ \/ pc["caller"] = "await" /\ Response \notin Range(got["client"])
       \/ pc["caller"] = "call"

\* The receiver waits for room in m_chan, the sender for room in the socket, whose peer
\* does not read because it sends, and its socket is full too.
Jammed ==
    /\ pc["receiver"] = "push" /\ Len(chan) = load.room
    /\ pc["sender"] = "write" /\ pc["handler"] \notin {"read", "done"}
    /\ \A e \in Ends : Len(wire[e]) = WireCapacity

Holder(f) == CASE pc[f] = "lock" -> mutex[End[f]] [] pc[f] = "sublock" -> subMutex
               [] pc[f] = "look" -> mapMutex [] pc[f] = "publish" -> connMutex [] OTHER -> None

\* What can become of a fiber when the connection has ended: it has returned; it waits for
\* an answer that does not come, or for a receiver that such a caller keeps from closing the
\* client; or close() has lost it, or the holder of what it waits for.
Settled(f) ==
    \/ pc[f] \in {"done", "lost", "idle", "await"}
    \/ Held /\ \/ f \in {"receiver", "caller"}
               \/ pc[f] = "pop" /\ open["client"]
    \/ Holder(f) # None /\ pc[Holder(f)] = "lost"

Ended ==
    /\ ~open["server"] /\ (open["client"] => Held)
    /\ \A f \in Fibers : Settled(f)
    /\ \A f \in {mutex["client"], mutex["server"], subMutex, mapMutex} \ {None} :
         pc[f] \in {"lost", "lock"}

Idle == (Wild \/ (Closed /\ Ended)) /\ UNCHANGED vars

Transmit(e) == (\E k \in 1..WireCapacity : Read(e, k)) \/ ReadFails(e)
Emit(f) == Lock(f) \/ (\E k \in 1..WireCapacity : Write(f, k)) \/ WriteFails(f)
Senders == {"sender", "handler", "publisher"}

Step ==
    \/ \E f \in Senders : Emit(f)
    \/ \E e \in Ends : Transmit(e) \/ Close(e)
    \/ Destroy \/ Call \/ Push \/ Answered \/ Pop \/ Callback \/ PushAck \/ Look
    \/ Subscribe \/ Publish

Next == (~Wild /\ Step) \/ Idle

Spec ==
    /\ Init /\ [][Next]_vars
    /\ \A f \in Senders : WF_vars(~Wild /\ Emit(f))
    /\ \A e \in Ends : WF_vars(~Wild /\ Transmit(e))
    /\ WF_vars(~Wild /\ Destroy)
    /\ WF_vars(~Wild /\ Call) /\ WF_vars(~Wild /\ Push) /\ WF_vars(~Wild /\ Answered)
    /\ WF_vars(~Wild /\ Pop) /\ WF_vars(~Wild /\ Callback) /\ WF_vars(~Wild /\ PushAck)
    /\ WF_vars(~Wild /\ Look) /\ WF_vars(~Wild /\ Subscribe)
    /\ WF_vars(~Wild /\ Publish)

-----------------------------------------------------------------------------

\* Messages arrive whole and in the order their first bytes were sent, however the
\* sockets cut them and whoever else sends (rpc_session.cc:10-48, stream.cc:23-70).
Whole == \A e \in Ends : IsPrefix(got[e], sent[e])

Fits(m) == HeaderSize + Size[m.type] <= IovCapacity

\* A connection nobody closes delivers every request that fits, its response, every
\* publication and its acknowledgement, although the server reads and sends in one fiber and
\* publishes with m_sub_mtx held (rpc_connection_pool.cc:165-168,
\* rpc_service_registry.h:54-65), unless it stops in one of two deadlocks: the receiver waits
\* for m_connMutex (rpc_connection_pool.cc:271), held by a fiber that waits for the receiver,
\* or the queues of both directions and m_chan are full at once.
EverythingArrives ==
    <>(Closed \/ Held \/ Jammed \/
        /\ \A i \in 1..Len(load.script) :
             LET m == Message(load.script[i], i)
             IN  Fits(m) =>
                   /\ m \in Range(got["server"])
                   /\ m.type \in {"request", "discover"} =>
                        Message("response", i) \in Range(got["client"])
        /\ subscribed => \A i \in 1..load.publications :
                            Message("publish", i) \in Range(got["client"])
        /\ Len(SelectSeq(got["server"], LAMBDA m : m.type = "ack")) =
           Len(SelectSeq(got["client"], LAMBDA m : m.type = "publish")))

\* When one end closes, the other one does, and every fiber gets out of its send, its receive
\* and its locks for good (socket.cc:228-240, socket_stream.cc:12-18), but for those that the
\* close itself loses (rpc_connection_pool.cc:62, hook.cc:266-270, channel.h:119-121), those
\* that wait for a lock of one of these, a caller whose answer does not come any more, and a
\* receiver that such a caller keeps from m_connMutex, and so from its own end of the
\* connection; or the pool's fibers use the session that close() has destroyed
\* (rpc_connection_pool.cc:67).
ClosedEndsAll == <>[](Closed => Wild \/ Ended)
=============================================================================
