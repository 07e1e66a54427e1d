----------------------------- MODULE RpcClient -----------------------------
(***************************************************************************)
(* RpcClient (rpc/rpc_client.h, rpc_client.cc) on one connection, with the *)
(* server's handleClient() at the other end.  Fibers that call share the   *)
(* connection: requests go through m_chan to the send fiber, answers come  *)
(* to the recv fiber, which finds the caller by the sequence id.  A user   *)
(* connects, subscribes and closes, and a timer sends heartbeats.          *)
(*                                                                         *)
(* A Channel is what the module Channel shows it to be: functions that are *)
(* atomic but for their waits, and a close() that wakes one fiber of those *)
(* that wait in push().  m_mutex is a CoMutex, a lock for any one fiber.   *)
(***************************************************************************)
EXTENDS Integers, Sequences, FiniteSets, Functions

CONSTANTS
    Callers,                    \* fibers in call(), one call each
    User, Recv, Sender, Beat,   \* the other fibers: user, handleRecv(), handleSend(), heartbeat
    None,                       \* nullptr, and no fiber
    Loads                       \* the cases to look at: the capacity of m_chan, who calls and
                                \* who has a timeout, the numbers of heartbeats and publications

Fibers == Callers \cup {User, Recv, Sender, Beat}

Messages ==
    [type : {"request", "beat", "subscribe", "ack", "response", "subscribed", "publish"},
     id : Nat, call : Callers \cup {None}]

\* The fibers are different fibers, and neither they nor None is an id or an error.
ASSUME FibersAssumption ==
    /\ IsFiniteSet(Callers) /\ {User, Recv, Sender, Beat} \cap Callers = {}
    /\ User \notin {Recv, Sender, Beat} /\ Recv \notin {Sender, Beat} /\ Sender # Beat
    /\ None \notin Fibers \cup Nat
    /\ {"closed", "timeout"} \cap (Callers \cup {None}) = {}
    /\ Loads \subseteq [capacity : Nat \ {0}, callers : SUBSET Callers, timed : SUBSET Callers,
                  beats : Nat, publications : Nat]

VARIABLES
    pc,             \* where each fiber is
    load,           \* the case
    session,        \* m_session: "none", or its isConnected() as "open" or "closed"
    isClose, isHeartClose, heartTimer,  \* the members of these names
    mutex,          \* the fiber that holds m_mutex, or None
    unreleased,     \* the ids the loop of close() has still to go through
    sequenceId,     \* m_sequenceId
    responseHandle, \* m_responseHandle: the caller whose recvChan has an id
    recvChan,       \* recvChan[c]: the messages in the channel of call c
    id,             \* id[c]: the locals id and it: an entry of the map, None before there is one
    result,         \* result[c]: what call() returns: an error, or the call it answers
    chan, chanClosed,   \* m_chan
    taken, arrived, \* the locals request of handleSend() and response of handleRecv()
    toServer, toClient, \* the two directions of the connection
    peerOpen,       \* the server has not closed its end
    subscribed,     \* the session is in the server's m_subscribes
    executed,       \* the calls whose function the server has run
    beats, publications \* how many there have been

client == <<isClose, isHeartClose, heartTimer, session>>
calls == <<sequenceId, responseHandle, recvChan, id, result>>
channel == <<chan, chanClosed, taken, arrived>>
lock == <<mutex, unreleased>>
server == <<toServer, toClient, peerOpen, subscribed, executed, publications>>
vars == <<pc, load, client, lock, calls, channel, server, beats>>

Message(type) == [type |-> type, id |-> 0, call |-> None]
Request(c) == [type |-> "request", id |-> id[c], call |-> c]

Init ==
    /\ pc = [f \in Fibers |-> CASE f = User -> "connect" [] f \in Callers -> "call" [] OTHER -> "off"]
    /\ load \in Loads
    /\ session = "none" /\ isClose = TRUE /\ isHeartClose = TRUE /\ heartTimer = FALSE
    /\ mutex = None /\ unreleased = {}
    /\ sequenceId = 0 /\ responseHandle = <<>>
    /\ recvChan = [c \in Callers |-> <<>>]
    /\ id = [c \in Callers |-> None] /\ result = [c \in Callers |-> None]
    /\ chan = <<>> /\ chanClosed = FALSE /\ taken = None /\ arrived = None
    /\ toServer = <<>> /\ toClient = <<>> /\ peerOpen = FALSE /\ subscribed = FALSE
    /\ executed = {} /\ beats = 0 /\ publications = 0

Goto(f, from, to) == pc[f] = from /\ pc' = [pc EXCEPT ![f] = to]

\* A change of the channel that wakes one of the fibers that wait in push(),
\* if there is one, as f goes on.
GotoNotifying(f, from, to) ==
    /\ pc[f] = from
    /\ LET waiting == {g \in Fibers : pc[g] = "asleep"}
       IN  IF waiting = {} THEN pc' = [pc EXCEPT ![f] = to]
           ELSE \E g \in waiting : pc' = [pc EXCEPT ![f] = to, ![g] = "push"]

-----------------------------------------------------------------------------
(* connect(), and m_chan << proto for whoever does it *)

\* Lines 85-98: the session is there and the two fibers are submitted.  A connect()
\* that fails changes nothing.
Connect ==
    /\ pc[User] = "connect"
    /\ pc' = [pc EXCEPT ![User] = "timer", ![Recv] = "read", ![Sender] = "pop"]
    /\ session' = "open" /\ peerOpen' = TRUE
    /\ isClose' = FALSE /\ isHeartClose' = FALSE
    /\ UNCHANGED <<load, heartTimer, lock, calls, channel, toServer, toClient,
                   subscribed, executed, publications, beats>>

\* Lines 100-117: the timer comes last, perhaps after close().
AddHeartTimer ==
    /\ Goto(User, "timer", "ready")
    /\ heartTimer' = TRUE
    /\ UNCHANGED <<load, isClose, isHeartClose, session, lock, calls, channel, server, beats>>

\* What each fiber pushes, and where it goes on.
Pushed(f) ==
    CASE f \in Callers -> Request(f)
      [] f = User -> Message("subscribe")
      [] f = Recv -> Message("ack")
      [] OTHER -> Message("beat")

AfterPush(f) ==
    CASE f \in Callers -> "receive" [] f = User -> "idle" [] f = Recv -> "read" [] OTHER -> "mark"

Push(f) ==
    \/ /\ chanClosed
       /\ Goto(f, "push", AfterPush(f))
       /\ UNCHANGED <<load, client, lock, calls, channel, server, beats>>
    \/ /\ ~chanClosed /\ Len(chan) >= load.capacity
       /\ Goto(f, "push", "asleep")
       /\ UNCHANGED <<load, client, lock, calls, channel, server, beats>>
    \/ /\ ~chanClosed /\ Len(chan) < load.capacity
       /\ Goto(f, "push", AfterPush(f))
       /\ chan' = Append(chan, Pushed(f))
       /\ UNCHANGED <<load, client, lock, calls, chanClosed, taken, arrived, server, beats>>

\* subscribe(): the callback goes into m_subHandle, then the request is pushed.
Subscribe ==
    /\ load.publications > 0
    /\ Goto(User, "ready", "push")
    /\ UNCHANGED <<load, client, lock, calls, channel, server, beats>>

-----------------------------------------------------------------------------
(* call() *)

\* Lines 148-153.  Calls begin after connect() has returned.
Call(c) ==
    /\ c \in load.callers /\ pc[User] \notin {"connect", "timer"}
    /\ \/ session = "open" /\ Goto(c, "call", "register") /\ UNCHANGED result
       \/ session # "open" /\ Goto(c, "call", "done")
             /\ result' = [result EXCEPT ![c] = "closed"]
    /\ UNCHANGED <<load, client, lock, sequenceId, responseHandle, recvChan, id,
                   channel, server, beats>>

\* m_responseHandle.emplace(m_sequenceId, recvChan): an older entry stays.
Emplace(c) ==
    responseHandle' = [i \in DOMAIN responseHandle \cup {sequenceId} |->
        IF i \in DOMAIN responseHandle THEN responseHandle[i] ELSE c]

\* Mutant of Register: line 166 is missing.
RegisterAgain(c) ==
    /\ mutex = None
    /\ Goto(c, "register", "push")
    /\ id' = [id EXCEPT ![c] = sequenceId]
    /\ Emplace(c)
    /\ UNCHANGED <<load, client, lock, sequenceId, recvChan, result, channel, server, beats>>

\* Lines 162-171.
Register(c) ==
    /\ mutex = None
    /\ Goto(c, "register", "push")
    /\ id' = [id EXCEPT ![c] = sequenceId]
    /\ Emplace(c)
    /\ sequenceId' = sequenceId + 1
    /\ UNCHANGED <<load, client, lock, recvChan, result, channel, server, beats>>

\* waitFor() at line 178 finds a message, at once or when it is woken.
Receive(c) ==
    /\ pc[c] \in {"receive", "wait"} /\ recvChan[c] # <<>>
    /\ pc' = [pc EXCEPT ![c] = "erase"]
    /\ result' = [result EXCEPT ![c] =
                     IF Head(recvChan[c]) = None THEN "closed" ELSE Head(recvChan[c]).call]
    /\ recvChan' = [recvChan EXCEPT ![c] = Tail(@)]
    /\ UNCHANGED <<load, client, lock, sequenceId, responseHandle, id, channel, server, beats>>

Wait(c) ==
    /\ recvChan[c] = <<>>
    /\ Goto(c, "receive", "wait")
    /\ UNCHANGED <<load, client, lock, calls, channel, server, beats>>

\* The timer expires while the fiber waits, or after a message has woken it
\* and before it runs: waitFor() is false, and the message stays.
Timeout(c) ==
    /\ c \in load.timed
    /\ Goto(c, "wait", "erase")
    /\ result' = [result EXCEPT ![c] = "timeout"]
    /\ UNCHANGED <<load, client, lock, sequenceId, responseHandle, recvChan, id,
                   channel, server, beats>>

\* Mutant of Erase: the member for the local.
EraseLatest(c) ==
    /\ mutex = None
    /\ Goto(c, "erase", "done")
    /\ responseHandle' = IF isClose THEN responseHandle
                         ELSE Restrict(responseHandle, DOMAIN responseHandle \ {sequenceId - 1})
    /\ UNCHANGED <<load, client, lock, sequenceId, recvChan, id, result, channel, server, beats>>

\* Lines 184-224.
Erase(c) ==
    /\ mutex = None
    /\ Goto(c, "erase", "done")
    /\ responseHandle' = IF isClose THEN responseHandle
                         ELSE Restrict(responseHandle, DOMAIN responseHandle \ {id[c]})
    /\ UNCHANGED <<load, client, lock, sequenceId, recvChan, id, result, channel, server, beats>>

-----------------------------------------------------------------------------
(* close(), which the user, the recv fiber and the heartbeat call *)

AfterClose(f) == CASE f = User -> "done" [] f = Recv -> "end" [] OTHER -> "push"

UserCloses ==
    /\ pc[User] \in {"ready", "idle"}
    /\ pc' = [pc EXCEPT ![User] = "close"]
    /\ UNCHANGED <<load, client, lock, calls, channel, server, beats>>

\* Lines 44-53.
Close(f) ==
    /\ mutex = None
    /\ \/ /\ isClose
          /\ Goto(f, "close", AfterClose(f))
          /\ UNCHANGED <<client, lock, channel>>
       \/ /\ ~isClose
          /\ GotoNotifying(f, "close", "release")
          /\ mutex' = f /\ unreleased' = DOMAIN responseHandle
          /\ isClose' = TRUE /\ isHeartClose' = TRUE
          /\ chanClosed' = TRUE /\ chan' = <<>>
          /\ UNCHANGED <<heartTimer, session, taken, arrived>>
    /\ UNCHANGED <<load, calls, server, beats>>

\* Mutant of Release: the callers are forgotten, not told.
ReleaseNobody(f) ==
    /\ pc[f] = "release" /\ unreleased # {}
    /\ unreleased' = {}
    /\ UNCHANGED <<pc, load, client, mutex, calls, channel, server, beats>>

\* Lines 55-58, in the order of the ids.  The push waits while the channel, of
\* capacity 1, has an answer in it: its caller takes it, or f waits for ever.
Release(f) ==
    /\ pc[f] = "release"
    /\ \E i \in unreleased :
         /\ \A j \in unreleased : i <= j
         /\ recvChan[responseHandle[i]] = <<>>
         /\ recvChan' = [recvChan EXCEPT ![responseHandle[i]] = <<None>>]
         /\ unreleased' = unreleased \ {i}
    /\ UNCHANGED <<pc, load, client, mutex, sequenceId, responseHandle, id, result,
                   channel, server, beats>>

\* Lines 60-66, then line 68: the recv fiber that waits for the event that is
\* removed is not resumed any more.
Forget(f) ==
    /\ pc[f] = "release" /\ unreleased = {}
    /\ pc' = [pc EXCEPT ![f] = "shut", ![Recv] = IF @ = "blocked" THEN "lost" ELSE @]
    /\ responseHandle' = <<>>
    /\ heartTimer' = FALSE
    /\ UNCHANGED <<load, isClose, isHeartClose, session, lock, sequenceId, recvChan, id,
                   result, channel, server, beats>>

\* Line 69, and the end of the scope of the lock.
Shut(f) ==
    /\ Goto(f, "shut", AfterClose(f))
    /\ session' = "closed"
    /\ mutex' = None
    /\ UNCHANGED <<load, isClose, isHeartClose, heartTimer, unreleased, calls, channel,
                   server, beats>>

-----------------------------------------------------------------------------
(* handleSend(), handleRecv() and the heartbeat *)

SenderPop ==
    \/ /\ chanClosed
       /\ Goto(Sender, "pop", "end")
       /\ UNCHANGED channel
    \/ /\ chan # <<>>
       /\ GotoNotifying(Sender, "pop", "send")
       /\ taken' = Head(chan) /\ chan' = Tail(chan)
       /\ UNCHANGED <<chanClosed, arrived>>

\* The condition of the loop at line 132 asks whether the channel is open after
\* a request has been taken.
SenderSend ==
    \/ chanClosed /\ Goto(Sender, "send", "end") /\ UNCHANGED toServer
    \/ /\ ~chanClosed
       /\ Goto(Sender, "send", "pop")
       /\ toServer' = IF session = "open" /\ peerOpen THEN Append(toServer, taken) ELSE toServer

SenderStep ==
    /\ \/ SenderPop /\ UNCHANGED toServer
       \/ SenderSend /\ taken' = None /\ UNCHANGED <<chan, chanClosed, arrived>>
    /\ UNCHANGED <<load, client, lock, calls, toClient, peerOpen, subscribed, executed,
                   publications, beats>>

\* recvProtocol() fails when the session is closed, or at the end of the
\* stream; otherwise it waits for the event READ, which close() makes as well.
Ended == session = "closed" \/ (~peerOpen /\ toClient = <<>>)

RecvNothing ==
    /\ \/ Ended /\ Goto(Recv, "read", "close")
       \/ ~Ended /\ toClient = <<>> /\ Goto(Recv, "read", "blocked")
       \/ (Ended \/ toClient # <<>>) /\ Goto(Recv, "blocked", "read")
    /\ UNCHANGED <<load, client, lock, calls, channel, server, beats>>

\* Lines 153-183.
RecvMessage ==
    /\ session = "open" /\ toClient # <<>>
    /\ arrived' = IF Head(toClient).type = "response" THEN Head(toClient) ELSE None
    /\ toClient' = Tail(toClient)
    /\ Goto(Recv, "read", CASE Head(toClient).type = "response" -> "deliver"
                             [] Head(toClient).type = "publish" -> "push"
                             [] OTHER -> "read")
    /\ isHeartClose' = FALSE
    /\ UNCHANGED <<load, isClose, heartTimer, session, lock, calls, chan, chanClosed, taken,
                   toServer, peerOpen, subscribed, executed, publications, beats>>

\* handleMethodResponse().  The channel is empty: one answer for each id, and
\* close() removes the entry of a channel it pushes to before it drops the lock.
Deliver ==
    /\ mutex = None
    /\ Goto(Recv, "deliver", "read")
    /\ recvChan' = IF arrived.id \in DOMAIN responseHandle
                   THEN [recvChan EXCEPT ![responseHandle[arrived.id]] = Append(@, arrived)]
                   ELSE recvChan
    /\ arrived' = None
    /\ UNCHANGED <<load, client, lock, sequenceId, responseHandle, id, result, chan,
                   chanClosed, taken, server, beats>>

\* Lines 105-110.  The callbacks of one timer do not overlap: they are 30 s apart.
BeatFires ==
    /\ heartTimer /\ beats < load.beats
    /\ Goto(Beat, "off", IF isHeartClose THEN "close" ELSE "push")
    /\ beats' = beats + 1
    /\ UNCHANGED <<load, client, lock, calls, channel, server>>

\* Line 115, after the push: an answer may have come already.
BeatMarks ==
    /\ Goto(Beat, "mark", "off")
    /\ isHeartClose' = TRUE
    /\ UNCHANGED <<load, isClose, heartTimer, session, lock, calls, channel, server, beats>>

-----------------------------------------------------------------------------
(* The server *)

Reply(m) == toClient' = IF session = "open" THEN Append(toClient, m) ELSE toClient

\* One turn of the loop of handleClient().  A client that acknowledges a
\* publication makes the function return (line 172), which closes the session.
Serve ==
    /\ peerOpen /\ toServer # <<>>
    /\ LET m == Head(toServer)
       IN  \/ /\ m.type = "request"
              /\ executed' = executed \cup {m.call}
              /\ Reply([m EXCEPT !.type = "response"])
              /\ toServer' = Tail(toServer)
              /\ UNCHANGED <<peerOpen, subscribed>>
           \/ /\ m.type = "beat"
              /\ Reply(m)
              /\ toServer' = Tail(toServer)
              /\ UNCHANGED <<peerOpen, subscribed, executed>>
           \/ /\ m.type = "subscribe"
              /\ Reply(Message("subscribed"))
              /\ toServer' = Tail(toServer)
              /\ subscribed' = TRUE
              /\ UNCHANGED <<peerOpen, executed>>
           \/ /\ m.type = "ack"
              /\ peerOpen' = FALSE /\ toServer' = <<>>
              /\ UNCHANGED <<toClient, subscribed, executed>>
    /\ UNCHANGED <<pc, load, client, lock, calls, channel, publications, beats>>

\* publish()
Publish ==
    /\ peerOpen /\ subscribed /\ publications < load.publications
    /\ Reply(Message("publish"))
    /\ publications' = publications + 1
    /\ UNCHANGED <<pc, load, client, lock, calls, channel, toServer, peerOpen, subscribed,
                   executed, beats>>

\* The server or the connection ends; what was on its way may be lost.
Break ==
    /\ peerOpen
    /\ peerOpen' = FALSE /\ toServer' = <<>>
    /\ toClient' \in {toClient, <<>>}
    /\ UNCHANGED <<pc, load, client, lock, calls, channel, subscribed, executed,
                   publications, beats>>

-----------------------------------------------------------------------------

CallStep(c) == Register(c) \/ Receive(c) \/ Wait(c) \/ Erase(c)
CloseStep(f) == Close(f) \/ Release(f) \/ Forget(f) \/ Shut(f)
RecvStep == RecvNothing \/ RecvMessage \/ Deliver

Next ==
    \/ \E c \in Callers : Call(c) \/ CallStep(c) \/ Timeout(c)
    \/ \E f \in Fibers : Push(f)
    \/ \E f \in {User, Recv, Beat} : CloseStep(f)
    \/ Connect \/ AddHeartTimer \/ Subscribe \/ UserCloses
    \/ SenderStep \/ RecvStep \/ BeatFires \/ BeatMarks
    \/ Serve \/ Publish \/ Break

Spec == Init /\ [][Next]_vars

(***************************************************************************)
(* Fairness: threads run, submitted fibers are resumed and the server      *)
(* handles what it gets.  Whether anybody calls, subscribes or closes, and *)
(* whether a timer or a failure comes, is left open.                       *)
(***************************************************************************)
Fairness ==
    /\ \A c \in Callers : WF_vars(CallStep(c))
    /\ \A f \in Fibers : WF_vars(Push(f))
    /\ \A f \in {User, Recv, Beat} : WF_vars(CloseStep(f))
    /\ WF_vars(AddHeartTimer) /\ WF_vars(SenderStep) /\ WF_vars(RecvStep)
    /\ WF_vars(BeatMarks) /\ WF_vars(Serve)

FairSpec == Spec /\ Fairness

-----------------------------------------------------------------------------

Steps ==
    {"off", "connect", "timer", "ready", "idle", "call", "register", "push", "asleep", "receive",
     "wait", "erase", "close", "release", "shut", "pop", "send", "read", "blocked", "lost",
     "deliver", "mark", "end", "done"}

TypeOK ==
    /\ pc \in [Fibers -> Steps]
    /\ load \in Loads
    /\ session \in {"none", "open", "closed"}
    /\ isClose \in BOOLEAN /\ isHeartClose \in BOOLEAN /\ heartTimer \in BOOLEAN
    /\ mutex \in {User, Recv, Beat, None}
    /\ unreleased \subseteq DOMAIN responseHandle
    /\ sequenceId \in 0..Cardinality(Callers)
    /\ DOMAIN responseHandle \subseteq 0..(sequenceId - 1)
    /\ responseHandle \in [DOMAIN responseHandle -> Callers]
    /\ recvChan \in [Callers -> Seq(Messages \cup {None})]
    /\ \A c \in Callers : Len(recvChan[c]) <= 1
    /\ id \in [Callers -> Nat \cup {None}]
    /\ result \in [Callers -> Callers \cup {None, "closed", "timeout"}]
    /\ chan \in Seq(Messages) /\ Len(chan) <= load.capacity
    /\ taken \in Messages \cup {None} /\ arrived \in Messages \cup {None}
    /\ toServer \in Seq(Messages) /\ toClient \in Seq(Messages)
    /\ chanClosed \in BOOLEAN /\ peerOpen \in BOOLEAN /\ subscribed \in BOOLEAN
    /\ executed \subseteq Callers
    /\ beats \in 0..load.beats /\ publications \in 0..load.publications

\* The iterator a call erases is that of its own entry, whatever other calls,
\* answers and close() have done since it got it (rpc_client.h:165, 188).
EraseIsValid ==
    \A c \in Callers :
        pc[c] = "erase" /\ mutex = None /\ ~isClose =>
            id[c] \in DOMAIN responseHandle /\ responseHandle[id[c]] = c

\* An answer the server has sent stays on its way until the call returns: in the
\* connection, with handleRecv() or in the channel of the call.  It is never
\* looked up before its entry is there (rpc_client.h:162-174, rpc_client.cc:187).
AnswerOnItsWay ==
    \A c \in executed :
        ~isClose /\ peerOpen /\ result[c] = None =>
            \/ \E i \in DOMAIN toClient : toClient[i].call = c
            \/ pc[Recv] = "deliver" /\ arrived.call = c
            \/ recvChan[c] # <<>> /\ recvChan[c][1].call = c

\* The server is never asked to run what it has run (rpc_client.h:170-174).
RunsOnce ==
    \A i \in DOMAIN toServer :
        toServer[i].type = "request" => toServer[i].call \notin executed

\* The map of the calls, the requests and the answers on their way fit each other.
CallsAccounted == EraseIsValid /\ AnswerOnItsWay /\ RunsOnce

\* Nobody waits in push() for a slot, and no call has a timeout.
Roomy == load.capacity >= Cardinality(Fibers) /\ load.timed = {}

\* A call whose entry is in the map returns: its answer comes, or the connection
\* ends and close() tells it (rpc_client.cc:55-58, 153-158, 195-203).
RegisteredReturns ==
    \A c \in Callers :
        Roomy /\ ~isClose /\ c \in Range(responseHandle) ~> pc[c] = "done"

-----------------------------------------------------------------------------

State(c) ==
    CASE pc[c] = "call" -> "idle"
      [] pc[c] # "call" /\ result[c] = None -> "open"
      [] result[c] \in {"closed", "timeout"} -> "failed"
      [] result[c] = c -> "answered"
      [] OTHER -> "answered by another"

Abstract == INSTANCE AbstractRpc WITH state <- [c \in Callers |-> State(c)]

\* Each call runs at most once, and returns its own answer or an error.
ImplementsRpc == Abstract!Spec
=============================================================================
