-------------------------- MODULE RpcClientProofs --------------------------
(***************************************************************************)
(* The calls of module RpcClient, for any number of callers, any capacity  *)
(* of m_chan and any timeouts, heartbeats and publications.                *)
(*                                                                         *)
(* A call is in one place at a time: queued in m_chan, taken by the send   *)
(* fiber, on its way to the server, run; then its answer is on its way     *)
(* back, with the recv fiber, or in the channel of the call.  Its id is    *)
(* its own, so that the entry the recv fiber finds and the entry the call  *)
(* erases are those of the call.                                           *)
(***************************************************************************)
EXTENDS RpcClient, FiniteSetTheorems, TLAPS

\* Where each fiber can be.
FiberType ==
    /\ pc[User] \in {"connect", "timer", "ready", "idle", "push", "asleep", "close", "release",
                     "shut", "done"}
    /\ pc[Recv] \in {"off", "read", "blocked", "lost", "deliver", "push", "asleep", "close",
                     "release", "shut", "end"}
    /\ pc[Sender] \in {"off", "pop", "send", "end"}
    /\ pc[Beat] \in {"off", "push", "asleep", "mark", "close", "release", "shut"}
    /\ \A c \in Callers : pc[c] \in {"call", "register", "push", "asleep", "receive", "wait",
                                     "erase", "done"}

\* close() holds m_mutex, and m_isClose is set before it does anything else.
Closing(f) ==
    /\ mutex = f <=> pc[f] \in {"release", "shut"}
    /\ mutex = f => isClose
    /\ pc[f] = "shut" => unreleased = {}

LockInv ==
    /\ \A f \in {User, Recv, Beat} : Closing(f)
    /\ mutex = None => unreleased = {}

\* The map is empty when close() goes on to the session.
ShutInv == \A f \in {User, Recv, Beat} : pc[f] = "shut" => DOMAIN responseHandle = {}

\* Nothing has begun before connect(), and the session is open until close() begins.
OpenInv ==
    /\ pc[User] = "connect" => pc[Recv] = "off" /\ pc[Sender] = "off"
    /\ pc[User] \in {"connect", "timer"} =>
          pc[Beat] = "off" /\ ~heartTimer /\ \A c \in Callers : pc[c] = "call"
    /\ ~isClose => session = "open"

-----------------------------------------------------------------------------
(* The ids and the map *)

\* The steps of a call between its entry and the end.
Calling == {"push", "asleep", "receive", "wait", "erase"}

Numbered(c) ==
    /\ pc[c] \in {"call", "register"} => id[c] = None
    /\ pc[c] \in Calling => id[c] # None
    /\ id[c] # None => id[c] \in 0..(sequenceId - 1)

\* The entry of a call is there as long as it is needed.
Entered(c) ==
    pc[c] \in Calling /\ ~isClose => id[c] \in DOMAIN responseHandle /\ responseHandle[id[c]] = c

IdInv ==
    /\ \A c \in Callers : Numbered(c)
    /\ \A c, d \in Callers : id[c] # None /\ id[c] = id[d] => c = d
    /\ \A i \in DOMAIN responseHandle : id[responseHandle[i]] = i
    /\ sequenceId = Cardinality({c \in Callers : id[c] # None})

EntryInv == \A c \in Callers : Entered(c)

-----------------------------------------------------------------------------
(* The messages *)

\* The sequence q has a message of the call c.
In(q, c) == \E i \in 1..Len(q) : q[i].call = c

Once(q) == \A i, j \in 1..Len(q) : q[i].call # None /\ q[i].call = q[j].call => i = j

\* A request, and what comes from the server: they have the id of their call.
Asks(m) ==
    /\ m \in Messages
    /\ m.type = "request" <=> m.call # None
    /\ m.call # None => m.id = id[m.call]

Tells(m) ==
    /\ m \in Messages
    /\ m.type = "response" <=> m.call # None
    /\ m.call # None => m.id = id[m.call]

MessageInv ==
    /\ Once(chan) /\ \A i \in 1..Len(chan) : Asks(chan[i])
    /\ pc[Sender] = "send" => Asks(taken)
    /\ Once(toServer) /\ \A i \in 1..Len(toServer) : Asks(toServer[i])
    /\ Once(toClient) /\ \A i \in 1..Len(toClient) : Tells(toClient[i])
    /\ pc[Recv] = "deliver" => Tells(arrived) /\ arrived.call # None

Queued(c) == In(chan, c)
Taken(c) == pc[Sender] = "send" /\ taken.call = c
Sent(c) == In(toServer, c)
Answered(c) == In(toClient, c)
Arrived(c) == pc[Recv] = "deliver" /\ arrived.call = c

\* A call is in one place at a time.
Placed(c) ==
    /\ Queued(c) => ~Taken(c) /\ ~Sent(c) /\ c \notin executed
    /\ Taken(c) => ~Sent(c) /\ c \notin executed
    /\ Sent(c) => c \notin executed
    /\ Answered(c) => ~Arrived(c) /\ c \in executed
    /\ Arrived(c) => c \in executed
    /\ pc[c] \in {"call", "register", "push", "asleep"} =>
          ~Queued(c) /\ ~Taken(c) /\ ~Sent(c) /\ c \notin executed
    /\ c \in executed => id[c] # None

PlaceInv == \A c \in Callers : Placed(c)

\* The channel of a call is empty, or has what close() has pushed, or the answer.
Told(c) ==
    \/ recvChan[c] = <<>>
    \/ /\ recvChan[c] = <<None>> /\ id[c] # None
       /\ isClose /\ (mutex # None \/ \A i \in DOMAIN responseHandle : responseHandle[i] # c)
    \/ /\ recvChan[c] # <<>> /\ recvChan[c][1] \in Messages /\ recvChan[c][1].call = c
       /\ c \in executed /\ result[c] # c /\ ~Answered(c) /\ ~Arrived(c)

\* What a call returns, and that it is not answered twice.
Returned(c) ==
    /\ pc[c] \in {"erase", "done"} <=> result[c] # None
    /\ result[c] \in {c, None, "closed", "timeout"}
    /\ result[c] = c => c \in executed /\ ~Answered(c) /\ ~Arrived(c)

ToldInv == \A c \in Callers : Told(c) /\ Returned(c)

IInv ==
    /\ TypeOK
    /\ FiberType
    /\ LockInv
    /\ ShutInv
    /\ OpenInv
    /\ IdInv
    /\ EntryInv
    /\ MessageInv
    /\ PlaceInv
    /\ ToldInv
    /\ AnswerOnItsWay

-----------------------------------------------------------------------------
(* Where the fibers go *)

LEMMA Others ==
    /\ User \in Fibers /\ Recv \in Fibers /\ Sender \in Fibers /\ Beat \in Fibers
    /\ Callers \subseteq Fibers
    /\ User \notin Callers /\ Recv \notin Callers /\ Sender \notin Callers /\ Beat \notin Callers
    /\ User # Recv /\ User # Sender /\ User # Beat /\ Recv # Sender /\ Recv # Beat
    /\ Sender # Beat
    /\ None \notin Callers /\ None # User /\ None # Recv /\ None # Beat /\ None \notin Nat
    /\ "closed" \notin Callers /\ "timeout" \notin Callers /\ "closed" # None /\ "timeout" # None
BY FibersAssumption DEF Fibers

LEMMA GoesTo ==
    ASSUME TypeOK, NEW f \in Fibers, NEW a, NEW b, Goto(f, a, b)
    PROVE  pc[f] = a /\ pc'[f] = b /\ \A g \in Fibers \ {f} : pc'[g] = pc[g]
BY DEF Goto, TypeOK

LEMMA Notifies ==
    ASSUME TypeOK, NEW f \in Fibers, NEW a, NEW b, a # "asleep", GotoNotifying(f, a, b)
    PROVE  /\ pc[f] = a /\ pc'[f] = b
           /\ \A g \in Fibers \ {f} : pc'[g] = pc[g] \/ (pc[g] = "asleep" /\ pc'[g] = "push")
<1>1. pc \in [Fibers -> Steps]
  BY DEF TypeOK
<1>2. CASE pc' = [pc EXCEPT ![f] = b] /\ pc[f] = a
  BY <1>1, <1>2
<1>3. ASSUME NEW g \in Fibers, pc[g] = "asleep", pc' = [pc EXCEPT ![f] = b, ![g] = "push"], pc[f] = a
      PROVE  /\ pc[f] = a /\ pc'[f] = b
             /\ \A h \in Fibers \ {f} : pc'[h] = pc[h] \/ (pc[h] = "asleep" /\ pc'[h] = "push")
  BY <1>1, <1>3
<1>4. \/ pc' = [pc EXCEPT ![f] = b] /\ pc[f] = a
      \/ \E g \in Fibers : /\ pc[g] = "asleep" /\ pc[f] = a
                           /\ pc' = [pc EXCEPT ![f] = b, ![g] = "push"]
  BY DEF GotoNotifying
<1>. QED
  BY <1>2, <1>3, <1>4

\* A call goes on without getting an id, a result or out of the map.
Stays(c) ==
    \/ pc'[c] = pc[c]
    \/ pc[c] \in {"push", "asleep"} /\ pc'[c] \in {"push", "asleep", "receive"}
    \/ pc[c] \in {"receive", "wait"} /\ pc'[c] \in {"receive", "wait"}

\* Neither the send fiber nor the recv fiber gets or loses a message.
HandsStay ==
    /\ pc'[Sender] = "send" <=> pc[Sender] = "send"
    /\ pc'[Recv] = "deliver" <=> pc[Recv] = "deliver"

\* What a push may change.
LEMMA PushFacts ==
    ASSUME TypeOK, FiberType, NEW f \in Fibers, Push(f)
    PROVE  /\ f \in Callers \cup {User, Recv, Beat} /\ pc[f] = "push"
           /\ \A g \in Fibers \ {f} : pc'[g] = pc[g]
           /\ \A c \in Callers : Stays(c)
           /\ HandsStay
           /\ UNCHANGED <<load, client, lock, calls, chanClosed, taken, arrived, server, beats>>
           /\ \/ chan' = chan /\ pc'[f] \in {"asleep", AfterPush(f)}
              \/ /\ Len(chan) < load.capacity /\ chan' = Append(chan, Pushed(f))
                 /\ pc'[f] = AfterPush(f)
<1>1. /\ pc[f] = "push" /\ pc'[f] \in {"asleep", AfterPush(f)}
      /\ \A g \in Fibers \ {f} : pc'[g] = pc[g]
  BY GoesTo DEF Push
<1>2. f \in Callers \cup {User, Recv, Beat}
  BY <1>1 DEF FiberType, Fibers
<1>3. f \in Callers => AfterPush(f) = "receive"
  BY Others DEF AfterPush
<1>4. f = Recv => AfterPush(f) = "read"
  BY Others DEF AfterPush
<1>5. \A c \in Callers : Stays(c)
  BY <1>1, <1>3, Others DEF Stays
<1>6. HandsStay
  BY <1>1, <1>2, <1>4, Others DEF HandsStay
<1>7. /\ UNCHANGED <<load, client, lock, calls, chanClosed, taken, arrived, server, beats>>
      /\ \/ chan' = chan /\ pc'[f] \in {"asleep", AfterPush(f)}
         \/ /\ Len(chan) < load.capacity /\ chan' = Append(chan, Pushed(f))
            /\ pc'[f] = AfterPush(f)
  <2>1. UNCHANGED <<load, client, lock, calls, chanClosed, taken, arrived, server, beats>>
    BY DEF Push, channel
  <2>2. \/ chan' = chan
        \/ /\ Len(chan) < load.capacity /\ chan' = Append(chan, Pushed(f))
           /\ Goto(f, "push", AfterPush(f))
    BY DEF Push, channel
  <2>. QED
    BY <1>1, <2>1, <2>2, GoesTo
<1>. QED
  BY <1>1, <1>2, <1>5, <1>6, <1>7

\* The steps that change where fibers are, the flags and the numbers of heartbeats only.
QuietStep ==
    \/ \E c \in Callers : Wait(c)
    \/ AddHeartTimer \/ Subscribe \/ UserCloses \/ RecvNothing \/ BeatFires \/ BeatMarks

LEMMA QuietFacts ==
    ASSUME TypeOK, FiberType, QuietStep
    PROVE  /\ \A c \in Callers : Stays(c)
           /\ HandsStay
           /\ UNCHANGED <<load, isClose, session, lock, calls, channel, server>>
           /\ \A f \in {User, Recv, Beat} :
                 pc'[f] \in {"release", "shut"} \/ pc[f] \in {"release", "shut"} => pc'[f] = pc[f]
<1>1. ASSUME NEW c \in Callers, Wait(c)
      PROVE  /\ pc[c] = "receive" /\ pc'[c] = "wait" /\ \A g \in Fibers \ {c} : pc'[g] = pc[g]
             /\ UNCHANGED <<load, isClose, session, lock, calls, channel, server>>
  BY <1>1, Others, GoesTo DEF Wait, client
<1>2. ASSUME AddHeartTimer \/ Subscribe \/ UserCloses
      PROVE  /\ pc'[User] \in {"ready", "push", "close"} /\ pc[User] \in {"timer", "ready", "idle"}
             /\ \A g \in Fibers \ {User} : pc'[g] = pc[g]
             /\ UNCHANGED <<load, isClose, session, lock, calls, channel, server>>
  <2>1. CASE AddHeartTimer
    BY <2>1, Others, GoesTo DEF AddHeartTimer
  <2>2. CASE Subscribe
    BY <2>2, Others, GoesTo DEF Subscribe, client
  <2>3. CASE UserCloses
    BY <2>3, Others DEF UserCloses, TypeOK, client
  <2>. QED
    BY <1>2, <2>1, <2>2, <2>3
<1>3. ASSUME RecvNothing
      PROVE  /\ pc'[Recv] \in {"close", "blocked", "read"} /\ pc[Recv] \in {"read", "blocked"}
             /\ \A g \in Fibers \ {Recv} : pc'[g] = pc[g]
             /\ UNCHANGED <<load, isClose, session, lock, calls, channel, server>>
  BY <1>3, Others, GoesTo DEF RecvNothing, client
<1>4. ASSUME BeatFires \/ BeatMarks
      PROVE  /\ pc'[Beat] \in {"close", "push", "off"} /\ pc[Beat] \in {"off", "mark"}
             /\ \A g \in Fibers \ {Beat} : pc'[g] = pc[g]
             /\ UNCHANGED <<load, isClose, session, lock, calls, channel, server>>
  <2>1. CASE BeatFires
    BY <2>1, Others, GoesTo DEF BeatFires, client
  <2>2. CASE BeatMarks
    BY <2>2, Others, GoesTo DEF BeatMarks, client
  <2>. QED
    BY <1>4, <2>1, <2>2
<1>. QED
  BY <1>1, <1>2, <1>3, <1>4, Others DEF QuietStep, Stays, HandsStay

\* The only step of a fiber.
Alone(f) == \A g \in Fibers \ {f} : pc'[g] = pc[g]

LEMMA CallFacts ==
    ASSUME TypeOK, NEW c \in Callers, Call(c)
    PROVE  /\ pc[c] = "call" /\ Alone(c) /\ c \in load.callers
           /\ pc[User] \notin {"connect", "timer"}
           /\ \/ session = "open" /\ pc'[c] = "register" /\ result' = result
              \/ session # "open" /\ pc'[c] = "done" /\ result' = [result EXCEPT ![c] = "closed"]
           /\ UNCHANGED <<load, client, lock, sequenceId, responseHandle, recvChan, id,
                          channel, server, beats>>
<1>1. /\ c \in load.callers /\ pc[User] \notin {"connect", "timer"}
      /\ \/ session = "open" /\ Goto(c, "call", "register") /\ UNCHANGED result
         \/ session # "open" /\ Goto(c, "call", "done")
               /\ result' = [result EXCEPT ![c] = "closed"]
      /\ UNCHANGED <<load, client, lock, sequenceId, responseHandle, recvChan, id,
                     channel, server, beats>>
  BY DEF Call
<1>2. c \in Fibers
  BY Others
<1>3. \A t : Goto(c, "call", t) => pc[c] = "call" /\ pc'[c] = t /\ Alone(c)
  BY <1>2, GoesTo DEF Alone
<1>. QED
  BY <1>1, <1>3

LEMMA RegisterFacts ==
    ASSUME TypeOK, NEW c \in Callers, Register(c)
    PROVE  /\ pc[c] = "register" /\ pc'[c] = "push" /\ Alone(c) /\ mutex = None
           /\ id' = [id EXCEPT ![c] = sequenceId]
           /\ DOMAIN responseHandle' = DOMAIN responseHandle \cup {sequenceId}
           /\ \A i \in DOMAIN responseHandle : responseHandle'[i] = responseHandle[i]
           /\ responseHandle'[sequenceId] = c
           /\ responseHandle' \in [DOMAIN responseHandle \cup {sequenceId} -> Callers]
           /\ sequenceId' = sequenceId + 1
           /\ UNCHANGED <<load, client, lock, recvChan, result, channel, server, beats>>
<1>1. /\ mutex = None /\ Goto(c, "register", "push") /\ Emplace(c)
      /\ id' = [id EXCEPT ![c] = sequenceId] /\ sequenceId' = sequenceId + 1
      /\ UNCHANGED <<load, client, lock, recvChan, result, channel, server, beats>>
  BY DEF Register
<1>2. pc[c] = "register" /\ pc'[c] = "push" /\ Alone(c)
  BY <1>1, Others, GoesTo DEF Alone
<1>3. /\ sequenceId \notin DOMAIN responseHandle
      /\ responseHandle \in [DOMAIN responseHandle -> Callers]
  BY DEF TypeOK
<1>4. responseHandle' = [i \in DOMAIN responseHandle \cup {sequenceId} |->
                           IF i \in DOMAIN responseHandle THEN responseHandle[i] ELSE c]
  BY <1>1 DEF Emplace
<1>. QED
  BY <1>1, <1>2, <1>3, <1>4

LEMMA ReceiveFacts ==
    ASSUME TypeOK, NEW c \in Callers, Receive(c)
    PROVE  /\ pc[c] \in {"receive", "wait"} /\ pc'[c] = "erase" /\ Alone(c)
           /\ recvChan[c] # <<>> /\ recvChan' = [recvChan EXCEPT ![c] = <<>>]
           /\ result' = [result EXCEPT ![c] = IF recvChan[c][1] = None THEN "closed"
                                              ELSE recvChan[c][1].call]
           /\ UNCHANGED <<load, client, lock, sequenceId, responseHandle, id, channel, server,
                          beats>>
<1>1. /\ recvChan \in [Callers -> Seq(Messages \cup {None})] /\ Len(recvChan[c]) <= 1
      /\ pc \in [Fibers -> Steps]
  BY DEF TypeOK
<1>2. recvChan[c] # <<>> => Head(recvChan[c]) = recvChan[c][1] /\ Tail(recvChan[c]) = <<>>
  BY <1>1
<1>. QED
  BY <1>1, <1>2, Others DEF Receive, Alone

LEMMA TimeoutFacts ==
    ASSUME TypeOK, NEW c \in Callers, Timeout(c)
    PROVE  /\ pc[c] = "wait" /\ pc'[c] = "erase" /\ Alone(c)
           /\ result' = [result EXCEPT ![c] = "timeout"]
           /\ UNCHANGED <<load, client, lock, sequenceId, responseHandle, recvChan, id,
                          channel, server, beats>>
BY Others, GoesTo DEF Timeout, Alone

LEMMA EraseFacts ==
    ASSUME TypeOK, NEW c \in Callers, Erase(c)
    PROVE  /\ pc[c] = "erase" /\ pc'[c] = "done" /\ Alone(c) /\ mutex = None
           /\ IF isClose THEN responseHandle' = responseHandle
              ELSE /\ DOMAIN responseHandle' = DOMAIN responseHandle \ {id[c]}
                   /\ \A i \in DOMAIN responseHandle \ {id[c]} :
                         responseHandle'[i] = responseHandle[i]
                   /\ responseHandle' \in [DOMAIN responseHandle \ {id[c]} -> Callers]
           /\ UNCHANGED <<load, client, lock, sequenceId, recvChan, id, result, channel, server,
                          beats>>
<1>1. responseHandle \in [DOMAIN responseHandle -> Callers]
  BY DEF TypeOK
<1>2. pc[c] = "erase" /\ pc'[c] = "done" /\ Alone(c)
  BY Others, GoesTo DEF Erase, Alone
<1>. QED
  BY <1>1, <1>2 DEF Erase, Restrict

LEMMA AfterCloses ==
    ASSUME NEW f \in {User, Recv, Beat}
    PROVE  /\ f \in Fibers /\ f \notin Callers /\ f # Sender /\ f # None
           /\ AfterClose(f) = IF f = User THEN "done" ELSE IF f = Recv THEN "end" ELSE "push"
BY Others DEF AfterClose

LEMMA CloseFacts ==
    ASSUME TypeOK, NEW f \in {User, Recv, Beat}, Close(f)
    PROVE  /\ pc[f] = "close" /\ mutex = None
           /\ \A g \in Fibers \ {f} : pc'[g] = pc[g] \/ (pc[g] = "asleep" /\ pc'[g] = "push")
           /\ \/ /\ isClose /\ pc'[f] = AfterClose(f) /\ Alone(f)
                 /\ UNCHANGED <<client, lock, channel>>
              \/ /\ ~isClose /\ pc'[f] = "release"
                 /\ mutex' = f /\ unreleased' = DOMAIN responseHandle
                 /\ isClose' = TRUE /\ isHeartClose' = TRUE
                 /\ chanClosed' = TRUE /\ chan' = <<>>
                 /\ UNCHANGED <<heartTimer, session, taken, arrived>>
           /\ UNCHANGED <<load, calls, server, beats>>
<1>1. f \in Fibers
  BY AfterCloses
<1>2. /\ mutex = None
      /\ \/ /\ isClose /\ Goto(f, "close", AfterClose(f))
            /\ UNCHANGED <<client, lock, channel>>
         \/ /\ ~isClose /\ GotoNotifying(f, "close", "release")
            /\ mutex' = f /\ unreleased' = DOMAIN responseHandle
            /\ isClose' = TRUE /\ isHeartClose' = TRUE
            /\ chanClosed' = TRUE /\ chan' = <<>>
            /\ UNCHANGED <<heartTimer, session, taken, arrived>>
      /\ UNCHANGED <<load, calls, server, beats>>
  BY DEF Close
<1>3. Goto(f, "close", AfterClose(f)) => pc[f] = "close" /\ pc'[f] = AfterClose(f) /\ Alone(f)
  BY <1>1, GoesTo DEF Alone
<1>4. GotoNotifying(f, "close", "release") =>
        /\ pc[f] = "close" /\ pc'[f] = "release"
        /\ \A g \in Fibers \ {f} : pc'[g] = pc[g] \/ (pc[g] = "asleep" /\ pc'[g] = "push")
  BY <1>1, Notifies
<1>. QED
  BY <1>2, <1>3, <1>4 DEF Alone

LEMMA ReleaseFacts ==
    ASSUME TypeOK, NEW f \in {User, Recv, Beat}, Release(f)
    PROVE  /\ pc[f] = "release"
           /\ \E i \in unreleased :
                /\ i \in DOMAIN responseHandle /\ responseHandle[i] \in Callers
                /\ recvChan[responseHandle[i]] = <<>>
                /\ recvChan' = [recvChan EXCEPT ![responseHandle[i]] = <<None>>]
                /\ unreleased' = unreleased \ {i}
           /\ UNCHANGED <<pc, load, client, mutex, sequenceId, responseHandle, id, result,
                          channel, server, beats>>
<1>1. /\ unreleased \subseteq DOMAIN responseHandle
      /\ responseHandle \in [DOMAIN responseHandle -> Callers]
  BY DEF TypeOK
<1>2. /\ pc[f] = "release"
      /\ \E i \in unreleased :
           /\ recvChan[responseHandle[i]] = <<>>
           /\ recvChan' = [recvChan EXCEPT ![responseHandle[i]] = <<None>>]
           /\ unreleased' = unreleased \ {i}
      /\ UNCHANGED <<pc, load, client, mutex, sequenceId, responseHandle, id, result,
                     channel, server, beats>>
  BY DEF Release
<1>. QED
  BY <1>1, <1>2

LEMMA ForgetFacts ==
    ASSUME TypeOK, NEW f \in {User, Recv, Beat}, Forget(f)
    PROVE  /\ pc[f] = "release" /\ pc'[f] = "shut" /\ unreleased = {}
           /\ \A g \in Fibers \ {f} :
                 pc'[g] = pc[g] \/ (g = Recv /\ pc[Recv] = "blocked" /\ pc'[Recv] = "lost")
           /\ responseHandle' = <<>> /\ heartTimer' = FALSE
           /\ UNCHANGED <<load, isClose, isHeartClose, session, lock, sequenceId, recvChan, id,
                          result, channel, server, beats>>
<1>1. pc \in [Fibers -> Steps]
  BY DEF TypeOK
<1>2. pc[f] = "release" /\ unreleased = {}
      /\ pc' = [pc EXCEPT ![f] = "shut", ![Recv] = IF @ = "blocked" THEN "lost" ELSE @]
  BY DEF Forget
<1>3. pc'[f] = "shut"
  <2>1. CASE f = Recv
    BY <1>1, <1>2, <2>1, Others
  <2>2. CASE f # Recv
    BY <1>1, <1>2, <2>2, AfterCloses
  <2>. QED
    BY <2>1, <2>2
<1>4. ASSUME NEW g \in Fibers \ {f}
      PROVE  pc'[g] = pc[g] \/ (g = Recv /\ pc[Recv] = "blocked" /\ pc'[Recv] = "lost")
  <2>1. CASE g = Recv
    BY <1>1, <1>2, <2>1
  <2>2. CASE g # Recv
    BY <1>1, <1>2, <2>2
  <2>. QED
    BY <2>1, <2>2
<1>5. /\ responseHandle' = <<>> /\ heartTimer' = FALSE
      /\ UNCHANGED <<load, isClose, isHeartClose, session, lock, sequenceId, recvChan, id,
                     result, channel, server, beats>>
  BY DEF Forget
<1>. QED
  BY <1>2, <1>3, <1>4, <1>5

LEMMA ShutFacts ==
    ASSUME TypeOK, NEW f \in {User, Recv, Beat}, Shut(f)
    PROVE  /\ pc[f] = "shut" /\ pc'[f] = AfterClose(f) /\ Alone(f)
           /\ session' = "closed" /\ mutex' = None
           /\ UNCHANGED <<load, isClose, isHeartClose, heartTimer, unreleased, calls, channel,
                          server, beats>>
BY AfterCloses, GoesTo DEF Shut, Alone

LEMMA ConnectFacts ==
    ASSUME TypeOK, Connect
    PROVE  /\ pc[User] = "connect"
           /\ pc'[User] = "timer" /\ pc'[Recv] = "read" /\ pc'[Sender] = "pop"
           /\ \A g \in Fibers \ {User, Recv, Sender} : pc'[g] = pc[g]
           /\ session' = "open" /\ peerOpen' = TRUE /\ isClose' = FALSE /\ isHeartClose' = FALSE
           /\ UNCHANGED <<load, heartTimer, lock, calls, channel, toServer, toClient,
                          subscribed, executed, publications, beats>>
<1>1. pc \in [Fibers -> Steps]
  BY DEF TypeOK
<1>. QED
  BY <1>1, Others DEF Connect

LEMMA SenderFacts ==
    ASSUME TypeOK, SenderStep
    PROVE  /\ \A g \in Fibers \ {Sender} : pc'[g] = pc[g] \/ (pc[g] = "asleep" /\ pc'[g] = "push")
           /\ \/ /\ pc[Sender] = "pop" /\ pc'[Sender] = "end"
                 /\ UNCHANGED <<channel, toServer>>
              \/ /\ pc[Sender] = "pop" /\ pc'[Sender] = "send"
                 /\ chan # <<>> /\ taken' = chan[1] /\ chan' = Tail(chan)
                 /\ UNCHANGED <<chanClosed, arrived, toServer>>
              \/ /\ pc[Sender] = "send" /\ pc'[Sender] \in {"pop", "end"}
                 /\ taken' = None
                 /\ toServer' = toServer \/ toServer' = Append(toServer, taken)
                 /\ UNCHANGED <<chan, chanClosed, arrived>>
           /\ UNCHANGED <<load, client, lock, calls, toClient, peerOpen, subscribed, executed,
                          publications, beats>>
<1>1. CASE SenderPop /\ UNCHANGED toServer
  <2>1. CASE Goto(Sender, "pop", "end") /\ UNCHANGED channel
    BY <1>1, <2>1, Others, GoesTo DEF SenderStep
  <2>2. CASE /\ chan # <<>> /\ GotoNotifying(Sender, "pop", "send")
             /\ taken' = Head(chan) /\ chan' = Tail(chan)
             /\ UNCHANGED <<chanClosed, arrived>>
    <3>1. Head(chan) = chan[1]
      BY <2>2 DEF TypeOK
    <3>2. /\ pc[Sender] = "pop" /\ pc'[Sender] = "send"
          /\ \A g \in Fibers \ {Sender} : pc'[g] = pc[g] \/ (pc[g] = "asleep" /\ pc'[g] = "push")
      BY <2>2, Others, Notifies
    <3>. QED
      BY <1>1, <2>2, <3>1, <3>2 DEF SenderStep
  <2>. QED
    BY <1>1, <2>1, <2>2 DEF SenderPop
<1>2. CASE SenderSend /\ taken' = None /\ UNCHANGED <<chan, chanClosed, arrived>>
  <2>1. /\ Goto(Sender, "send", "end") \/ Goto(Sender, "send", "pop")
        /\ toServer' = toServer \/ toServer' = Append(toServer, taken)
    BY <1>2 DEF SenderSend
  <2>2. /\ pc[Sender] = "send" /\ pc'[Sender] \in {"pop", "end"}
        /\ \A g \in Fibers \ {Sender} : pc'[g] = pc[g]
    BY <2>1, Others, GoesTo
  <2>. QED
    BY <1>2, <2>1, <2>2 DEF SenderStep
<1>. QED
  BY <1>1, <1>2 DEF SenderStep

LEMMA MessageFacts ==
    ASSUME TypeOK, RecvMessage
    PROVE  /\ pc[Recv] = "read" /\ Alone(Recv)
           /\ toClient # <<>> /\ toClient' = Tail(toClient)
           /\ \/ /\ toClient[1].type = "response" /\ pc'[Recv] = "deliver"
                 /\ arrived' = toClient[1]
              \/ /\ toClient[1].type # "response" /\ pc'[Recv] \in {"push", "read"}
                 /\ arrived' = None
           /\ isHeartClose' = FALSE
           /\ UNCHANGED <<load, isClose, heartTimer, session, lock, calls, chan, chanClosed, taken,
                          toServer, peerOpen, subscribed, executed, publications, beats>>
<1>. DEFINE m == Head(toClient)
            next == CASE m.type = "response" -> "deliver" [] m.type = "publish" -> "push"
                      [] OTHER -> "read"
<1>1. m = toClient[1]
  BY DEF TypeOK, RecvMessage
<1>2. Goto(Recv, "read", next)
  BY DEF RecvMessage
<1>3. /\ m.type = "response" => next = "deliver"
      /\ m.type # "response" => next \in {"push", "read"}
  OBVIOUS
<1>4. pc[Recv] = "read" /\ pc'[Recv] = next /\ Alone(Recv)
  BY <1>2, Others, GoesTo DEF Alone
<1>5. /\ toClient # <<>> /\ toClient' = Tail(toClient) /\ isHeartClose' = FALSE
      /\ arrived' = IF m.type = "response" THEN m ELSE None
      /\ UNCHANGED <<load, isClose, heartTimer, session, lock, calls, chan, chanClosed, taken,
                     toServer, peerOpen, subscribed, executed, publications, beats>>
  BY DEF RecvMessage
<1>. QED
  BY <1>1, <1>3, <1>4, <1>5

LEMMA DeliverFacts ==
    ASSUME TypeOK, Deliver
    PROVE  /\ pc[Recv] = "deliver" /\ pc'[Recv] = "read" /\ Alone(Recv) /\ mutex = None
           /\ recvChan' = IF arrived.id \in DOMAIN responseHandle
                          THEN [recvChan EXCEPT ![responseHandle[arrived.id]] = Append(@, arrived)]
                          ELSE recvChan
           /\ arrived' = None
           /\ UNCHANGED <<load, client, lock, sequenceId, responseHandle, id, result, chan,
                          chanClosed, taken, server, beats>>
BY Others, GoesTo DEF Deliver, Alone

-----------------------------------------------------------------------------
(* Types *)

\* What a step of the server, of publish() or the end of the connection leaves alone.
LEMMA ServerFacts ==
    ASSUME Serve \/ Publish \/ Break
    PROVE  UNCHANGED <<pc, load, client, lock, calls, channel, beats>>
BY DEF Serve, Publish, Break

LEMMA PcNext ==
    ASSUME TypeOK, Next
    PROVE  pc' \in [Fibers -> Steps]
<1>1. pc \in [Fibers -> Steps]
  BY DEF TypeOK
<1>2. \A f \in Fibers : \A a, b : b \in Steps /\ Goto(f, a, b) => pc' \in [Fibers -> Steps]
  BY <1>1 DEF Goto
<1>3. \A f \in Fibers : \A a, b : b \in Steps /\ GotoNotifying(f, a, b) => pc' \in [Fibers -> Steps]
  BY <1>1 DEF GotoNotifying, Steps
<1>4. \A f \in Fibers : AfterPush(f) \in Steps /\ AfterClose(f) \in Steps
  BY DEF AfterPush, AfterClose, Steps
<1>5. ASSUME NEW c \in Callers, Call(c) \/ CallStep(c) \/ Timeout(c)
      PROVE  pc' \in [Fibers -> Steps]
  BY <1>1, <1>2, <1>5, Others DEF Call, CallStep, Register, Receive, Wait, Erase, Timeout, Steps
<1>6. ASSUME NEW f \in Fibers, Push(f)
      PROVE  pc' \in [Fibers -> Steps]
  BY <1>2, <1>4, <1>6 DEF Push, Steps
<1>7. ASSUME NEW f \in {User, Recv, Beat}, CloseStep(f)
      PROVE  pc' \in [Fibers -> Steps]
  <2>1. f \in Fibers
    BY Others
  <2>2. CASE Close(f)
    BY <1>2, <1>3, <1>4, <2>1, <2>2 DEF Close, Steps
  <2>3. CASE Release(f) \/ Forget(f)
    BY <1>1, <2>3 DEF Release, Forget, Steps
  <2>4. CASE Shut(f)
    BY <1>2, <1>4, <2>1, <2>4 DEF Shut
  <2>. QED
    BY <1>7, <2>2, <2>3, <2>4 DEF CloseStep
<1>8. CASE Connect \/ AddHeartTimer \/ Subscribe \/ UserCloses
  BY <1>1, <1>2, <1>8, Others DEF Connect, AddHeartTimer, Subscribe, UserCloses, Steps
<1>9. CASE SenderStep
  BY <1>2, <1>3, <1>9, Others DEF SenderStep, SenderPop, SenderSend, Steps
<1>10. CASE RecvStep
  <2>1. \A t : \E b \in {"deliver", "push", "read"} :
          (CASE t = "response" -> "deliver" [] t = "publish" -> "push" [] OTHER -> "read") = b
    OBVIOUS
  <2>2. RecvMessage => \E b \in {"deliver", "push", "read"} : Goto(Recv, "read", b)
    BY <2>1 DEF RecvMessage
  <2>. QED
    BY <1>2, <1>10, <2>2, Others DEF RecvStep, RecvNothing, Deliver, Steps
<1>11. CASE BeatFires \/ BeatMarks
  BY <1>2, <1>11, Others DEF BeatFires, BeatMarks, Steps
<1>12. CASE Serve \/ Publish \/ Break
  BY <1>1, <1>12, ServerFacts
<1>. QED
  BY <1>5, <1>6, <1>7, <1>8, <1>9, <1>10, <1>11, <1>12 DEF Next

\* The messages are messages.
LEMMA MessageTypes ==
    ASSUME TypeOK
    PROVE  /\ \A t \in {"ack", "beat", "subscribe", "subscribed", "publish"} : Message(t) \in Messages
           /\ \A f \in Fibers : (f \in Callers => id[f] # None) => Pushed(f) \in Messages
           /\ \A m \in Messages : [m EXCEPT !.type = "response"] \in Messages
<1>1. \A t \in {"ack", "beat", "subscribe", "subscribed", "publish"} : Message(t) \in Messages
  BY DEF Message, Messages
<1>2. ASSUME NEW f \in Callers, id[f] # None
      PROVE  Pushed(f) \in Messages
  <2>1. id[f] \in Nat
    BY <1>2 DEF TypeOK
  <2>2. Pushed(f) = Request(f)
    BY Others DEF Pushed
  <2>. QED
    BY <2>1, <2>2 DEF Request, Messages
<1>3. ASSUME NEW f \in Fibers \ Callers
      PROVE  Pushed(f) \in Messages
  BY <1>1, <1>3 DEF Pushed
<1>4. \A m \in Messages : [m EXCEPT !.type = "response"] \in Messages
  BY DEF Messages
<1>. QED
  BY <1>1, <1>2, <1>3, <1>4

\* There is an id for each caller that has none.
LEMMA AnIdIsFree ==
    ASSUME TypeOK, IdInv, NEW c \in Callers, id[c] = None
    PROVE  /\ sequenceId + 1 <= Cardinality(Callers)
           /\ Cardinality({d \in Callers : id[d] # None} \cup {c}) = sequenceId + 1
<1>. DEFINE S == {d \in Callers : id[d] # None}
<1>1. IsFiniteSet(Callers) /\ S \subseteq Callers /\ c \notin S /\ sequenceId = Cardinality(S)
  BY FibersAssumption DEF IdInv
<1>2. IsFiniteSet(S)
  BY <1>1, FS_Subset
<1>3. Cardinality(S \cup {c}) = sequenceId + 1
  BY <1>1, <1>2, FS_AddElement
<1>4. S \cup {c} \subseteq Callers
  OBVIOUS
<1>5. Cardinality(S \cup {c}) <= Cardinality(Callers)
  BY <1>1, <1>4, FS_Subset
<1>. QED
  BY <1>3, <1>5

\* The answer goes to the call it is of, whose channel is empty, or to nobody.
LEMMA Delivers ==
    ASSUME IInv, Deliver
    PROVE  \E c \in Callers :
              /\ Arrived(c) /\ arrived.id = id[c] /\ id[c] # None
              /\ \/ id[c] \notin DOMAIN responseHandle /\ recvChan' = recvChan
                 \/ /\ id[c] \in DOMAIN responseHandle /\ recvChan[c] = <<>>
                    /\ recvChan' = [recvChan EXCEPT ![c] = <<arrived>>]
<1>1. /\ pc[Recv] = "deliver" /\ mutex = None
      /\ recvChan' = IF arrived.id \in DOMAIN responseHandle
                     THEN [recvChan EXCEPT ![responseHandle[arrived.id]] = Append(@, arrived)]
                     ELSE recvChan
  BY DeliverFacts DEF IInv
<1>2. PICK c \in Callers : arrived.call = c /\ arrived.id = id[c] /\ id[c] # None
  <2>1. /\ arrived.call \in Callers /\ arrived.id = id[arrived.call] /\ arrived.id \in Nat
    BY <1>1 DEF IInv, MessageInv, Tells, Messages
  <2>. QED
    BY <2>1, Others
<1>3. Arrived(c)
  BY <1>1, <1>2 DEF Arrived
<1>4. CASE id[c] \notin DOMAIN responseHandle
  BY <1>1, <1>2, <1>3, <1>4
<1>5. CASE id[c] \in DOMAIN responseHandle
  <2>1. responseHandle[id[c]] = c
    <3>1. responseHandle[id[c]] \in Callers
      BY <1>5 DEF IInv, TypeOK
    <3>. QED
      BY <1>2, <1>5, <3>1 DEF IInv, IdInv
  <2>2. recvChan[c] = <<>>
    BY <1>1, <1>3, <1>5, <2>1 DEF IInv, ToldInv, Told
  <2>3. recvChan' = [recvChan EXCEPT ![c] = Append(recvChan[c], arrived)]
    BY <1>1, <1>2, <1>5, <2>1
  <2>4. Append(recvChan[c], arrived) = <<arrived>>
    BY <2>2
  <2>. QED
    BY <1>2, <1>3, <1>5, <2>2, <2>3, <2>4
<1>. QED
  BY <1>4, <1>5

LEMMA CallTypes ==
    ASSUME IInv, NEW c \in Callers, pc' \in [Fibers -> Steps],
           Call(c) \/ Register(c) \/ Receive(c) \/ Timeout(c) \/ Erase(c)
    PROVE  TypeOK'
<1>0. TypeOK
  BY DEF IInv
<1>1. CASE Call(c)
  <2>1. /\ result' = result \/ result' = [result EXCEPT ![c] = "closed"]
        /\ UNCHANGED <<load, client, lock, sequenceId, responseHandle, recvChan, id,
                       channel, server, beats>>
    BY <1>0, <1>1, CallFacts
  <2>2. result' \in [Callers -> Callers \cup {None, "closed", "timeout"}]
    BY <1>0, <2>1 DEF TypeOK
  <2>. QED
    BY <1>0, <2>1, <2>2 DEF TypeOK, client, lock, channel, server
<1>2. CASE Register(c)
  <2>1. sequenceId + 1 <= Cardinality(Callers) /\ id[c] = None
    BY <1>0, <1>2, RegisterFacts, AnIdIsFree DEF IInv, IdInv, Numbered
  <2>2. /\ sequenceId' = sequenceId + 1 /\ sequenceId \in Nat /\ Cardinality(Callers) \in Nat
        /\ DOMAIN responseHandle' = DOMAIN responseHandle \cup {sequenceId}
        /\ responseHandle' \in [DOMAIN responseHandle \cup {sequenceId} -> Callers]
        /\ id' = [id EXCEPT ![c] = sequenceId]
        /\ UNCHANGED <<load, client, lock, recvChan, result, channel, server, beats>>
    <3>1. Cardinality(Callers) \in Nat /\ sequenceId \in Nat
      BY <1>0, FibersAssumption, FS_CardinalityType DEF TypeOK
    <3>. QED
      BY <1>0, <1>2, <3>1, RegisterFacts
  <2>3. sequenceId' \in 0..Cardinality(Callers) /\ id' \in [Callers -> Nat \cup {None}]
    BY <1>0, <2>1, <2>2 DEF TypeOK
  <2>4. /\ DOMAIN responseHandle' \subseteq 0..(sequenceId' - 1)
        /\ responseHandle' \in [DOMAIN responseHandle' -> Callers]
        /\ unreleased' \subseteq DOMAIN responseHandle'
    BY <1>0, <2>2 DEF TypeOK, lock
  <2>. QED
    BY <1>0, <2>2, <2>3, <2>4 DEF TypeOK, client, lock, channel, server
<1>3. CASE Receive(c)
  <2>1. recvChan[c][1] # None => recvChan[c][1].call = c
    BY <1>0, <1>3, ReceiveFacts DEF IInv, ToldInv, Told
  <2>2. /\ recvChan' = [recvChan EXCEPT ![c] = <<>>]
        /\ result' \in [Callers -> Callers \cup {None, "closed", "timeout"}]
        /\ UNCHANGED <<load, client, lock, sequenceId, responseHandle, id, channel, server, beats>>
    <3>1. /\ recvChan' = [recvChan EXCEPT ![c] = <<>>]
          /\ result' = [result EXCEPT ![c] = "closed"] \/ result' = [result EXCEPT ![c] = c]
          /\ UNCHANGED <<load, client, lock, sequenceId, responseHandle, id, channel, server, beats>>
      BY <1>0, <1>3, <2>1, ReceiveFacts
    <3>2. result \in [Callers -> Callers \cup {None, "closed", "timeout"}]
      BY <1>0 DEF TypeOK
    <3>. QED
      BY <3>1, <3>2
  <2>3. recvChan' \in [Callers -> Seq(Messages \cup {None})] /\ \A d \in Callers : Len(recvChan'[d]) <= 1
    BY <1>0, <2>2 DEF TypeOK
  <2>. QED
    BY <1>0, <2>2, <2>3 DEF TypeOK, client, lock, channel, server
<1>4. CASE Timeout(c)
  <2>1. /\ result' = [result EXCEPT ![c] = "timeout"]
        /\ UNCHANGED <<load, client, lock, sequenceId, responseHandle, recvChan, id,
                       channel, server, beats>>
    BY <1>0, <1>4, TimeoutFacts
  <2>2. result' \in [Callers -> Callers \cup {None, "closed", "timeout"}]
    BY <1>0, <2>1 DEF TypeOK
  <2>. QED
    BY <1>0, <2>1, <2>2 DEF TypeOK, client, lock, channel, server
<1>5. CASE Erase(c)
  <2>1. /\ responseHandle' = responseHandle \/
           /\ ~isClose
           /\ DOMAIN responseHandle' = DOMAIN responseHandle \ {id[c]}
           /\ responseHandle' \in [DOMAIN responseHandle \ {id[c]} -> Callers]
        /\ mutex = None
        /\ UNCHANGED <<load, client, lock, sequenceId, recvChan, id, result, channel, server, beats>>
    BY <1>0, <1>5, EraseFacts
  <2>2. unreleased = {}
    BY <2>1 DEF IInv, LockInv
  <2>3. /\ DOMAIN responseHandle' \subseteq 0..(sequenceId' - 1)
        /\ responseHandle' \in [DOMAIN responseHandle' -> Callers]
        /\ unreleased' \subseteq DOMAIN responseHandle'
    BY <1>0, <2>1, <2>2 DEF TypeOK, lock
  <2>. QED
    BY <1>0, <2>1, <2>3 DEF TypeOK, client, lock, channel, server
<1>. QED
  BY <1>1, <1>2, <1>3, <1>4, <1>5

LEMMA CloseTypes ==
    ASSUME IInv, NEW f \in {User, Recv, Beat}, pc' \in [Fibers -> Steps], CloseStep(f)
    PROVE  TypeOK'
<1>0. TypeOK
  BY DEF IInv
<1>1. CASE Close(f)
  <2>1. /\ chan' = chan \/ chan' = <<>>
        /\ mutex' = mutex \/ mutex' = f
        /\ unreleased' = unreleased \/ unreleased' = DOMAIN responseHandle
        /\ isClose' \in BOOLEAN /\ isHeartClose' \in BOOLEAN /\ chanClosed' \in BOOLEAN
        /\ UNCHANGED <<load, calls, server, beats, heartTimer, session, taken, arrived>>
    BY <1>0, <1>1, CloseFacts DEF client, lock, channel, TypeOK
  <2>2. chan' \in Seq(Messages) /\ Len(chan') <= load.capacity
    <3>1. chan \in Seq(Messages) /\ Len(chan) <= load.capacity /\ load.capacity \in Nat
      BY <1>0, FibersAssumption DEF TypeOK
    <3>2. <<>> \in Seq(Messages) /\ Len(<<>>) = 0
      OBVIOUS
    <3>3. CASE chan' = chan
      BY <3>1, <3>3
    <3>4. CASE chan' = <<>>
      BY <3>1, <3>2, <3>4
    <3>. QED
      BY <2>1, <3>3, <3>4
  <2>. QED
    BY <1>0, <2>1, <2>2 DEF TypeOK, calls, server
<1>2. CASE Release(f)
  <2>1. PICK i \in unreleased :
                /\ i \in DOMAIN responseHandle /\ responseHandle[i] \in Callers
                /\ recvChan' = [recvChan EXCEPT ![responseHandle[i]] = <<None>>]
                /\ unreleased' = unreleased \ {i}
    BY <1>0, <1>2, ReleaseFacts
  <2>2. UNCHANGED <<load, client, mutex, sequenceId, responseHandle, id, result,
                    channel, server, beats>>
    BY <1>0, <1>2, ReleaseFacts
  <2>3. recvChan' \in [Callers -> Seq(Messages \cup {None})] /\ \A d \in Callers : Len(recvChan'[d]) <= 1
    BY <1>0, <2>1 DEF TypeOK
  <2>. QED
    BY <1>0, <2>1, <2>2, <2>3 DEF TypeOK, client, channel, server
<1>3. CASE Forget(f)
  <2>1. /\ responseHandle' = <<>> /\ heartTimer' = FALSE /\ unreleased = {}
        /\ UNCHANGED <<load, isClose, isHeartClose, session, lock, sequenceId, recvChan, id,
                       result, channel, server, beats>>
    BY <1>0, <1>3, ForgetFacts
  <2>2. DOMAIN responseHandle' = {} /\ responseHandle' \in [DOMAIN responseHandle' -> Callers]
    BY <2>1
  <2>. QED
    BY <1>0, <2>1, <2>2 DEF TypeOK, lock, channel, server
<1>4. CASE Shut(f)
  BY <1>0, <1>4, ShutFacts DEF TypeOK, calls, channel, server
<1>. QED
  BY <1>1, <1>2, <1>3, <1>4 DEF CloseStep

LEMMA ServerTypes ==
    ASSUME IInv, pc' \in [Fibers -> Steps], Serve \/ Publish \/ Break
    PROVE  TypeOK'
<1>0. TypeOK
  BY DEF IInv
<1>1. CASE Serve
  <2>1. /\ UNCHANGED <<load, client, lock, calls, channel, beats, publications>>
        /\ toServer # <<>>
        /\ \/ /\ Head(toServer).type = "request"
              /\ executed' = executed \cup {Head(toServer).call}
              /\ Reply([Head(toServer) EXCEPT !.type = "response"])
              /\ toServer' = Tail(toServer) /\ UNCHANGED <<peerOpen, subscribed>>
           \/ /\ Reply(Head(toServer)) \/ Reply(Message("subscribed"))
              /\ toServer' = Tail(toServer)
              /\ subscribed' \in {subscribed, TRUE} /\ UNCHANGED <<peerOpen, executed>>
           \/ /\ peerOpen' = FALSE /\ toServer' = <<>>
              /\ UNCHANGED <<toClient, subscribed, executed>>
    BY <1>1 DEF Serve
  <2>2. Head(toServer) = toServer[1] /\ 1 \in 1..Len(toServer) /\ Tail(toServer) \in Seq(Messages)
        /\ Head(toServer) \in Messages
    BY <1>0, <2>1 DEF TypeOK
  <2>3. Head(toServer).type = "request" => Head(toServer).call \in Callers
    BY <2>2 DEF IInv, MessageInv, Asks, Messages
  <2>4. \A m \in Messages : Reply(m) => toClient' \in Seq(Messages)
    BY <1>0 DEF Reply, TypeOK
  <2>5. toClient' \in Seq(Messages)
    BY <1>0, <2>1, <2>2, <2>4, MessageTypes DEF TypeOK
  <2>6. /\ toServer' \in Seq(Messages) /\ executed' \subseteq Callers
        /\ peerOpen' \in BOOLEAN /\ subscribed' \in BOOLEAN
    <3>1. /\ peerOpen \in BOOLEAN /\ subscribed \in BOOLEAN /\ executed \subseteq Callers
          /\ <<>> \in Seq(Messages)
      BY <1>0 DEF TypeOK
    <3>. QED
      BY <2>1, <2>2, <2>3, <3>1
  <2>. QED
    BY <1>0, <2>1, <2>5, <2>6 DEF TypeOK, client, lock, calls, channel
<1>2. CASE Publish
  <2>1. toClient' \in Seq(Messages)
    BY <1>0, <1>2, MessageTypes DEF Publish, Reply, TypeOK
  <2>2. publications' \in 0..load.publications
    BY <1>0, <1>2, FibersAssumption DEF Publish, TypeOK
  <2>. QED
    BY <1>0, <1>2, <2>1, <2>2 DEF TypeOK, Publish, client, lock, calls, channel
<1>3. CASE Break
  <2>1. /\ peerOpen' = FALSE /\ toServer' = <<>> /\ toClient' \in {toClient, <<>>}
        /\ UNCHANGED <<pc, load, client, lock, calls, channel, subscribed, executed,
                       publications, beats>>
    BY <1>3 DEF Break
  <2>2. toClient \in Seq(Messages) /\ <<>> \in Seq(Messages)
    BY <1>0 DEF TypeOK
  <2>3. toServer' \in Seq(Messages) /\ toClient' \in Seq(Messages)
    BY <2>1, <2>2
  <2>. QED
    BY <1>0, <2>1, <2>2, <2>3 DEF TypeOK, client, lock, calls, channel
<1>. QED
  BY <1>1, <1>2, <1>3

LEMMA TypeNext ==
    ASSUME IInv, Next
    PROVE  TypeOK'
<1>0. TypeOK /\ FiberType
  BY DEF IInv
<1>1. pc' \in [Fibers -> Steps]
  BY <1>0, PcNext
<1>2. ASSUME NEW c \in Callers, Call(c) \/ Register(c) \/ Receive(c) \/ Timeout(c) \/ Erase(c)
      PROVE  TypeOK'
  BY <1>1, <1>2, CallTypes
<1>3. ASSUME NEW f \in Fibers, Push(f)
      PROVE  TypeOK'
  <2>1. /\ f \in Callers \cup {User, Recv, Beat} /\ pc[f] = "push"
        /\ UNCHANGED <<load, client, lock, calls, chanClosed, taken, arrived, server, beats>>
        /\ chan' = chan \/ (Len(chan) < load.capacity /\ chan' = Append(chan, Pushed(f)))
    BY <1>0, <1>3, PushFacts
  <2>2. f \in Callers => id[f] # None
    BY <2>1 DEF IInv, IdInv, Numbered, Calling
  <2>3. Pushed(f) \in Messages
    BY <1>0, <2>2, MessageTypes
  <2>4. load.capacity \in Nat
    BY <1>0, FibersAssumption DEF TypeOK
  <2>5. chan' \in Seq(Messages) /\ Len(chan') <= load.capacity
    <3>1. chan \in Seq(Messages) /\ Len(chan) <= load.capacity
      BY <1>0 DEF TypeOK
    <3>. QED
      BY <2>1, <2>3, <2>4, <3>1
  <2>. QED
    BY <1>0, <1>1, <2>1, <2>5 DEF TypeOK, client, lock, calls, server
<1>4. ASSUME NEW f \in {User, Recv, Beat}, CloseStep(f)
      PROVE  TypeOK'
  BY <1>1, <1>4, CloseTypes
<1>5. CASE QuietStep
  <2>1. UNCHANGED <<load, isClose, session, lock, calls, channel, server>>
    BY <1>0, <1>5, QuietFacts
  <2>2. heartTimer' \in BOOLEAN /\ isHeartClose' \in BOOLEAN
    BY <1>0, <1>5 DEF QuietStep, Wait, AddHeartTimer, Subscribe, UserCloses, RecvNothing, BeatFires,
                      BeatMarks, client, TypeOK
  <2>3. beats' = beats \/ (beats' = beats + 1 /\ beats < load.beats)
    BY <1>5 DEF QuietStep, Wait, AddHeartTimer, Subscribe, UserCloses, RecvNothing, BeatFires,
                BeatMarks
  <2>4. beats' \in 0..load.beats
    BY <1>0, <2>3, FibersAssumption DEF TypeOK
  <2>. QED
    BY <1>0, <1>1, <2>1, <2>2, <2>4 DEF TypeOK, lock, calls, channel, server
<1>6. CASE Connect
  BY <1>0, <1>1, <1>6, ConnectFacts DEF TypeOK, lock, calls, channel
<1>7. CASE SenderStep
  <2>1. /\ chan' = chan \/ (chan # <<>> /\ chan' = Tail(chan))
        /\ taken' = taken \/ taken' = None \/ (chan # <<>> /\ taken' = chan[1])
        /\ toServer' = toServer \/ (pc[Sender] = "send" /\ toServer' = Append(toServer, taken))
        /\ UNCHANGED <<chanClosed, arrived>>
        /\ UNCHANGED <<load, client, lock, calls, toClient, peerOpen, subscribed, executed,
                       publications, beats>>
    BY <1>0, <1>7, SenderFacts DEF channel
  <2>2. chan' \in Seq(Messages) /\ Len(chan') <= load.capacity /\ taken' \in Messages \cup {None}
    <3>1. chan \in Seq(Messages) /\ Len(chan) <= load.capacity /\ taken \in Messages \cup {None}
          /\ load.capacity \in Nat
      BY <1>0, FibersAssumption DEF TypeOK
    <3>2. chan # <<>> => Tail(chan) \in Seq(Messages) /\ Len(Tail(chan)) = Len(chan) - 1
                         /\ chan[1] \in Messages
      BY <3>1
    <3>. QED
      BY <2>1, <3>1, <3>2
  <2>3. pc[Sender] = "send" => taken \in Messages
    BY DEF IInv, MessageInv, Asks
  <2>4. toServer' \in Seq(Messages)
    <3>1. toServer \in Seq(Messages)
      BY <1>0 DEF TypeOK
    <3>. QED
      BY <2>1, <2>3, <3>1
  <2>. QED
    BY <1>0, <1>1, <2>1, <2>2, <2>4 DEF TypeOK, client, lock, calls
<1>8. CASE RecvMessage
  <2>1. /\ toClient # <<>> /\ toClient' = Tail(toClient)
        /\ arrived' \in {toClient[1], None} /\ isHeartClose' = FALSE
        /\ UNCHANGED <<load, isClose, heartTimer, session, lock, calls, chan, chanClosed, taken,
                       toServer, peerOpen, subscribed, executed, publications, beats>>
    BY <1>0, <1>8, MessageFacts
  <2>2. toClient' \in Seq(Messages) /\ arrived' \in Messages \cup {None}
    BY <1>0, <2>1 DEF TypeOK
  <2>. QED
    BY <1>0, <1>1, <2>1, <2>2 DEF TypeOK, lock, calls
<1>9. CASE Deliver
  <2>1. /\ arrived' = None
        /\ UNCHANGED <<load, client, lock, sequenceId, responseHandle, id, result, chan,
                       chanClosed, taken, server, beats>>
    BY <1>0, <1>9, DeliverFacts
  <2>2. PICK c \in Callers :
          recvChan' = recvChan \/ recvChan' = [recvChan EXCEPT ![c] = <<arrived>>]
    BY <1>9, Delivers
  <2>3. arrived \in Messages
    BY <1>9, Delivers DEF IInv, MessageInv, Tells, Arrived
  <2>4. recvChan' \in [Callers -> Seq(Messages \cup {None})] /\ \A d \in Callers : Len(recvChan'[d]) <= 1
    <3>1. <<arrived>> \in Seq(Messages \cup {None}) /\ Len(<<arrived>>) = 1
      BY <2>3
    <3>2. recvChan \in [Callers -> Seq(Messages \cup {None})] /\ \A d \in Callers : Len(recvChan[d]) <= 1
      BY <1>0 DEF TypeOK
    <3>3. CASE recvChan' = recvChan
      BY <3>2, <3>3
    <3>4. CASE recvChan' = [recvChan EXCEPT ![c] = <<arrived>>]
      BY <3>1, <3>2, <3>4
    <3>. QED
      BY <2>2, <3>3, <3>4
  <2>. QED
    BY <1>0, <1>1, <2>1, <2>4 DEF TypeOK, client, lock, server
<1>10. CASE Serve \/ Publish \/ Break
  BY <1>1, <1>10, ServerTypes
<1>. QED
  BY <1>2, <1>3, <1>4, <1>5, <1>6, <1>7, <1>8, <1>9, <1>10
  DEF Next, CallStep, CloseStep, RecvStep, QuietStep

-----------------------------------------------------------------------------
(* The fibers, the lock and the session *)

LEMMA AfterPushes ==
    /\ \A c \in Callers : AfterPush(c) = "receive"
    /\ AfterPush(User) = "idle" /\ AfterPush(Recv) = "read" /\ AfterPush(Beat) = "mark"
BY Others DEF AfterPush

\* Where the quiet steps go.
LEMMA QuietMoves ==
    ASSUME TypeOK, QuietStep
    PROVE  \E f \in Fibers :
              /\ Alone(f)
              /\ \/ f \in Callers /\ pc[f] = "receive" /\ pc'[f] = "wait" /\ heartTimer' = heartTimer
                 \/ f = User /\ pc[f] = "timer" /\ pc'[f] = "ready"
                 \/ f = User /\ pc[f] \in {"ready", "idle"} /\ pc'[f] \in {"push", "close"}
                       /\ heartTimer' = heartTimer
                 \/ f = Recv /\ pc[f] \in {"read", "blocked"}
                       /\ pc'[f] \in {"close", "blocked", "read"} /\ heartTimer' = heartTimer
                 \/ f = Beat /\ pc[f] = "off" /\ pc'[f] \in {"close", "push"} /\ heartTimer
                 \/ f = Beat /\ pc[f] = "mark" /\ pc'[f] = "off"
<1>1. \A f \in Fibers : \A a, b : Goto(f, a, b) => pc[f] = a /\ pc'[f] = b /\ Alone(f)
  BY GoesTo DEF Alone
<1>2. ASSUME NEW c \in Callers, Wait(c)
      PROVE  pc[c] = "receive" /\ pc'[c] = "wait" /\ Alone(c) /\ c \in Fibers /\ heartTimer' = heartTimer
  BY <1>1, <1>2, Others DEF Wait, client
<1>3. AddHeartTimer => pc[User] = "timer" /\ pc'[User] = "ready" /\ Alone(User)
  BY <1>1, Others DEF AddHeartTimer
<1>4. Subscribe => /\ pc[User] = "ready" /\ pc'[User] = "push" /\ Alone(User)
                   /\ heartTimer' = heartTimer
  BY <1>1, Others DEF Subscribe, client
<1>5. UserCloses => /\ pc[User] \in {"ready", "idle"} /\ pc'[User] = "close" /\ Alone(User)
                    /\ heartTimer' = heartTimer
  BY Others DEF UserCloses, client, TypeOK, Alone
<1>6. RecvNothing => /\ pc[Recv] \in {"read", "blocked"} /\ pc'[Recv] \in {"close", "blocked", "read"}
                     /\ Alone(Recv) /\ heartTimer' = heartTimer
  BY <1>1, Others DEF RecvNothing, client
<1>7. BeatFires => /\ pc[Beat] = "off" /\ pc'[Beat] \in {"close", "push"} /\ heartTimer
                   /\ Alone(Beat)
  BY <1>1, Others DEF BeatFires
<1>8. BeatMarks => pc[Beat] = "mark" /\ pc'[Beat] = "off" /\ Alone(Beat)
  BY <1>1, Others DEF BeatMarks
<1>. QED
  BY <1>2, <1>3, <1>4, <1>5, <1>6, <1>7, <1>8, Others DEF QuietStep

LEMMA FiberNext ==
    ASSUME TypeOK, FiberType, Next
    PROVE  FiberType'
<1>1. ASSUME NEW c \in Callers, Call(c) \/ Register(c) \/ Receive(c) \/ Timeout(c) \/ Erase(c)
      PROVE  FiberType'
  <2>1. /\ pc'[c] \in {"register", "push", "erase", "done"}
        /\ \A g \in Fibers \ {c} : pc'[g] = pc[g]
    BY <1>1, CallFacts, RegisterFacts, ReceiveFacts, TimeoutFacts, EraseFacts DEF Alone
  <2>. QED
    BY <2>1, Others DEF FiberType
<1>2. ASSUME NEW f \in Fibers, Push(f)
      PROVE  FiberType'
  <2>1. /\ f \in Callers \cup {User, Recv, Beat} /\ pc'[f] \in {"asleep", AfterPush(f)}
        /\ \A g \in Fibers \ {f} : pc'[g] = pc[g]
    BY <1>2, PushFacts
  <2>. QED
    BY <2>1, AfterPushes, Others DEF FiberType
<1>3. ASSUME NEW f \in {User, Recv, Beat}, CloseStep(f)
      PROVE  FiberType'
  <2>1. CASE Close(f)
    <3>1. /\ pc'[f] \in {AfterClose(f), "release"}
          /\ \A g \in Fibers \ {f} : pc'[g] = pc[g] \/ (pc[g] = "asleep" /\ pc'[g] = "push")
      BY <2>1, CloseFacts
    <3>. QED
      BY <3>1, AfterCloses, Others DEF FiberType
  <2>2. CASE Release(f)
    BY <2>2, ReleaseFacts DEF FiberType
  <2>3. CASE Forget(f)
    <3>1. /\ pc'[f] = "shut"
          /\ \A g \in Fibers \ {f} : pc'[g] = pc[g] \/ (g = Recv /\ pc'[Recv] = "lost")
      BY <2>3, ForgetFacts
    <3>. QED
      BY <3>1, Others DEF FiberType
  <2>4. CASE Shut(f)
    <3>1. pc'[f] = AfterClose(f) /\ \A g \in Fibers \ {f} : pc'[g] = pc[g]
      BY <2>4, ShutFacts DEF Alone
    <3>. QED
      BY <3>1, AfterCloses, Others DEF FiberType
  <2>. QED
    BY <1>3, <2>1, <2>2, <2>3, <2>4 DEF CloseStep
<1>4. CASE QuietStep
  BY <1>4, QuietMoves, Others DEF FiberType, Alone
<1>5. CASE Connect
  BY <1>5, ConnectFacts, Others DEF FiberType
<1>6. CASE SenderStep
  <2>1. /\ pc'[Sender] \in {"end", "send", "pop"}
        /\ \A g \in Fibers \ {Sender} : pc'[g] = pc[g] \/ (pc[g] = "asleep" /\ pc'[g] = "push")
    BY <1>6, SenderFacts
  <2>. QED
    BY <2>1, Others DEF FiberType
<1>7. CASE RecvMessage
  BY <1>7, MessageFacts, Others DEF FiberType, Alone
<1>8. CASE Deliver
  BY <1>8, DeliverFacts, Others DEF FiberType, Alone
<1>9. CASE Serve \/ Publish \/ Break
  BY <1>9, ServerFacts DEF FiberType
<1>. QED
  BY <1>1, <1>2, <1>3, <1>4, <1>5, <1>6, <1>7, <1>8, <1>9
  DEF Next, CallStep, RecvStep, QuietStep

LEMMA LockNext ==
    ASSUME TypeOK, FiberType, LockInv, OpenInv, Next
    PROVE  LockInv'
<1>. DEFINE Same == /\ mutex' = mutex /\ unreleased' = unreleased /\ (isClose => isClose')
                    /\ \A f \in {User, Recv, Beat} :
                          pc'[f] \in {"release", "shut"} \/ pc[f] \in {"release", "shut"} =>
                             pc'[f] = pc[f]
<1>0. Same => LockInv'
  BY DEF LockInv, Closing
<1>1. ASSUME NEW c \in Callers, Call(c) \/ Register(c) \/ Receive(c) \/ Timeout(c) \/ Erase(c)
      PROVE  LockInv'
  <2>1. (\A g \in Fibers \ {c} : pc'[g] = pc[g]) /\ UNCHANGED <<client, lock>>
    BY <1>1, CallFacts, RegisterFacts, ReceiveFacts, TimeoutFacts, EraseFacts DEF Alone
  <2>. QED
    BY <1>0, <2>1, Others DEF client, lock
<1>2. ASSUME NEW f \in Fibers, Push(f)
      PROVE  LockInv'
  <2>1. /\ f \in Callers \cup {User, Recv, Beat} /\ pc[f] = "push" /\ pc'[f] \in {"asleep", AfterPush(f)}
        /\ \A g \in Fibers \ {f} : pc'[g] = pc[g]
        /\ UNCHANGED <<client, lock>>
    BY <1>2, PushFacts
  <2>. QED
    BY <1>0, <2>1, AfterPushes, Others DEF client, lock
<1>3. ASSUME NEW f \in {User, Recv, Beat}, CloseStep(f)
      PROVE  LockInv'
  <2>0. f \in Fibers /\ f # None
    BY Others
  <2>1. CASE Close(f)
    <3>1. /\ pc[f] = "close" /\ mutex = None
          /\ \A g \in Fibers \ {f} : pc'[g] = pc[g] \/ (pc[g] = "asleep" /\ pc'[g] = "push")
          /\ \/ isClose /\ pc'[f] = AfterClose(f) /\ UNCHANGED <<client, lock>>
             \/ pc'[f] = "release" /\ mutex' = f /\ isClose' = TRUE
      BY <2>1, CloseFacts
    <3>2. \A g \in {User, Recv, Beat} : pc[g] \notin {"release", "shut"}
      BY <3>1, Others DEF LockInv, Closing
    <3>3. CASE isClose /\ pc'[f] = AfterClose(f) /\ UNCHANGED <<client, lock>>
      BY <1>0, <3>1, <3>2, <3>3, AfterCloses, Others DEF client, lock
    <3>4. CASE pc'[f] = "release" /\ mutex' = f /\ isClose' = TRUE
      BY <2>0, <3>1, <3>2, <3>4, Others DEF LockInv, Closing
    <3>. QED
      BY <3>1, <3>3, <3>4
  <2>2. CASE Release(f)
    BY <2>2, ReleaseFacts DEF LockInv, Closing, client
  <2>3. CASE Forget(f)
    <3>1. /\ pc[f] = "release" /\ pc'[f] = "shut" /\ unreleased = {}
          /\ \A g \in Fibers \ {f} :
                pc'[g] = pc[g] \/ (g = Recv /\ pc[Recv] = "blocked" /\ pc'[Recv] = "lost")
          /\ isClose' = isClose /\ mutex' = mutex /\ unreleased' = unreleased
      BY <2>3, ForgetFacts DEF lock
    <3>. QED
      BY <2>0, <3>1, Others DEF LockInv, Closing
  <2>4. CASE Shut(f)
    <3>1. /\ pc[f] = "shut" /\ pc'[f] = AfterClose(f) /\ \A g \in Fibers \ {f} : pc'[g] = pc[g]
          /\ mutex' = None /\ isClose' = isClose /\ unreleased' = unreleased
      BY <2>4, ShutFacts DEF Alone
    <3>. QED
      BY <2>0, <3>1, AfterCloses, Others DEF LockInv, Closing
  <2>. QED
    BY <1>3, <2>1, <2>2, <2>3, <2>4 DEF CloseStep
<1>4. CASE QuietStep
  BY <1>0, <1>4, QuietFacts DEF lock
<1>5. CASE Connect
  <2>1. pc[User] = "connect" /\ pc[Recv] = "off" /\ pc[Beat] = "off"
    BY <1>5, ConnectFacts DEF OpenInv
  <2>2. /\ pc'[User] = "timer" /\ pc'[Recv] = "read" /\ pc'[Beat] = pc[Beat]
        /\ mutex' = mutex /\ unreleased' = unreleased
    BY <1>5, ConnectFacts, Others DEF lock
  <2>. QED
    BY <2>1, <2>2, Others DEF LockInv, Closing
<1>6. CASE SenderStep
  <2>1. /\ \A g \in Fibers \ {Sender} : pc'[g] = pc[g] \/ (pc[g] = "asleep" /\ pc'[g] = "push")
        /\ UNCHANGED <<client, lock>>
    BY <1>6, SenderFacts
  <2>. QED
    BY <1>0, <2>1, Others DEF client, lock
<1>7. CASE RecvMessage
  <2>1. /\ pc[Recv] = "read" /\ pc'[Recv] \in {"deliver", "push", "read"}
        /\ \A g \in Fibers \ {Recv} : pc'[g] = pc[g]
        /\ isClose' = isClose /\ mutex' = mutex /\ unreleased' = unreleased
    BY <1>7, MessageFacts DEF Alone, lock
  <2>. QED
    BY <1>0, <2>1, Others
<1>8. CASE Deliver
  <2>1. /\ pc[Recv] = "deliver" /\ pc'[Recv] = "read" /\ \A g \in Fibers \ {Recv} : pc'[g] = pc[g]
        /\ UNCHANGED <<client, lock>>
    BY <1>8, DeliverFacts DEF Alone
  <2>. QED
    BY <1>0, <2>1, Others DEF client, lock
<1>9. CASE Serve \/ Publish \/ Break
  BY <1>0, <1>9, ServerFacts DEF client, lock
<1>. QED
  BY <1>1, <1>2, <1>3, <1>4, <1>5, <1>6, <1>7, <1>8, <1>9
  DEF Next, CallStep, RecvStep, QuietStep

LEMMA OpenNext ==
    ASSUME TypeOK, FiberType, LockInv, OpenInv, Next
    PROVE  OpenInv'
<1>1. ASSUME NEW c \in Callers, Call(c) \/ Register(c) \/ Receive(c) \/ Timeout(c) \/ Erase(c)
      PROVE  OpenInv'
  <2>1. /\ \A g \in Fibers \ {c} : pc'[g] = pc[g]
        /\ pc[c] # "call" \/ pc[User] \notin {"connect", "timer"}
        /\ UNCHANGED client
    BY <1>1, CallFacts, RegisterFacts, ReceiveFacts, TimeoutFacts, EraseFacts DEF Alone
  <2>2. pc[User] \notin {"connect", "timer"}
    BY <2>1 DEF OpenInv
  <2>. QED
    BY <2>1, <2>2, Others DEF OpenInv, client
<1>2. ASSUME NEW f \in Fibers, Push(f)
      PROVE  OpenInv'
  <2>1. /\ f \in Callers \cup {User, Recv, Beat} /\ pc[f] = "push" /\ pc'[f] \in {"asleep", AfterPush(f)}
        /\ \A g \in Fibers \ {f} : pc'[g] = pc[g]
        /\ UNCHANGED client
    BY <1>2, PushFacts
  <2>2. pc'[f] \notin {"connect", "timer"}
    BY <2>1, AfterPushes
  <2>. QED
    BY <2>1, <2>2, Others DEF OpenInv, client
<1>3. ASSUME NEW f \in {User, Recv, Beat}, CloseStep(f)
      PROVE  OpenInv'
  <2>0. f \in Fibers
    BY Others
  <2>1. /\ pc[f] \in {"close", "release", "shut"} /\ pc'[f] \notin {"connect", "timer"}
        /\ \A g \in Fibers \ {f} :
              \/ pc'[g] = pc[g] \/ (pc[g] = "asleep" /\ pc'[g] = "push")
              \/ (g = Recv /\ pc[Recv] = "blocked")
        /\ heartTimer' = heartTimer \/ heartTimer' = FALSE
        /\ isClose' = isClose \/ isClose' = TRUE
        /\ session' = session \/ (pc[f] = "shut" /\ isClose' = isClose)
    <3>1. CASE Close(f)
      BY <3>1, CloseFacts, AfterCloses DEF client, Alone
    <3>2. CASE Release(f)
      BY <3>2, ReleaseFacts DEF client
    <3>3. CASE Forget(f)
      BY <3>3, ForgetFacts
    <3>4. CASE Shut(f)
      BY <3>4, ShutFacts, AfterCloses DEF Alone
    <3>. QED
      BY <1>3, <3>1, <3>2, <3>3, <3>4 DEF CloseStep
  <2>2. pc[f] = "shut" => isClose
    BY DEF LockInv, Closing
  <2>3. ~isClose' => session' = "open"
    BY <2>1, <2>2 DEF OpenInv
  <2>4. \A c \in Callers : pc[c] = "call" => pc'[c] = "call"
    BY <2>1, AfterCloses, Others
  <2>. QED
    BY <2>0, <2>1, <2>3, <2>4, Others DEF OpenInv
<1>4. CASE QuietStep
  <2>1. isClose' = isClose /\ session' = session
    BY <1>4, QuietFacts
  <2>2. PICK f \in Fibers :
              /\ \A g \in Fibers \ {f} : pc'[g] = pc[g]
              /\ \/ f \in Callers /\ pc[f] = "receive" /\ heartTimer' = heartTimer
                 \/ f = User /\ pc'[f] \notin {"connect", "timer"}
                 \/ f = Recv /\ pc[f] # "off" /\ heartTimer' = heartTimer
                 \/ f = Beat /\ (pc[f] # "off" \/ heartTimer)
    BY <1>4, QuietMoves DEF Alone
  <2>. QED
    BY <2>1, <2>2, Others DEF OpenInv
<1>5. CASE Connect
  BY <1>5, ConnectFacts, Others DEF OpenInv
<1>6. CASE SenderStep
  <2>1. /\ \A g \in Fibers \ {Sender} : pc'[g] = pc[g] \/ (pc[g] = "asleep" /\ pc'[g] = "push")
        /\ pc[Sender] # "off" /\ UNCHANGED client
    BY <1>6, SenderFacts
  <2>. QED
    BY <2>1, Others DEF OpenInv, client
<1>7. CASE RecvMessage
  <2>1. /\ pc[Recv] = "read" /\ \A g \in Fibers \ {Recv} : pc'[g] = pc[g]
        /\ UNCHANGED <<isClose, session, heartTimer>>
    BY <1>7, MessageFacts DEF Alone
  <2>. QED
    BY <2>1, Others DEF OpenInv
<1>8. CASE Deliver
  <2>1. pc[Recv] = "deliver" /\ (\A g \in Fibers \ {Recv} : pc'[g] = pc[g]) /\ UNCHANGED client
    BY <1>8, DeliverFacts DEF Alone
  <2>. QED
    BY <2>1, Others DEF OpenInv, client
<1>9. CASE Serve \/ Publish \/ Break
  BY <1>9, ServerFacts DEF OpenInv, client
<1>. QED
  BY <1>1, <1>2, <1>3, <1>4, <1>5, <1>6, <1>7, <1>8, <1>9
  DEF Next, CallStep, RecvStep, QuietStep

-----------------------------------------------------------------------------
(* The ids and the map *)

\* No id is given, no call begins to need its entry, and no call loses the one it needs.
IdsKept ==
    /\ id' = id /\ sequenceId' = sequenceId
    /\ \A c \in Callers :
          /\ pc'[c] \in {"call", "register"} => pc[c] \in {"call", "register"}
          /\ pc'[c] \in Calling => pc[c] \in Calling
          /\ pc'[c] \in Calling /\ ~isClose' =>
                ~isClose /\ \A i \in DOMAIN responseHandle :
                               responseHandle[i] = c => i \in DOMAIN responseHandle'
    /\ \A i \in DOMAIN responseHandle' :
          i \in DOMAIN responseHandle /\ responseHandle'[i] = responseHandle[i]

\* A step that leaves the calls but for the channels and the results alone.
CallsKept ==
    /\ UNCHANGED <<id, sequenceId, responseHandle>>
    /\ isClose => isClose'
    /\ \A c \in Callers : Stays(c) \/ (pc[c] = "call" /\ pc'[c] \in {"register", "done"})
                            \/ (pc[c] \in {"receive", "wait"} /\ pc'[c] = "erase")

LEMMA KeptIds ==
    ASSUME CallsKept
    PROVE  IdsKept
BY DEF CallsKept, IdsKept, Stays, Calling

LEMMA NextKeepsCalls ==
    ASSUME TypeOK, FiberType, OpenInv, Next
    PROVE  \/ CallsKept
           \/ Connect
           \/ \E c \in Callers : Register(c) \/ Erase(c)
           \/ \E f \in {User, Recv, Beat} : Forget(f)
<1>1. ASSUME NEW c \in Callers, Call(c) \/ Receive(c) \/ Timeout(c)
      PROVE  CallsKept
  <2>1. /\ \A g \in Fibers \ {c} : pc'[g] = pc[g]
        /\ \/ pc[c] = "call" /\ pc'[c] \in {"register", "done"}
           \/ pc[c] \in {"receive", "wait"} /\ pc'[c] = "erase"
        /\ UNCHANGED <<id, sequenceId, responseHandle, client>>
    BY <1>1, CallFacts, ReceiveFacts, TimeoutFacts DEF Alone
  <2>. QED
    BY <2>1, Others DEF CallsKept, client, Stays
<1>2. ASSUME NEW f \in Fibers, Push(f)
      PROVE  CallsKept
  BY <1>2, PushFacts DEF CallsKept, client, calls
<1>3. ASSUME NEW f \in {User, Recv, Beat}, Close(f) \/ Release(f) \/ Shut(f)
      PROVE  CallsKept
  <2>1. /\ \A g \in Fibers \ {f} : pc'[g] = pc[g] \/ (pc[g] = "asleep" /\ pc'[g] = "push")
        /\ UNCHANGED <<id, sequenceId, responseHandle>> /\ (isClose => isClose')
    <3>1. CASE Close(f)
      BY <3>1, CloseFacts DEF client, calls
    <3>2. CASE Release(f)
      BY <3>2, ReleaseFacts DEF client
    <3>3. CASE Shut(f)
      BY <3>3, ShutFacts DEF Alone, calls
    <3>. QED
      BY <1>3, <3>1, <3>2, <3>3
  <2>. QED
    BY <2>1, AfterCloses, Others DEF CallsKept, Stays
<1>4. CASE QuietStep
  BY <1>4, QuietFacts DEF CallsKept, calls
<1>5. CASE SenderStep
  <2>1. /\ \A g \in Fibers \ {Sender} : pc'[g] = pc[g] \/ (pc[g] = "asleep" /\ pc'[g] = "push")
        /\ UNCHANGED <<client, calls>>
    BY <1>5, SenderFacts
  <2>. QED
    BY <2>1, Others DEF CallsKept, Stays, client, calls
<1>6. CASE RecvMessage \/ Deliver
  <2>1. /\ \A g \in Fibers \ {Recv} : pc'[g] = pc[g]
        /\ UNCHANGED <<id, sequenceId, responseHandle, isClose>>
    BY <1>6, MessageFacts, DeliverFacts DEF Alone, client, calls
  <2>. QED
    BY <2>1, Others DEF CallsKept, Stays
<1>7. CASE Serve \/ Publish \/ Break
  BY <1>7, ServerFacts DEF CallsKept, Stays, client, calls
<1>. QED
  BY <1>1, <1>2, <1>3, <1>4, <1>5, <1>6, <1>7 DEF Next, CallStep, CloseStep, RecvStep, QuietStep

LEMMA NextKeepsIds ==
    ASSUME TypeOK, FiberType, LockInv, OpenInv, IdInv, Next
    PROVE  IdsKept \/ \E c \in Callers : Register(c)
<1>1. CASE Connect
  <2>1. \A c \in Callers : pc[c] = "call" /\ pc'[c] = "call"
    BY <1>1, ConnectFacts, Others DEF OpenInv
  <2>. QED
    BY <1>1, <2>1, ConnectFacts DEF IdsKept, calls, Calling
<1>2. ASSUME NEW c \in Callers, Erase(c)
      PROVE  IdsKept
  <2>1. /\ pc[c] = "erase" /\ pc'[c] = "done" /\ \A g \in Fibers \ {c} : pc'[g] = pc[g]
        /\ UNCHANGED <<id, sequenceId, client>>
        /\ \/ responseHandle' = responseHandle
           \/ /\ DOMAIN responseHandle' = DOMAIN responseHandle \ {id[c]}
              /\ \A i \in DOMAIN responseHandle \ {id[c]} : responseHandle'[i] = responseHandle[i]
    BY <1>2, EraseFacts DEF Alone
  <2>2. \A i \in DOMAIN responseHandle : i = id[c] => responseHandle[i] = c
    <3>1. \A i \in DOMAIN responseHandle : responseHandle[i] \in Callers /\ i # None
      BY Others DEF TypeOK
    <3>. QED
      BY <3>1 DEF IdInv
  <2>. QED
    BY <2>1, <2>2, Others DEF IdsKept, client, Calling
<1>3. ASSUME NEW f \in {User, Recv, Beat}, Forget(f)
      PROVE  IdsKept
  <2>1. /\ pc[f] = "release" /\ responseHandle' = <<>> /\ isClose' = isClose
        /\ \A c \in Callers : pc'[c] = pc[c]
        /\ UNCHANGED <<id, sequenceId>>
    BY <1>3, ForgetFacts, AfterCloses, Others
  <2>2. isClose
    BY <2>1 DEF LockInv, Closing
  <2>. QED
    BY <2>1, <2>2 DEF IdsKept
<1>. QED
  BY <1>1, <1>2, <1>3, NextKeepsCalls, KeptIds

LEMMA IdNext ==
    ASSUME TypeOK, FiberType, LockInv, OpenInv, IdInv, Next
    PROVE  IdInv'
<1>1. CASE IdsKept
  BY <1>1 DEF IdsKept, IdInv, Numbered
<1>2. ASSUME NEW c \in Callers, Register(c)
      PROVE  IdInv'
  <2>1. /\ pc[c] = "register" /\ pc'[c] = "push" /\ \A g \in Fibers \ {c} : pc'[g] = pc[g]
        /\ id' = [id EXCEPT ![c] = sequenceId] /\ sequenceId' = sequenceId + 1
        /\ DOMAIN responseHandle' = DOMAIN responseHandle \cup {sequenceId}
        /\ \A i \in DOMAIN responseHandle : responseHandle'[i] = responseHandle[i]
        /\ responseHandle'[sequenceId] = c
    BY <1>2, RegisterFacts DEF Alone
  <2>2. id[c] = None
    BY <2>1 DEF IdInv, Numbered
  <2>3. /\ sequenceId \in Nat /\ sequenceId # None
        /\ id'[c] = sequenceId /\ \A d \in Callers \ {c} : id'[d] = id[d]
    BY <2>1, Others DEF TypeOK
  <2>4. \A d \in Callers : Numbered(d)'
    BY <2>1, <2>3, Others DEF IdInv, Numbered, Calling
  <2>5. \A d, e \in Callers : id'[d] # None /\ id'[d] = id'[e] => d = e
    <3>1. \A d \in Callers : id[d] # None => id[d] # sequenceId
      BY <2>3 DEF IdInv, Numbered
    <3>. QED
      BY <2>3, <3>1 DEF IdInv
  <2>6. \A i \in DOMAIN responseHandle' : id'[responseHandle'[i]] = i
    <3>1. \A i \in DOMAIN responseHandle : i # None /\ responseHandle[i] \in Callers
      BY Others DEF TypeOK
    <3>. QED
      BY <2>1, <2>2, <2>3, <3>1 DEF IdInv
  <2>7. sequenceId' = Cardinality({d \in Callers : id'[d] # None})
    <3>1. {d \in Callers : id'[d] # None} = {d \in Callers : id[d] # None} \cup {c}
      BY <2>3
    <3>. QED
      BY <2>1, <2>2, <3>1, AnIdIsFree
  <2>. QED
    BY <2>4, <2>5, <2>6, <2>7 DEF IdInv
<1>. QED
  BY <1>1, <1>2, NextKeepsIds

LEMMA EntryNext ==
    ASSUME TypeOK, FiberType, LockInv, OpenInv, IdInv, EntryInv, Next
    PROVE  EntryInv'
<1>1. CASE IdsKept
  BY <1>1 DEF IdsKept, EntryInv, Entered
<1>2. ASSUME NEW c \in Callers, Register(c)
      PROVE  EntryInv'
  <2>1. /\ pc[c] = "register" /\ pc'[c] = "push" /\ \A g \in Fibers \ {c} : pc'[g] = pc[g]
        /\ id' = [id EXCEPT ![c] = sequenceId]
        /\ DOMAIN responseHandle' = DOMAIN responseHandle \cup {sequenceId}
        /\ \A i \in DOMAIN responseHandle : responseHandle'[i] = responseHandle[i]
        /\ responseHandle'[sequenceId] = c /\ isClose' = isClose
    BY <1>2, RegisterFacts DEF Alone, client
  <2>2. id'[c] = sequenceId /\ \A d \in Callers \ {c} : id'[d] = id[d]
    BY <2>1 DEF TypeOK
  <2>. QED
    BY <2>1, <2>2, Others DEF EntryInv, Entered
<1>. QED
  BY <1>1, <1>2, NextKeepsIds

-----------------------------------------------------------------------------
(* The messages, and where a call is *)

LEMMA Appended ==
    ASSUME NEW q \in Seq(Messages), NEW m \in Messages
    PROVE  /\ \A c : In(Append(q, m), c) <=> In(q, c) \/ m.call = c
           /\ \A j \in 1..Len(Append(q, m)) : Append(q, m)[j] = m \/ \E i \in 1..Len(q) : Append(q, m)[j] = q[i]
           /\ Once(q) /\ (m.call = None \/ ~In(q, m.call)) => Once(Append(q, m))
<1>1. /\ Len(Append(q, m)) = Len(q) + 1 /\ Len(q) \in Nat
      /\ \A i \in 1..Len(q) : Append(q, m)[i] = q[i]
      /\ Append(q, m)[Len(q) + 1] = m
  OBVIOUS
<1>2. \A j \in 1..Len(Append(q, m)) : j \in 1..Len(q) \/ j = Len(q) + 1
  BY <1>1
<1>3. \A c : In(Append(q, m), c) <=> In(q, c) \/ m.call = c
  <2>1. ASSUME NEW c, In(q, c) PROVE In(Append(q, m), c)
    BY <1>1, <2>1 DEF In
  <2>2. ASSUME NEW c, m.call = c PROVE In(Append(q, m), c)
    <3>1. Len(q) + 1 \in 1..Len(Append(q, m))
      BY <1>1
    <3>. QED
      BY <1>1, <2>2, <3>1 DEF In
  <2>3. ASSUME NEW c, In(Append(q, m), c) PROVE In(q, c) \/ m.call = c
    BY <1>1, <1>2, <2>3 DEF In
  <2>. QED
    BY <2>1, <2>2, <2>3
<1>4. ASSUME Once(q), m.call = None \/ ~In(q, m.call)
      PROVE  Once(Append(q, m))
  BY <1>1, <1>2, <1>4 DEF Once, In
<1>. QED
  BY <1>1, <1>2, <1>3, <1>4

LEMMA Tailed ==
    ASSUME NEW q \in Seq(Messages), q # <<>>
    PROVE  /\ q[1] \in Messages /\ 1 \in 1..Len(q)
           /\ \A c : In(q, c) <=> In(Tail(q), c) \/ q[1].call = c
           /\ \A j \in 1..Len(Tail(q)) : \E i \in 1..Len(q) : Tail(q)[j] = q[i]
           /\ Once(q) => Once(Tail(q))
           /\ Once(q) /\ q[1].call # None => ~In(Tail(q), q[1].call)
<1>1. /\ Len(Tail(q)) = Len(q) - 1 /\ Len(q) \in Nat \ {0}
      /\ \A i \in 1..Len(Tail(q)) : Tail(q)[i] = q[i + 1]
  OBVIOUS
<1>2. q[1] \in Messages /\ 1 \in 1..Len(q)
  BY <1>1
<1>3. \A j \in 1..Len(Tail(q)) : j + 1 \in 1..Len(q) /\ j + 1 # 1
  BY <1>1
<1>4. \A c : In(q, c) <=> In(Tail(q), c) \/ q[1].call = c
  <2>1. ASSUME NEW c, In(q, c), q[1].call # c PROVE In(Tail(q), c)
    <3>1. PICK i \in 1..Len(q) : q[i].call = c
      BY <2>1 DEF In
    <3>2. i # 1 /\ i - 1 \in 1..Len(Tail(q)) /\ (i - 1) + 1 = i
      BY <1>1, <2>1, <3>1
    <3>. QED
      BY <1>1, <3>1, <3>2 DEF In
  <2>2. ASSUME NEW c, In(Tail(q), c) PROVE In(q, c)
    BY <1>1, <1>3, <2>2 DEF In
  <2>3. ASSUME NEW c, q[1].call = c PROVE In(q, c)
    BY <1>2, <2>3 DEF In
  <2>. QED
    BY <2>1, <2>2, <2>3
<1>5. ASSUME Once(q) PROVE Once(Tail(q))
  <2>. SUFFICES ASSUME NEW i \in 1..Len(Tail(q)), NEW j \in 1..Len(Tail(q)),
                       Tail(q)[i].call # None, Tail(q)[i].call = Tail(q)[j].call
                PROVE  i = j
    BY DEF Once
  <2>1. i + 1 = j + 1
    BY <1>1, <1>3, <1>5 DEF Once
  <2>. QED
    BY <2>1
<1>6. ASSUME Once(q), q[1].call # None PROVE ~In(Tail(q), q[1].call)
  BY <1>1, <1>2, <1>3, <1>6 DEF Once, In
<1>. QED
  BY <1>1, <1>2, <1>3, <1>4, <1>5, <1>6

LEMMA EmptyOnce == Once(<<>>) /\ \A c : ~In(<<>>, c)
BY DEF Once, In

\* The ids of the messages stay those of their calls.
LEMMA IdsStay ==
    ASSUME TypeOK, FiberType, LockInv, OpenInv, IdInv, Next
    PROVE  /\ \A c \in Callers : id[c] # None => id'[c] = id[c]
           /\ \A m : Asks(m) => m \in Messages /\ (m.type = "request" <=> m.call # None)
                                /\ (m.call # None => m.id = id'[m.call])
           /\ \A m : Tells(m) => m \in Messages /\ (m.type = "response" <=> m.call # None)
                                 /\ (m.call # None => m.id = id'[m.call])
<1>1. ASSUME NEW c \in Callers, id[c] # None
      PROVE  id'[c] = id[c]
  <2>1. ASSUME NEW d \in Callers, Register(d)
        PROVE  id'[c] = id[c]
    BY <1>1, <2>1, RegisterFacts DEF TypeOK, IdInv, Numbered
  <2>. QED
    BY <2>1, NextKeepsIds DEF IdsKept
<1>2. \A m \in Messages : m.call # None => m.call \in Callers /\ m.id # None
  BY Others DEF Messages
<1>. QED
  BY <1>1, <1>2 DEF Asks, Tells

Early == {"call", "register", "push", "asleep"}

\* A step that neither moves a message nor takes a call back to where it has none.
MessagesKept ==
    /\ UNCHANGED <<chan, taken, arrived, toServer, toClient, executed>>
    /\ pc'[Sender] = "send" => pc[Sender] = "send"
    /\ pc'[Recv] = "deliver" => pc[Recv] = "deliver"
    /\ \A c \in Callers : pc'[c] \in Early => pc[c] \in Early

LEMMA KeptMessages ==
    ASSUME IInv, Next, MessagesKept
    PROVE  MessageInv' /\ PlaceInv'
<1>1. /\ \A c \in Callers : id[c] # None => id'[c] = id[c]
      /\ \A m : Asks(m) => m \in Messages /\ (m.type = "request" <=> m.call # None)
                                /\ (m.call # None => m.id = id'[m.call])
      /\ \A m : Tells(m) => m \in Messages /\ (m.type = "response" <=> m.call # None)
                                 /\ (m.call # None => m.id = id'[m.call])
  BY IdsStay DEF IInv
<1>2. MessageInv'
  BY <1>1 DEF IInv, MessageInv, MessagesKept, Asks, Tells
<1>3. ASSUME NEW c \in Callers
      PROVE  Placed(c)'
  <2>1. Placed(c)
    BY DEF IInv, PlaceInv
  <2>2. /\ Queued(c)' = Queued(c) /\ Sent(c)' = Sent(c) /\ Answered(c)' = Answered(c)
        /\ Taken(c)' => Taken(c)
        /\ Arrived(c)' => Arrived(c)
        /\ executed' = executed
    BY DEF MessagesKept, Queued, Sent, Answered, Taken, Arrived
  <2>. QED
    BY <1>1, <2>1, <2>2 DEF Placed, MessagesKept, Early, TypeOK, IInv
<1>. QED
  BY <1>2, <1>3 DEF PlaceInv

LEMMA NextMoves ==
    ASSUME TypeOK, FiberType, Next
    PROVE  \/ MessagesKept
           \/ \E f \in Fibers : Push(f) /\ chan' # chan
           \/ \E f \in {User, Recv, Beat} : Close(f) /\ ~isClose
           \/ SenderStep \/ RecvMessage \/ Deliver \/ Serve \/ Publish \/ Break
<1>. DEFINE Quiet == UNCHANGED <<chan, taken, arrived, toServer, toClient, executed>>
<1>0. \A c \in Callers : Stays(c) => (pc'[c] \in Early => pc[c] \in Early)
  BY DEF Stays, Early
<1>1. ASSUME NEW c \in Callers, Call(c) \/ Register(c) \/ Receive(c) \/ Timeout(c) \/ Erase(c)
      PROVE  MessagesKept
  <2>1. /\ (pc[c] \in Early \/ pc'[c] \notin Early) /\ \A g \in Fibers \ {c} : pc'[g] = pc[g]
        /\ Quiet
    BY <1>1, CallFacts, RegisterFacts, ReceiveFacts, TimeoutFacts, EraseFacts
    DEF Alone, Early, channel, server
  <2>. QED
    BY <2>1, Others DEF MessagesKept
<1>2. ASSUME NEW f \in Fibers, Push(f), chan' = chan
      PROVE  MessagesKept
  <2>1. (\A c \in Callers : Stays(c)) /\ HandsStay /\ Quiet
    BY <1>2, PushFacts DEF server
  <2>. QED
    BY <1>0, <2>1 DEF MessagesKept, HandsStay
<1>3. ASSUME NEW f \in {User, Recv, Beat}, CloseStep(f), ~(Close(f) /\ ~isClose)
      PROVE  MessagesKept
  <2>1. /\ \A g \in Fibers \ {f} : pc'[g] = pc[g] \/ (g = Recv /\ pc'[g] = "lost")
        /\ pc'[f] \notin {"send", "deliver"} /\ Quiet
    <3>1. CASE Close(f)
      BY <1>3, <3>1, CloseFacts, AfterCloses DEF channel, server, Alone
    <3>2. CASE Release(f)
      BY <3>2, ReleaseFacts DEF channel, server
    <3>3. CASE Forget(f)
      BY <3>3, ForgetFacts DEF channel, server
    <3>4. CASE Shut(f)
      BY <3>4, ShutFacts, AfterCloses DEF Alone, channel, server
    <3>. QED
      BY <1>3, <3>1, <3>2, <3>3, <3>4 DEF CloseStep
  <2>. QED
    BY <2>1, AfterCloses, Others DEF MessagesKept
<1>4. CASE QuietStep
  <2>1. (\A c \in Callers : Stays(c)) /\ HandsStay /\ Quiet
    BY <1>4, QuietFacts DEF channel, server
  <2>. QED
    BY <1>0, <2>1 DEF MessagesKept, HandsStay
<1>5. CASE Connect
  BY <1>5, ConnectFacts, Others DEF MessagesKept, channel
<1>. QED
  BY <1>1, <1>2, <1>3, <1>4, <1>5 DEF Next, CallStep, RecvStep, QuietStep

\* A call pushes its request.
LEMMA PushMoves ==
    ASSUME IInv, Next, NEW f \in Fibers, Push(f), chan' # chan
    PROVE  MessageInv' /\ PlaceInv'
<1>. DEFINE m == Pushed(f)
<1>0. TypeOK /\ FiberType
  BY DEF IInv
<1>1. /\ f \in Callers \cup {User, Recv, Beat} /\ pc[f] = "push" /\ pc'[f] = AfterPush(f)
      /\ \A g \in Fibers \ {f} : pc'[g] = pc[g]
      /\ HandsStay /\ chan' = Append(chan, m)
      /\ UNCHANGED <<calls, taken, arrived, server>>
  BY <1>0, PushFacts
<1>2. f \in Callers => id[f] # None /\ AfterPush(f) = "receive" /\ m = Request(f)
  BY <1>1, AfterPushes, Others DEF IInv, IdInv, Numbered, Calling, Pushed
<1>3. m \in Messages /\ chan \in Seq(Messages)
  BY <1>0, <1>2, MessageTypes DEF TypeOK
<1>4. /\ f \in Callers => m.call = f /\ m.type = "request" /\ m.id = id[f]
      /\ f \notin Callers => m.call = None /\ m.type # "request"
  BY <1>2, Others DEF Pushed, Request, Message
<1>5. Asks(m)
  BY <1>3, <1>4, Others DEF Asks
<1>6. f \in Callers => ~Queued(f) /\ ~Taken(f) /\ ~Sent(f) /\ f \notin executed
  BY <1>1 DEF IInv, PlaceInv, Placed
<1>7. /\ \A c : In(chan', c) <=> In(chan, c) \/ m.call = c
      /\ \A j \in 1..Len(chan') : chan'[j] = m \/ \E i \in 1..Len(chan) : chan'[j] = chan[i]
      /\ Once(chan')
  BY <1>1, <1>3, <1>4, <1>6, Appended DEF IInv, MessageInv, Queued
<1>8. id' = id
  BY <1>1 DEF calls
<1>9. MessageInv'
  <2>1. \A j \in 1..Len(chan') : Asks(chan[j])'
    BY <1>5, <1>7, <1>8 DEF IInv, MessageInv, Asks
  <2>2. Once(chan)'
    BY <1>7 DEF Once
  <2>3. /\ pc'[Sender] = "send" <=> pc[Sender] = "send"
        /\ pc'[Recv] = "deliver" <=> pc[Recv] = "deliver"
        /\ UNCHANGED <<taken, arrived, toServer, toClient>>
    BY <1>1 DEF HandsStay, server
  <2>. QED
    BY <1>8, <2>1, <2>2, <2>3 DEF IInv, MessageInv, Asks, Tells
<1>10. ASSUME NEW c \in Callers
       PROVE  Placed(c)'
  <2>1. Placed(c)
    BY DEF IInv, PlaceInv
  <2>2. /\ Queued(c)' <=> Queued(c) \/ m.call = c
        /\ Sent(c)' = Sent(c) /\ Answered(c)' = Answered(c)
        /\ Taken(c)' <=> Taken(c)
        /\ Arrived(c)' <=> Arrived(c)
        /\ executed' = executed
    BY <1>1, <1>7 DEF HandsStay, Queued, Sent, Answered, Taken, Arrived, server, In
  <2>3. CASE c = f
    <3>1. pc'[c] = "receive"
      BY <1>1, <1>2, <2>3
    <3>. QED
      BY <1>6, <1>8, <2>1, <2>2, <2>3, <3>1 DEF Placed
  <2>4. CASE c # f
    <3>1. m.call # c /\ pc'[c] = pc[c]
      BY <1>1, <1>4, <2>4, Others
    <3>. QED
      BY <1>8, <2>1, <2>2, <3>1 DEF Placed
  <2>. QED
    BY <2>3, <2>4
<1>. QED
  BY <1>9, <1>10 DEF PlaceInv

\* close() empties m_chan.
LEMMA CloseMoves ==
    ASSUME IInv, Next, NEW f \in {User, Recv, Beat}, Close(f), ~isClose
    PROVE  MessageInv' /\ PlaceInv'
<1>0. TypeOK /\ FiberType
  BY DEF IInv
<1>1. /\ \A g \in Fibers \ {f} : pc'[g] = pc[g] \/ (pc[g] = "asleep" /\ pc'[g] = "push")
      /\ pc'[f] = "release" /\ chan' = <<>>
      /\ UNCHANGED <<calls, taken, arrived, server>>
  BY <1>0, CloseFacts
<1>2. /\ pc'[Sender] = "send" => pc[Sender] = "send"
      /\ pc'[Recv] = "deliver" => pc[Recv] = "deliver"
      /\ \A c \in Callers : pc'[c] \in Early => pc[c] \in Early
      /\ UNCHANGED <<id, taken, arrived, toServer, toClient, executed>>
  BY <1>1, AfterCloses, Others DEF Early, calls, server
<1>3. Once(chan)' /\ \A c : ~In(chan, c)'
  BY <1>1, EmptyOnce DEF Once, In
<1>4. MessageInv'
  <2>1. \A j \in 1..Len(chan') : Asks(chan[j])'
    BY <1>1
  <2>. QED
    BY <1>2, <1>3, <2>1 DEF IInv, MessageInv, Asks, Tells
<1>5. ASSUME NEW c \in Callers
      PROVE  Placed(c)'
  <2>1. Placed(c)
    BY DEF IInv, PlaceInv
  <2>2. /\ ~Queued(c)' /\ Sent(c)' = Sent(c) /\ Answered(c)' = Answered(c)
        /\ Taken(c)' => Taken(c)
        /\ Arrived(c)' => Arrived(c)
    BY <1>2, <1>3 DEF Queued, Sent, Answered, Taken, Arrived
  <2>. QED
    BY <1>2, <2>1, <2>2 DEF Placed, Early
<1>. QED
  BY <1>4, <1>5 DEF PlaceInv

\* The send fiber takes a message, or sends the one it has, or drops it.
LEMMA SenderMoves ==
    ASSUME IInv, Next, SenderStep
    PROVE  MessageInv' /\ PlaceInv'
<1>0. TypeOK /\ FiberType
  BY DEF IInv
<1>1. /\ \A g \in Fibers \ {Sender} : pc'[g] = pc[g] \/ (pc[g] = "asleep" /\ pc'[g] = "push")
      /\ UNCHANGED <<calls, toClient, executed, arrived>>
  BY <1>0, SenderFacts DEF channel
<1>2. /\ pc'[Recv] = "deliver" => pc[Recv] = "deliver"
      /\ \A c \in Callers : pc'[c] \in Early => pc[c] \in Early
      /\ id' = id
  BY <1>1, Others DEF Early, calls
<1>3. \A c \in Callers : /\ Answered(c)' = Answered(c)
                         /\ Arrived(c)' => Arrived(c)
  BY <1>1, <1>2 DEF Answered, Arrived
<1>4. /\ Once(toClient)' /\ \A i \in 1..Len(toClient') : Tells(toClient[i])'
      /\ pc'[Recv] = "deliver" => Tells(arrived)' /\ arrived'.call # None
  BY <1>1, <1>2 DEF IInv, MessageInv, Tells
<1>5. CASE /\ pc[Sender] = "pop" /\ pc'[Sender] = "end" /\ UNCHANGED <<channel, toServer>>
  <2>1. MessagesKept
    BY <1>1, <1>2, <1>5 DEF MessagesKept, channel
  <2>. QED
    BY <2>1, KeptMessages
<1>6. CASE /\ pc[Sender] = "pop" /\ pc'[Sender] = "send"
           /\ chan # <<>> /\ taken' = chan[1] /\ chan' = Tail(chan)
           /\ UNCHANGED <<chanClosed, arrived, toServer>>
  <2>1. /\ 1 \in 1..Len(chan)
        /\ \A c : In(chan, c) <=> In(chan', c) \/ chan[1].call = c
        /\ \A j \in 1..Len(chan') : \E i \in 1..Len(chan) : chan'[j] = chan[i]
        /\ Once(chan')
        /\ chan[1].call # None => ~In(chan', chan[1].call)
    BY <1>0, <1>6, Tailed DEF TypeOK, IInv, MessageInv
  <2>2. MessageInv'
    <3>1. \A j \in 1..Len(chan') : Asks(chan[j])'
      BY <1>2, <2>1 DEF IInv, MessageInv, Asks
    <3>2. Asks(taken)'
      BY <1>2, <1>6, <2>1 DEF IInv, MessageInv, Asks
    <3>3. Once(chan)'
      BY <2>1 DEF Once
    <3>4. Once(toServer)' /\ \A i \in 1..Len(toServer') : Asks(toServer[i])'
      BY <1>2, <1>6 DEF IInv, MessageInv, Asks
    <3>. QED
      BY <1>4, <3>1, <3>2, <3>3, <3>4 DEF MessageInv
  <2>3. ASSUME NEW c \in Callers
        PROVE  Placed(c)'
    <3>1. Placed(c)
      BY DEF IInv, PlaceInv
    <3>2. /\ Queued(c)' => Queued(c) /\ chan[1].call # c
          /\ Taken(c)' <=> chan[1].call = c
          /\ chan[1].call = c => Queued(c)
          /\ Sent(c)' = Sent(c) /\ executed' = executed
      <4>1. Queued(c)' = In(chan', c) /\ Queued(c) = In(chan, c)
        BY DEF Queued, In
      <4>. QED
        BY <1>1, <1>6, <2>1, <4>1, Others DEF Taken, Sent
    <3>. QED
      BY <1>2, <1>3, <3>1, <3>2 DEF Placed, Early
  <2>. QED
    BY <2>2, <2>3 DEF PlaceInv
<1>7. CASE /\ pc[Sender] = "send" /\ pc'[Sender] \in {"pop", "end"}
           /\ taken' = None /\ toServer' = toServer
           /\ UNCHANGED <<chan, chanClosed, arrived>>
  <2>1. MessageInv'
    BY <1>2, <1>4, <1>7 DEF IInv, MessageInv, Asks
  <2>2. ASSUME NEW c \in Callers
        PROVE  Placed(c)'
    <3>1. Placed(c)
      BY DEF IInv, PlaceInv
    <3>2. ~Taken(c)' /\ Queued(c)' = Queued(c) /\ Sent(c)' = Sent(c) /\ executed' = executed
      BY <1>1, <1>7 DEF Taken, Queued, Sent
    <3>. QED
      BY <1>2, <1>3, <3>1, <3>2 DEF Placed, Early
  <2>. QED
    BY <2>1, <2>2 DEF PlaceInv
<1>8. CASE /\ pc[Sender] = "send" /\ pc'[Sender] \in {"pop", "end"}
           /\ taken' = None /\ toServer' = Append(toServer, taken)
           /\ UNCHANGED <<chan, chanClosed, arrived>>
  <2>0. Asks(taken) /\ taken \in Messages /\ toServer \in Seq(Messages)
    BY <1>0, <1>8 DEF IInv, MessageInv, Asks, TypeOK
  <2>1. taken.call # None => taken.call \in Callers /\ ~In(toServer, taken.call)
    <3>1. taken.call # None => taken.call \in Callers /\ Taken(taken.call)
      BY <1>8, <2>0 DEF Messages, Taken
    <3>. QED
      BY <3>1 DEF IInv, PlaceInv, Placed, Sent
  <2>2. /\ \A c : In(toServer', c) <=> In(toServer, c) \/ taken.call = c
        /\ \A j \in 1..Len(toServer') :
              toServer'[j] = taken \/ \E i \in 1..Len(toServer) : toServer'[j] = toServer[i]
        /\ Once(toServer')
    BY <1>8, <2>0, <2>1, Appended DEF IInv, MessageInv
  <2>3. MessageInv'
    <3>1. \A j \in 1..Len(toServer') : Asks(toServer[j])'
      BY <1>2, <2>0, <2>2 DEF IInv, MessageInv, Asks
    <3>2. Once(toServer)'
      BY <2>2 DEF Once
    <3>3. Once(chan)' /\ \A i \in 1..Len(chan') : Asks(chan[i])'
      BY <1>2, <1>8 DEF IInv, MessageInv, Asks
    <3>. QED
      BY <1>4, <1>8, <3>1, <3>2, <3>3 DEF MessageInv
  <2>4. ASSUME NEW c \in Callers
        PROVE  Placed(c)'
    <3>1. Placed(c)
      BY DEF IInv, PlaceInv
    <3>2. /\ Queued(c)' = Queued(c) /\ ~Taken(c)' /\ executed' = executed
          /\ Taken(c) <=> taken.call = c
          /\ Sent(c)' <=> Sent(c) \/ Taken(c)
      <4>1. Sent(c)' = In(toServer', c) /\ Sent(c) = In(toServer, c)
        BY DEF Sent, In
      <4>. QED
        BY <1>1, <1>8, <2>2, <4>1 DEF Taken, Queued
    <3>. QED
      BY <1>2, <1>3, <3>1, <3>2 DEF Placed, Early
  <2>. QED
    BY <2>3, <2>4 DEF PlaceInv
<1>. QED
  BY <1>0, <1>5, <1>6, <1>7, <1>8, SenderFacts

\* The recv fiber gets a message, and looks up the call an answer is for.
LEMMA ArrivalMoves ==
    ASSUME IInv, Next, RecvMessage \/ Deliver
    PROVE  MessageInv' /\ PlaceInv'
<1>0. TypeOK /\ FiberType
  BY DEF IInv
<1>1. /\ \A g \in Fibers \ {Recv} : pc'[g] = pc[g]
      /\ UNCHANGED <<id, chan, taken, toServer, executed>>
  BY <1>0, MessageFacts, DeliverFacts DEF Alone, calls, server
<1>2. /\ pc'[Sender] = pc[Sender]
      /\ \A c \in Callers : pc'[c] = pc[c]
  BY <1>1, Others
<1>3. \A c \in Callers : /\ Queued(c)' = Queued(c) /\ Sent(c)' = Sent(c)
                         /\ Taken(c)' <=> Taken(c)
  BY <1>1, <1>2 DEF Queued, Sent, Taken
<1>4. /\ Once(chan)' /\ \A i \in 1..Len(chan') : Asks(chan[i])'
      /\ Once(toServer)' /\ \A i \in 1..Len(toServer') : Asks(toServer[i])'
      /\ pc'[Sender] = "send" => Asks(taken)'
  BY <1>1, <1>2 DEF IInv, MessageInv, Asks
<1>5. CASE RecvMessage
  <2>1. /\ pc[Recv] = "read" /\ toClient # <<>> /\ toClient' = Tail(toClient)
        /\ \/ /\ toClient[1].type = "response" /\ pc'[Recv] = "deliver" /\ arrived' = toClient[1]
           \/ /\ toClient[1].type # "response" /\ pc'[Recv] # "deliver"
    BY <1>0, <1>5, MessageFacts
  <2>2. /\ 1 \in 1..Len(toClient)
        /\ \A c : In(toClient, c) <=> In(toClient', c) \/ toClient[1].call = c
        /\ \A j \in 1..Len(toClient') : \E i \in 1..Len(toClient) : toClient'[j] = toClient[i]
        /\ Once(toClient')
        /\ toClient[1].call # None => ~In(toClient', toClient[1].call)
    BY <1>0, <2>1, Tailed DEF TypeOK, IInv, MessageInv
  <2>3. Tells(toClient[1])
    BY <2>2 DEF IInv, MessageInv
  <2>4. MessageInv'
    <3>1. \A j \in 1..Len(toClient') : Tells(toClient[j])'
      BY <1>1, <2>2 DEF IInv, MessageInv, Tells
    <3>2. Once(toClient)'
      BY <2>2 DEF Once
    <3>3. pc'[Recv] = "deliver" => Tells(arrived)' /\ arrived'.call # None
      BY <1>1, <2>1, <2>3 DEF Tells
    <3>. QED
      BY <1>4, <3>1, <3>2, <3>3 DEF MessageInv
  <2>5. ASSUME NEW c \in Callers
        PROVE  Placed(c)'
    <3>1. Placed(c)
      BY DEF IInv, PlaceInv
    <3>2. /\ Answered(c)' => Answered(c) /\ toClient[1].call # c
          /\ Arrived(c)' => toClient[1].call = c
          /\ toClient[1].call = c => Answered(c)
      <4>1. Answered(c)' = In(toClient', c) /\ Answered(c) = In(toClient, c)
        BY DEF Answered, In
      <4>. QED
        BY <2>1, <2>2, <4>1, Others DEF Arrived
    <3>. QED
      BY <1>1, <1>2, <1>3, <3>1, <3>2 DEF Placed
  <2>. QED
    BY <2>4, <2>5 DEF PlaceInv
<1>6. CASE Deliver
  <2>1. pc'[Recv] = "read" /\ toClient' = toClient
    BY <1>0, <1>6, DeliverFacts DEF server
  <2>2. MessageInv'
    BY <1>1, <1>4, <2>1 DEF IInv, MessageInv, Tells
  <2>3. ASSUME NEW c \in Callers
        PROVE  Placed(c)'
    <3>1. Placed(c)
      BY DEF IInv, PlaceInv
    <3>2. Answered(c)' = Answered(c) /\ ~Arrived(c)'
      BY <2>1 DEF Answered, Arrived
    <3>. QED
      BY <1>1, <1>2, <1>3, <3>1, <3>2 DEF Placed
  <2>. QED
    BY <2>2, <2>3 DEF PlaceInv
<1>. QED
  BY <1>5, <1>6

\* What the server sends that is no answer.
LEMMA NoAnswer ==
    ASSUME IInv, NEW r \in Messages, r.call = None, r.type # "response", Reply(r)
    PROVE  /\ Once(toClient')
           /\ \A c \in Callers : In(toClient', c) <=> In(toClient, c)
           /\ \A j \in 1..Len(toClient') :
                 /\ toClient'[j] \in Messages
                 /\ toClient'[j].type = "response" <=> toClient'[j].call # None
                 /\ toClient'[j].call # None => toClient'[j].id = id[toClient'[j].call]
<1>1. toClient \in Seq(Messages) /\ Once(toClient) /\ \A i \in 1..Len(toClient) : Tells(toClient[i])
  BY DEF IInv, TypeOK, MessageInv
<1>2. CASE toClient' = toClient
  BY <1>1, <1>2 DEF Tells
<1>3. CASE toClient' = Append(toClient, r)
  BY <1>1, <1>3, Appended, Others DEF Tells
<1>. QED
  BY <1>2, <1>3 DEF Reply

LEMMA ServeFacts ==
    ASSUME IInv, Serve
    PROVE  /\ toServer # <<>> /\ Asks(toServer[1])
           /\ \/ /\ toServer[1].type = "request" /\ executed' = executed \cup {toServer[1].call}
                 /\ Reply([toServer[1] EXCEPT !.type = "response"]) /\ toServer' = Tail(toServer)
              \/ /\ toServer[1].type # "request" /\ executed' = executed
                 /\ toServer' = Tail(toServer)
                 /\ \E r \in Messages : r.call = None /\ r.type # "response" /\ Reply(r)
              \/ executed' = executed /\ toServer' = <<>> /\ toClient' = toClient
<1>1. toServer # <<>> => Head(toServer) = toServer[1] /\ 1 \in 1..Len(toServer)
  BY DEF IInv, TypeOK
<1>2. toServer # <<>> => Asks(toServer[1])
  BY <1>1 DEF IInv, MessageInv
<1>3. /\ Message("subscribed") \in Messages
      /\ Message("subscribed").call = None /\ Message("subscribed").type # "response"
  BY MessageTypes DEF Message, IInv
<1>4. /\ toServer # <<>>
      /\ LET m == Head(toServer)
         IN  \/ /\ m.type = "request" /\ executed' = executed \cup {m.call}
                /\ Reply([m EXCEPT !.type = "response"]) /\ toServer' = Tail(toServer)
             \/ /\ m.type = "beat" /\ Reply(m) /\ toServer' = Tail(toServer) /\ executed' = executed
             \/ /\ m.type = "subscribe" /\ Reply(Message("subscribed"))
                /\ toServer' = Tail(toServer) /\ executed' = executed
             \/ /\ toServer' = <<>> /\ toClient' = toClient /\ executed' = executed
  BY DEF Serve
<1>5. toServer[1].type = "beat" => toServer[1].call = None /\ toServer[1] \in Messages
  BY <1>2, <1>4 DEF Asks
<1>. QED
  BY <1>1, <1>2, <1>3, <1>4, <1>5

\* The server runs a call and answers it, or answers something else, or the connection ends.
LEMMA ServerMoves ==
    ASSUME IInv, Next, Serve \/ Publish \/ Break
    PROVE  MessageInv' /\ PlaceInv'
<1>0. TypeOK /\ toServer \in Seq(Messages) /\ toClient \in Seq(Messages)
  BY DEF IInv, TypeOK
<1>1. UNCHANGED <<pc, id, chan, taken, arrived>>
  BY ServerFacts DEF calls, channel
<1>2. \A c \in Callers : /\ Queued(c)' = Queued(c) /\ Taken(c)' = Taken(c)
                         /\ Arrived(c)' = Arrived(c)
  BY <1>1 DEF Queued, Taken, Arrived
<1>3. /\ Once(chan)' /\ \A i \in 1..Len(chan') : Asks(chan[i])'
      /\ pc'[Sender] = "send" => Asks(taken)'
      /\ pc'[Recv] = "deliver" => Tells(arrived)' /\ arrived'.call # None
  BY <1>1 DEF IInv, MessageInv, Asks, Tells
<1>. DEFINE ToServerOK == Once(toServer') /\ \A j \in 1..Len(toServer') : Asks(toServer[j])'
            ToClientOK == Once(toClient') /\ \A j \in 1..Len(toClient') : Tells(toClient[j])'
<1>4. ToServerOK /\ ToClientOK => MessageInv'
  BY <1>3 DEF MessageInv, Once
<1>5. \A c \in Callers : /\ Sent(c)' = In(toServer', c) /\ Sent(c) = In(toServer, c)
                         /\ Answered(c)' = In(toClient', c) /\ Answered(c) = In(toClient, c)
  BY DEF Sent, Answered, In
<1>6. /\ toServer' = toServer \/ toServer' = <<>> => ToServerOK
      /\ toClient' = toClient \/ toClient' = <<>> => ToClientOK
  <2>1. toServer' = toServer => ToServerOK
    BY <1>1 DEF IInv, MessageInv, Asks
  <2>2. toClient' = toClient => ToClientOK
    BY <1>1 DEF IInv, MessageInv, Tells
  <2>3. toServer' = <<>> => ToServerOK
    BY EmptyOnce
  <2>4. toClient' = <<>> => ToClientOK
    BY EmptyOnce
  <2>. QED
    BY <2>1, <2>2, <2>3, <2>4
<1>7. ASSUME toServer # <<>>, toServer' = Tail(toServer)
      PROVE  /\ ToServerOK
             /\ \A c : In(toServer, c) <=> In(toServer', c) \/ toServer[1].call = c
             /\ toServer[1].call # None => ~In(toServer', toServer[1].call)
  <2>1. /\ \A c : In(toServer, c) <=> In(toServer', c) \/ toServer[1].call = c
        /\ \A j \in 1..Len(toServer') : \E i \in 1..Len(toServer) : toServer'[j] = toServer[i]
        /\ Once(toServer')
        /\ toServer[1].call # None => ~In(toServer', toServer[1].call)
    BY <1>0, <1>7, Tailed DEF IInv, MessageInv
  <2>2. \A j \in 1..Len(toServer') : Asks(toServer[j])'
    <3>1. \A i \in 1..Len(toServer) : Asks(toServer[i])
      BY DEF IInv, MessageInv
    <3>2. id' = id
      BY <1>1
    <3>. QED
      BY <2>1, <3>1, <3>2 DEF Asks
  <2>. QED
    BY <2>1, <2>2
<1>8. ASSUME NEW r \in Messages, r.call = None, r.type # "response", Reply(r)
      PROVE  ToClientOK /\ \A c \in Callers : In(toClient', c) <=> In(toClient, c)
  BY <1>1, <1>8, NoAnswer DEF Tells
<1>9. ASSUME ToServerOK, ToClientOK, executed' = executed,
             \A c \in Callers : (In(toServer', c) => In(toServer, c)) /\ (In(toClient', c) => In(toClient, c))
      PROVE  MessageInv' /\ PlaceInv'
  <2>1. ASSUME NEW c \in Callers
        PROVE  Placed(c)'
    <3>1. Placed(c)
      BY DEF IInv, PlaceInv
    <3>2. (Sent(c)' => Sent(c)) /\ (Answered(c)' => Answered(c))
      BY <1>5, <1>9
    <3>. QED
      BY <1>1, <1>2, <1>9, <3>1, <3>2 DEF Placed
  <2>. QED
    BY <1>4, <1>9, <2>1 DEF PlaceInv
<1>10. CASE Serve
  <2>1. toServer # <<>> /\ Asks(toServer[1])
    BY <1>10, ServeFacts
  <2>2. CASE /\ toServer[1].type = "request" /\ executed' = executed \cup {toServer[1].call}
             /\ Reply([toServer[1] EXCEPT !.type = "response"]) /\ toServer' = Tail(toServer)
    <3>. DEFINE d == toServer[1].call
                r == [toServer[1] EXCEPT !.type = "response"]
    <3>1. /\ d \in Callers /\ d # None /\ toServer[1].id = id[d]
          /\ r \in Messages /\ r.call = d /\ r.type = "response" /\ r.id = id[d]
      BY <2>1, <2>2 DEF Asks, Messages
    <3>2. Sent(d) /\ id[d] # None
      <4>1. id[d] # None
        BY <2>1, <3>1, Others DEF Asks, Messages
      <4>. QED
        BY <1>5, <1>7, <2>1, <2>2, <3>1, <4>1
    <3>3. /\ d \notin executed /\ ~Queued(d) /\ ~Taken(d) /\ ~Answered(d) /\ ~Arrived(d)
          /\ pc[d] \notin {"call", "register", "push", "asleep"}
      BY <3>1, <3>2 DEF IInv, PlaceInv, Placed
    <3>4. /\ ToClientOK
          /\ \A c \in Callers : In(toClient', c) => In(toClient, c) \/ c = d
      <4>1. CASE toClient' = toClient
        BY <1>6, <4>1
      <4>2. CASE toClient' = Append(toClient, r)
        <5>1. ~In(toClient, d)
          BY <1>5, <3>1, <3>3
        <5>2. /\ \A c : In(toClient', c) <=> In(toClient, c) \/ r.call = c
              /\ \A j \in 1..Len(toClient') :
                    toClient'[j] = r \/ \E i \in 1..Len(toClient) : toClient'[j] = toClient[i]
              /\ Once(toClient')
          <6>1. Once(toClient)
            BY DEF IInv, MessageInv
          <6>. HIDE DEF r, d
          <6>. QED
            BY <1>0, <3>1, <4>2, <5>1, <6>1, Appended
        <5>3. \A j \in 1..Len(toClient') : Tells(toClient[j])'
          <6>1. \A i \in 1..Len(toClient) : Tells(toClient[i])
            BY DEF IInv, MessageInv
          <6>2. id' = id
            BY <1>1
          <6>. HIDE DEF r, d
          <6>. QED
            BY <3>1, <5>2, <6>1, <6>2 DEF Tells
        <5>. QED
          BY <3>1, <5>2, <5>3
      <4>. QED
        BY <2>2, <4>1, <4>2 DEF Reply
    <3>5. ASSUME NEW c \in Callers
          PROVE  Placed(c)'
      <4>1. Placed(c)
        BY DEF IInv, PlaceInv
      <4>2. (Sent(c)' => Sent(c) /\ c # d) /\ (Answered(c)' => Answered(c) \/ c = d)
        BY <1>5, <1>7, <2>1, <2>2, <3>1, <3>4
      <4>3. c \in executed' <=> c \in executed \/ c = d
        BY <2>2
      <4>4. CASE c = d
        BY <1>1, <1>2, <3>2, <3>3, <4>1, <4>2, <4>3, <4>4 DEF Placed
      <4>5. CASE c # d
        BY <1>1, <1>2, <4>1, <4>2, <4>3, <4>5 DEF Placed
      <4>. QED
        BY <4>4, <4>5
    <3>. QED
      BY <1>4, <1>7, <2>1, <2>2, <3>4, <3>5 DEF PlaceInv
  <2>3. CASE /\ toServer[1].type # "request" /\ executed' = executed
             /\ toServer' = Tail(toServer)
             /\ \E r \in Messages : r.call = None /\ r.type # "response" /\ Reply(r)
    BY <1>7, <1>8, <1>9, <2>1, <2>3
  <2>4. CASE executed' = executed /\ toServer' = <<>> /\ toClient' = toClient
    BY <1>6, <1>9, <2>4, EmptyOnce
  <2>. QED
    BY <1>10, <2>2, <2>3, <2>4, ServeFacts
<1>11. CASE Publish
  <2>1. /\ Message("publish") \in Messages
        /\ Message("publish").call = None /\ Message("publish").type # "response"
    BY <1>0, MessageTypes DEF Message
  <2>2. Reply(Message("publish")) /\ toServer' = toServer /\ executed' = executed
    BY <1>11 DEF Publish
  <2>. QED
    BY <1>6, <1>8, <1>9, <2>1, <2>2
<1>12. CASE Break
  <2>1. toServer' = <<>> /\ (toClient' = toClient \/ toClient' = <<>>) /\ executed' = executed
    BY <1>12 DEF Break
  <2>. QED
    BY <1>6, <1>9, <2>1, EmptyOnce
<1>. QED
  BY <1>10, <1>11, <1>12

LEMMA MessageNext ==
    ASSUME IInv, Next
    PROVE  MessageInv' /\ PlaceInv'
BY NextMoves, KeptMessages, PushMoves, CloseMoves, SenderMoves, ArrivalMoves, ServerMoves DEF IInv

-----------------------------------------------------------------------------
(* What the callers are told *)

LEMMA ShutNext ==
    ASSUME TypeOK, FiberType, LockInv, ShutInv, OpenInv, IdInv, Next
    PROVE  ShutInv'
<1>1. CASE IdsKept
  <2>1. DOMAIN responseHandle' \subseteq DOMAIN responseHandle
    BY <1>1 DEF IdsKept
  <2>2. ASSUME NEW f \in {User, Recv, Beat}, pc'[f] = "shut", pc[f] # "shut"
        PROVE  \E g \in {User, Recv, Beat} : Forget(g)
    <3>0. f \in Fibers /\ f \notin Callers /\ f # Sender
      BY AfterCloses
    <3>1. ASSUME NEW c \in Callers, Call(c) \/ Register(c) \/ Receive(c) \/ Timeout(c) \/ Erase(c)
          PROVE  pc'[f] = pc[f]
      BY <3>0, <3>1, CallFacts, RegisterFacts, ReceiveFacts, TimeoutFacts, EraseFacts DEF Alone
    <3>2. ASSUME NEW g \in Fibers, Push(g)
          PROVE  pc'[f] # "shut"
      <4>1. pc'[g] \in {"asleep", AfterPush(g)} /\ g \in Callers \cup {User, Recv, Beat}
            /\ \A h \in Fibers \ {g} : pc'[h] = pc[h]
        BY <3>2, PushFacts
      <4>. QED
        BY <2>2, <3>0, <4>1, AfterPushes
    <3>3. ASSUME NEW g \in {User, Recv, Beat}, Close(g) \/ Release(g) \/ Shut(g)
          PROVE  pc'[f] # "shut"
      <4>1. CASE Close(g)
        BY <2>2, <3>0, <4>1, CloseFacts, AfterCloses
      <4>2. CASE Release(g)
        BY <2>2, <4>2, ReleaseFacts
      <4>3. CASE Shut(g)
        BY <2>2, <3>0, <4>3, ShutFacts, AfterCloses DEF Alone
      <4>. QED
        BY <3>3, <4>1, <4>2, <4>3
    <3>4. QuietStep => pc'[f] # "shut"
      BY <2>2, QuietFacts
    <3>5. Connect => pc'[f] # "shut"
      BY <2>2, ConnectFacts, Others
    <3>6. SenderStep => pc'[f] # "shut"
      BY <2>2, <3>0, SenderFacts
    <3>7. RecvMessage \/ Deliver => pc'[f] # "shut"
      BY <2>2, <3>0, MessageFacts, DeliverFacts DEF Alone
    <3>8. Serve \/ Publish \/ Break => pc'[f] # "shut"
      BY <2>2, ServerFacts
    <3>. QED
      BY <2>2, <3>1, <3>2, <3>3, <3>4, <3>5, <3>6, <3>7, <3>8
      DEF Next, CallStep, CloseStep, RecvStep, QuietStep
  <2>3. \A g \in {User, Recv, Beat} : Forget(g) => DOMAIN responseHandle' = {}
    <3>1. \A g \in {User, Recv, Beat} : Forget(g) => responseHandle' = <<>>
      BY ForgetFacts
    <3>2. DOMAIN <<>> = {}
      OBVIOUS
    <3>. QED
      BY <3>1, <3>2
  <2>. QED
    BY <2>1, <2>2, <2>3 DEF ShutInv
<1>2. ASSUME NEW c \in Callers, Register(c)
      PROVE  ShutInv'
  <2>1. mutex = None /\ \A f \in {User, Recv, Beat} : pc'[f] = pc[f]
    BY <1>2, RegisterFacts, AfterCloses DEF Alone
  <2>. QED
    BY <2>1, AfterCloses DEF LockInv, Closing, ShutInv
<1>. QED
  BY <1>1, <1>2, NextKeepsIds

\* Nothing comes any more for a call that has had its answer.
Settled(c) == c \in executed /\ ~Answered(c) /\ ~Arrived(c)

LEMMA SettledNext ==
    ASSUME IInv, Next, NEW c \in Callers
    PROVE  Settled(c) => Settled(c)'
<1>0. TypeOK /\ FiberType
  BY DEF IInv
<1>. DEFINE Kept == /\ executed' = executed /\ toClient' = toClient /\ arrived' = arrived
                    /\ pc'[Recv] = "deliver" => pc[Recv] = "deliver"
<1>1. Kept => (Settled(c) => Settled(c)')
  BY DEF Settled, Answered, Arrived, In
<1>2. MessagesKept => Kept
  BY DEF MessagesKept
<1>3. ASSUME NEW f \in Fibers, Push(f)
      PROVE  Kept
  BY <1>0, <1>3, PushFacts DEF HandsStay, server
<1>4. ASSUME NEW f \in {User, Recv, Beat}, Close(f), ~isClose
      PROVE  Kept
  <2>1. /\ \A g \in Fibers \ {f} : pc'[g] = pc[g] \/ (pc[g] = "asleep" /\ pc'[g] = "push")
        /\ pc'[f] = "release" /\ UNCHANGED <<arrived, server>>
    BY <1>0, <1>4, CloseFacts
  <2>. QED
    BY <2>1, Others DEF server
<1>5. SenderStep => Kept
  <2>1. SenderStep => /\ \A g \in Fibers \ {Sender} :
                            pc'[g] = pc[g] \/ (pc[g] = "asleep" /\ pc'[g] = "push")
                      /\ UNCHANGED <<executed, toClient, arrived>>
    BY <1>0, SenderFacts DEF channel
  <2>. QED
    BY <2>1, Others
<1>6. ASSUME RecvMessage, Settled(c)
      PROVE  Settled(c)'
  <2>1. /\ toClient # <<>> /\ toClient' = Tail(toClient) /\ executed' = executed
        /\ pc'[Recv] = "deliver" => arrived' = toClient[1]
    BY <1>0, <1>6, MessageFacts
  <2>2. \A d : In(toClient, d) <=> In(toClient', d) \/ toClient[1].call = d
    BY <1>0, <2>1, Tailed DEF TypeOK
  <2>3. Answered(c)' = In(toClient', c) /\ Answered(c) = In(toClient, c)
    BY DEF Answered, In
  <2>. QED
    BY <1>6, <2>1, <2>2, <2>3 DEF Settled, Arrived
<1>7. ASSUME Deliver, Settled(c)
      PROVE  Settled(c)'
  <2>1. pc'[Recv] = "read" /\ executed' = executed /\ toClient' = toClient
    BY <1>0, <1>7, DeliverFacts DEF server
  <2>. QED
    BY <1>7, <2>1 DEF Settled, Answered, Arrived
<1>8. ASSUME Serve \/ Publish \/ Break, Settled(c)
      PROVE  Settled(c)'
  <2>1. executed \subseteq executed' /\ ~Arrived(c)'
    BY <1>8, ServerFacts DEF Serve, Publish, Break, Settled, Arrived, channel
  <2>2. ~Answered(c)
    BY <1>8 DEF Settled
  <2>3. \A r \in Messages : r.call # c /\ Reply(r) => ~Answered(c)'
    <3>1. toClient \in Seq(Messages)
      BY <1>0 DEF TypeOK
    <3>2. ASSUME NEW r \in Messages, r.call # c, toClient' = Append(toClient, r)
          PROVE  ~In(toClient', c)
      BY <2>2, <3>1, <3>2, Appended DEF Answered
    <3>3. Answered(c)' = In(toClient', c) /\ Answered(c) = In(toClient, c)
      BY DEF Answered, In
    <3>. QED
      BY <2>2, <3>2, <3>3 DEF Reply
  <2>4. CASE Serve
    <3>1. toServer # <<>> /\ Asks(toServer[1]) /\ 1 \in 1..Len(toServer)
      BY <2>4, ServeFacts DEF IInv, TypeOK
    <3>2. ASSUME toServer[1].type = "request"
          PROVE  LET r == [toServer[1] EXCEPT !.type = "response"]
                 IN  r \in Messages /\ r.call # c
      <4>1. Sent(toServer[1].call) /\ toServer[1].call \in Callers
        BY <3>1, <3>2 DEF Sent, In, Asks, Messages
      <4>2. toServer[1].call # c
        BY <1>8, <4>1 DEF IInv, PlaceInv, Placed, Settled
      <4>. QED
        BY <3>1, <4>2 DEF Asks, Messages
    <3>3. \/ \E r \in Messages : r.call # c /\ Reply(r)
          \/ toClient' = toClient
      BY <2>4, <3>2, ServeFacts, Others
    <3>4. toClient' = toClient => ~Answered(c)'
      BY <2>2 DEF Answered
    <3>. QED
      BY <1>8, <2>1, <2>3, <3>3, <3>4 DEF Settled
  <2>5. CASE Publish
    <3>1. Message("publish") \in Messages /\ Message("publish").call # c
      BY <1>0, MessageTypes, Others DEF Message
    <3>. QED
      BY <1>8, <2>1, <2>3, <2>5, <3>1 DEF Settled, Publish
  <2>6. CASE Break
    <3>1. toClient' = toClient \/ toClient' = <<>>
      BY <2>6 DEF Break
    <3>. QED
      BY <1>8, <2>1, <2>2, <3>1 DEF Settled, Answered, In
  <2>. QED
    BY <1>8, <2>4, <2>5, <2>6
<1>. QED
  BY <1>0, <1>1, <1>2, <1>3, <1>4, <1>5, <1>6, <1>7, <1>8, NextMoves

\* m_mutex changes hands in close() only.
LEMMA LockKept ==
    ASSUME TypeOK, FiberType, Next
    PROVE  \/ mutex' = mutex
           \/ mutex' \in {User, Recv, Beat}
           \/ \E f \in {User, Recv, Beat} : Shut(f)
<1>1. ASSUME NEW c \in Callers, Call(c) \/ Register(c) \/ Receive(c) \/ Timeout(c) \/ Erase(c)
      PROVE  mutex' = mutex
  BY <1>1, CallFacts, RegisterFacts, ReceiveFacts, TimeoutFacts, EraseFacts DEF lock
<1>2. ASSUME NEW f \in Fibers, Push(f)
      PROVE  mutex' = mutex
  BY <1>2, PushFacts DEF lock
<1>3. ASSUME NEW f \in {User, Recv, Beat}, Close(f) \/ Release(f) \/ Forget(f)
      PROVE  mutex' = mutex \/ mutex' = f
  BY <1>3, CloseFacts, ReleaseFacts, ForgetFacts DEF lock
<1>4. QuietStep \/ Connect \/ SenderStep \/ RecvMessage \/ Deliver => mutex' = mutex
  BY QuietFacts, ConnectFacts, SenderFacts, MessageFacts, DeliverFacts DEF lock
<1>5. Serve \/ Publish \/ Break => mutex' = mutex
  BY ServerFacts DEF lock
<1>. QED
  BY <1>1, <1>2, <1>3, <1>4, <1>5 DEF Next, CallStep, CloseStep, RecvStep, QuietStep

\* A closed client stays closed for a call with an id, and a call that has left
\* the map does not return to it.
LEMMA ClosedStays ==
    ASSUME IInv, Next, NEW c \in Callers, id[c] # None, isClose
    PROVE  /\ isClose'
           /\ mutex # None => mutex' # None \/ DOMAIN responseHandle' = {}
           /\ \A i \in DOMAIN responseHandle' :
                 responseHandle'[i] = c => \E j \in DOMAIN responseHandle : responseHandle[j] = c
<1>1. isClose'
  <2>1. ~Connect
    <3>1. Connect => pc[c] = "call"
      BY ConnectFacts DEF IInv, OpenInv
    <3>. QED
      BY <3>1 DEF IInv, IdInv, Numbered
  <2>2. \A d \in Callers : Register(d) \/ Erase(d) => isClose' = isClose
    BY RegisterFacts, EraseFacts DEF IInv, client
  <2>3. \A f \in {User, Recv, Beat} : Forget(f) => isClose' = isClose
    BY ForgetFacts DEF IInv
  <2>. QED
    BY <2>1, <2>2, <2>3, NextKeepsCalls DEF IInv, CallsKept
<1>2. mutex # None => mutex' # None \/ DOMAIN responseHandle' = {}
  <2>1. ASSUME NEW f \in {User, Recv, Beat}, Shut(f)
        PROVE  DOMAIN responseHandle' = {}
    <3>1. pc[f] = "shut" /\ responseHandle' = responseHandle
      BY <2>1, ShutFacts DEF IInv, calls
    <3>. QED
      BY <3>1 DEF IInv, ShutInv
  <2>. QED
    BY <2>1, LockKept, AfterCloses DEF IInv
<1>3. \A i \in DOMAIN responseHandle' :
         responseHandle'[i] = c => \E j \in DOMAIN responseHandle : responseHandle[j] = c
  <2>1. ASSUME NEW d \in Callers, Register(d), NEW i \in DOMAIN responseHandle', responseHandle'[i] = c
        PROVE  \E j \in DOMAIN responseHandle : responseHandle[j] = c
    <3>1. /\ pc[d] = "register" /\ DOMAIN responseHandle' = DOMAIN responseHandle \cup {sequenceId}
          /\ \A j \in DOMAIN responseHandle : responseHandle'[j] = responseHandle[j]
          /\ responseHandle'[sequenceId] = d
      BY <2>1, RegisterFacts DEF IInv
    <3>2. d # c
      BY <3>1 DEF IInv, IdInv, Numbered
    <3>. QED
      BY <2>1, <3>1, <3>2
  <2>2. IdsKept => \A i \in DOMAIN responseHandle' :
         responseHandle'[i] = c => \E j \in DOMAIN responseHandle : responseHandle[j] = c
    BY DEF IdsKept
  <2>. QED
    BY <2>1, <2>2, NextKeepsIds DEF IInv
<1>. QED
  BY <1>1, <1>2, <1>3

LEMMA StaysTold ==
    ASSUME IInv, Next, NEW c \in Callers, recvChan'[c] = recvChan[c],
           result'[c] \in {result[c], "closed", "timeout"}
    PROVE  Told(c)'
<1>1. Told(c) /\ Returned(c)
  BY DEF IInv, ToldInv
<1>2. CASE recvChan[c] = <<>>
  BY <1>2 DEF Told
<1>3. CASE /\ recvChan[c] = <<None>> /\ id[c] # None
           /\ isClose /\ (mutex # None \/ \A i \in DOMAIN responseHandle : responseHandle[i] # c)
  <2>1. id'[c] # None
    BY <1>3, IdsStay DEF IInv
  <2>2. /\ isClose'
        /\ mutex # None => mutex' # None \/ DOMAIN responseHandle' = {}
        /\ \A i \in DOMAIN responseHandle' :
                 responseHandle'[i] = c => \E j \in DOMAIN responseHandle : responseHandle[j] = c
    BY <1>3, ClosedStays
  <2>. QED
    BY <1>3, <2>1, <2>2 DEF Told
<1>4. CASE /\ recvChan[c] # <<>> /\ recvChan[c][1] \in Messages /\ recvChan[c][1].call = c
           /\ result[c] # c /\ Settled(c)
  <2>1. Settled(c)'
    BY <1>4, SettledNext
  <2>2. result'[c] # c
    BY <1>4, Others
  <2>. QED
    BY <1>4, <2>1, <2>2 DEF Told, Settled
<1>. QED
  BY <1>1, <1>2, <1>3, <1>4 DEF Told, Settled

LEMMA StaysReturned ==
    ASSUME IInv, Next, NEW c \in Callers,
           \/ result'[c] = result[c] /\ (pc'[c] \in {"erase", "done"} <=> pc[c] \in {"erase", "done"})
           \/ result'[c] \in {"closed", "timeout"} /\ pc'[c] \in {"erase", "done"}
    PROVE  Returned(c)'
<1>1. Returned(c)
  BY DEF IInv, ToldInv
<1>2. Settled(c) => Settled(c)'
  BY SettledNext
<1>. QED
  BY <1>1, <1>2, Others DEF Returned, Settled

\* The steps by which a call or its channel is told something.
LEMMA NextTells ==
    ASSUME IInv, Next
    PROVE  \/ /\ recvChan' = recvChan
              /\ \A c \in Callers :
                    \/ /\ result'[c] = result[c]
                       /\ pc'[c] \in {"erase", "done"} <=> pc[c] \in {"erase", "done"}
                    \/ result'[c] \in {"closed", "timeout"} /\ pc'[c] \in {"erase", "done"}
           \/ \E c \in Callers : Receive(c)
           \/ \E f \in {User, Recv, Beat} : Release(f)
           \/ Deliver
<1>0. TypeOK /\ FiberType /\ result \in [Callers -> Callers \cup {None, "closed", "timeout"}]
  BY DEF IInv, TypeOK
<1>. DEFINE Same == /\ recvChan' = recvChan
                    /\ \A c \in Callers :
                          \/ /\ result'[c] = result[c]
                             /\ pc'[c] \in {"erase", "done"} <=> pc[c] \in {"erase", "done"}
                          \/ result'[c] \in {"closed", "timeout"} /\ pc'[c] \in {"erase", "done"}
<1>1. ASSUME NEW c \in Callers, Call(c) \/ Register(c) \/ Timeout(c) \/ Erase(c)
      PROVE  Same
  <2>1. /\ \A g \in Fibers \ {c} : pc'[g] = pc[g]
        /\ recvChan' = recvChan
        /\ \/ result' = result /\ (pc'[c] \in {"erase", "done"} <=> pc[c] \in {"erase", "done"})
           \/ /\ result' = [result EXCEPT ![c] = "closed"] \/ result' = [result EXCEPT ![c] = "timeout"]
              /\ pc'[c] \in {"erase", "done"}
    BY <1>0, <1>1, CallFacts, RegisterFacts, TimeoutFacts, EraseFacts DEF Alone
  <2>. QED
    BY <1>0, <2>1, Others
<1>2. \A c \in Callers : Stays(c) => (pc'[c] \in {"erase", "done"} <=> pc[c] \in {"erase", "done"})
  BY DEF Stays
<1>3. ASSUME NEW f \in Fibers, Push(f)
      PROVE  Same
  BY <1>0, <1>2, <1>3, PushFacts DEF calls
<1>4. ASSUME NEW f \in {User, Recv, Beat}, Close(f) \/ Forget(f) \/ Shut(f)
      PROVE  Same
  <2>1. /\ \A g \in Fibers \ {f} : \/ pc'[g] = pc[g] \/ (pc[g] = "asleep" /\ pc'[g] = "push")
                                   \/ g = Recv
        /\ recvChan' = recvChan /\ result' = result
    BY <1>0, <1>4, CloseFacts, ForgetFacts, ShutFacts DEF calls, Alone
  <2>. QED
    BY <2>1, AfterCloses, Others
<1>5. QuietStep => Same
  BY <1>0, <1>2, QuietFacts DEF calls
<1>6. Connect => Same
  BY <1>0, ConnectFacts, Others DEF calls
<1>7. SenderStep => Same
  <2>1. SenderStep => /\ \A g \in Fibers \ {Sender} :
                            pc'[g] = pc[g] \/ (pc[g] = "asleep" /\ pc'[g] = "push")
                      /\ UNCHANGED calls
    BY <1>0, SenderFacts
  <2>. QED
    BY <2>1, Others DEF calls
<1>8. RecvMessage => Same
  <2>1. RecvMessage => (\A g \in Fibers \ {Recv} : pc'[g] = pc[g]) /\ UNCHANGED calls
    BY <1>0, MessageFacts DEF Alone
  <2>. QED
    BY <2>1, Others DEF calls
<1>9. Serve \/ Publish \/ Break => Same
  BY ServerFacts DEF calls
<1>. QED
  BY <1>1, <1>3, <1>4, <1>5, <1>6, <1>7, <1>8, <1>9 DEF Next, CallStep, CloseStep, RecvStep, QuietStep

LEMMA ToldNext ==
    ASSUME IInv, Next
    PROVE  ToldInv'
<1>0. /\ TypeOK /\ FiberType /\ result \in [Callers -> Callers \cup {None, "closed", "timeout"}]
      /\ recvChan \in [Callers -> Seq(Messages \cup {None})]
  BY DEF IInv, TypeOK
<1>1. CASE /\ recvChan' = recvChan
           /\ \A c \in Callers :
                 \/ /\ result'[c] = result[c]
                    /\ pc'[c] \in {"erase", "done"} <=> pc[c] \in {"erase", "done"}
                 \/ result'[c] \in {"closed", "timeout"} /\ pc'[c] \in {"erase", "done"}
  BY <1>1, StaysTold, StaysReturned DEF ToldInv
<1>2. ASSUME NEW d \in Callers, Receive(d)
      PROVE  ToldInv'
  <2>1. /\ pc[d] \in {"receive", "wait"} /\ pc'[d] = "erase" /\ \A g \in Fibers \ {d} : pc'[g] = pc[g]
        /\ recvChan[d] # <<>> /\ recvChan' = [recvChan EXCEPT ![d] = <<>>]
        /\ result' = [result EXCEPT ![d] = IF recvChan[d][1] = None THEN "closed"
                                           ELSE recvChan[d][1].call]
    BY <1>0, <1>2, ReceiveFacts DEF Alone
  <2>2. ASSUME NEW c \in Callers \ {d}
        PROVE  Told(c)' /\ Returned(c)'
    <3>1. recvChan'[c] = recvChan[c] /\ result'[c] = result[c] /\ pc'[c] = pc[c]
      BY <1>0, <2>1, Others
    <3>. QED
      BY <3>1, StaysTold, StaysReturned
  <2>3. Told(d)'
    BY <1>0, <2>1 DEF Told
  <2>4. Returned(d)'
    <3>1. CASE result'[d] = "closed"
      BY <2>1, <3>1, StaysReturned
    <3>2. CASE result'[d] # "closed"
      <4>1. result'[d] = d /\ Settled(d)
        BY <1>0, <2>1, <3>2 DEF IInv, ToldInv, Told, Settled
      <4>2. Settled(d)'
        BY <4>1, SettledNext
      <4>. QED
        BY <2>1, <4>1, <4>2, Others DEF Returned, Settled
    <3>. QED
      BY <3>1, <3>2
  <2>. QED
    BY <2>2, <2>3, <2>4 DEF ToldInv
<1>3. ASSUME NEW f \in {User, Recv, Beat}, Release(f)
      PROVE  ToldInv'
  <2>1. PICK i \in DOMAIN responseHandle :
           /\ responseHandle[i] \in Callers
           /\ recvChan' = [recvChan EXCEPT ![responseHandle[i]] = <<None>>]
    BY <1>0, <1>3, ReleaseFacts
  <2>2. pc[f] = "release" /\ UNCHANGED <<pc, result, id, mutex, client>>
    BY <1>0, <1>3, ReleaseFacts
  <2>3. mutex' = f /\ f # None /\ isClose'
    BY <2>2, AfterCloses DEF IInv, LockInv, Closing, client
  <2>. DEFINE d == responseHandle[i]
  <2>4. id[d] # None
    <3>1. i # None
      BY <1>0, Others DEF TypeOK
    <3>. QED
      BY <2>1, <3>1 DEF IInv, IdInv
  <2>5. ASSUME NEW c \in Callers
        PROVE  Told(c)' /\ Returned(c)'
    <3>1. Returned(c)'
      BY <2>2, StaysReturned
    <3>2. CASE c = d
      <4>1. recvChan'[c] = <<None>>
        BY <1>0, <2>1, <3>2
      <4>. QED
        BY <2>2, <2>3, <2>4, <3>1, <3>2, <4>1 DEF Told
    <3>3. CASE c # d
      <4>1. recvChan'[c] = recvChan[c] /\ result'[c] = result[c]
        BY <1>0, <2>1, <2>2, <3>3
      <4>. QED
        BY <3>1, <4>1, StaysTold
    <3>. QED
      BY <3>2, <3>3
  <2>. QED
    BY <2>5 DEF ToldInv
<1>4. CASE Deliver
  <2>1. /\ pc'[Recv] = "read" /\ \A g \in Fibers \ {Recv} : pc'[g] = pc[g]
        /\ result' = result /\ toClient' = toClient /\ executed' = executed
    BY <1>0, <1>4, DeliverFacts DEF Alone, server
  <2>2. PICK d \in Callers :
           /\ Arrived(d)
           /\ recvChan' = recvChan \/ recvChan' = [recvChan EXCEPT ![d] = <<arrived>>]
    BY <1>4, Delivers
  <2>3. ASSUME NEW c \in Callers
        PROVE  Returned(c)' /\ (recvChan'[c] = recvChan[c] => Told(c)')
    BY <2>1, Others, StaysReturned, StaysTold
  <2>4. CASE recvChan' = recvChan
    BY <2>3, <2>4 DEF ToldInv
  <2>5. CASE recvChan' = [recvChan EXCEPT ![d] = <<arrived>>]
    <3>1. recvChan'[d] = <<arrived>> /\ \A c \in Callers \ {d} : recvChan'[c] = recvChan[c]
      BY <1>0, <2>5
    <3>2. /\ arrived \in Messages /\ arrived.call = d /\ d \in executed /\ ~Answered(d)
          /\ result[d] # d
      BY <2>2 DEF IInv, MessageInv, Tells, Arrived, PlaceInv, Placed, ToldInv, Returned
    <3>3. Told(d)'
      <4>1. ~Answered(d)' /\ ~Arrived(d)' /\ d \in executed' /\ result'[d] # d
        BY <2>1, <3>2 DEF Answered, Arrived
      <4>2. recvChan'[d] # <<>> /\ recvChan'[d][1] = arrived
        BY <3>1
      <4>. QED
        BY <3>2, <4>1, <4>2 DEF Told
    <3>. QED
      BY <2>3, <3>1, <3>3 DEF ToldInv
  <2>. QED
    BY <2>2, <2>4, <2>5
<1>. QED
  BY <1>1, <1>2, <1>3, <1>4, NextTells

-----------------------------------------------------------------------------
(* The answers on their way *)

LEMMA WayKept ==
    ASSUME TypeOK, FiberType, Next
    PROVE  \/ /\ UNCHANGED <<toClient, peerOpen, executed, arrived>>
              /\ pc[Recv] = "deliver" => pc'[Recv] = "deliver"
           \/ Connect \/ RecvMessage \/ Deliver \/ Serve \/ Publish \/ Break
<1>. DEFINE Same == /\ UNCHANGED <<toClient, peerOpen, executed, arrived>>
                    /\ pc[Recv] = "deliver" => pc'[Recv] = "deliver"
<1>1. ASSUME NEW c \in Callers, Call(c) \/ Register(c) \/ Receive(c) \/ Timeout(c) \/ Erase(c)
      PROVE  Same
  <2>1. (\A g \in Fibers \ {c} : pc'[g] = pc[g]) /\ UNCHANGED <<channel, server>>
    BY <1>1, CallFacts, RegisterFacts, ReceiveFacts, TimeoutFacts, EraseFacts DEF Alone
  <2>. QED
    BY <2>1, Others DEF channel, server
<1>2. ASSUME NEW f \in Fibers, Push(f)
      PROVE  Same
  BY <1>2, PushFacts DEF HandsStay, server
<1>3. ASSUME NEW f \in {User, Recv, Beat}, CloseStep(f)
      PROVE  Same
  <2>1. /\ \A g \in Fibers \ {f} : \/ pc'[g] = pc[g] \/ (pc[g] = "asleep" /\ pc'[g] = "push")
                                   \/ pc[g] = "blocked"
        /\ pc[f] # "deliver" /\ UNCHANGED <<arrived, server>>
    <3>1. CASE Close(f)
      BY <3>1, CloseFacts DEF channel
    <3>2. CASE Release(f)
      BY <3>2, ReleaseFacts DEF channel
    <3>3. CASE Forget(f)
      BY <3>3, ForgetFacts DEF channel
    <3>4. CASE Shut(f)
      BY <3>4, ShutFacts DEF Alone, channel
    <3>. QED
      BY <1>3, <3>1, <3>2, <3>3, <3>4 DEF CloseStep
  <2>. QED
    BY <2>1, Others DEF server
<1>4. QuietStep => Same
  BY QuietFacts DEF HandsStay, channel, server
<1>5. SenderStep => Same
  <2>1. SenderStep => /\ \A g \in Fibers \ {Sender} :
                            pc'[g] = pc[g] \/ (pc[g] = "asleep" /\ pc'[g] = "push")
                      /\ UNCHANGED <<toClient, peerOpen, executed, arrived>>
    BY SenderFacts DEF channel
  <2>. QED
    BY <2>1, Others
<1>. QED
  BY <1>1, <1>2, <1>3, <1>4, <1>5 DEF Next, CallStep, RecvStep, QuietStep

\* A client that is not closed after a step, but for connect(), was not before.
LEMMA StaysOpen ==
    ASSUME TypeOK, FiberType, OpenInv, Next, ~Connect, ~isClose'
    PROVE  ~isClose
<1>1. \A d \in Callers : Register(d) \/ Erase(d) => isClose' = isClose
  BY RegisterFacts, EraseFacts DEF client
<1>2. \A f \in {User, Recv, Beat} : Forget(f) => isClose' = isClose
  BY ForgetFacts
<1>. QED
  BY <1>1, <1>2, NextKeepsCalls DEF CallsKept

Way(c) == Answered(c) \/ Arrived(c) \/ (recvChan[c] # <<>> /\ recvChan[c][1].call = c)

LEMMA WayIs ==
    ASSUME TypeOK
    PROVE  AnswerOnItsWay <=>
             \A c \in executed : ~isClose /\ peerOpen /\ result[c] = None => Way(c)
<1>1. DOMAIN toClient = 1..Len(toClient)
  BY DEF TypeOK
<1>. QED
  BY <1>1 DEF AnswerOnItsWay, Way, Answered, Arrived, In

\* The answer leaves the channel of its call by being received only.
LEMMA StaysInChannel ==
    ASSUME IInv, Next, NEW c \in Callers, recvChan[c] # <<>>, recvChan[c][1].call = c,
           ~isClose, result'[c] = None
    PROVE  recvChan'[c] # <<>> /\ recvChan'[c][1].call = c
<1>0. TypeOK /\ FiberType /\ recvChan \in [Callers -> Seq(Messages \cup {None})]
      /\ result \in [Callers -> Callers \cup {None, "closed", "timeout"}]
  BY DEF IInv, TypeOK
<1>1. ASSUME NEW d \in Callers, Receive(d)
      PROVE  recvChan'[c] = recvChan[c]
  <2>1. /\ recvChan' = [recvChan EXCEPT ![d] = <<>>]
        /\ result' = [result EXCEPT ![d] = IF recvChan[d][1] = None THEN "closed"
                                           ELSE recvChan[d][1].call]
    BY <1>0, <1>1, ReceiveFacts
  <2>2. c # d
    <3>1. CASE c = d
      BY <1>0, <2>1, <3>1, Others
    <3>. QED
      BY <3>1
  <2>. QED
    BY <1>0, <2>1, <2>2
<1>2. ASSUME NEW f \in {User, Recv, Beat}, Release(f)
      PROVE  FALSE
  BY <1>0, <1>2, ReleaseFacts DEF IInv, LockInv, Closing
<1>3. ASSUME Deliver
      PROVE  recvChan'[c] = recvChan[c]
  <2>1. PICK d \in Callers : \/ recvChan' = recvChan
                             \/ /\ recvChan[d] = <<>>
                                /\ recvChan' = [recvChan EXCEPT ![d] = <<arrived>>]
    BY <1>3, Delivers
  <2>. QED
    BY <1>0, <2>1
<1>. QED
  BY <1>1, <1>2, <1>3, NextTells

LEMMA NoResultYet ==
    ASSUME IInv, Next, NEW c \in Callers, result'[c] = None
    PROVE  result[c] = None
<1>0. TypeOK /\ FiberType /\ result \in [Callers -> Callers \cup {None, "closed", "timeout"}]
  BY DEF IInv, TypeOK
<1>1. ASSUME NEW d \in Callers, Receive(d)
      PROVE  result[c] = None
  <2>1. result' = [result EXCEPT ![d] = IF recvChan[d][1] = None THEN "closed"
                                        ELSE recvChan[d][1].call]
        /\ pc[d] \in {"receive", "wait"}
    BY <1>0, <1>1, ReceiveFacts
  <2>2. d = c => result[c] = None
    BY <2>1 DEF IInv, ToldInv, Returned
  <2>3. d # c => result'[c] = result[c]
    BY <1>0, <2>1
  <2>. QED
    BY <2>2, <2>3
<1>2. ASSUME NEW f \in {User, Recv, Beat}, Release(f)
      PROVE  result' = result
  BY <1>0, <1>2, ReleaseFacts
<1>3. Deliver => result' = result
  BY <1>0, DeliverFacts
<1>. QED
  BY <1>1, <1>2, <1>3, NextTells, Others

LEMMA WayNext ==
    ASSUME IInv, Next
    PROVE  AnswerOnItsWay'
<1>0. /\ TypeOK /\ FiberType /\ OpenInv /\ TypeOK'
      /\ toClient \in Seq(Messages) /\ executed' \subseteq Callers
  BY TypeNext DEF IInv, TypeOK
<1>. SUFFICES ASSUME NEW c \in executed', ~isClose', peerOpen', result'[c] = None
              PROVE  Way(c)'
  <2>1. DOMAIN toClient' = 1..Len(toClient')
    BY <1>0 DEF TypeOK
  <2>. QED
    BY <2>1 DEF AnswerOnItsWay, Way, Answered, Arrived, In
<1>1. c \in Callers /\ result[c] = None
  BY <1>0, NoResultYet
<1>2. ~Connect
  <2>1. Connect => pc[c] = "call" /\ c \in executed
    BY <1>0, <1>1, ConnectFacts DEF OpenInv
  <2>. QED
    BY <1>1, <2>1 DEF IInv, PlaceInv, Placed, IdInv, Numbered
<1>3. ~isClose /\ session = "open"
  BY <1>0, <1>2, StaysOpen DEF OpenInv
<1>4. peerOpen
  BY <1>0, <1>2, WayKept, MessageFacts, DeliverFacts DEF Serve, Publish, Break, server
<1>5. c \in executed => Way(c)
  BY <1>0, <1>1, <1>3, <1>4, WayIs DEF IInv
<1>6. /\ Answered(c)' = In(toClient', c) /\ Answered(c) = In(toClient, c)
      /\ Answered(c)' \/ Arrived(c)' \/ (recvChan'[c] # <<>> /\ recvChan'[c][1].call = c) => Way(c)'
  BY DEF Answered, In, Way
<1>7. recvChan[c] # <<>> /\ recvChan[c][1].call = c => Way(c)'
  BY <1>1, <1>3, <1>6, StaysInChannel
<1>8. CASE /\ UNCHANGED <<toClient, peerOpen, executed, arrived>>
           /\ pc[Recv] = "deliver" => pc'[Recv] = "deliver"
  BY <1>5, <1>6, <1>7, <1>8 DEF Way, Arrived
<1>9. CASE RecvMessage
  <2>1. /\ toClient # <<>> /\ toClient' = Tail(toClient) /\ executed' = executed
        /\ pc[Recv] = "read"
        /\ toClient[1].type = "response" => pc'[Recv] = "deliver" /\ arrived' = toClient[1]
    BY <1>0, <1>9, MessageFacts
  <2>2. /\ 1 \in 1..Len(toClient)
        /\ \A d : In(toClient, d) <=> In(toClient', d) \/ toClient[1].call = d
    BY <1>0, <2>1, Tailed
  <2>3. toClient[1].call = c => toClient[1].type = "response"
    BY <1>1, <2>2, Others DEF IInv, MessageInv, Tells
  <2>4. toClient[1].call = c => Arrived(c)'
    BY <2>1, <2>3 DEF Arrived
  <2>. QED
    BY <1>5, <1>6, <1>7, <2>1, <2>2, <2>4 DEF Way, Arrived
<1>10. CASE Deliver
  <2>1. toClient' = toClient /\ executed' = executed
    BY <1>0, <1>10, DeliverFacts DEF server
  <2>2. PICK d \in Callers :
              /\ Arrived(d)
              /\ \/ id[d] \notin DOMAIN responseHandle /\ recvChan' = recvChan
                 \/ recvChan' = [recvChan EXCEPT ![d] = <<arrived>>]
    BY <1>10, Delivers
  <2>3. Arrived(c) => d = c /\ arrived.call = c
    BY <2>2 DEF Arrived
  <2>4. c \in executed /\ pc[c] \in Calling
    <3>1. c \in executed /\ pc[c] \in {"call", "register", "push", "asleep", "receive", "wait",
                                       "erase", "done"}
      BY <1>0, <1>1, <2>1 DEF FiberType
    <3>2. pc[c] \notin {"call", "register", "push", "asleep"}
      BY <1>1, <3>1 DEF IInv, PlaceInv, Placed
    <3>3. pc[c] \notin {"erase", "done"}
      BY <1>1 DEF IInv, ToldInv, Returned
    <3>. QED
      BY <3>1, <3>2, <3>3 DEF Calling
  <2>5. id[c] \in DOMAIN responseHandle
    BY <1>1, <1>3, <2>4 DEF IInv, EntryInv, Entered
  <2>6. ASSUME Arrived(c)
        PROVE  recvChan'[c] # <<>> /\ recvChan'[c][1].call = c
    <3>1. recvChan'[c] = <<arrived>>
      BY <1>0, <1>1, <2>2, <2>3, <2>5, <2>6 DEF TypeOK
    <3>. QED
      BY <2>3, <2>6, <3>1
  <2>. QED
    BY <1>5, <1>6, <1>7, <2>1, <2>4, <2>6 DEF Way, Answered
<1>11. CASE Serve
  <2>1. UNCHANGED <<pc, arrived>>
    BY <1>11, ServerFacts DEF channel
  <2>2. Arrived(c) => Arrived(c)'
    BY <2>1 DEF Arrived
  <2>3. \A r \in Messages : Reply(r) => toClient' = Append(toClient, r)
    BY <1>3 DEF Reply
  <2>4. \A r \in Messages : toClient' = Append(toClient, r) =>
           (In(toClient', c) <=> In(toClient, c) \/ r.call = c)
    BY <1>0, Appended
  <2>5. toServer # <<>> /\ Asks(toServer[1])
    BY <1>11, ServeFacts
  <2>6. CASE /\ toServer[1].type = "request" /\ executed' = executed \cup {toServer[1].call}
             /\ Reply([toServer[1] EXCEPT !.type = "response"])
    <3>1. LET r == [toServer[1] EXCEPT !.type = "response"]
          IN  r \in Messages /\ r.call = toServer[1].call
      BY <2>5 DEF Asks, Messages
    <3>2. In(toClient', c) <=> In(toClient, c) \/ toServer[1].call = c
      BY <2>3, <2>4, <2>6, <3>1
    <3>3. c \in executed \/ toServer[1].call = c
      BY <2>6
    <3>. QED
      BY <1>5, <1>6, <1>7, <2>2, <3>2, <3>3 DEF Way
  <2>7. CASE /\ executed' = executed
             /\ toClient' = toClient \/ \E r \in Messages : Reply(r)
    <3>1. In(toClient, c) => In(toClient', c)
      BY <2>3, <2>4, <2>7
    <3>. QED
      BY <1>5, <1>6, <1>7, <2>2, <2>7, <3>1 DEF Way
  <2>. QED
    BY <1>11, <2>6, <2>7, ServeFacts
<1>12. CASE Publish
  <2>1. UNCHANGED <<pc, arrived, executed>>
    BY <1>12, ServerFacts DEF channel, Publish
  <2>2. Message("publish") \in Messages /\ toClient' = Append(toClient, Message("publish"))
    BY <1>0, <1>3, <1>12, MessageTypes DEF Publish, Reply
  <2>3. In(toClient, c) => In(toClient', c)
    BY <1>0, <2>2, Appended
  <2>. QED
    BY <1>5, <1>6, <1>7, <2>1, <2>3 DEF Way, Arrived
<1>13. CASE Break
  BY <1>13 DEF Break
<1>. QED
  BY <1>0, <1>2, <1>8, <1>9, <1>10, <1>11, <1>12, <1>13, WayKept

-----------------------------------------------------------------------------
(* The theorems *)

LEMMA InitHolds ==
    ASSUME Init
    PROVE  IInv
<1>1. /\ pc \in [Fibers -> Steps] /\ FiberType
      /\ pc[User] = "connect" /\ pc[Recv] = "off" /\ pc[Sender] = "off" /\ pc[Beat] = "off"
      /\ \A c \in Callers : pc[c] = "call"
  <2>1. pc = [f \in Fibers |-> CASE f = User -> "connect" [] f \in Callers -> "call" [] OTHER -> "off"]
    BY DEF Init
  <2>2. /\ pc[User] = "connect" /\ pc[Recv] = "off" /\ pc[Sender] = "off" /\ pc[Beat] = "off"
        /\ \A c \in Callers : pc[c] = "call"
    BY <2>1, Others
  <2>3. pc \in [Fibers -> Steps]
    BY <2>1 DEF Steps
  <2>. QED
    BY <2>2, <2>3 DEF FiberType
<1>2. /\ load \in Loads /\ load.capacity \in Nat /\ load.beats \in Nat /\ load.publications \in Nat
  BY FibersAssumption DEF Init
<1>3. /\ session = "none" /\ isClose = TRUE /\ isHeartClose = TRUE /\ heartTimer = FALSE
      /\ mutex = None /\ unreleased = {} /\ sequenceId = 0 /\ responseHandle = <<>>
      /\ recvChan = [c \in Callers |-> <<>>]
      /\ id = [c \in Callers |-> None] /\ result = [c \in Callers |-> None]
      /\ chan = <<>> /\ chanClosed = FALSE /\ taken = None /\ arrived = None
      /\ toServer = <<>> /\ toClient = <<>> /\ peerOpen = FALSE /\ subscribed = FALSE
      /\ executed = {} /\ beats = 0 /\ publications = 0
  BY DEF Init
<1>4. DOMAIN responseHandle = {} /\ Len(<<>>) = 0
  BY <1>3
<1>5. Cardinality(Callers) \in Nat
  BY FibersAssumption, FS_CardinalityType
<1>6. TypeOK
  <2>1. responseHandle \in [DOMAIN responseHandle -> Callers]
    BY <1>3, <1>4
  <2>2. sequenceId \in 0..Cardinality(Callers)
    BY <1>3, <1>5
  <2>3. recvChan \in [Callers -> Seq(Messages \cup {None})] /\ \A c \in Callers : Len(recvChan[c]) <= 1
    BY <1>3
  <2>4. chan \in Seq(Messages) /\ toServer \in Seq(Messages) /\ toClient \in Seq(Messages)
    BY <1>3
  <2>5. /\ session \in {"none", "open", "closed"} /\ mutex \in {User, Recv, Beat, None}
        /\ isClose \in BOOLEAN /\ isHeartClose \in BOOLEAN /\ heartTimer \in BOOLEAN
        /\ unreleased \subseteq DOMAIN responseHandle
        /\ DOMAIN responseHandle \subseteq 0..(sequenceId - 1)
        /\ taken \in Messages \cup {None} /\ arrived \in Messages \cup {None}
    BY <1>3, <1>4
  <2>6. /\ id \in [Callers -> Nat \cup {None}]
        /\ result \in [Callers -> Callers \cup {None, "closed", "timeout"}]
        /\ executed \subseteq Callers
        /\ chanClosed \in BOOLEAN /\ peerOpen \in BOOLEAN /\ subscribed \in BOOLEAN
    BY <1>3
  <2>7. /\ Len(chan) <= load.capacity
        /\ beats \in 0..load.beats /\ publications \in 0..load.publications
    BY <1>2, <1>3, <1>4
  <2>. QED
    BY <1>1, <1>2, <2>1, <2>2, <2>3, <2>4, <2>5, <2>6, <2>7 DEF TypeOK
<1>7. LockInv /\ ShutInv /\ OpenInv
  BY <1>1, <1>3, Others DEF LockInv, Closing, ShutInv, OpenInv
<1>8. IdInv /\ EntryInv
  <2>1. {c \in Callers : id[c] # None} = {}
    BY <1>3
  <2>2. sequenceId = Cardinality({c \in Callers : id[c] # None})
    BY <1>3, <2>1, FS_EmptySet
  <2>3. \A c \in Callers : id[c] = None
    BY <1>3
  <2>. QED
    BY <1>1, <1>4, <2>2, <2>3 DEF IdInv, Numbered, EntryInv, Entered, Calling
<1>9. MessageInv
  BY <1>1, <1>3, <1>4, EmptyOnce DEF MessageInv
<1>10. PlaceInv
  BY <1>1, <1>3, EmptyOnce DEF PlaceInv, Placed, Queued, Taken, Sent, Answered, Arrived
<1>11. ToldInv
  BY <1>1, <1>3, Others DEF ToldInv, Told, Returned
<1>12. AnswerOnItsWay
  BY <1>3 DEF AnswerOnItsWay
<1>. QED
  BY <1>1, <1>6, <1>7, <1>8, <1>9, <1>10, <1>11, <1>12 DEF IInv

\* The inductive invariant: every step of the fibers, the connection and the server keeps it.
THEOREM InductiveInvariant == Spec => []IInv
<1>1. Init => IInv
  BY InitHolds
<1>2. IInv /\ [Next]_vars => IInv'
  <2>1. CASE Next /\ IInv
    BY <2>1, TypeNext, FiberNext, LockNext, ShutNext, OpenNext, IdNext, EntryNext, MessageNext,
       ToldNext, WayNext DEF IInv
  <2>2. CASE UNCHANGED vars /\ IInv
    <3>1. /\ TypeOK' /\ FiberType'
      BY <2>2 DEF IInv, TypeOK, FiberType, vars, client, calls, channel, lock, server
    <3>2. LockInv' /\ ShutInv' /\ OpenInv' /\ IdInv' /\ EntryInv'
      BY <2>2 DEF IInv, LockInv, Closing, ShutInv, OpenInv, IdInv, Numbered, EntryInv, Entered,
                  vars, client, calls, channel, lock, server
    <3>3. MessageInv'
      BY <2>2 DEF IInv, MessageInv, Once, Asks, Tells, vars, client, calls, channel, lock, server
    <3>4. PlaceInv' /\ ToldInv' /\ AnswerOnItsWay'
      BY <2>2 DEF IInv, PlaceInv, Placed, Queued, Taken, Sent, Answered, Arrived, In, ToldInv, Told,
                  Returned, AnswerOnItsWay, vars, client, calls, channel, lock, server
    <3>. QED
      BY <3>1, <3>2, <3>3, <3>4 DEF IInv
  <2>. QED
    BY <2>1, <2>2
<1>. QED
  BY <1>1, <1>2, PTL DEF Spec

\* Every variable keeps its type; m_sequenceId counts the calls, m_chan and the
\* channel of a call never hold more than their capacity (rpc_client.h:155-166).
THEOREM TypeCorrect == Spec => []TypeOK
<1>1. IInv => TypeOK
  BY DEF IInv
<1>. QED
  BY <1>1, InductiveInvariant, PTL

\* Every call erases its own entry, an answer the server has sent stays on its
\* way until the call returns, and the server is never asked to run what it has
\* run (rpc_client.h:162-224, rpc_client.cc:187-203).
THEOREM CallsAlwaysAccounted == Spec => []CallsAccounted
<1>1. IInv => EraseIsValid
  BY DEF IInv, EraseIsValid, EntryInv, Entered, Calling
<1>2. IInv => RunsOnce
  <2>. SUFFICES ASSUME IInv, NEW i \in DOMAIN toServer, toServer[i].type = "request"
                PROVE  toServer[i].call \notin executed
    BY DEF RunsOnce
  <2>1. i \in 1..Len(toServer)
    BY DEF IInv, TypeOK
  <2>2. Asks(toServer[i])
    BY <2>1 DEF IInv, MessageInv
  <2>3. toServer[i].call \in Callers /\ Sent(toServer[i].call)
    BY <2>1, <2>2 DEF Asks, Messages, Sent, In
  <2>. QED
    BY <2>3 DEF IInv, PlaceInv, Placed
<1>3. IInv => CallsAccounted
  BY <1>1, <1>2 DEF CallsAccounted, IInv
<1>. QED
  BY <1>3, InductiveInvariant, PTL

-----------------------------------------------------------------------------
(* What call() promises *)

LEMMA NextReturns ==
    ASSUME TypeOK, FiberType, Next
    PROVE  \/ /\ result' = result /\ executed' = executed
              /\ \A c \in Callers : pc'[c] = "call" <=> pc[c] = "call"
           \/ \E c \in Callers : Call(c) \/ Receive(c) \/ Timeout(c)
           \/ Serve
<1>. DEFINE Same == /\ result' = result /\ executed' = executed
                    /\ \A c \in Callers : pc'[c] = "call" <=> pc[c] = "call"
<1>1. ASSUME NEW c \in Callers, Register(c) \/ Erase(c)
      PROVE  Same
  <2>1. /\ \A g \in Fibers \ {c} : pc'[g] = pc[g]
        /\ pc[c] # "call" /\ pc'[c] # "call" /\ UNCHANGED <<result, server>>
    BY <1>1, RegisterFacts, EraseFacts DEF Alone
  <2>. QED
    BY <2>1, Others DEF server
<1>2. \A c \in Callers : Stays(c) => (pc'[c] = "call" <=> pc[c] = "call")
  BY DEF Stays
<1>3. ASSUME NEW f \in Fibers, Push(f)
      PROVE  Same
  BY <1>2, <1>3, PushFacts DEF calls, server
<1>4. ASSUME NEW f \in {User, Recv, Beat}, CloseStep(f)
      PROVE  Same
  <2>1. /\ \A g \in Fibers \ {f} : \/ pc'[g] = pc[g] \/ (pc[g] = "asleep" /\ pc'[g] = "push")
                                   \/ g = Recv
        /\ UNCHANGED <<result, server>>
    <3>1. CASE Close(f)
      BY <3>1, CloseFacts DEF calls
    <3>2. CASE Release(f)
      BY <3>2, ReleaseFacts
    <3>3. CASE Forget(f)
      BY <3>3, ForgetFacts
    <3>4. CASE Shut(f)
      BY <3>4, ShutFacts DEF Alone, calls
    <3>. QED
      BY <1>4, <3>1, <3>2, <3>3, <3>4 DEF CloseStep
  <2>. QED
    BY <2>1, AfterCloses, Others DEF server
<1>5. QuietStep => Same
  BY <1>2, QuietFacts DEF calls, server
<1>6. Connect => Same
  BY ConnectFacts, Others DEF calls
<1>7. SenderStep => Same
  <2>1. SenderStep => /\ \A g \in Fibers \ {Sender} :
                            pc'[g] = pc[g] \/ (pc[g] = "asleep" /\ pc'[g] = "push")
                      /\ UNCHANGED <<result, executed>>
    BY SenderFacts DEF calls
  <2>. QED
    BY <2>1, Others
<1>8. RecvMessage \/ Deliver => Same
  <2>1. RecvMessage \/ Deliver => /\ \A g \in Fibers \ {Recv} : pc'[g] = pc[g]
                                  /\ UNCHANGED <<result, executed>>
    BY MessageFacts, DeliverFacts DEF Alone, calls, server
  <2>. QED
    BY <2>1, Others
<1>9. Publish \/ Break => Same
  BY ServerFacts DEF Publish, Break, calls
<1>. QED
  BY <1>1, <1>3, <1>4, <1>5, <1>6, <1>7, <1>8, <1>9 DEF Next, CallStep, RecvStep, QuietStep

\* What the state of a call is.
Seen(step, res, c) ==
    IF step = "call" THEN "idle" ELSE IF res = None THEN "open"
    ELSE IF res = c THEN "answered" ELSE "failed"

States == [c \in Callers |-> State(c)]

LEMMA StatesAre ==
    ASSUME IInv
    PROVE  States = [c \in Callers |-> Seen(pc[c], result[c], c)]
<1>1. ASSUME NEW c \in Callers
      PROVE  State(c) = Seen(pc[c], result[c], c)
  <2>1. result[c] \in {c, None, "closed", "timeout"} /\ (pc[c] = "call" => result[c] = None)
    BY DEF IInv, ToldInv, Returned
  <2>2. CASE pc[c] = "call"
    BY <2>1, <2>2, Others DEF State, Seen
  <2>3. CASE pc[c] # "call" /\ result[c] = None
    BY <2>1, <2>3, Others DEF State, Seen
  <2>4. CASE pc[c] # "call" /\ result[c] = c
    BY <2>1, <2>4, Others DEF State, Seen
  <2>5. CASE pc[c] # "call" /\ result[c] \in {"closed", "timeout"}
    BY <2>1, <2>5, Others DEF State, Seen
  <2>. QED
    BY <2>1, <2>2, <2>3, <2>4, <2>5
<1>. QED
  BY <1>1 DEF States

LEMMA StepImplements ==
    ASSUME IInv, IInv', Next
    PROVE  Abstract!Next \/ UNCHANGED <<States, executed>>
<1>0. /\ TypeOK /\ FiberType /\ result \in [Callers -> Callers \cup {None, "closed", "timeout"}]
      /\ \A c \in Callers : pc[c] = "call" => result[c] = None
  BY DEF IInv, TypeOK, ToldInv, Returned
<1>1. States = [c \in Callers |-> Seen(pc[c], result[c], c)]
  BY StatesAre
<1>2. States' = [c \in Callers |-> Seen(pc'[c], result'[c], c)]
  <2>1. ASSUME NEW c \in Callers
        PROVE  State(c)' = Seen(pc'[c], result'[c], c)
    <3>1. result'[c] \in {c, None, "closed", "timeout"} /\ (pc'[c] = "call" => result'[c] = None)
      BY DEF IInv, ToldInv, Returned
    <3>2. CASE pc'[c] = "call"
      BY <3>1, <3>2, Others DEF State, Seen
    <3>3. CASE pc'[c] # "call" /\ result'[c] = None
      BY <3>1, <3>3, Others DEF State, Seen
    <3>4. CASE pc'[c] # "call" /\ result'[c] = c
      BY <3>1, <3>4, Others DEF State, Seen
    <3>5. CASE pc'[c] # "call" /\ result'[c] \in {"closed", "timeout"}
      BY <3>1, <3>5, Others DEF State, Seen
    <3>. QED
      BY <3>1, <3>2, <3>3, <3>4, <3>5
  <2>. QED
    BY <2>1 DEF States
<1>3. CASE /\ result' = result /\ executed' = executed
           /\ \A c \in Callers : pc'[c] = "call" <=> pc[c] = "call"
  <2>1. \A c \in Callers : Seen(pc'[c], result'[c], c) = Seen(pc[c], result[c], c)
    BY <1>3 DEF Seen
  <2>. QED
    BY <1>1, <1>2, <1>3, <2>1
<1>4. ASSUME NEW c \in Callers, NEW to, \A d \in Callers \ {c} : pc'[d] = pc[d] /\ result'[d] = result[d],
             Seen(pc'[c], result'[c], c) = to
      PROVE  States' = [States EXCEPT ![c] = to]
  <2>1. \A d \in Callers \ {c} : Seen(pc'[d], result'[d], d) = Seen(pc[d], result[d], d)
    BY <1>4
  <2>. QED
    BY <1>1, <1>2, <1>4, <2>1
<1>5. ASSUME NEW c \in Callers, Call(c)
      PROVE  Abstract!Next
  <2>1. /\ pc[c] = "call" /\ \A g \in Fibers \ {c} : pc'[g] = pc[g]
        /\ \/ pc'[c] = "register" /\ result' = result
           \/ pc'[c] = "done" /\ result' = [result EXCEPT ![c] = "closed"]
        /\ UNCHANGED server
    BY <1>0, <1>5, CallFacts DEF Alone
  <2>2. \A d \in Callers \ {c} : pc'[d] = pc[d] /\ result'[d] = result[d]
    BY <1>0, <2>1, Others
  <2>3. States[c] = "idle" /\ executed' = executed
    BY <1>1, <2>1 DEF Seen, server
  <2>4. Seen(pc'[c], result'[c], c) \in {"open", "failed"}
    BY <1>0, <2>1, Others DEF Seen
  <2>5. States' = [States EXCEPT ![c] = "open"] \/ States' = [States EXCEPT ![c] = "failed"]
    BY <1>4, <2>2, <2>4
  <2>. QED
    BY <2>3, <2>5 DEF Abstract!Next, Abstract!Begin, Abstract!Fail, States
<1>6. ASSUME NEW c \in Callers, Receive(c)
      PROVE  Abstract!Next
  <2>1. /\ pc[c] \in {"receive", "wait"} /\ pc'[c] = "erase" /\ \A g \in Fibers \ {c} : pc'[g] = pc[g]
        /\ recvChan[c] # <<>>
        /\ result' = [result EXCEPT ![c] = IF recvChan[c][1] = None THEN "closed"
                                           ELSE recvChan[c][1].call]
        /\ UNCHANGED server
    BY <1>0, <1>6, ReceiveFacts DEF Alone
  <2>2. \A d \in Callers \ {c} : pc'[d] = pc[d] /\ result'[d] = result[d]
    BY <1>0, <2>1, Others
  <2>3. States[c] = "open" /\ executed' = executed
    <3>1. result[c] = None
      BY <2>1 DEF IInv, ToldInv, Returned
    <3>. QED
      BY <1>1, <2>1, <3>1 DEF Seen, server
  <2>4. result'[c] = "closed" \/ (result'[c] = c /\ c \in executed)
    BY <1>0, <2>1 DEF IInv, ToldInv, Told
  <2>5. \/ Seen(pc'[c], result'[c], c) = "failed"
        \/ Seen(pc'[c], result'[c], c) = "answered" /\ c \in executed
    BY <2>1, <2>4, Others DEF Seen
  <2>6. \/ States' = [States EXCEPT ![c] = "failed"]
        \/ States' = [States EXCEPT ![c] = "answered"] /\ c \in executed
    BY <1>4, <2>2, <2>5
  <2>. QED
    BY <2>3, <2>6 DEF Abstract!Next, Abstract!Answer, Abstract!Fail, States
<1>7. ASSUME NEW c \in Callers, Timeout(c)
      PROVE  Abstract!Next
  <2>1. /\ pc[c] = "wait" /\ pc'[c] = "erase" /\ \A g \in Fibers \ {c} : pc'[g] = pc[g]
        /\ result' = [result EXCEPT ![c] = "timeout"] /\ UNCHANGED server
    BY <1>0, <1>7, TimeoutFacts DEF Alone
  <2>2. \A d \in Callers \ {c} : pc'[d] = pc[d] /\ result'[d] = result[d]
    BY <1>0, <2>1, Others
  <2>3. States[c] = "open" /\ executed' = executed
    <3>1. result[c] = None
      BY <2>1 DEF IInv, ToldInv, Returned
    <3>. QED
      BY <1>1, <2>1, <3>1 DEF Seen, server
  <2>4. Seen(pc'[c], result'[c], c) = "failed"
    BY <1>0, <2>1, Others DEF Seen
  <2>5. States' = [States EXCEPT ![c] = "failed"]
    BY <1>4, <2>2, <2>4
  <2>. QED
    BY <2>3, <2>5 DEF Abstract!Next, Abstract!Fail, States
<1>8. CASE Serve
  <2>1. UNCHANGED <<pc, result>>
    BY <1>8, ServerFacts DEF calls
  <2>2. States' = States
    BY <1>1, <1>2, <2>1
  <2>3. CASE executed' = executed
    BY <2>2, <2>3
  <2>4. CASE toServer[1].type = "request" /\ executed' = executed \cup {toServer[1].call}
    <3>. DEFINE d == toServer[1].call
    <3>1. toServer # <<>> /\ Asks(toServer[1]) /\ 1 \in 1..Len(toServer)
      <4>1. toServer \in Seq(Messages)
        BY <1>0 DEF TypeOK
      <4>2. toServer # <<>> /\ Asks(toServer[1])
        BY <1>8, ServeFacts
      <4>. QED
        BY <4>1, <4>2
    <3>2. d \in Callers /\ Sent(d)
      BY <2>4, <3>1 DEF Asks, Messages, Sent, In
    <3>3. d \notin executed /\ pc[d] # "call"
      BY <3>2 DEF IInv, PlaceInv, Placed
    <3>4. States[d] # "idle"
      BY <1>1, <3>2, <3>3 DEF Seen
    <3>. QED
      BY <2>2, <2>4, <3>2, <3>3, <3>4 DEF Abstract!Next, Abstract!Execute, States
  <2>. QED
    BY <1>8, <2>3, <2>4, ServeFacts
<1>. QED
  BY <1>0, <1>3, <1>5, <1>6, <1>7, <1>8, NextReturns

\* Each call runs at most once, and returns its own answer, after it has run, or
\* an error, whatever closes, breaks or times out meanwhile (rpc_client.h:138-224).
THEOREM RpcImplemented == Spec => ImplementsRpc
<1>1. Init => Abstract!Init
  <2>. SUFFICES ASSUME Init PROVE Abstract!Init
    OBVIOUS
  <2>1. States = [c \in Callers |-> Seen(pc[c], result[c], c)]
    BY InitHolds, StatesAre
  <2>2. \A c \in Callers : pc[c] = "call"
    BY Others DEF Init
  <2>. QED
    BY <2>1, <2>2 DEF Init, Abstract!Init, States, Seen
<1>2. IInv /\ IInv' /\ [Next]_vars => [Abstract!Next]_<<States, executed>>
  <2>1. CASE IInv /\ IInv' /\ Next
    BY <2>1, StepImplements
  <2>2. CASE UNCHANGED vars
    BY <2>2 DEF vars, client, calls, server, States, State
  <2>. QED
    BY <2>1, <2>2
<1>. QED
  BY <1>1, <1>2, InductiveInvariant, PTL DEF Spec, ImplementsRpc, Abstract!Spec, States
=============================================================================
