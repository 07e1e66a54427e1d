------------------------------ MODULE Channel ------------------------------
(***************************************************************************)
(* ChannelImpl (include/sync/channel.h): a bounded queue whose push(),     *)
(* pop(), waitFor() and close() run under one CoMutex and wait on two      *)
(* condition variables.  Fibers call the functions their role allows, for  *)
(* ever.  The message a fiber pushes is its own name.                      *)
(*                                                                         *)
(* The test a function makes under the lock and the change it then makes   *)
(* are separate steps: only the lock keeps other fibers from coming        *)
(* between.                                                                *)
(***************************************************************************)
EXTENDS CoCondVar

CONSTANTS
    Capacity,       \* m_capacity
    Roles,          \* the ways to share out the functions among the fibers
    PushCv, PopCv   \* m_pushCv, m_popCv

ASSUME FibersAssumption == IsFiniteSet(Fibers)
ASSUME CapacityAssumption == Capacity \in Nat \ {0}
ASSUME RolesAssumption == Roles \subseteq [Fibers -> SUBSET {"push", "pop", "waitFor", "close"}]
ASSUME CondVarsAssumption == CondVars = {PushCv, PopCv} /\ PushCv # PopCv

VARIABLES
    role,       \* role[f]: the functions fiber f calls
    isClose,    \* m_isClose
    queue,      \* m_queue
    pc          \* where each fiber is in the functions of the channel

chVars == <<role, isClose, queue, pc>>
vars == <<cvVars, chVars>>

Labels ==
    { "client",
      "push", "enqueue",
      "pop", "waitFor", "timed", "dequeue",
      "close", "closePop", "clear",
      "return" }

TypeOK ==
    /\ CVTypeOK
    /\ role \in Roles
    /\ isClose \in BOOLEAN
    /\ queue \in Seq(Fibers) /\ Len(queue) <= Capacity
    /\ pc \in [Fibers -> Labels]

Init ==
    /\ CVInit
    /\ role \in Roles
    /\ on = [f \in Fibers |-> PopCv]
    /\ isClose = FALSE
    /\ queue = <<>>
    /\ pc = [f \in Fibers |-> "client"]

\* Fiber f, outside the member functions of CoMutex and CoCondVar, goes from
\* one label of the channel to another and calls the function `call'.
Step(f, from, to, call) ==
    /\ pc[f] = from
    /\ pc' = [pc EXCEPT ![f] = to]
    /\ Goto(f, "out", call)
    /\ UNCHANGED <<owner, waitQueue, spin, keepAlive, tasks, state, timer, timedOut, role>>

\* The condition variable of the call.
Using(f, c) == on' = [on EXCEPT ![f] = c]

-----------------------------------------------------------------------------

\* CoMutex::Lock lock(m_mutex) at the start of each function.
Call(f) ==
    \E op \in role[f] :
        /\ Step(f, "client", op, "lock")
        /\ UNCHANGED <<on, isClose, queue>>

\* ~ScopedLock at the end of each function.
Return(f) ==
    /\ Step(f, "return", "client", "unlock")
    /\ UNCHANGED <<on, isClose, queue>>

\* Mutant of PushTest: `if' for `while' at line 30.
PushTestOnce(f) ==
    /\ \/ isClose /\ Step(f, "push", "return", "out") /\ UNCHANGED on
       \/ ~isClose /\ Len(queue) >= Capacity
             /\ Step(f, "push", "enqueue", "wait") /\ Using(f, PushCv)
       \/ ~isClose /\ Len(queue) < Capacity
             /\ Step(f, "push", "enqueue", "out") /\ UNCHANGED on
    /\ UNCHANGED <<isClose, queue>>

\* push(): lines 25-37, then 38-40.
PushTest(f) ==
    /\ \/ isClose /\ Step(f, "push", "return", "out") /\ UNCHANGED on
       \/ ~isClose /\ Len(queue) >= Capacity
             /\ Step(f, "push", "push", "wait") /\ Using(f, PushCv)
       \/ ~isClose /\ Len(queue) < Capacity
             /\ Step(f, "push", "enqueue", "out") /\ UNCHANGED on
    /\ UNCHANGED <<isClose, queue>>

\* Mutant of Enqueue: line 40 is missing.
EnqueueSilent(f) ==
    /\ Step(f, "enqueue", "return", "out")
    /\ queue' = Append(queue, f)
    /\ UNCHANGED <<on, isClose>>

Enqueue(f) ==
    /\ Step(f, "enqueue", "return", "notify")
    /\ Using(f, PopCv)
    /\ queue' = Append(queue, f)
    /\ UNCHANGED isClose

\* pop(): lines 48-60, then 61-64.
PopTest(f) ==
    /\ \/ isClose /\ Step(f, "pop", "return", "out") /\ UNCHANGED on
       \/ ~isClose /\ queue = <<>>
             /\ Step(f, "pop", "pop", "wait") /\ Using(f, PopCv)
       \/ ~isClose /\ queue # <<>>
             /\ Step(f, "pop", "dequeue", "out") /\ UNCHANGED on
    /\ UNCHANGED <<isClose, queue>>

Dequeue(f) ==
    /\ Step(f, "dequeue", "return", "notify")
    /\ Using(f, PushCv)
    /\ queue' = Tail(queue)
    /\ UNCHANGED isClose

\* waitFor(): lines 75-90; a timeout returns before m_isClose is looked at.
WaitForTest(f) ==
    /\ \/ isClose /\ Step(f, "waitFor", "return", "out") /\ UNCHANGED on
       \/ ~isClose /\ queue = <<>>
             /\ Step(f, "waitFor", "timed", "waitFor") /\ Using(f, PopCv)
       \/ ~isClose /\ queue # <<>>
             /\ Step(f, "waitFor", "dequeue", "out") /\ UNCHANGED on
    /\ UNCHANGED <<isClose, queue>>

WaitForWoken(f) ==
    /\ Step(f, "timed", IF timedOut[f] THEN "return" ELSE "waitFor", "out")
    /\ UNCHANGED <<on, isClose, queue>>

\* close(): lines 114-120, 121, 122-123.
Close(f) ==
    /\ \/ isClose /\ Step(f, "close", "return", "out") /\ UNCHANGED on
       \/ ~isClose /\ Step(f, "close", "closePop", "notify") /\ Using(f, PushCv)
    /\ isClose' = TRUE
    /\ UNCHANGED queue

\* Mutant of CloseNotifyPop: line 121 is missing.
CloseSilent(f) ==
    /\ Step(f, "closePop", "clear", "out")
    /\ UNCHANGED <<on, isClose, queue>>

CloseNotifyPop(f) ==
    /\ Step(f, "closePop", "clear", "notify")
    /\ Using(f, PopCv)
    /\ UNCHANGED <<isClose, queue>>

Clear(f) ==
    /\ Step(f, "clear", "return", "out")
    /\ queue' = <<>>
    /\ UNCHANGED <<on, isClose>>

-----------------------------------------------------------------------------

ChannelStep(f) ==
    \/ Return(f)
    \/ PushTest(f) \/ Enqueue(f)
    \/ PopTest(f) \/ Dequeue(f)
    \/ WaitForTest(f) \/ WaitForWoken(f)
    \/ Close(f) \/ CloseNotifyPop(f) \/ Clear(f)

Next ==
    \E f \in Fibers :
        \/ Call(f)
        \/ ChannelStep(f)
        \/ (CVNext(f) \/ WaitForStep(f) \/ TimerStep(f)) /\ UNCHANGED chVars

Spec == Init /\ [][Next]_vars

(***************************************************************************)
(* Fairness.  The threads run, submitted fibers are resumed, timers expire *)
(* and their callbacks run.  Nothing is assumed about who gets the CoMutex *)
(* when several fibers want it: it can be barged, so a fiber may lose for  *)
(* ever.  Calling is up to the client, so Call is not fair.                *)
(***************************************************************************)
Fairness ==
    \A f \in Fibers :
        /\ WF_vars(ChannelStep(f))
        /\ WF_vars((CVStep(f) \/ WaitForStep(f)) /\ UNCHANGED chVars)
        /\ WF_vars((Resume(f) \/ TimerStep(f)) /\ UNCHANGED chVars)

FairSpec == Spec /\ Fairness

-----------------------------------------------------------------------------
(* What the channel promises *)

\* No fiber calls waitFor(), the one function whose wait can end without a
\* notification; no two fibers wait on the same side.
NoTimeouts == \A f \in Fibers : "waitFor" \notin role[f]
OneOnEachSide ==
    \A f, g \in Fibers :
        f # g => \/ role[f] \cap role[g] \subseteq {"close"}
                 \/ role[f] = {} \/ role[g] = {}

\* Fibers that will look at the queue again without another notify(): about
\* to take the lock, or woken but not resumed yet.
AwakeIn(f, ops) ==
    /\ pc[f] \in ops
    /\ at[f] \in {"out", "lock"} \/ tasks[f] > 0

\* A message that arrives wakes a consumer: while fibers wait in pop() on an
\* open channel, there are at least as many awake consumers as messages
\* (channel.h:38-40, 53-64).
MessagesHaveTakers ==
    NoTimeouts /\ ~isClose /\ waitQueue[PopCv] # {} =>
        Len(queue) <= Cardinality({f \in Fibers :
            \/ AwakeIn(f, {"pop", "dequeue"})
            \/ at[f] = "notify" /\ on[f] = PopCv })

\* Dually, while fibers wait in push(), every free slot has a fiber on its way
\* to it (channel.h:30-38, 62-64).
SlotsHaveTakers ==
    NoTimeouts /\ ~isClose /\ waitQueue[PushCv] # {} =>
        Capacity - Len(queue) <= Cardinality({f \in Fibers :
            \/ AwakeIn(f, {"push", "enqueue"})
            \/ at[f] = "notify" /\ on[f] = PushCv })

\* No wakeup is lost on either side: without timeouts, what can be taken has a fiber
\* on its way to it as long as fibers wait for it (channel.h:25-66).
NobodySleepsInVain == MessagesHaveTakers /\ SlotsHaveTakers

\* close() wakes the fibers that wait (channel.h:119), if there is one on each
\* side: none stays in a wait set of a closed channel.
CloseReleases ==
    \A c \in CondVars, f \in Fibers :
        NoTimeouts /\ OneOnEachSide /\ isClose /\ f \in waitQueue[c]
            ~> f \notin waitQueue[c]

-----------------------------------------------------------------------------
(* The channel implements the abstract channel *)

Abstract == INSTANCE AbstractChannel WITH Messages <- Fibers, closed <- isClose

\* What fibers see is a bounded first-in first-out queue that closes once.
ImplementsChannel == Abstract!Spec
=============================================================================
