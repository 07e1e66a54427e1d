---------------------------- MODULE ChannelProofs ----------------------------
(***************************************************************************)
(* Channel for any capacity and any fibers: it is a bounded queue that     *)
(* closes once, and no wakeup of push() or pop() is lost.                  *)
(*                                                                         *)
(* The first needs that what a fiber has tested under the lock still holds *)
(* when it acts on it.  The second needs besides that without timeouts a   *)
(* fiber is in the wait set of its own side or, once, among the tasks: a   *)
(* notification then makes one waiter a taker.  It is proved for both      *)
(* sides at once: what a side has to give is its stock, the messages for   *)
(* the consumers and the free slots for the producers.                     *)
(***************************************************************************)
EXTENDS Channel, FiniteSetTheorems, TLAPS

\* Where f is in the functions of the channel goes with where it is in those of the
\* mutex and the condition variables.
Placed(f) ==
    /\ at[f] \in {"wait", "yield", "asleep"} =>
          (pc[f] = "pop" /\ on[f] = PopCv) \/ (pc[f] = "push" /\ on[f] = PushCv)
    /\ at[f] \in {"waitFor", "yieldFor", "asleepFor", "woken", "relockFor", "leaveFor", "wild"} =>
          pc[f] = "timed"
    /\ at[f] = "unlock" => pc[f] = "client"
    /\ at[f] = "lock" => pc[f] \in {"push", "pop", "waitFor", "close"}
    /\ at[f] = "notify" => pc[f] \in {"return", "closePop", "clear"}
    /\ pc[f] \in {"waitFor", "timed"} => "waitFor" \in role[f]
    /\ timer[f] # "none" => pc[f] = "timed" /\ at[f] # "out"

\* f is between lock() and unlock() of the CoMutex.
Inside(f) ==
    \/ at[f] \in {"unlock", "notify", "wait", "waitFor", "leaveFor"}
    \/ at[f] = "out" /\ pc[f] # "client"

Owned(f) == owner = f <=> Inside(f)

\* What f has tested still holds.
Tested(f) ==
    /\ pc[f] = "enqueue" => ~isClose /\ Len(queue) < Capacity
    /\ pc[f] = "dequeue" => ~isClose /\ queue # <<>>
    /\ pc[f] \in {"closePop", "clear"} => isClose
    /\ at[f] = "wait" => (pc[f] = "pop" => queue = <<>>) /\ (pc[f] = "push" => Len(queue) >= Capacity)

FiberOf(f) == Placed(f) /\ Owned(f) /\ Tested(f)

FiberInv == \A f \in Fibers : FiberOf(f)

\* A fiber is in the wait set of its call or, once, among the tasks.
Queued(f) ==
    /\ \A c \in CondVars :
          f \in waitQueue[c] => on[f] = c /\ at[f] \in {"yield", "asleep"} /\ tasks[f] = 0
    /\ tasks[f] # 0 => at[f] \in {"yield", "asleep"} /\ tasks[f] = 1

QueueInv == NoTimeouts => \A f \in Fibers : Queued(f)

IInv ==
    /\ TypeOK
    /\ FiberInv
    /\ QueueInv
    /\ NobodySleepsInVain

-----------------------------------------------------------------------------
(* Steps *)

\* What a step of the channel itself does to its fiber.
LEMMA StepOf ==
    ASSUME TypeOK, NEW f \in Fibers, NEW from, NEW to, NEW call, Step(f, from, to, call)
    PROVE  /\ pc[f] = from /\ pc'[f] = to /\ at[f] = "out" /\ at'[f] = call
           /\ \A g \in Fibers \ {f} : pc'[g] = pc[g] /\ at'[g] = at[g]
           /\ owner' = owner /\ waitQueue' = waitQueue /\ tasks' = tasks
           /\ timer' = timer /\ role' = role
BY DEF Step, Goto, TypeOK, CVTypeOK

\* The steps of the channel, by what they do.
LEMMA StepKinds ==
    ASSUME TypeOK, NEW f \in Fibers, Call(f) \/ ChannelStep(f)
    PROVE  /\ \E from : \E to \in Labels : \E call \in CVLabels : Step(f, from, to, call)
           /\ on' = on \/ \E c \in CondVars : Using(f, c)
           /\ isClose' \in BOOLEAN /\ (isClose => isClose')
<1>1. CASE Call(f)
  <2>1. PICK op \in role[f] : Step(f, "client", op, "lock") /\ UNCHANGED <<on, isClose, queue>>
    BY <1>1 DEF Call
  <2>2. op \in {"push", "pop", "waitFor", "close"}
    BY <2>1, RolesAssumption DEF TypeOK
  <2>. QED
    BY <2>1, <2>2 DEF Labels, CVLabels, TypeOK
<1>2. CASE Return(f)
  BY <1>2 DEF Return, Labels, CVLabels, TypeOK
<1>3. CASE PushTest(f)
  BY <1>3, CondVarsAssumption DEF PushTest, Labels, CVLabels, TypeOK
<1>4. CASE Enqueue(f)
  BY <1>4, CondVarsAssumption DEF Enqueue, Labels, CVLabels, TypeOK
<1>5. CASE PopTest(f)
  BY <1>5, CondVarsAssumption DEF PopTest, Labels, CVLabels, TypeOK
<1>6. CASE Dequeue(f)
  BY <1>6, CondVarsAssumption DEF Dequeue, Labels, CVLabels, TypeOK
<1>7. CASE WaitForTest(f)
  BY <1>7, CondVarsAssumption DEF WaitForTest, Labels, CVLabels, TypeOK
<1>8. CASE WaitForWoken(f)
  BY <1>8 DEF WaitForWoken, Labels, CVLabels, TypeOK
<1>9. CASE Close(f)
  BY <1>9, CondVarsAssumption DEF Close, Labels, CVLabels, TypeOK
<1>10. CASE CloseNotifyPop(f)
  BY <1>10, CondVarsAssumption DEF CloseNotifyPop, Labels, CVLabels, TypeOK
<1>11. CASE Clear(f)
  BY <1>11 DEF Clear, Labels, CVLabels, TypeOK
<1>. QED
  BY <1>1, <1>2, <1>3, <1>4, <1>5, <1>6, <1>7, <1>8, <1>9, <1>10, <1>11 DEF ChannelStep

LEMMA TypeInit == Init => TypeOK
<1> SUFFICES ASSUME Init PROVE TypeOK
  OBVIOUS
<1>1. CVTypeOK
  BY DEF Init, CVInit, CVTypeOK, CVLabels
<1>2. pc \in [Fibers -> Labels]
  BY DEF Init, Labels
<1>3. <<>> \in Seq(Fibers) /\ Len(<<>>) <= Capacity
  BY CapacityAssumption
<1>. QED
  BY <1>1, <1>2, <1>3 DEF Init, TypeOK

LEMMA CVTypeNext ==
    ASSUME CVTypeOK, NEW f \in Fibers, CVNext(f) \/ WaitForStep(f) \/ TimerStep(f)
    PROVE  CVTypeOK'
<1>0. on[f] \in CondVars
  BY DEF CVTypeOK
<1>1. CASE LockMutex(f) \/ UnlockMutex(f)
  BY <1>1 DEF LockMutex, UnlockMutex, Goto, CVTypeOK, CVLabels
<1>2. CASE Notify(f)
  <2>1. \/ waitQueue' = waitQueue
        \/ \E w : waitQueue' = [waitQueue EXCEPT ![on[f]] = @ \ {w}]
    BY <1>2 DEF Notify
  <2>2. waitQueue' \in [CondVars -> SUBSET Fibers]
    BY <1>0, <2>1 DEF CVTypeOK
  <2>3. tasks' \in [Fibers -> Nat]
    BY <1>2 DEF Notify, Submit, CVTypeOK
  <2>. QED
    BY <1>2, <2>2, <2>3 DEF Notify, Goto, CVTypeOK, CVLabels
<1>3. CASE Wait(f)
  BY <1>0, <1>3 DEF Wait, Goto, CVTypeOK, CVLabels
<1>4. CASE YieldToHold(f, "yield", "asleep") \/ YieldToHold(f, "yieldFor", "asleepFor")
  BY <1>4 DEF YieldToHold, Goto, CVTypeOK, CVLabels
<1>5. CASE Resume(f)
  <2>1. tasks' \in [Fibers -> Nat]
    BY <1>5 DEF Resume, CVTypeOK
  <2>. QED
    BY <1>5, <2>1 DEF Resume, Goto, CVTypeOK, CVLabels
<1>6. CASE WaitFor(f)
  BY <1>0, <1>6 DEF WaitFor, Goto, CVTypeOK, CVLabels
<1>7. CASE Woken(f)
  BY <1>0, <1>7 DEF Woken, Goto, CVTypeOK, CVLabels
<1>8. CASE RelockFor(f) \/ LeaveFor(f)
  BY <1>0, <1>8 DEF RelockFor, LeaveFor, Goto, CVTypeOK, CVLabels
<1>9. CASE Expire(f)
  BY <1>9 DEF Expire, CVTypeOK
<1>10. CASE TimerCallback(f)
  <2>1. tasks' \in [Fibers -> Nat]
    BY <1>10 DEF TimerCallback, Submit, CVTypeOK
  <2>2. waitQueue' \in [CondVars -> SUBSET Fibers]
    BY <1>0, <1>10 DEF TimerCallback, CVTypeOK
  <2>. QED
    BY <1>10, <2>1, <2>2 DEF TimerCallback, CVTypeOK
<1>. QED
  BY <1>1, <1>2, <1>3, <1>4, <1>5, <1>6, <1>7, <1>8, <1>9, <1>10
  DEF CVNext, CVStep, WaitForStep, TimerStep

\* How the steps of the channel change the queue.
LEMMA QueueSteps ==
    ASSUME NEW f \in Fibers, Call(f) \/ ChannelStep(f)
    PROVE  \/ queue' = queue
           \/ Enqueue(f) /\ queue' = Append(queue, f)
           \/ Dequeue(f) /\ queue' = Tail(queue)
           \/ Clear(f) /\ queue' = <<>>
<1>1. CASE Call(f) \/ Return(f) \/ PushTest(f) \/ PopTest(f) \/ WaitForTest(f) \/ WaitForWoken(f)
  BY <1>1 DEF Call, Return, PushTest, PopTest, WaitForTest, WaitForWoken
<1>2. CASE Close(f) \/ CloseNotifyPop(f)
  BY <1>2 DEF Close, CloseNotifyPop
<1>3. CASE Enqueue(f) \/ Dequeue(f) \/ Clear(f)
  BY <1>3 DEF Enqueue, Dequeue, Clear
<1>. QED
  BY <1>1, <1>2, <1>3 DEF ChannelStep

LEMMA TypeNext == TypeOK /\ FiberInv /\ [Next]_vars => TypeOK'
<1> SUFFICES ASSUME TypeOK, FiberInv, [Next]_vars PROVE TypeOK'
  OBVIOUS
<1>0. /\ CVTypeOK /\ role \in Roles /\ isClose \in BOOLEAN /\ pc \in [Fibers -> Labels]
      /\ queue \in Seq(Fibers) /\ Len(queue) <= Capacity /\ Len(queue) \in Nat /\ Capacity \in Nat
  BY CapacityAssumption DEF TypeOK
<1>1. ASSUME NEW f \in Fibers, Call(f) \/ ChannelStep(f) PROVE TypeOK'
  <2>1. PICK from : \E to \in Labels : \E call \in CVLabels : Step(f, from, to, call)
    BY <1>1, StepKinds
  <2>2. PICK to \in Labels, call \in CVLabels : Step(f, from, to, call)
    BY <2>1
  <2>3. on' \in [Fibers -> CondVars] /\ isClose' \in BOOLEAN
    <3>1. on' = on \/ \E c \in CondVars : on' = [on EXCEPT ![f] = c]
      BY <1>1, StepKinds DEF Using
    <3>2. isClose' \in BOOLEAN
      BY <1>1, StepKinds
    <3>. QED
      BY <1>0, <3>1, <3>2 DEF CVTypeOK
  <2>4. CVTypeOK'
    BY <1>0, <2>2, <2>3 DEF Step, Goto, CVTypeOK
  <2>5. queue' \in Seq(Fibers) /\ Len(queue') <= Capacity
    <3>1. CASE queue' = queue
      BY <1>0, <3>1
    <3>2. CASE Enqueue(f) /\ queue' = Append(queue, f)
      <4>1. Step(f, "enqueue", "return", "notify")
        BY <3>2 DEF Enqueue
      <4>2. Len(queue) < Capacity
        BY <4>1, StepOf DEF FiberInv, FiberOf, Tested
      <4>. QED
        BY <1>0, <3>2, <4>2
    <3>3. CASE Dequeue(f) /\ queue' = Tail(queue)
      <4>1. Step(f, "dequeue", "return", "notify")
        BY <3>3 DEF Dequeue
      <4>2. queue # <<>>
        BY <4>1, StepOf DEF FiberInv, FiberOf, Tested
      <4>. QED
        BY <1>0, <3>3, <4>2
    <3>4. CASE Clear(f) /\ queue' = <<>>
      BY <1>0, <3>4
    <3>. QED
      BY <1>1, <3>1, <3>2, <3>3, <3>4, QueueSteps
  <2>6. role' \in Roles /\ pc' \in [Fibers -> Labels]
    BY <1>0, <2>2 DEF Step
  <2>. QED
    BY <2>3, <2>4, <2>5, <2>6 DEF TypeOK
<1>2. ASSUME NEW f \in Fibers, CVNext(f) \/ WaitForStep(f) \/ TimerStep(f), UNCHANGED chVars
      PROVE  TypeOK'
  BY <1>0, <1>2, CVTypeNext DEF chVars, TypeOK
<1>3. CASE UNCHANGED vars
  BY <1>0, <1>3 DEF vars, cvVars, chVars, TypeOK, CVTypeOK
<1>. QED
  BY <1>1, <1>2, <1>3 DEF Next

-----------------------------------------------------------------------------
(* Each fiber *)

LEMMA FiberInit == Init => FiberInv
<1> SUFFICES ASSUME Init, NEW f \in Fibers PROVE FiberOf(f)
  BY DEF FiberInv
<1>. QED
  BY NoFiberAssumption DEF Init, CVInit, FiberOf, Placed, Owned, Inside, Tested

\* A fiber that a step is not about.
Alone(g) ==
    /\ pc'[g] = pc[g] /\ at'[g] = at[g] /\ timer'[g] = timer[g] /\ on'[g] = on[g]
    /\ owner' = g <=> owner = g
    /\ (queue' = queue /\ isClose' = isClose) \/ ~Inside(g)

\* What a fiber has tested it has tested inside.
LEMMA TestedInside ==
    ASSUME TypeOK, NEW g \in Fibers, Placed(g), ~Inside(g)
    PROVE  pc[g] \notin {"enqueue", "dequeue", "closePop", "clear"} /\ at[g] # "wait"
BY DEF TypeOK, CVTypeOK, CVLabels, Placed, Inside

LEMMA FiberKept ==
    ASSUME TypeOK, NEW g \in Fibers, FiberOf(g), Alone(g), role' = role
    PROVE  FiberOf(g)'
<1>1. Placed(g)'
  BY DEF FiberOf, Placed, Alone
<1>2. Owned(g)'
  BY DEF FiberOf, Owned, Inside, Alone
<1>3. Tested(g)'
  <2>1. CASE queue' = queue /\ isClose' = isClose
    BY <2>1 DEF FiberOf, Tested, Alone
  <2>2. CASE ~Inside(g)
    BY <2>2, TestedInside DEF FiberOf, Tested, Alone
  <2>. QED
    BY <2>1, <2>2 DEF Alone
<1>. QED
  BY <1>1, <1>2, <1>3 DEF FiberOf

\* A step of the channel keeps FiberInv if its fiber keeps its part.
LEMMA FiberStep ==
    ASSUME TypeOK, FiberInv, NEW f \in Fibers, NEW from, NEW to, NEW call,
           Step(f, from, to, call), \A g \in Fibers \ {f} : on'[g] = on[g],
           (queue' = queue /\ isClose' = isClose) \/ Inside(f),
           Placed(f)', Inside(f)' <=> Inside(f), Tested(f)'
    PROVE  FiberInv'
<1>1. /\ at[f] = "out" /\ \A g \in Fibers \ {f} : pc'[g] = pc[g] /\ at'[g] = at[g]
      /\ owner' = owner /\ timer' = timer /\ role' = role
  BY StepOf
<1>2. ASSUME NEW g \in Fibers, g # f PROVE FiberOf(g)'
  <2>1. Inside(f) => ~Inside(g)
    BY <1>2 DEF FiberInv, FiberOf, Owned
  <2>2. Alone(g)
    BY <1>1, <1>2, <2>1 DEF Alone
  <2>. QED
    BY <1>1, <2>2, FiberKept DEF FiberInv
<1>3. Owned(f)'
  BY <1>1 DEF FiberInv, FiberOf, Owned
<1>. QED
  BY <1>2, <1>3 DEF FiberInv, FiberOf

LEMMA ChannelFiberNext ==
    ASSUME TypeOK, FiberInv, NEW f \in Fibers, Call(f) \/ ChannelStep(f)
    PROVE  FiberInv'
<1>0. /\ CVTypeOK /\ isClose \in BOOLEAN /\ queue \in Seq(Fibers)
      /\ Len(queue) \in Nat /\ Capacity \in Nat
  BY CapacityAssumption DEF TypeOK
<1>a. FiberOf(f)
  BY DEF FiberInv
<1>b. on' = on \/ \E c \in CondVars : Using(f, c)
  BY StepKinds
<1>c. \A g \in Fibers \ {f} : on'[g] = on[g]
  BY <1>0, <1>b DEF Using, CVTypeOK
<1>d. \A c : Using(f, c) => on'[f] = c
  BY <1>0 DEF Using, CVTypeOK
<1>e. ASSUME NEW from, NEW to, NEW call, Step(f, from, to, call)
      PROVE  /\ pc[f] = from /\ pc'[f] = to /\ at[f] = "out" /\ at'[f] = call
             /\ timer'[f] = "none" /\ role' = role
  BY <1>a, <1>e, StepOf DEF FiberOf, Placed
<1>1. CASE Call(f)
  <2>1. PICK op \in role[f] : Step(f, "client", op, "lock") /\ UNCHANGED <<on, isClose, queue>>
    BY <1>1 DEF Call
  <2>2. op \in {"push", "pop", "waitFor", "close"}
    BY <2>1, RolesAssumption DEF TypeOK
  <2>3. /\ pc[f] = "client" /\ pc'[f] = op /\ at[f] = "out" /\ at'[f] = "lock"
        /\ timer'[f] = "none" /\ role' = role
    BY <1>e, <2>1
  <2>4. Placed(f)'
    BY <2>1, <2>2, <2>3 DEF Placed
  <2>5. ~Inside(f)' /\ ~Inside(f)
    BY <2>3 DEF Inside
  <2>6. Tested(f)'
    BY <2>2, <2>3 DEF Tested
  <2>. QED
    BY <1>c, <2>1, <2>4, <2>5, <2>6, FiberStep
<1>2. CASE Return(f)
  <2>1. Step(f, "return", "client", "unlock")
    BY <1>2 DEF Return
  <2>2. /\ pc[f] = "return" /\ pc'[f] = "client" /\ at[f] = "out" /\ at'[f] = "unlock"
        /\ timer'[f] = "none" /\ role' = role
    BY <1>e, <2>1
  <2>3. Placed(f)'
    BY <2>2 DEF Placed
  <2>4. Inside(f)' /\ Inside(f)
    BY <2>2 DEF Inside
  <2>5. Tested(f)'
    BY <1>a, <2>1, <2>2 DEF FiberOf, Tested
  <2>. QED
    BY <1>c, <2>1, <2>3, <2>4, <2>5, FiberStep
<1>3. CASE PushTest(f)
  <2>0. UNCHANGED <<isClose, queue>>
    BY <1>3 DEF PushTest
  <2>1. CASE isClose /\ Step(f, "push", "return", "out")
    <3>1. /\ pc[f] = "push" /\ pc'[f] = "return" /\ at[f] = "out" /\ at'[f] = "out"
          /\ timer'[f] = "none" /\ role' = role
      BY <1>e, <2>1
    <3>2. Placed(f)'
      BY <1>a, <2>1, <3>1 DEF FiberOf, Placed
    <3>3. Inside(f)' /\ Inside(f)
      BY <3>1 DEF Inside
    <3>4. Tested(f)'
      BY <1>0, <2>0, <2>1, <3>1 DEF Tested
    <3>. QED
      BY <1>c, <2>1, <3>2, <3>3, <3>4, FiberStep
  <2>2. CASE (~isClose /\ Len(queue) >= Capacity) /\ Step(f, "push", "push", "wait") /\ Using(f, PushCv)
    <3>1. /\ pc[f] = "push" /\ pc'[f] = "push" /\ at[f] = "out" /\ at'[f] = "wait"
          /\ timer'[f] = "none" /\ role' = role
      BY <1>e, <2>2
    <3>2. Placed(f)'
      BY <1>a, <1>d, <2>2, <3>1 DEF FiberOf, Placed
    <3>3. Inside(f)' /\ Inside(f)
      BY <3>1 DEF Inside
    <3>4. Tested(f)'
      BY <1>0, <2>0, <2>2, <3>1 DEF Tested
    <3>. QED
      BY <1>c, <2>2, <3>2, <3>3, <3>4, FiberStep
  <2>3. CASE (~isClose /\ Len(queue) < Capacity) /\ Step(f, "push", "enqueue", "out")
    <3>1. /\ pc[f] = "push" /\ pc'[f] = "enqueue" /\ at[f] = "out" /\ at'[f] = "out"
          /\ timer'[f] = "none" /\ role' = role
      BY <1>e, <2>3
    <3>2. Placed(f)'
      BY <1>a, <2>3, <3>1 DEF FiberOf, Placed
    <3>3. Inside(f)' /\ Inside(f)
      BY <3>1 DEF Inside
    <3>4. Tested(f)'
      BY <1>0, <2>0, <2>3, <3>1 DEF Tested
    <3>. QED
      BY <1>c, <2>3, <3>2, <3>3, <3>4, FiberStep
  <2>. QED
    BY <1>3, <2>1, <2>2, <2>3 DEF PushTest
<1>4. CASE Enqueue(f)
  <2>1. Step(f, "enqueue", "return", "notify")
    BY <1>4 DEF Enqueue
  <2>2. /\ pc[f] = "enqueue" /\ pc'[f] = "return" /\ at[f] = "out" /\ at'[f] = "notify"
        /\ timer'[f] = "none" /\ role' = role
    BY <1>e, <2>1
  <2>3. Placed(f)'
    BY <2>2 DEF Placed
  <2>4. Inside(f)' /\ Inside(f)
    BY <2>2 DEF Inside
  <2>5. Tested(f)'
    BY <1>a, <2>1, <2>2 DEF FiberOf, Tested
  <2>. QED
    BY <1>c, <2>1, <2>3, <2>4, <2>5, FiberStep
<1>5. CASE PopTest(f)
  <2>0. UNCHANGED <<isClose, queue>>
    BY <1>5 DEF PopTest
  <2>1. CASE isClose /\ Step(f, "pop", "return", "out")
    <3>1. /\ pc[f] = "pop" /\ pc'[f] = "return" /\ at[f] = "out" /\ at'[f] = "out"
          /\ timer'[f] = "none" /\ role' = role
      BY <1>e, <2>1
    <3>2. Placed(f)'
      BY <1>a, <2>1, <3>1 DEF FiberOf, Placed
    <3>3. Inside(f)' /\ Inside(f)
      BY <3>1 DEF Inside
    <3>4. Tested(f)'
      BY <1>0, <2>0, <2>1, <3>1 DEF Tested
    <3>. QED
      BY <1>c, <2>1, <3>2, <3>3, <3>4, FiberStep
  <2>2. CASE (~isClose /\ queue = <<>>) /\ Step(f, "pop", "pop", "wait") /\ Using(f, PopCv)
    <3>1. /\ pc[f] = "pop" /\ pc'[f] = "pop" /\ at[f] = "out" /\ at'[f] = "wait"
          /\ timer'[f] = "none" /\ role' = role
      BY <1>e, <2>2
    <3>2. Placed(f)'
      BY <1>a, <1>d, <2>2, <3>1 DEF FiberOf, Placed
    <3>3. Inside(f)' /\ Inside(f)
      BY <3>1 DEF Inside
    <3>4. Tested(f)'
      BY <1>0, <2>0, <2>2, <3>1 DEF Tested
    <3>. QED
      BY <1>c, <2>2, <3>2, <3>3, <3>4, FiberStep
  <2>3. CASE (~isClose /\ queue # <<>>) /\ Step(f, "pop", "dequeue", "out")
    <3>1. /\ pc[f] = "pop" /\ pc'[f] = "dequeue" /\ at[f] = "out" /\ at'[f] = "out"
          /\ timer'[f] = "none" /\ role' = role
      BY <1>e, <2>3
    <3>2. Placed(f)'
      BY <1>a, <2>3, <3>1 DEF FiberOf, Placed
    <3>3. Inside(f)' /\ Inside(f)
      BY <3>1 DEF Inside
    <3>4. Tested(f)'
      BY <1>0, <2>0, <2>3, <3>1 DEF Tested
    <3>. QED
      BY <1>c, <2>3, <3>2, <3>3, <3>4, FiberStep
  <2>. QED
    BY <1>5, <2>1, <2>2, <2>3 DEF PopTest
<1>6. CASE Dequeue(f)
  <2>1. Step(f, "dequeue", "return", "notify")
    BY <1>6 DEF Dequeue
  <2>2. /\ pc[f] = "dequeue" /\ pc'[f] = "return" /\ at[f] = "out" /\ at'[f] = "notify"
        /\ timer'[f] = "none" /\ role' = role
    BY <1>e, <2>1
  <2>3. Placed(f)'
    BY <2>2 DEF Placed
  <2>4. Inside(f)' /\ Inside(f)
    BY <2>2 DEF Inside
  <2>5. Tested(f)'
    BY <1>a, <2>1, <2>2 DEF FiberOf, Tested
  <2>. QED
    BY <1>c, <2>1, <2>3, <2>4, <2>5, FiberStep
<1>7. CASE WaitForTest(f)
  <2>0. UNCHANGED <<isClose, queue>>
    BY <1>7 DEF WaitForTest
  <2>1. CASE isClose /\ Step(f, "waitFor", "return", "out")
    <3>1. /\ pc[f] = "waitFor" /\ pc'[f] = "return" /\ at[f] = "out" /\ at'[f] = "out"
          /\ timer'[f] = "none" /\ role' = role
      BY <1>e, <2>1
    <3>2. Placed(f)'
      BY <1>a, <2>1, <3>1 DEF FiberOf, Placed
    <3>3. Inside(f)' /\ Inside(f)
      BY <3>1 DEF Inside
    <3>4. Tested(f)'
      BY <1>0, <2>0, <2>1, <3>1 DEF Tested
    <3>. QED
      BY <1>c, <2>1, <3>2, <3>3, <3>4, FiberStep
  <2>2. CASE (~isClose /\ queue = <<>>) /\ Step(f, "waitFor", "timed", "waitFor") /\ Using(f, PopCv)
    <3>1. /\ pc[f] = "waitFor" /\ pc'[f] = "timed" /\ at[f] = "out" /\ at'[f] = "waitFor"
          /\ timer'[f] = "none" /\ role' = role
      BY <1>e, <2>2
    <3>2. Placed(f)'
      BY <1>a, <1>d, <2>2, <3>1 DEF FiberOf, Placed
    <3>3. Inside(f)' /\ Inside(f)
      BY <3>1 DEF Inside
    <3>4. Tested(f)'
      BY <1>0, <2>0, <2>2, <3>1 DEF Tested
    <3>. QED
      BY <1>c, <2>2, <3>2, <3>3, <3>4, FiberStep
  <2>3. CASE (~isClose /\ queue # <<>>) /\ Step(f, "waitFor", "dequeue", "out")
    <3>1. /\ pc[f] = "waitFor" /\ pc'[f] = "dequeue" /\ at[f] = "out" /\ at'[f] = "out"
          /\ timer'[f] = "none" /\ role' = role
      BY <1>e, <2>3
    <3>2. Placed(f)'
      BY <1>a, <2>3, <3>1 DEF FiberOf, Placed
    <3>3. Inside(f)' /\ Inside(f)
      BY <3>1 DEF Inside
    <3>4. Tested(f)'
      BY <1>0, <2>0, <2>3, <3>1 DEF Tested
    <3>. QED
      BY <1>c, <2>3, <3>2, <3>3, <3>4, FiberStep
  <2>. QED
    BY <1>7, <2>1, <2>2, <2>3 DEF WaitForTest
<1>8. CASE WaitForWoken(f)
  <2>0. UNCHANGED <<isClose, queue>>
    BY <1>8 DEF WaitForWoken
  <2>1. CASE timedOut[f] /\ Step(f, "timed", "return", "out")
    <3>1. /\ pc[f] = "timed" /\ pc'[f] = "return" /\ at[f] = "out" /\ at'[f] = "out"
          /\ timer'[f] = "none" /\ role' = role
      BY <1>e, <2>1
    <3>2. Placed(f)'
      BY <1>a, <2>1, <3>1 DEF FiberOf, Placed
    <3>3. Inside(f)' /\ Inside(f)
      BY <3>1 DEF Inside
    <3>4. Tested(f)'
      BY <1>0, <2>0, <2>1, <3>1 DEF Tested
    <3>. QED
      BY <1>c, <2>1, <3>2, <3>3, <3>4, FiberStep
  <2>2. CASE ~timedOut[f] /\ Step(f, "timed", "waitFor", "out")
    <3>1. /\ pc[f] = "timed" /\ pc'[f] = "waitFor" /\ at[f] = "out" /\ at'[f] = "out"
          /\ timer'[f] = "none" /\ role' = role
      BY <1>e, <2>2
    <3>2. Placed(f)'
      BY <1>a, <2>2, <3>1 DEF FiberOf, Placed
    <3>3. Inside(f)' /\ Inside(f)
      BY <3>1 DEF Inside
    <3>4. Tested(f)'
      BY <1>0, <2>0, <2>2, <3>1 DEF Tested
    <3>. QED
      BY <1>c, <2>2, <3>2, <3>3, <3>4, FiberStep
  <2>. QED
    BY <1>8, <2>1, <2>2 DEF WaitForWoken
<1>9. CASE Close(f)
  <2>0. isClose' = TRUE /\ queue' = queue
    BY <1>9 DEF Close
  <2>1. PICK to \in {"return", "closePop"}, call \in {"out", "notify"} :
          Step(f, "close", to, call) /\ (call = "notify" => to = "closePop")
    BY <1>9 DEF Close
  <2>2. /\ pc[f] = "close" /\ pc'[f] = to /\ at[f] = "out" /\ at'[f] = call
        /\ timer'[f] = "none" /\ role' = role
    BY <1>e, <2>1
  <2>3. Placed(f)'
    BY <2>1, <2>2 DEF Placed
  <2>4. Inside(f)' /\ Inside(f)
    BY <2>1, <2>2 DEF Inside
  <2>5. Tested(f)'
    BY <2>0, <2>1, <2>2 DEF Tested
  <2>. QED
    BY <1>c, <2>1, <2>3, <2>4, <2>5, FiberStep
<1>10. CASE CloseNotifyPop(f)
  <2>1. Step(f, "closePop", "clear", "notify") /\ isClose' = isClose
    BY <1>10 DEF CloseNotifyPop
  <2>2. /\ pc[f] = "closePop" /\ pc'[f] = "clear" /\ at[f] = "out" /\ at'[f] = "notify"
        /\ timer'[f] = "none" /\ role' = role
    BY <1>e, <2>1
  <2>3. Placed(f)'
    BY <2>2 DEF Placed
  <2>4. Inside(f)' /\ Inside(f)
    BY <2>2 DEF Inside
  <2>5. Tested(f)'
    BY <1>a, <2>1, <2>2 DEF FiberOf, Tested
  <2>. QED
    BY <1>c, <2>1, <2>3, <2>4, <2>5, FiberStep
<1>11. CASE Clear(f)
  <2>1. Step(f, "clear", "return", "out")
    BY <1>11 DEF Clear
  <2>2. /\ pc[f] = "clear" /\ pc'[f] = "return" /\ at[f] = "out" /\ at'[f] = "out"
        /\ timer'[f] = "none" /\ role' = role
    BY <1>e, <2>1
  <2>3. Placed(f)'
    BY <2>2 DEF Placed
  <2>4. Inside(f)' /\ Inside(f)
    BY <2>2 DEF Inside
  <2>5. Tested(f)'
    BY <1>a, <2>1, <2>2 DEF FiberOf, Tested
  <2>. QED
    BY <1>c, <2>1, <2>3, <2>4, <2>5, FiberStep
<1>. QED
  BY <1>1, <1>2, <1>3, <1>4, <1>5, <1>6, <1>7, <1>8, <1>9, <1>10, <1>11 DEF ChannelStep

LEMMA CVFiberNext ==
    ASSUME TypeOK, FiberInv, NEW f \in Fibers, UNCHANGED chVars,
           CVNext(f) \/ WaitForStep(f) \/ TimerStep(f)
    PROVE  FiberInv'
<1>0. CVTypeOK /\ pc' = pc /\ role' = role /\ queue' = queue /\ isClose' = isClose
  BY DEF TypeOK, chVars
<1>a. FiberOf(f) /\ Placed(f) /\ Owned(f) /\ Tested(f)
  BY DEF FiberInv, FiberOf
<1>b. ASSUME on' = on, \A g \in Fibers \ {f} : at'[g] = at[g] /\ timer'[g] = timer[g],
             \A g \in Fibers \ {f} : owner' = g <=> owner = g,
             Placed(f)', Owned(f)', at'[f] = "wait" => at[f] = "wait"
      PROVE  FiberInv'
  <2>1. ASSUME NEW g \in Fibers, g # f PROVE FiberOf(g)'
    <3>1. Alone(g)
      BY <1>0, <1>b, <2>1 DEF Alone
    <3>. QED
      BY <1>0, <3>1, FiberKept DEF FiberInv
  <2>2. Tested(f)'
    BY <1>0, <1>a, <1>b DEF Tested
  <2>. QED
    BY <1>b, <2>1, <2>2 DEF FiberInv, FiberOf
<1>1. CASE LockMutex(f)
  <2>1. /\ at[f] = "lock" /\ at'[f] = "out" /\ owner = NoFiber /\ owner' = f
        /\ on' = on /\ timer' = timer /\ \A g \in Fibers \ {f} : at'[g] = at[g]
    BY <1>0, <1>1 DEF LockMutex, Goto, CVTypeOK
  <2>2. pc[f] \in {"push", "pop", "waitFor", "close"}
    BY <1>a, <2>1 DEF Placed
  <2>3. Placed(f)'
    BY <1>0, <1>a, <2>1, <2>2 DEF Placed
  <2>4. Owned(f)'
    BY <1>0, <2>1, <2>2 DEF Owned, Inside
  <2>. QED
    BY <1>b, <2>1, <2>3, <2>4, NoFiberAssumption
<1>2. CASE UnlockMutex(f)
  <2>1. /\ at[f] = "unlock" /\ at'[f] = "out" /\ owner' = NoFiber
        /\ on' = on /\ timer' = timer /\ \A g \in Fibers \ {f} : at'[g] = at[g]
    BY <1>0, <1>2 DEF UnlockMutex, Goto, CVTypeOK
  <2>2. pc[f] = "client" /\ owner = f
    BY <1>a, <2>1 DEF Placed, Owned, Inside
  <2>3. Placed(f)'
    BY <1>0, <1>a, <2>1, <2>2 DEF Placed
  <2>4. Owned(f)'
    BY <1>0, <2>1, <2>2, NoFiberAssumption DEF Owned, Inside
  <2>. QED
    BY <1>b, <2>1, <2>2, <2>3, <2>4, NoFiberAssumption
<1>3. CASE Notify(f)
  <2>1. /\ at[f] = "notify" /\ at'[f] = "out" /\ owner' = owner
        /\ on' = on /\ timer' = timer /\ \A g \in Fibers \ {f} : at'[g] = at[g]
    BY <1>0, <1>3 DEF Notify, Goto, CVTypeOK
  <2>2. pc[f] \in {"return", "closePop", "clear"} /\ owner = f
    BY <1>a, <2>1 DEF Placed, Owned, Inside
  <2>3. Placed(f)'
    BY <1>0, <1>a, <2>1, <2>2 DEF Placed
  <2>4. Owned(f)'
    BY <1>0, <2>1, <2>2 DEF Owned, Inside
  <2>. QED
    BY <1>b, <2>1, <2>3, <2>4
<1>4. CASE Wait(f)
  <2>1. /\ at[f] = "wait" /\ at'[f] = "yield" /\ owner' = NoFiber
        /\ on' = on /\ timer' = timer /\ \A g \in Fibers \ {f} : at'[g] = at[g]
    BY <1>0, <1>4 DEF Wait, Goto, CVTypeOK
  <2>2. owner = f
    BY <1>a, <2>1 DEF Owned, Inside
  <2>3. Placed(f)'
    BY <1>0, <1>a, <2>1 DEF Placed
  <2>4. Owned(f)'
    BY <2>1, NoFiberAssumption DEF Owned, Inside
  <2>. QED
    BY <1>b, <2>1, <2>2, <2>3, <2>4, NoFiberAssumption
<1>5. CASE YieldToHold(f, "yield", "asleep") \/ YieldToHold(f, "yieldFor", "asleepFor")
  <2>1. /\ (at[f] = "yield" /\ at'[f] = "asleep") \/ (at[f] = "yieldFor" /\ at'[f] = "asleepFor")
        /\ owner' = owner /\ on' = on /\ timer' = timer
        /\ \A g \in Fibers \ {f} : at'[g] = at[g]
    BY <1>0, <1>5 DEF YieldToHold, Goto, CVTypeOK
  <2>2. Placed(f)'
    BY <1>0, <1>a, <2>1 DEF Placed
  <2>3. Owned(f)'
    BY <1>0, <1>a, <2>1 DEF Owned, Inside
  <2>. QED
    BY <1>b, <2>1, <2>2, <2>3
<1>6. CASE Resume(f)
  <2>1. /\ (at[f] = "asleep" /\ at'[f] = "lock") \/ (at[f] = "asleepFor" /\ at'[f] = "woken")
        /\ owner' = owner /\ on' = on /\ timer' = timer
        /\ \A g \in Fibers \ {f} : at'[g] = at[g]
    BY <1>0, <1>6 DEF Resume, Goto, CVTypeOK
  <2>2. Placed(f)'
    BY <1>0, <1>a, <2>1 DEF Placed
  <2>3. Owned(f)'
    BY <1>0, <1>a, <2>1 DEF Owned, Inside
  <2>. QED
    BY <1>b, <2>1, <2>2, <2>3
<1>7. CASE WaitFor(f)
  <2>1. /\ at[f] = "waitFor" /\ at'[f] = "yieldFor" /\ owner' = NoFiber /\ on' = on
        /\ \A g \in Fibers \ {f} : at'[g] = at[g] /\ timer'[g] = timer[g]
    BY <1>0, <1>7 DEF WaitFor, Goto, CVTypeOK
  <2>2. owner = f /\ pc[f] = "timed"
    BY <1>a, <2>1 DEF Placed, Owned, Inside
  <2>3. Placed(f)'
    BY <1>0, <1>a, <2>1, <2>2 DEF Placed
  <2>4. Owned(f)'
    BY <2>1, NoFiberAssumption DEF Owned, Inside
  <2>. QED
    BY <1>b, <2>1, <2>2, <2>3, <2>4, NoFiberAssumption
<1>8. CASE Woken(f)
  <2>1. /\ at[f] = "woken" /\ at'[f] \in {"relockFor", "wild"} /\ owner' = owner /\ on' = on
        /\ \A g \in Fibers \ {f} : at'[g] = at[g] /\ timer'[g] = timer[g]
    BY <1>0, <1>8 DEF Woken, Goto, CVTypeOK
  <2>2. pc[f] = "timed"
    BY <1>a, <2>1 DEF Placed
  <2>3. Placed(f)'
    BY <1>0, <1>a, <2>1, <2>2 DEF Placed
  <2>4. Owned(f)'
    BY <1>0, <1>a, <2>1 DEF Owned, Inside
  <2>. QED
    BY <1>b, <2>1, <2>3, <2>4
<1>9. CASE RelockFor(f)
  <2>1. /\ at[f] = "relockFor" /\ at'[f] = "leaveFor" /\ owner = NoFiber /\ owner' = f
        /\ on' = on /\ timer' = timer /\ \A g \in Fibers \ {f} : at'[g] = at[g]
    BY <1>0, <1>9 DEF RelockFor, Goto, CVTypeOK
  <2>2. Placed(f)'
    BY <1>0, <1>a, <2>1 DEF Placed
  <2>3. Owned(f)'
    BY <2>1 DEF Owned, Inside
  <2>. QED
    BY <1>b, <2>1, <2>2, <2>3, NoFiberAssumption
<1>10. CASE LeaveFor(f)
  <2>1. /\ at[f] = "leaveFor" /\ at'[f] = "out" /\ owner' = owner /\ on' = on
        /\ timer'[f] = "none"
        /\ \A g \in Fibers \ {f} : at'[g] = at[g] /\ timer'[g] = timer[g]
    BY <1>0, <1>10 DEF LeaveFor, Goto, CVTypeOK
  <2>2. pc[f] = "timed" /\ owner = f
    BY <1>a, <2>1 DEF Placed, Owned, Inside
  <2>3. Placed(f)'
    BY <1>0, <1>a, <2>1, <2>2 DEF Placed
  <2>4. Owned(f)'
    BY <1>0, <2>1, <2>2 DEF Owned, Inside
  <2>. QED
    BY <1>b, <2>1, <2>3, <2>4
<1>11. CASE Expire(f) \/ TimerCallback(f)
  <2>1. /\ at' = at /\ owner' = owner /\ on' = on /\ timer[f] # "none"
        /\ \A g \in Fibers \ {f} : timer'[g] = timer[g]
    BY <1>0, <1>11 DEF Expire, TimerCallback, CVTypeOK
  <2>2. Placed(f)'
    BY <1>0, <1>a, <2>1 DEF Placed
  <2>3. Owned(f)'
    BY <1>0, <1>a, <2>1 DEF Owned, Inside
  <2>. QED
    BY <1>b, <2>1, <2>2, <2>3
<1>. QED
  BY <1>1, <1>2, <1>3, <1>4, <1>5, <1>6, <1>7, <1>8, <1>9, <1>10, <1>11
  DEF CVNext, CVStep, WaitForStep, TimerStep

LEMMA FiberNext == TypeOK /\ FiberInv /\ [Next]_vars => FiberInv'
<1> SUFFICES ASSUME TypeOK, FiberInv, [Next]_vars PROVE FiberInv'
  OBVIOUS
<1>1. CASE UNCHANGED vars
  <2>1. \A g \in Fibers : Alone(g)
    BY <1>1 DEF vars, cvVars, chVars, Alone
  <2>2. role' = role
    BY <1>1 DEF vars, chVars
  <2>. QED
    BY <2>1, <2>2, FiberKept DEF FiberInv
<1>. QED
  BY <1>1, ChannelFiberNext, CVFiberNext DEF Next

-----------------------------------------------------------------------------
(* The wait sets *)

\* Without timeouts nothing but a notification ends a wait.
Untimed(f) ==
    /\ pc[f] \notin {"waitFor", "timed"} /\ timer[f] = "none"
    /\ at[f] \notin {"waitFor", "yieldFor", "asleepFor", "woken", "relockFor", "leaveFor", "wild"}

LEMMA NoneTimed ==
    ASSUME FiberInv, NoTimeouts, NEW f \in Fibers
    PROVE  Untimed(f)
BY DEF FiberInv, FiberOf, Placed, NoTimeouts, Untimed

LEMMA QueueInit == Init => QueueInv
<1> SUFFICES ASSUME Init, NEW f \in Fibers PROVE Queued(f)
  BY DEF QueueInv
<1>. QED
  BY DEF Init, CVInit, Queued

\* A fiber whose place in the wait sets and the tasks does not change.
Rests(g) ==
    /\ at'[g] = at[g] \/ at[g] \notin {"yield", "asleep"}
    /\ at'[g] \in {"yield", "asleep"} => on'[g] = on[g]
    /\ tasks'[g] = tasks[g]
    /\ \A c \in CondVars : g \in waitQueue'[c] <=> g \in waitQueue[c]

LEMMA QueuedKept ==
    ASSUME NEW g \in Fibers, Queued(g), Rests(g)
    PROVE  Queued(g)'
BY DEF Queued, Rests

LEMMA NoteOf ==
    ASSUME CVTypeOK, NEW f \in Fibers, Notify(f)
    PROVE  /\ on[f] \in CondVars
           /\ \/ /\ waitQueue[on[f]] = {} /\ waitQueue' = waitQueue /\ tasks' = tasks
              \/ \E w \in waitQueue[on[f]] :
                    /\ w \in Fibers /\ tasks'[w] = tasks[w] + 1
                    /\ waitQueue'[on[f]] = waitQueue[on[f]] \ {w}
                    /\ \A c \in CondVars \ {on[f]} : waitQueue'[c] = waitQueue[c]
                    /\ \A g \in Fibers \ {w} : tasks'[g] = tasks[g]
<1>1. on[f] \in CondVars /\ waitQueue \in [CondVars -> SUBSET Fibers]
  BY DEF CVTypeOK
<1>2. CASE waitQueue[on[f]] = {}
  BY <1>1, <1>2 DEF Notify
<1>3. CASE waitQueue[on[f]] # {}
  <2>1. PICK w \in waitQueue[on[f]] :
          waitQueue' = [waitQueue EXCEPT ![on[f]] = @ \ {w}] /\ Submit({w})
    BY <1>3 DEF Notify
  <2>. QED
    BY <1>1, <2>1 DEF Submit
<1>. QED
  BY <1>2, <1>3

LEMMA QueueNext == TypeOK /\ FiberInv /\ QueueInv /\ [Next]_vars => QueueInv'
<1>a. TypeOK /\ [Next]_vars => role' = role
  BY StepOf, StepKinds DEF Next, vars, chVars
<1> SUFFICES ASSUME TypeOK, FiberInv, QueueInv, [Next]_vars, NoTimeouts
             PROVE  \A f \in Fibers : Queued(f)'
  BY <1>a DEF QueueInv, NoTimeouts
<1>0. CVTypeOK /\ \A f \in Fibers : Queued(f) /\ Placed(f) /\ Untimed(f)
  BY NoneTimed DEF QueueInv, FiberInv, FiberOf, TypeOK
<1>1. ASSUME NEW f \in Fibers, Call(f) \/ ChannelStep(f) PROVE \A g \in Fibers : Queued(g)'
  <2>1. PICK from, to, call : Step(f, from, to, call)
    BY <1>1, StepKinds
  <2>2. /\ at[f] = "out" /\ \A g \in Fibers \ {f} : at'[g] = at[g] /\ on'[g] = on[g]
        /\ waitQueue' = waitQueue /\ tasks' = tasks
    BY <1>0, <1>1, <2>1, StepOf, StepKinds DEF Using, CVTypeOK
  <2>3. \A g \in Fibers \ {f} : Rests(g)
    BY <2>2 DEF Rests
  <2>4. Queued(f)'
    BY <1>0, <2>2 DEF Queued
  <2>. QED
    BY <1>0, <2>3, <2>4, QueuedKept
<1> USE DEF chVars
<1>2. ASSUME NEW f \in Fibers, LockMutex(f) \/ UnlockMutex(f), UNCHANGED chVars
      PROVE  \A g \in Fibers : Queued(g)'
  <2>1. /\ at[f] \in {"lock", "unlock"} /\ at'[f] = "out" /\ on' = on /\ tasks' = tasks
        /\ waitQueue' = waitQueue /\ \A g \in Fibers \ {f} : at'[g] = at[g]
    BY <1>0, <1>2 DEF LockMutex, UnlockMutex, Goto, CVTypeOK
  <2>2. \A g \in Fibers : Rests(g)
    BY <2>1 DEF Rests
  <2>. QED
    BY <1>0, <2>2, QueuedKept
<1>3. ASSUME NEW f \in Fibers, Notify(f), UNCHANGED chVars PROVE \A g \in Fibers : Queued(g)'
  <2>1. /\ at[f] = "notify" /\ at'[f] = "out" /\ on' = on
        /\ \A g \in Fibers \ {f} : at'[g] = at[g]
    BY <1>0, <1>3 DEF Notify, Goto, CVTypeOK
  <2>2. CASE waitQueue' = waitQueue /\ tasks' = tasks
    <3>1. \A g \in Fibers : Rests(g)
      BY <2>1, <2>2 DEF Rests
    <3>. QED
      BY <1>0, <3>1, QueuedKept
  <2>3. CASE ~(waitQueue' = waitQueue /\ tasks' = tasks)
    <3>1. PICK w \in waitQueue[on[f]] :
            /\ w \in Fibers /\ tasks'[w] = tasks[w] + 1 /\ on[f] \in CondVars
            /\ waitQueue'[on[f]] = waitQueue[on[f]] \ {w}
            /\ \A c \in CondVars \ {on[f]} : waitQueue'[c] = waitQueue[c]
            /\ \A g \in Fibers \ {w} : tasks'[g] = tasks[g]
      BY <1>0, <1>3, <2>3, NoteOf
    <3>2. \A g \in Fibers \ {w} : Rests(g)
      BY <2>1, <3>1 DEF Rests
    <3>3. /\ on[w] = on[f] /\ at[w] \in {"yield", "asleep"} /\ tasks[w] = 0
          /\ \A c \in CondVars \ {on[f]} : w \notin waitQueue[c]
      BY <1>0, <3>1 DEF Queued
    <3>4. at'[w] = at[w]
      BY <2>1, <3>1, <3>3
    <3>5. Queued(w)'
      BY <3>1, <3>3, <3>4 DEF Queued
    <3>. QED
      BY <1>0, <3>2, <3>5, QueuedKept
  <2>. QED
    BY <2>2, <2>3
<1>4. ASSUME NEW f \in Fibers, Wait(f), UNCHANGED chVars PROVE \A g \in Fibers : Queued(g)'
  <2>1. /\ at[f] = "wait" /\ at'[f] = "yield" /\ on' = on /\ tasks' = tasks
        /\ \A g \in Fibers \ {f} : at'[g] = at[g]
        /\ waitQueue' = [waitQueue EXCEPT ![on[f]] = @ \cup {f}]
    BY <1>0, <1>4 DEF Wait, Goto, CVTypeOK
  <2>2. on[f] \in CondVars /\ waitQueue \in [CondVars -> SUBSET Fibers]
    BY <1>0 DEF CVTypeOK
  <2>3. \A g \in Fibers \ {f} : Rests(g)
    BY <2>1, <2>2 DEF Rests
  <2>4. tasks[f] = 0 /\ \A c \in CondVars : f \notin waitQueue[c]
    BY <1>0, <2>1 DEF Queued
  <2>5. Queued(f)'
    BY <2>1, <2>2, <2>4 DEF Queued
  <2>. QED
    BY <1>0, <2>3, <2>5, QueuedKept
<1>5. ASSUME NEW f \in Fibers, YieldToHold(f, "yield", "asleep"), UNCHANGED chVars
      PROVE  \A g \in Fibers : Queued(g)'
  <2>1. /\ at[f] = "yield" /\ at'[f] = "asleep" /\ on' = on /\ tasks' = tasks
        /\ waitQueue' = waitQueue /\ \A g \in Fibers \ {f} : at'[g] = at[g]
    BY <1>0, <1>5 DEF YieldToHold, Goto, CVTypeOK
  <2>2. \A g \in Fibers \ {f} : Rests(g)
    BY <2>1 DEF Rests
  <2>3. Queued(f)'
    BY <1>0, <2>1 DEF Queued
  <2>. QED
    BY <1>0, <2>2, <2>3, QueuedKept
<1>6. ASSUME NEW f \in Fibers, Resume(f), UNCHANGED chVars PROVE \A g \in Fibers : Queued(g)'
  <2>1. /\ on' = on /\ waitQueue' = waitQueue /\ tasks[f] # 0 /\ tasks'[f] = tasks[f] - 1
        /\ \A g \in Fibers \ {f} : at'[g] = at[g] /\ tasks'[g] = tasks[g]
    BY <1>0, <1>6 DEF Resume, Goto, CVTypeOK
  <2>2. \A g \in Fibers \ {f} : Rests(g)
    BY <2>1 DEF Rests
  <2>3. tasks[f] = 1 /\ \A c \in CondVars : f \notin waitQueue[c]
    BY <1>0, <2>1 DEF Queued
  <2>4. Queued(f)'
    BY <2>1, <2>3 DEF Queued
  <2>. QED
    BY <1>0, <2>2, <2>4, QueuedKept
<1>7. ASSUME NEW f \in Fibers PROVE ~WaitForStep(f) /\ ~TimerStep(f)
  BY <1>0, <1>7 DEF Untimed, WaitForStep, TimerStep, WaitFor, YieldToHold, Woken, RelockFor,
                    LeaveFor, Expire, TimerCallback, Goto
<1>8. CASE UNCHANGED vars
  <2>1. \A g \in Fibers : Rests(g)
    BY <1>8 DEF vars, cvVars, Rests
  <2>. QED
    BY <1>0, <2>1, QueuedKept
<1>. QED
  BY <1>1, <1>2, <1>3, <1>4, <1>5, <1>6, <1>7, <1>8 DEF Next, CVNext, CVStep

-----------------------------------------------------------------------------
(* The two sides *)

\* The labels of a fiber on its way to what c is about.
Ops(c) == IF c = PopCv THEN {"pop", "dequeue"} ELSE {"push", "enqueue"}

Takes(c, f) == AwakeIn(f, Ops(c)) \/ (at[f] = "notify" /\ on[f] = c)

Takers(c) == {f \in Fibers : Takes(c, f)}

\* What there is to take.
Stock(c) == IF c = PopCv THEN Len(queue) ELSE Capacity - Len(queue)

Side(c) == NoTimeouts /\ ~isClose /\ waitQueue[c] # {} => Stock(c) <= Cardinality(Takers(c))

SidesInv == \A c \in CondVars : Side(c)

LEMMA Sides == NobodySleepsInVain <=> SidesInv
<1>1. Takers(PopCv) = {f \in Fibers :
         \/ AwakeIn(f, {"pop", "dequeue"})
         \/ at[f] = "notify" /\ on[f] = PopCv}
  BY DEF Takers, Takes, Ops
<1>2. Takers(PushCv) = {f \in Fibers :
         \/ AwakeIn(f, {"push", "enqueue"})
         \/ at[f] = "notify" /\ on[f] = PushCv}
  BY CondVarsAssumption DEF Takers, Takes, Ops
<1>3. Side(PopCv) <=> MessagesHaveTakers
  BY <1>1 DEF Side, Stock, MessagesHaveTakers
<1>4. Side(PushCv) <=> SlotsHaveTakers
  BY <1>2, CondVarsAssumption DEF Side, Stock, SlotsHaveTakers
<1>. QED
  BY <1>3, <1>4, CondVarsAssumption DEF NobodySleepsInVain, SidesInv

LEMMA TakersFinite ==
    ASSUME NEW c
    PROVE  IsFiniteSet(Takers(c)) /\ Cardinality(Takers(c)) \in Nat
BY FibersAssumption, FS_Subset, FS_CardinalityType DEF Takers

LEMMA SideInit == Init => NobodySleepsInVain
<1> SUFFICES ASSUME Init, NEW c \in CondVars PROVE Side(c)
  BY Sides DEF SidesInv
<1>. QED
  BY DEF Init, CVInit, Side

LEMMA SideNext ==
    ASSUME TypeOK, FiberInv, QueueInv, [Next]_vars, NEW c \in CondVars, Side(c),
           NoTimeouts, ~isClose', waitQueue'[c] # {}
    PROVE  Stock(c)' <= Cardinality(Takers(c)')
<1>0. /\ CVTypeOK /\ queue \in Seq(Fibers) /\ Len(queue) \in Nat /\ Len(queue) <= Capacity
      /\ Capacity \in Nat
      /\ \A f \in Fibers : Queued(f) /\ Placed(f) /\ Tested(f) /\ Untimed(f)
  BY CapacityAssumption, NoneTimed DEF TypeOK, QueueInv, FiberInv, FiberOf
<1>1. Takers(c) = {f \in Fibers : Takes(c, f)} /\ Takers(c)' = {f \in Fibers : Takes(c, f)'}
  BY DEF Takers
<1>2. /\ IsFiniteSet(Takers(c)) /\ Cardinality(Takers(c)) \in Nat
      /\ IsFiniteSet(Takers(c)') /\ Cardinality(Takers(c)') \in Nat
  BY <1>1, TakersFinite, FibersAssumption, FS_Subset, FS_CardinalityType
<1>3. Stock(c) \in Nat
  BY <1>0 DEF Stock
<1>4. c # PopCv <=> c = PushCv
  BY CondVarsAssumption
<1>5. waitQueue[c] # {} /\ ~isClose => Stock(c) <= Cardinality(Takers(c))
  BY DEF Side
<1>a. ASSUME \A f \in Fibers : Takes(c, f) => Takes(c, f)', queue' = queue,
             waitQueue[c] # {}, ~isClose
      PROVE  Stock(c)' <= Cardinality(Takers(c)')
  <2>1. Takers(c) \subseteq Takers(c)'
    BY <1>1, <1>a
  <2>2. Cardinality(Takers(c)) <= Cardinality(Takers(c)')
    BY <1>2, <2>1, FS_Subset
  <2>3. Stock(c)' = Stock(c)
    BY <1>a DEF Stock
  <2>. QED
    BY <1>2, <1>3, <1>5, <1>a, <2>2, <2>3
<1>b. ASSUME NEW f \in Fibers, Call(f) \/ ChannelStep(f)
      PROVE  /\ \A g \in Fibers \ {f} : Takes(c, g)' <=> Takes(c, g)
             /\ waitQueue[c] # {} /\ ~isClose
             /\ \A from, to, call : Step(f, from, to, call) =>
                   /\ Takes(c, f) <=> from \in Ops(c)
                   /\ pc[f] = from /\ pc'[f] = to /\ at'[f] = call
                   /\ call = "out" /\ to \in Ops(c) => Takes(c, f)'
  <2>1. PICK from, to, call : Step(f, from, to, call)
    BY <1>b, StepKinds
  <2>2. /\ \A g \in Fibers \ {f} : pc'[g] = pc[g] /\ at'[g] = at[g] /\ on'[g] = on[g]
        /\ waitQueue' = waitQueue /\ tasks' = tasks /\ at[f] = "out"
    <3>1. \A g \in Fibers \ {f} : on'[g] = on[g]
      BY <1>0, <1>b, StepKinds DEF Using, CVTypeOK
    <3>. QED
      BY <2>1, <3>1, StepOf
  <2>3. ~isClose
    BY <1>b, StepKinds
  <2>4. \A g \in Fibers \ {f} : Takes(c, g)' <=> Takes(c, g)
    BY <2>2 DEF Takes, AwakeIn
  <2>5. ASSUME NEW a, NEW b, NEW d, Step(f, a, b, d)
        PROVE  /\ Takes(c, f) <=> a \in Ops(c)
               /\ pc[f] = a /\ pc'[f] = b /\ at'[f] = d
               /\ d = "out" /\ b \in Ops(c) => Takes(c, f)'
    <3>1. pc[f] = a /\ pc'[f] = b /\ at[f] = "out" /\ at'[f] = d
      BY <2>5, StepOf
    <3>. QED
      BY <3>1 DEF Takes, AwakeIn
  <2>. QED
    BY <2>2, <2>3, <2>4, <2>5
<1>c. ASSUME NEW f \in Fibers, Call(f) \/ ChannelStep(f), queue' = queue,
             Takes(c, f) => Takes(c, f)'
      PROVE  Stock(c)' <= Cardinality(Takers(c)')
  BY <1>a, <1>b, <1>c
<1>d. ASSUME Stock(c)' \in Int, Stock(c)' <= 0
      PROVE  Stock(c)' <= Cardinality(Takers(c)')
  BY <1>2, <1>d
<1>6. ASSUME NEW f \in Fibers, Call(f) \/ Return(f) PROVE Stock(c)' <= Cardinality(Takers(c)')
  <2>1. PICK from, to, call : Step(f, from, to, call) /\ from \in {"client", "return"}
    BY <1>6 DEF Call, Return
  <2>2. queue' = queue
    BY <1>6 DEF Call, Return
  <2>3. ~Takes(c, f)
    BY <1>6, <1>b, <2>1 DEF Ops, ChannelStep
  <2>. QED
    BY <1>6, <1>c, <2>2, <2>3 DEF ChannelStep
<1>7. ASSUME NEW f \in Fibers, PushTest(f) PROVE Stock(c)' <= Cardinality(Takers(c)')
  <2>1. /\ queue' = queue /\ ~isClose
        /\ \/ Len(queue) >= Capacity /\ Step(f, "push", "push", "wait")
           \/ Step(f, "push", "enqueue", "out")
    BY <1>7 DEF PushTest
  <2>2. CASE c = PopCv
    <3>1. ~Takes(c, f)
      BY <1>7, <1>b, <2>1, <2>2 DEF Ops, ChannelStep
    <3>. QED
      BY <1>7, <1>c, <2>1, <3>1 DEF ChannelStep
  <2>3. CASE c = PushCv /\ Len(queue) >= Capacity
    BY <1>0, <1>4, <1>d, <2>1, <2>3 DEF Stock
  <2>4. CASE c = PushCv /\ Step(f, "push", "enqueue", "out")
    <3>1. Takes(c, f)'
      BY <1>4, <1>7, <1>b, <2>4 DEF Ops, ChannelStep
    <3>. QED
      BY <1>7, <1>c, <2>1, <3>1 DEF ChannelStep
  <2>. QED
    BY <1>4, <2>1, <2>2, <2>3, <2>4
<1>8. ASSUME NEW f \in Fibers, PopTest(f) PROVE Stock(c)' <= Cardinality(Takers(c)')
  <2>1. /\ queue' = queue /\ ~isClose
        /\ \/ queue = <<>> /\ Step(f, "pop", "pop", "wait")
           \/ Step(f, "pop", "dequeue", "out")
    BY <1>8 DEF PopTest
  <2>2. CASE c = PushCv
    <3>1. ~Takes(c, f)
      BY <1>4, <1>8, <1>b, <2>1, <2>2 DEF Ops, ChannelStep
    <3>. QED
      BY <1>8, <1>c, <2>1, <3>1 DEF ChannelStep
  <2>3. CASE c = PopCv /\ queue = <<>>
    BY <1>d, <2>1, <2>3 DEF Stock
  <2>4. CASE c = PopCv /\ Step(f, "pop", "dequeue", "out")
    <3>1. Takes(c, f)'
      BY <1>8, <1>b, <2>4 DEF Ops, ChannelStep
    <3>. QED
      BY <1>8, <1>c, <2>1, <3>1 DEF ChannelStep
  <2>. QED
    BY <1>4, <2>1, <2>2, <2>3, <2>4
<1>e. ASSUME NEW f \in Fibers, ChannelStep(f), Takes(c, f), ~Takes(c, f)', Stock(c)' = Stock(c) - 1
      PROVE  Stock(c)' <= Cardinality(Takers(c)')
  <2>1. Takers(c)' = Takers(c) \ {f} /\ f \in Takers(c) /\ waitQueue[c] # {} /\ ~isClose
    BY <1>1, <1>b, <1>e
  <2>2. Cardinality(Takers(c)') = Cardinality(Takers(c)) - 1
    BY <1>2, <2>1, FS_RemoveElement
  <2>. QED
    BY <1>2, <1>3, <1>5, <1>e, <2>1, <2>2
<1>f. ASSUME NEW f \in Fibers, ChannelStep(f), ~Takes(c, f), Takes(c, f)', Stock(c)' = Stock(c) + 1
      PROVE  Stock(c)' <= Cardinality(Takers(c)')
  <2>1. Takers(c)' = Takers(c) \cup {f} /\ f \notin Takers(c) /\ waitQueue[c] # {} /\ ~isClose
    BY <1>1, <1>b, <1>f
  <2>2. Cardinality(Takers(c)') = Cardinality(Takers(c)) + 1
    BY <1>2, <2>1, FS_AddElement
  <2>. QED
    BY <1>2, <1>3, <1>5, <1>f, <2>1, <2>2
<1>9. ASSUME NEW f \in Fibers, Enqueue(f) PROVE Stock(c)' <= Cardinality(Takers(c)')
  <2>1. /\ Step(f, "enqueue", "return", "notify") /\ queue' = Append(queue, f)
        /\ on'[f] = PopCv
    BY <1>0, <1>9 DEF Enqueue, Using, CVTypeOK
  <2>2. pc[f] = "enqueue" /\ pc'[f] = "return" /\ at'[f] = "notify" /\ at[f] = "out"
    BY <2>1, StepOf
  <2>3. Len(queue') = Len(queue) + 1
    BY <1>0, <2>1
  <2>4. CASE c = PopCv
    <3>1. ~Takes(c, f) /\ Takes(c, f)'
      BY <2>1, <2>2, <2>4 DEF Takes, AwakeIn, Ops
    <3>2. Stock(c)' = Stock(c) + 1
      BY <2>3, <2>4 DEF Stock
    <3>. QED
      BY <1>9, <1>f, <3>1, <3>2 DEF ChannelStep
  <2>5. CASE c = PushCv
    <3>1. Takes(c, f) /\ ~Takes(c, f)'
      BY <1>4, <2>1, <2>2, <2>5 DEF Takes, AwakeIn, Ops
    <3>2. Stock(c)' = Stock(c) - 1
      BY <1>0, <1>4, <2>3, <2>5 DEF Stock
    <3>. QED
      BY <1>9, <1>e, <3>1, <3>2 DEF ChannelStep
  <2>. QED
    BY <1>4, <2>4, <2>5
<1>10. ASSUME NEW f \in Fibers, Dequeue(f) PROVE Stock(c)' <= Cardinality(Takers(c)')
  <2>1. /\ Step(f, "dequeue", "return", "notify") /\ queue' = Tail(queue)
        /\ on'[f] = PushCv
    BY <1>0, <1>10 DEF Dequeue, Using, CVTypeOK
  <2>2. pc[f] = "dequeue" /\ pc'[f] = "return" /\ at'[f] = "notify" /\ at[f] = "out"
    BY <2>1, StepOf
  <2>3. queue # <<>>
    BY <1>0, <2>2 DEF Tested
  <2>4. Len(queue') = Len(queue) - 1
    BY <1>0, <2>1, <2>3
  <2>5. CASE c = PopCv
    <3>1. Takes(c, f) /\ ~Takes(c, f)'
      BY <1>4, <2>1, <2>2, <2>5 DEF Takes, AwakeIn, Ops
    <3>2. Stock(c)' = Stock(c) - 1
      BY <2>4, <2>5 DEF Stock
    <3>. QED
      BY <1>10, <1>e, <3>1, <3>2 DEF ChannelStep
  <2>6. CASE c = PushCv
    <3>1. ~Takes(c, f) /\ Takes(c, f)'
      BY <1>4, <2>1, <2>2, <2>6 DEF Takes, AwakeIn, Ops
    <3>2. Stock(c)' = Stock(c) + 1
      BY <1>0, <1>4, <2>4, <2>6 DEF Stock
    <3>. QED
      BY <1>10, <1>f, <3>1, <3>2 DEF ChannelStep
  <2>. QED
    BY <1>4, <2>5, <2>6
<1>11. ASSUME NEW f \in Fibers
       PROVE  /\ ~WaitForTest(f) /\ ~WaitForWoken(f) /\ ~Close(f) /\ ~CloseNotifyPop(f)
              /\ ~Clear(f) /\ ~WaitForStep(f) /\ ~TimerStep(f)
  <2>1. ~WaitForTest(f) /\ ~WaitForWoken(f)
    BY <1>0 DEF Untimed, WaitForTest, WaitForWoken, Step
  <2>2. ~Close(f)
    BY DEF Close
  <2>3. ~CloseNotifyPop(f) /\ ~Clear(f)
    BY <1>0 DEF Tested, CloseNotifyPop, Clear, Step
  <2>4. ~WaitForStep(f) /\ ~TimerStep(f)
    BY <1>0 DEF Untimed, WaitForStep, TimerStep, WaitFor, YieldToHold, Woken, RelockFor,
                LeaveFor, Expire, TimerCallback, Goto
  <2>. QED
    BY <2>1, <2>2, <2>3, <2>4
<1> USE DEF chVars
<1>12. ASSUME NEW f \in Fibers, LockMutex(f) \/ UnlockMutex(f), UNCHANGED chVars
       PROVE  Stock(c)' <= Cardinality(Takers(c)')
  <2>1. /\ at[f] \in {"lock", "unlock"} /\ at'[f] = "out" /\ on' = on /\ tasks' = tasks
        /\ waitQueue' = waitQueue /\ \A g \in Fibers \ {f} : at'[g] = at[g]
    BY <1>0, <1>12 DEF LockMutex, UnlockMutex, Goto, CVTypeOK
  <2>2. \A g \in Fibers : Takes(c, g) => Takes(c, g)'
    BY <1>12, <2>1 DEF Takes, AwakeIn
  <2>. QED
    BY <1>12, <1>a, <2>1, <2>2
<1>13. ASSUME NEW f \in Fibers, Notify(f), UNCHANGED chVars
       PROVE  Stock(c)' <= Cardinality(Takers(c)')
  <2>1. /\ at[f] = "notify" /\ at'[f] = "out" /\ on' = on /\ pc' = pc /\ queue' = queue
        /\ isClose' = isClose /\ \A g \in Fibers \ {f} : at'[g] = at[g]
    BY <1>0, <1>13 DEF Notify, Goto, CVTypeOK
  <2>2. pc[f] \in {"return", "closePop", "clear"}
    BY <1>0, <2>1 DEF Placed
  <2>3. CASE waitQueue[on[f]] = {} /\ waitQueue' = waitQueue /\ tasks' = tasks
    <3>1. on[f] # c /\ waitQueue[c] # {}
      BY <2>3
    <3>2. \A g \in Fibers : Takes(c, g) => Takes(c, g)'
      BY <2>1, <2>2, <2>3, <3>1 DEF Takes, AwakeIn, Ops
    <3>. QED
      BY <1>a, <2>1, <3>1, <3>2
  <2>4. CASE \E w \in waitQueue[on[f]] :
               /\ w \in Fibers /\ tasks'[w] = tasks[w] + 1
               /\ waitQueue'[on[f]] = waitQueue[on[f]] \ {w}
               /\ \A d \in CondVars \ {on[f]} : waitQueue'[d] = waitQueue[d]
               /\ \A g \in Fibers \ {w} : tasks'[g] = tasks[g]
    <3>1. PICK w \in waitQueue[on[f]] :
            /\ w \in Fibers /\ tasks'[w] = tasks[w] + 1
            /\ waitQueue'[on[f]] = waitQueue[on[f]] \ {w}
            /\ \A d \in CondVars \ {on[f]} : waitQueue'[d] = waitQueue[d]
            /\ \A g \in Fibers \ {w} : tasks'[g] = tasks[g]
      BY <2>4
    <3>2. on[f] \in CondVars
      BY <1>0 DEF CVTypeOK
    <3>3. /\ on[w] = on[f] /\ at[w] \in {"yield", "asleep"} /\ tasks[w] = 0 /\ w # f
          /\ at'[w] = at[w]
      BY <1>0, <2>1, <3>1, <3>2 DEF Queued
    <3>4. (pc[w] = "pop" /\ on[w] = PopCv) \/ (pc[w] = "push" /\ on[w] = PushCv)
      BY <1>0, <3>1, <3>3 DEF Placed
    <3>5. CASE on[f] # c
      <4>1. waitQueue[c] # {}
        BY <3>1, <3>5
      <4>2. \A g \in Fibers \ {f, w} : Takes(c, g) => Takes(c, g)'
        BY <2>1, <3>1 DEF Takes, AwakeIn
      <4>3. ~Takes(c, f) /\ ~Takes(c, w)
        BY <1>4, <2>1, <2>2, <3>3, <3>4, <3>5 DEF Takes, AwakeIn, Ops
      <4>. QED
        BY <1>a, <2>1, <4>1, <4>2, <4>3
    <3>6. CASE on[f] = c
      <4>1. waitQueue[c] # {}
        BY <3>1, <3>6
      <4>2. \A g \in Fibers \ {f, w} : Takes(c, g)' <=> Takes(c, g)
        BY <2>1, <3>1 DEF Takes, AwakeIn
      <4>3. Takes(c, f) /\ ~Takes(c, f)'
        BY <2>1, <2>2, <3>6 DEF Takes, AwakeIn, Ops
      <4>4. ~Takes(c, w)
        BY <3>3 DEF Takes, AwakeIn
      <4>5. Takes(c, w)'
        BY <1>4, <2>1, <3>1, <3>3, <3>4, <3>6 DEF Takes, AwakeIn, Ops
      <4>6. PICK T : T = Takers(c) \ {f}
        OBVIOUS
      <4>7. Takers(c)' = T \cup {w} /\ w \notin T /\ f \in Takers(c)
        BY <1>1, <3>1, <3>3, <4>2, <4>3, <4>4, <4>5, <4>6
      <4>8. IsFiniteSet(T) /\ Cardinality(T) = Cardinality(Takers(c)) - 1
        BY <1>2, <4>6, <4>7, FS_RemoveElement
      <4>9. Cardinality(Takers(c)') = Cardinality(T) + 1
        BY <4>7, <4>8, FS_AddElement
      <4>10. Stock(c)' = Stock(c)
        BY <2>1 DEF Stock
      <4>. QED
        BY <1>2, <1>3, <1>5, <2>1, <4>1, <4>8, <4>9, <4>10
    <3>. QED
      BY <3>5, <3>6
  <2>. QED
    BY <1>0, <1>13, <2>3, <2>4, NoteOf
<1>14. ASSUME NEW f \in Fibers, Wait(f), UNCHANGED chVars
       PROVE  Stock(c)' <= Cardinality(Takers(c)')
  <2>1. /\ at[f] = "wait" /\ at'[f] = "yield" /\ on' = on /\ tasks' = tasks
        /\ \A g \in Fibers \ {f} : at'[g] = at[g]
        /\ waitQueue' = [waitQueue EXCEPT ![on[f]] = @ \cup {f}]
    BY <1>0, <1>14 DEF Wait, Goto, CVTypeOK
  <2>2. (pc[f] = "pop" /\ on[f] = PopCv) \/ (pc[f] = "push" /\ on[f] = PushCv)
    BY <1>0, <2>1 DEF Placed
  <2>3. (pc[f] = "pop" => queue = <<>>) /\ (pc[f] = "push" => Len(queue) >= Capacity)
    BY <1>0, <2>1 DEF Tested
  <2>4. CASE on[f] = c
    BY <1>0, <1>4, <1>14, <1>d, <2>2, <2>3, <2>4 DEF Stock
  <2>5. CASE on[f] # c
    <3>1. waitQueue[c] # {}
      BY <1>0, <2>1, <2>5 DEF CVTypeOK
    <3>2. ~Takes(c, f)
      BY <1>4, <2>1, <2>2, <2>5 DEF Takes, AwakeIn, Ops
    <3>3. \A g \in Fibers : Takes(c, g) => Takes(c, g)'
      BY <1>14, <2>1, <3>2 DEF Takes, AwakeIn
    <3>. QED
      BY <1>14, <1>a, <3>1, <3>3
  <2>. QED
    BY <2>4, <2>5
<1>15. ASSUME NEW f \in Fibers, YieldToHold(f, "yield", "asleep"), UNCHANGED chVars
       PROVE  Stock(c)' <= Cardinality(Takers(c)')
  <2>1. /\ at[f] = "yield" /\ on' = on /\ tasks' = tasks /\ waitQueue' = waitQueue
        /\ at'[f] = "asleep" /\ \A g \in Fibers \ {f} : at'[g] = at[g]
    BY <1>0, <1>15 DEF YieldToHold, Goto, CVTypeOK
  <2>2. \A g \in Fibers : Takes(c, g) => Takes(c, g)'
    BY <1>15, <2>1 DEF Takes, AwakeIn
  <2>. QED
    BY <1>15, <1>a, <2>1, <2>2
<1>16. ASSUME NEW f \in Fibers, Resume(f), UNCHANGED chVars
       PROVE  Stock(c)' <= Cardinality(Takers(c)')
  <2>1. /\ on' = on /\ waitQueue' = waitQueue /\ tasks[f] # 0
        /\ (at[f] = "asleep" /\ at'[f] = "lock") \/ at[f] = "asleepFor"
        /\ \A g \in Fibers \ {f} : at'[g] = at[g] /\ tasks'[g] = tasks[g]
    BY <1>0, <1>16 DEF Resume, Goto, CVTypeOK
  <2>2. at[f] = "asleep" /\ at'[f] = "lock"
    BY <1>0, <2>1 DEF Untimed
  <2>3. \A g \in Fibers : Takes(c, g) => Takes(c, g)'
    BY <1>16, <2>1, <2>2 DEF Takes, AwakeIn
  <2>. QED
    BY <1>16, <1>a, <2>1, <2>3
<1>17. CASE UNCHANGED vars
  <2>1. \A g \in Fibers : Takes(c, g) => Takes(c, g)'
    BY <1>17 DEF vars, cvVars, Takes, AwakeIn
  <2>. QED
    BY <1>17, <1>a, <2>1 DEF vars, cvVars
<1>. QED
  BY <1>6, <1>7, <1>8, <1>9, <1>10, <1>11, <1>12, <1>13, <1>14, <1>15, <1>16, <1>17
  DEF Next, ChannelStep, CVNext, CVStep

-----------------------------------------------------------------------------
(* Theorems *)

LEMMA InitIInv == Init => IInv
BY TypeInit, FiberInit, QueueInit, SideInit DEF IInv

LEMMA NextIInv == IInv /\ [Next]_vars => IInv'
<1> SUFFICES ASSUME IInv, [Next]_vars PROVE IInv'
  OBVIOUS
<1>1. TypeOK /\ FiberInv /\ QueueInv /\ \A c \in CondVars : Side(c)
  BY Sides DEF IInv, SidesInv
<1>2. TypeOK' /\ FiberInv' /\ QueueInv'
  BY <1>1, TypeNext, FiberNext, QueueNext
<1>3. NoTimeouts' => NoTimeouts
  <2>1. role' = role
    BY <1>1, StepOf, StepKinds DEF Next, vars, chVars
  <2>. QED
    BY <2>1 DEF NoTimeouts
<1>4. \A c \in CondVars : Side(c)'
  BY <1>1, <1>3, SideNext DEF Side
<1>5. NobodySleepsInVain' <=> SidesInv'
  BY Sides, PTL
<1>. QED
  BY <1>2, <1>4, <1>5 DEF IInv, SidesInv

\* The strengthening that the theorems rest on: what a function has tested under the
\* lock holds until it unlocks, and without timeouts a fiber is in the wait set of its
\* call or a task (channel.h:22-66, co_condvar.cc:77-98).
THEOREM InductiveInvariant == Spec => []IInv
BY InitIInv, NextIInv, PTL DEF Spec

\* No wakeup is lost on either side, for any capacity and any fibers that push, pop and
\* close: there are takers for all the messages while fibers wait in pop(), and for all
\* the free slots while fibers wait in push() (channel.h:25-66).
THEOREM NobodyEverSleepsInVain == Spec => []NobodySleepsInVain
<1>1. IInv => NobodySleepsInVain
  BY DEF IInv
<1>. QED
  BY <1>1, InductiveInvariant, PTL

LEMMA StepSimulated == IInv /\ [Next]_vars => [Abstract!Next]_<<queue, isClose>>
<1> SUFFICES ASSUME IInv, [Next]_vars PROVE [Abstract!Next]_<<queue, isClose>>
  OBVIOUS
<1>0. TypeOK /\ \A f \in Fibers : Tested(f)
  BY DEF IInv, FiberInv, FiberOf
<1>1. ASSUME NEW f \in Fibers, Enqueue(f) PROVE Abstract!Next
  <2>1. /\ Step(f, "enqueue", "return", "notify") /\ queue' = Append(queue, f)
        /\ isClose' = isClose
    BY <1>1 DEF Enqueue
  <2>2. ~isClose /\ Len(queue) < Capacity
    BY <1>0, <2>1, StepOf DEF Tested
  <2>3. Abstract!Push(f)
    BY <2>1, <2>2 DEF Abstract!Push
  <2>. QED
    BY <2>3 DEF Abstract!Next
<1>2. ASSUME NEW f \in Fibers, Dequeue(f) PROVE Abstract!Next
  <2>1. /\ Step(f, "dequeue", "return", "notify") /\ queue' = Tail(queue)
        /\ isClose' = isClose
    BY <1>2 DEF Dequeue
  <2>2. ~isClose /\ queue # <<>>
    BY <1>0, <2>1, StepOf DEF Tested
  <2>. QED
    BY <2>1, <2>2 DEF Abstract!Pop, Abstract!Next
<1>3. ASSUME NEW f \in Fibers, Close(f) PROVE [Abstract!Next]_<<queue, isClose>>
  <2>1. isClose' = TRUE /\ queue' = queue /\ isClose \in BOOLEAN
    BY <1>0, <1>3 DEF Close, TypeOK
  <2>. QED
    BY <2>1 DEF Abstract!Close, Abstract!Next
<1>4. ASSUME NEW f \in Fibers, Clear(f) PROVE Abstract!Next
  <2>1. Step(f, "clear", "return", "out") /\ queue' = <<>> /\ isClose' = isClose
    BY <1>4 DEF Clear
  <2>2. isClose
    BY <1>0, <2>1, StepOf DEF Tested
  <2>. QED
    BY <2>1, <2>2 DEF Abstract!Clear, Abstract!Next
<1>5. ASSUME NEW f \in Fibers,
             \/ Call(f) \/ Return(f) \/ PushTest(f) \/ PopTest(f)
             \/ WaitForTest(f) \/ WaitForWoken(f) \/ CloseNotifyPop(f)
      PROVE  UNCHANGED <<queue, isClose>>
  BY <1>5 DEF Call, Return, PushTest, PopTest, WaitForTest, WaitForWoken, CloseNotifyPop
<1>6. UNCHANGED chVars \/ UNCHANGED vars => UNCHANGED <<queue, isClose>>
  BY DEF vars, chVars
<1>. QED
  BY <1>1, <1>2, <1>3, <1>4, <1>5, <1>6 DEF Next, ChannelStep

\* The channel implements a bounded first-in first-out queue that closes once, whatever
\* mix of push(), pop(), waitFor() and close() runs on it, timeouts included
\* (channel.h:22-124).
THEOREM ChannelImplemented == Spec => ImplementsChannel
<1>1. Init => Abstract!Init
  BY DEF Init, Abstract!Init
<1>. QED
  BY <1>1, InductiveInvariant, StepSimulated, PTL DEF Spec, ImplementsChannel, Abstract!Spec
=============================================================================
