-------------------------- MODULE CoSemaphoreProofs --------------------------
(***************************************************************************)
(* CoSemaphore for any number of permits and fibers: m_used counts the     *)
(* permits that are out, and no notify() is lost.                          *)
(*                                                                         *)
(* Whoever reads or changes m_used has the CoMutex, so that the test of    *)
(* wait() still holds when the fiber counts its permit, or queues itself.  *)
(* A fiber is in the queue or among the tasks of the scheduler, never in   *)
(* both: notify() makes one waiter a taker, and no taker is counted twice. *)
(***************************************************************************)
EXTENDS CoSemaphore, FiniteSetTheorems, TLAPS

\* Where f is in the members of the semaphore goes with where it is in those of the
\* mutex and the condition variable.
Placed(f) ==
    /\ at[f] \in {"out", "lock", "unlock", "notify", "wait", "yield", "asleep"}
    /\ at[f] \in {"wait", "yield", "asleep"} => pc[f] = "wait"
    /\ at[f] = "unlock" => pc[f] \in {"client", "working"}
    /\ at[f] = "notify" => pc[f] = "leaveNotify"
    /\ at[f] = "lock" => pc[f] \in {"wait", "notify"}
    /\ pc[f] \in {"wait", "take", "leaveWait", "working"} => f \notin posters

\* f is between lock() and unlock() of the CoMutex.
Inside(f) ==
    \/ at[f] \in {"unlock", "notify", "wait"}
    \/ at[f] = "out" /\ pc[f] \in {"wait", "take", "leaveWait", "notify", "leaveNotify"}

Owned(f) == owner = f <=> Inside(f)

\* A fiber is in the queue or, once, among the tasks.
Queued(f) ==
    /\ f \in waitQueue[Cv] => at[f] \in {"yield", "asleep"} /\ tasks[f] = 0
    /\ tasks[f] # 0 => at[f] \in {"yield", "asleep"} /\ tasks[f] = 1

\* The test of wait() still holds.
Tested(f) ==
    /\ pc[f] = "take" => used < Num
    /\ at[f] = "wait" => used = Num

FiberOf(f) == Placed(f) /\ Owned(f) /\ Queued(f) /\ Tested(f)

FiberInv == \A f \in Fibers : FiberOf(f)

IInv ==
    /\ TypeOK
    /\ FiberInv
    /\ PermitsConserved
    /\ PermitsHaveTakers

-----------------------------------------------------------------------------
(* Steps *)

\* What a step of the semaphore itself does to its fiber.
LEMMA StepOf ==
    ASSUME TypeOK, NEW f \in Fibers, NEW from, NEW to, NEW call, Step(f, from, to, call)
    PROVE  /\ pc[f] = from /\ pc'[f] = to /\ at[f] = "out" /\ at'[f] = call
           /\ \A g \in Fibers \ {f} : pc'[g] = pc[g] /\ at'[g] = at[g]
           /\ owner' = owner /\ waitQueue' = waitQueue /\ tasks' = tasks /\ posters' = posters
BY DEF Step, Goto, TypeOK, CVTypeOK

LEMMA TypeInit == Init => TypeOK
<1> SUFFICES ASSUME Init PROVE TypeOK
  OBVIOUS
<1>1. CVTypeOK
  BY DEF Init, CVInit, CVTypeOK, CVLabels
<1>2. pc \in [Fibers -> Labels]
  BY DEF Init, Labels
<1>. QED
  BY <1>1, <1>2 DEF Init, TypeOK

LEMMA TypeNext == TypeOK /\ [Next]_vars => TypeOK'
<1> SUFFICES ASSUME TypeOK, [Next]_vars PROVE TypeOK'
  OBVIOUS
<1>0. CVTypeOK /\ posters \in PosterSets /\ used \in Nat /\ pc \in [Fibers -> Labels]
  BY DEF TypeOK
<1>1. ASSUME NEW f \in Fibers, NEW from, NEW to \in Labels, NEW call \in CVLabels,
             Step(f, from, to, call), used' \in Nat
      PROVE  TypeOK'
  <2>1. CVTypeOK'
    BY <1>0, <1>1 DEF Step, Goto, CVTypeOK
  <2>2. posters' \in PosterSets /\ pc' \in [Fibers -> Labels]
    BY <1>0, <1>1 DEF Step
  <2>. QED
    BY <1>1, <2>1, <2>2 DEF TypeOK
<1>2. ASSUME NEW f \in Fibers, CallWait(f) \/ CallNotify(f) \/ SemStep(f) PROVE TypeOK'
  <2>1. used' \in Nat
    BY <1>0, <1>2 DEF CallWait, CallNotify, SemStep, WaitTest, Take, LeaveWait, NotifyBody,
                      LeaveNotify, Step
  <2>2. PICK from, to, call :
          /\ Step(f, from, to, call)
          /\ to \in {"wait", "take", "leaveWait", "working", "notify", "leaveNotify", "client"}
          /\ call \in {"lock", "wait", "out", "unlock", "notify"}
    BY <1>2 DEF CallWait, CallNotify, SemStep, WaitTest, Take, LeaveWait, NotifyBody, LeaveNotify
  <2>3. to \in Labels /\ call \in CVLabels
    BY <2>2 DEF Labels, CVLabels
  <2>. QED
    BY <1>1, <2>1, <2>2, <2>3
<1>3. ASSUME NEW f \in Fibers, CVNext(f), UNCHANGED semVars PROVE TypeOK'
  <2>1. TypeOK'  <=> CVTypeOK'
    BY <1>0, <1>3 DEF semVars, TypeOK
  <2>2. CASE LockMutex(f)
    BY <1>0, <2>1, <2>2 DEF LockMutex, Goto, CVTypeOK, CVLabels
  <2>3. CASE UnlockMutex(f)
    BY <1>0, <2>1, <2>3 DEF UnlockMutex, Goto, CVTypeOK, CVLabels
  <2>4. CASE Notify(f)
    <3>1. waitQueue' \in [CondVars -> SUBSET Fibers]
      <4>1. \/ waitQueue' = waitQueue
            \/ \E w : waitQueue' = [waitQueue EXCEPT ![on[f]] = @ \ {w}]
        BY <2>4 DEF Notify
      <4>2. waitQueue \in [CondVars -> SUBSET Fibers] /\ on[f] \in CondVars
        BY <1>0 DEF CVTypeOK
      <4>. QED
        BY <4>1, <4>2
    <3>2. tasks' \in [Fibers -> Nat]
      BY <1>0, <2>4 DEF Notify, Submit, CVTypeOK
    <3>. QED
      BY <1>0, <2>1, <2>4, <3>1, <3>2 DEF Notify, Goto, CVTypeOK, CVLabels
  <2>5. CASE Wait(f)
    BY <1>0, <2>1, <2>5 DEF Wait, Goto, CVTypeOK, CVLabels
  <2>6. CASE YieldToHold(f, "yield", "asleep")
    BY <1>0, <2>1, <2>6 DEF YieldToHold, Goto, CVTypeOK, CVLabels
  <2>7. CASE Resume(f)
    <3>1. tasks' \in [Fibers -> Nat]
      BY <1>0, <2>7 DEF Resume, CVTypeOK
    <3>. QED
      BY <1>0, <2>1, <2>7, <3>1 DEF Resume, Goto, CVTypeOK, CVLabels
  <2>. QED
    BY <1>3, <2>2, <2>3, <2>4, <2>5, <2>6, <2>7 DEF CVNext, CVStep
<1>4. CASE UNCHANGED vars
  BY <1>0, <1>4 DEF vars, cvVars, semVars, TypeOK, CVTypeOK
<1>. QED
  BY <1>2, <1>3, <1>4 DEF Next

-----------------------------------------------------------------------------
(* Each fiber *)

LEMMA FiberInit == Init => FiberInv
<1> SUFFICES ASSUME Init, NEW f \in Fibers PROVE FiberOf(f)
  BY DEF FiberInv
<1>1. waitQueue[Cv] = {}
  BY CondVarsAssumption DEF Init, CVInit
<1>. QED
  BY <1>1, NoFiberAssumption
  DEF Init, CVInit, FiberOf, Placed, Owned, Inside, Queued, Tested

\* A fiber that a step is not about.
Alone(g) ==
    /\ pc'[g] = pc[g] /\ at'[g] = at[g] /\ tasks'[g] = tasks[g]
    /\ owner' = g <=> owner = g
    /\ g \in waitQueue'[Cv] <=> g \in waitQueue[Cv]
    /\ used' = used \/ ~Inside(g)

LEMMA FiberKept ==
    ASSUME NEW g \in Fibers, FiberOf(g), Alone(g), posters' = posters
    PROVE  FiberOf(g)'
<1>1. Placed(g)' /\ Queued(g)'
  BY DEF FiberOf, Placed, Queued, Alone
<1>2. Owned(g)'
  BY DEF FiberOf, Owned, Inside, Alone
<1>3. Tested(g)'
  <2>1. CASE used' = used
    BY <2>1 DEF FiberOf, Tested, Alone
  <2>2. CASE ~Inside(g)
    <3>1. at[g] # "wait" /\ (pc[g] = "take" => at[g] # "out")
      BY <2>2 DEF Inside
    <3>2. pc[g] # "take"
      BY <3>1 DEF FiberOf, Placed
    <3>. QED
      BY <3>1, <3>2 DEF Tested, Alone
  <2>. QED
    BY <2>1, <2>2 DEF Alone
<1>. QED
  BY <1>1, <1>2, <1>3 DEF FiberOf

LEMMA FiberNext == TypeOK /\ FiberInv /\ PermitsConserved /\ [Next]_vars => FiberInv'
<1> SUFFICES ASSUME TypeOK, FiberInv, PermitsConserved, [Next]_vars PROVE FiberInv'
  OBVIOUS
<1>0. CVTypeOK /\ used \in 0..Num /\ Num \in Nat /\ \A f \in Fibers : FiberOf(f)
  BY NumAssumption DEF TypeOK, FiberInv, PermitsConserved
<1>a. ASSUME NEW f \in Fibers, posters' = posters, \A g \in Fibers \ {f} : Alone(g), FiberOf(f)'
      PROVE  FiberInv'
  <2>1. ASSUME NEW g \in Fibers, g # f PROVE FiberOf(g)'
    BY <1>0, <1>a, <2>1, FiberKept
  <2>. QED
    BY <1>a, <2>1 DEF FiberInv
<1>1. ASSUME NEW f \in Fibers, NEW from, NEW to, NEW call, Step(f, from, to, call),
             used' = used \/ Inside(f), Placed(f)', Inside(f)' <=> Inside(f), Tested(f)'
      PROVE  FiberInv'
  <2>1. /\ at[f] = "out" /\ \A g \in Fibers \ {f} : pc'[g] = pc[g] /\ at'[g] = at[g]
        /\ owner' = owner /\ waitQueue' = waitQueue /\ tasks' = tasks /\ posters' = posters
    BY <1>1, StepOf
  <2>2. ASSUME NEW g \in Fibers, g # f PROVE Alone(g)
    <3>1. Inside(f) => ~Inside(g)
      BY <1>0, <2>2 DEF FiberOf, Owned
    <3>. QED
      BY <1>1, <2>1, <2>2, <3>1 DEF Alone
  <2>3. Owned(f)'
    BY <1>0, <1>1, <2>1 DEF FiberOf, Owned
  <2>4. tasks[f] = 0 /\ f \notin waitQueue[Cv]
    BY <1>0, <2>1 DEF FiberOf, Queued
  <2>5. Queued(f)'
    BY <2>1, <2>4 DEF Queued
  <2>. QED
    BY <1>1, <1>a, <2>1, <2>2, <2>3, <2>5 DEF FiberOf
<1>2. ASSUME NEW f \in Fibers, CallWait(f) PROVE FiberInv'
  <2>1. Step(f, "client", "wait", "lock") /\ used' = used /\ f \notin posters
    BY <1>2 DEF CallWait
  <2>2. /\ pc[f] = "client" /\ pc'[f] = "wait" /\ at[f] = "out" /\ at'[f] = "lock"
        /\ posters' = posters
    BY <2>1, StepOf
  <2>. QED
    BY <1>1, <2>1, <2>2 DEF Placed, Inside, Tested
<1>3. ASSUME NEW f \in Fibers, CallNotify(f) PROVE FiberInv'
  <2>1. PICK from \in {"client", "working"} : Step(f, from, "notify", "lock") /\ used' = used
    BY <1>3 DEF CallNotify
  <2>2. pc[f] = from /\ pc'[f] = "notify" /\ at[f] = "out" /\ at'[f] = "lock"
    BY <2>1, StepOf
  <2>. QED
    BY <1>1, <2>1, <2>2 DEF Placed, Inside, Tested
<1>4. ASSUME NEW f \in Fibers, WaitTest(f) PROVE FiberInv'
  <2>1. /\ used' = used
        /\ \/ used >= Num /\ Step(f, "wait", "wait", "wait")
           \/ ~(used >= Num) /\ Step(f, "wait", "take", "out")
    BY <1>4 DEF WaitTest
  <2>2. CASE used >= Num /\ Step(f, "wait", "wait", "wait")
    <3>1. /\ pc[f] = "wait" /\ pc'[f] = "wait" /\ at[f] = "out" /\ at'[f] = "wait"
          /\ posters' = posters
      BY <2>2, StepOf
    <3>2. f \notin posters /\ used' = Num
      BY <1>0, <2>1, <2>2, <3>1 DEF FiberOf, Placed
    <3>. QED
      BY <1>1, <2>1, <2>2, <3>1, <3>2 DEF Placed, Inside, Tested
  <2>3. CASE ~(used >= Num) /\ Step(f, "wait", "take", "out")
    <3>1. /\ pc[f] = "wait" /\ pc'[f] = "take" /\ at[f] = "out" /\ at'[f] = "out"
          /\ posters' = posters
      BY <2>3, StepOf
    <3>2. f \notin posters /\ used' < Num
      BY <1>0, <2>1, <2>3, <3>1 DEF FiberOf, Placed
    <3>. QED
      BY <1>1, <2>1, <2>3, <3>1, <3>2 DEF Placed, Inside, Tested
  <2>. QED
    BY <2>1, <2>2, <2>3
<1>5. ASSUME NEW f \in Fibers, Take(f) PROVE FiberInv'
  <2>1. Step(f, "take", "leaveWait", "out")
    BY <1>5 DEF Take
  <2>2. /\ pc[f] = "take" /\ pc'[f] = "leaveWait" /\ at[f] = "out" /\ at'[f] = "out"
        /\ posters' = posters
    BY <2>1, StepOf
  <2>3. f \notin posters
    BY <1>0, <2>2 DEF FiberOf, Placed
  <2>. QED
    BY <1>1, <2>1, <2>2, <2>3 DEF Placed, Inside, Tested
<1>6. ASSUME NEW f \in Fibers, LeaveWait(f) PROVE FiberInv'
  <2>1. Step(f, "leaveWait", "working", "unlock") /\ used' = used
    BY <1>6 DEF LeaveWait
  <2>2. /\ pc[f] = "leaveWait" /\ pc'[f] = "working" /\ at[f] = "out" /\ at'[f] = "unlock"
        /\ posters' = posters
    BY <2>1, StepOf
  <2>3. f \notin posters
    BY <1>0, <2>2 DEF FiberOf, Placed
  <2>. QED
    BY <1>1, <2>1, <2>2, <2>3 DEF Placed, Inside, Tested
<1>7. ASSUME NEW f \in Fibers, NotifyBody(f) PROVE FiberInv'
  <2>1. Step(f, "notify", "leaveNotify", "notify")
    BY <1>7 DEF NotifyBody
  <2>2. pc[f] = "notify" /\ pc'[f] = "leaveNotify" /\ at[f] = "out" /\ at'[f] = "notify"
    BY <2>1, StepOf
  <2>. QED
    BY <1>1, <2>1, <2>2 DEF Placed, Inside, Tested
<1>8. ASSUME NEW f \in Fibers, LeaveNotify(f) PROVE FiberInv'
  <2>1. Step(f, "leaveNotify", "client", "unlock") /\ used' = used
    BY <1>8 DEF LeaveNotify
  <2>2. pc[f] = "leaveNotify" /\ pc'[f] = "client" /\ at[f] = "out" /\ at'[f] = "unlock"
    BY <2>1, StepOf
  <2>. QED
    BY <1>1, <2>1, <2>2 DEF Placed, Inside, Tested
<1> USE DEF semVars
<1>9. ASSUME NEW f \in Fibers, LockMutex(f) \/ UnlockMutex(f), UNCHANGED semVars
      PROVE  FiberInv'
  <2>1. /\ pc' = pc /\ tasks' = tasks /\ waitQueue' = waitQueue /\ used' = used
        /\ posters' = posters
        /\ \A g \in Fibers \ {f} : at'[g] = at[g]
        /\ \/ at[f] = "lock" /\ owner = NoFiber /\ owner' = f
           \/ at[f] = "unlock" /\ owner' = NoFiber
        /\ at'[f] = "out"
    BY <1>0, <1>9 DEF LockMutex, UnlockMutex, Goto, CVTypeOK
  <2>2. at[f] = "unlock" => owner = f
    BY <1>0 DEF FiberOf, Owned, Inside
  <2>3. \A g \in Fibers \ {f} : Alone(g)
    BY <2>1, <2>2, NoFiberAssumption DEF Alone
  <2>4. Placed(f) /\ Queued(f) /\ Tested(f)
    BY <1>0 DEF FiberOf
  <2>5. Placed(f)' /\ Queued(f)' /\ Tested(f)'
    BY <2>1, <2>4 DEF Placed, Queued, Tested
  <2>6. Owned(f)'
    BY <2>1, <2>4, NoFiberAssumption DEF Placed, Owned, Inside
  <2>. QED
    BY <1>a, <2>1, <2>3, <2>5, <2>6 DEF FiberOf
<1>10. ASSUME NEW f \in Fibers, Notify(f), UNCHANGED semVars PROVE FiberInv'
  <2>1. /\ pc' = pc /\ used' = used /\ posters' = posters /\ owner' = owner
        /\ at[f] = "notify" /\ at'[f] = "out"
        /\ \A g \in Fibers \ {f} : at'[g] = at[g]
    BY <1>0, <1>10 DEF Notify, Goto, CVTypeOK
  <2>2. PICK W \in SUBSET waitQueue[Cv] :
          /\ waitQueue'[Cv] = waitQueue[Cv] \ W
          /\ \A g \in Fibers : tasks'[g] = IF g \in W THEN tasks[g] + 1 ELSE tasks[g]
    <3>1. on[f] = Cv /\ waitQueue \in [{Cv} -> SUBSET Fibers]
      BY <1>0, CondVarsAssumption DEF CVTypeOK
    <3>2. CASE waitQueue[Cv] = {}
      BY <1>10, <3>1, <3>2 DEF Notify
    <3>3. CASE waitQueue[Cv] # {}
      <4>1. PICK w \in waitQueue[Cv] :
              waitQueue' = [waitQueue EXCEPT ![Cv] = @ \ {w}] /\ Submit({w})
        BY <1>10, <3>1, <3>3 DEF Notify
      <4>. QED
        BY <3>1, <4>1 DEF Submit
    <3>. QED
      BY <3>2, <3>3
  <2>3. FiberOf(f)
    BY <1>0
  <2>4. f \notin waitQueue[Cv] /\ tasks[f] = 0 /\ pc[f] = "leaveNotify"
    BY <2>1, <2>3 DEF FiberOf, Queued, Placed
  <2>5. FiberOf(f)'
    <3>1. Placed(f)' /\ Tested(f)'
      BY <2>1, <2>3, <2>4 DEF FiberOf, Placed, Tested
    <3>2. Owned(f)'
      BY <2>1, <2>3, <2>4 DEF FiberOf, Owned, Inside
    <3>3. Queued(f)'
      BY <2>2, <2>4 DEF Queued
    <3>. QED
      BY <3>1, <3>2, <3>3 DEF FiberOf
  <2>6. ASSUME NEW g \in Fibers, g # f PROVE FiberOf(g)'
    <3>1. FiberOf(g)
      BY <1>0
    <3>2. CASE g \in W
      <4>1. tasks[g] = 0 /\ at[g] \in {"yield", "asleep"}
        BY <2>2, <3>1, <3>2 DEF FiberOf, Queued
      <4>2. Queued(g)'
        BY <2>1, <2>2, <2>6, <3>2, <4>1 DEF Queued
      <4>3. Placed(g)' /\ Tested(g)'
        BY <2>1, <2>6, <3>1 DEF FiberOf, Placed, Tested
      <4>4. Owned(g)'
        BY <2>1, <2>6, <3>1 DEF FiberOf, Owned, Inside
      <4>. QED
        BY <4>2, <4>3, <4>4 DEF FiberOf
    <3>3. CASE g \notin W
      <4>1. Alone(g)
        BY <2>1, <2>2, <2>6, <3>3 DEF Alone
      <4>. QED
        BY <2>1, <3>1, <4>1, FiberKept
    <3>. QED
      BY <3>2, <3>3
  <2>. QED
    BY <2>5, <2>6 DEF FiberInv
<1>11. ASSUME NEW f \in Fibers, Wait(f), UNCHANGED semVars PROVE FiberInv'
  <2>1. /\ pc' = pc /\ used' = used /\ posters' = posters /\ tasks' = tasks
        /\ owner' = NoFiber /\ at[f] = "wait" /\ at'[f] = "yield"
        /\ \A g \in Fibers \ {f} : at'[g] = at[g]
    BY <1>0, <1>11 DEF Wait, Goto, CVTypeOK
  <2>2. waitQueue'[Cv] = waitQueue[Cv] \cup {f}
    BY <1>0, <1>11, CondVarsAssumption DEF Wait, CVTypeOK
  <2>3. FiberOf(f)
    BY <1>0
  <2>4. owner = f /\ tasks[f] = 0 /\ pc[f] = "wait"
    BY <2>1, <2>3 DEF FiberOf, Owned, Inside, Queued, Placed
  <2>5. \A g \in Fibers \ {f} : Alone(g)
    BY <2>1, <2>2, <2>4, NoFiberAssumption DEF Alone
  <2>6. Placed(f)' /\ Tested(f)' /\ Queued(f)'
    BY <2>1, <2>3, <2>4 DEF FiberOf, Placed, Tested, Queued
  <2>7. Owned(f)'
    BY <2>1, <2>4, NoFiberAssumption DEF Owned, Inside
  <2>. QED
    BY <1>a, <2>1, <2>5, <2>6, <2>7 DEF FiberOf
<1>12. ASSUME NEW f \in Fibers, YieldToHold(f, "yield", "asleep"), UNCHANGED semVars
       PROVE  FiberInv'
  <2>1. /\ pc' = pc /\ used' = used /\ posters' = posters /\ tasks' = tasks
        /\ owner' = owner /\ waitQueue' = waitQueue /\ at[f] = "yield" /\ at'[f] = "asleep"
        /\ \A g \in Fibers \ {f} : at'[g] = at[g]
    BY <1>0, <1>12 DEF YieldToHold, Goto, CVTypeOK
  <2>2. FiberOf(f)
    BY <1>0
  <2>3. Placed(f)' /\ Queued(f)' /\ Tested(f)'
    BY <2>1, <2>2 DEF FiberOf, Placed, Queued, Tested
  <2>4. Owned(f)'
    BY <2>1, <2>2 DEF FiberOf, Owned, Inside
  <2>5. \A g \in Fibers \ {f} : Alone(g)
    BY <2>1 DEF Alone
  <2>. QED
    BY <1>a, <2>1, <2>3, <2>4, <2>5 DEF FiberOf
<1>13. ASSUME NEW f \in Fibers, Resume(f), UNCHANGED semVars PROVE FiberInv'
  <2>1. /\ pc' = pc /\ used' = used /\ posters' = posters /\ tasks[f] # 0
        /\ owner' = owner /\ waitQueue' = waitQueue /\ tasks'[f] = tasks[f] - 1
        /\ (at[f] = "asleep" /\ at'[f] = "lock") \/ at[f] = "asleepFor"
        /\ \A g \in Fibers \ {f} : at'[g] = at[g] /\ tasks'[g] = tasks[g]
    BY <1>0, <1>13 DEF Resume, Goto, CVTypeOK
  <2>2. FiberOf(f)
    BY <1>0
  <2>3. /\ at[f] = "asleep" /\ at'[f] = "lock" /\ pc[f] = "wait" /\ tasks[f] = 1
        /\ f \notin waitQueue[Cv]
    BY <2>1, <2>2 DEF FiberOf, Placed, Queued
  <2>4. Placed(f)' /\ Queued(f)' /\ Tested(f)'
    BY <2>1, <2>2, <2>3 DEF FiberOf, Placed, Queued, Tested
  <2>5. Owned(f)'
    BY <2>1, <2>2, <2>3 DEF FiberOf, Owned, Inside
  <2>6. \A g \in Fibers \ {f} : Alone(g)
    BY <2>1 DEF Alone
  <2>. QED
    BY <1>a, <2>1, <2>4, <2>5, <2>6 DEF FiberOf
<1>14. CASE UNCHANGED vars
  BY <1>0, <1>14, FiberKept DEF vars, cvVars, Alone, FiberInv
<1>. QED
  BY <1>2, <1>3, <1>4, <1>5, <1>6, <1>7, <1>8, <1>9, <1>10, <1>11, <1>12, <1>13, <1>14
  DEF Next, SemStep, CVNext, CVStep

-----------------------------------------------------------------------------
(* The permits *)

LEMMA FiniteSets ==
    /\ IsFiniteSet(Holders) /\ IsFiniteSet(Returning) /\ IsFiniteSet(Takers)
    /\ Cardinality(Holders) \in Nat /\ Cardinality(Returning) \in Nat
    /\ Cardinality(Takers) \in Nat
BY FibersAssumption, FS_Subset, FS_CardinalityType DEF Holders, Returning, Takers

LEMMA ConservedInit == Init => PermitsConserved
<1> SUFFICES ASSUME Init PROVE PermitsConserved
  OBVIOUS
<1>1. Holders = {} /\ Returning = {}
  BY DEF Init, Holders, Returning
<1>. QED
  BY <1>1, FS_EmptySet, NumAssumption DEF Init, PermitsConserved

LEMMA ConservedNext == TypeOK /\ FiberInv /\ PermitsConserved /\ [Next]_vars => PermitsConserved'
<1> SUFFICES ASSUME TypeOK, FiberInv, PermitsConserved, [Next]_vars PROVE PermitsConserved'
  OBVIOUS
<1>0. /\ \A f \in Fibers : FiberOf(f)
      /\ used \in 0..Num /\ Num \in Nat
      /\ posters = {} => used = Cardinality(Holders) + Cardinality(Returning)
  BY NumAssumption DEF FiberInv, PermitsConserved
<1>a. ASSUME used' = used, posters' = posters, Holders' = Holders, Returning' = Returning
      PROVE  PermitsConserved'
  BY <1>0, <1>a DEF PermitsConserved
<1>b. ASSUME NEW f \in Fibers, NEW from, NEW to, NEW call, Step(f, from, to, call), used' = used,
             from \in {"leaveWait", "working"} <=> to \in {"leaveWait", "working"},
             from # "notify", to # "notify"
      PROVE  PermitsConserved'
  <2>1. /\ pc[f] = from /\ pc'[f] = to /\ posters' = posters
        /\ \A g \in Fibers \ {f} : pc'[g] = pc[g]
    BY <1>b, StepOf
  <2>2. Holders' = Holders /\ Returning' = Returning
    BY <1>b, <2>1 DEF Holders, Returning
  <2>. QED
    BY <1>a, <1>b, <2>1, <2>2
<1>1. ASSUME NEW f \in Fibers,
             CallWait(f) \/ WaitTest(f) \/ LeaveWait(f) \/ LeaveNotify(f)
      PROVE  PermitsConserved'
  <2>1. CallWait(f) \/ LeaveNotify(f) => PermitsConserved'
    BY <1>b DEF CallWait, LeaveNotify
  <2>2. WaitTest(f) \/ LeaveWait(f) => PermitsConserved'
    BY <1>b DEF WaitTest, LeaveWait
  <2>. QED
    BY <1>1, <2>1, <2>2
<1>2. ASSUME NEW f \in Fibers, Take(f) PROVE PermitsConserved'
  <2>1. Step(f, "take", "leaveWait", "out") /\ used' = used + 1
    BY <1>2 DEF Take
  <2>2. /\ pc[f] = "take" /\ pc'[f] = "leaveWait" /\ posters' = posters
        /\ \A g \in Fibers \ {f} : pc'[g] = pc[g]
    BY <2>1, StepOf
  <2>3. used < Num
    BY <1>0, <2>2 DEF FiberOf, Tested
  <2>4. Holders' = Holders \cup {f} /\ f \notin Holders /\ Returning' = Returning
    BY <2>2 DEF Holders, Returning
  <2>5. Cardinality(Holders') = Cardinality(Holders) + 1
    BY <2>4, FiniteSets, FS_AddElement
  <2>. QED
    BY <1>0, <2>1, <2>2, <2>3, <2>4, <2>5, FiniteSets DEF PermitsConserved
<1>3. ASSUME NEW f \in Fibers, CallNotify(f) PROVE PermitsConserved'
  <2>1. /\ Step(f, IF f \in posters THEN "client" ELSE "working", "notify", "lock")
        /\ used' = used
    BY <1>3 DEF CallNotify
  <2>2. CASE f \in posters
    <3>1. posters' # {}
      BY <2>1, <2>2 DEF Step
    <3>. QED
      BY <1>0, <2>1, <3>1 DEF PermitsConserved
  <2>3. CASE f \notin posters
    <3>1. /\ pc[f] = "working" /\ pc'[f] = "notify" /\ posters' = posters
          /\ \A g \in Fibers \ {f} : pc'[g] = pc[g]
      BY <2>1, <2>3, StepOf
    <3>2. /\ Holders' = Holders \ {f} /\ f \in Holders
          /\ Returning' = Returning \cup {f} /\ f \notin Returning
      BY <3>1 DEF Holders, Returning
    <3>3. /\ Cardinality(Holders') = Cardinality(Holders) - 1
          /\ Cardinality(Returning') = Cardinality(Returning) + 1
      BY <3>2, FiniteSets, FS_AddElement, FS_RemoveElement
    <3>. QED
      BY <1>0, <2>1, <3>1, <3>3, FiniteSets DEF PermitsConserved
  <2>. QED
    BY <2>2, <2>3
<1>4. ASSUME NEW f \in Fibers, NotifyBody(f) PROVE PermitsConserved'
  <2>1. /\ Step(f, "notify", "leaveNotify", "notify")
        /\ used' = IF used > 0 THEN used - 1 ELSE used
    BY <1>4 DEF NotifyBody
  <2>2. /\ pc[f] = "notify" /\ pc'[f] = "leaveNotify" /\ posters' = posters
        /\ \A g \in Fibers \ {f} : pc'[g] = pc[g]
    BY <2>1, StepOf
  <2>3. Holders' = Holders /\ Returning' = Returning \ {f} /\ f \in Returning
    BY <2>2 DEF Holders, Returning
  <2>4. Cardinality(Returning') = Cardinality(Returning) - 1 /\ Cardinality(Returning') \in Nat
    BY <2>3, FiniteSets, FS_RemoveElement, FS_CardinalityType
  <2>. QED
    BY <1>0, <2>1, <2>2, <2>3, <2>4, FiniteSets DEF PermitsConserved
<1>5. CASE UNCHANGED semVars
  BY <1>a, <1>5 DEF semVars, Holders, Returning
<1>. QED
  BY <1>1, <1>2, <1>3, <1>4, <1>5 DEF Next, SemStep, vars

-----------------------------------------------------------------------------
(* The notifications *)

\* What makes f a taker.
Takes(f) ==
    \/ at[f] = "notify"
    \/ pc[f] \in {"wait", "take"} /\ (at[f] \in {"out", "lock"} \/ tasks[f] > 0)

LEMMA TakersInit == Init => PermitsHaveTakers
BY CondVarsAssumption DEF Init, CVInit, PermitsHaveTakers

LEMMA TakersNext ==
    TypeOK /\ FiberInv /\ PermitsConserved /\ PermitsHaveTakers /\ [Next]_vars => PermitsHaveTakers'
<1> SUFFICES ASSUME TypeOK, FiberInv, PermitsConserved, PermitsHaveTakers, [Next]_vars,
                    waitQueue'[Cv] # {}
             PROVE  Num - used' <= Cardinality(Takers')
  BY DEF PermitsHaveTakers
<1>0. /\ CVTypeOK /\ \A f \in Fibers : FiberOf(f)
      /\ used \in 0..Num /\ Num \in Nat
      /\ waitQueue[Cv] # {} => Num - used <= Cardinality(Takers)
      /\ Cardinality(Takers) \in Nat /\ IsFiniteSet(Takers)
  BY NumAssumption, FiniteSets DEF TypeOK, FiberInv, PermitsConserved, PermitsHaveTakers
<1>1. Takers = {f \in Fibers : Takes(f)} /\ Takers' = {f \in Fibers : Takes(f)'}
  BY DEF Takers, Takes
<1>2. IsFiniteSet(Takers') /\ Cardinality(Takers') \in Nat
  BY <1>1, FibersAssumption, FS_Subset, FS_CardinalityType
<1>a. ASSUME \A f \in Fibers : Takes(f) => Takes(f)', used' = used, waitQueue[Cv] # {}
      PROVE  Num - used' <= Cardinality(Takers')
  <2>1. Takers \subseteq Takers'
    BY <1>1, <1>a
  <2>2. Cardinality(Takers) <= Cardinality(Takers')
    BY <1>2, <2>1, FS_Subset
  <2>. QED
    BY <1>0, <1>2, <1>a, <2>2
<1>b. ASSUME NEW f \in Fibers, CallWait(f) \/ CallNotify(f) \/ SemStep(f)
      PROVE  /\ \A g \in Fibers \ {f} : Takes(g)' <=> Takes(g)
             /\ waitQueue[Cv] # {}
  <2>1. \E from, to, call : Step(f, from, to, call)
    BY <1>b DEF CallWait, CallNotify, SemStep, WaitTest, Take, LeaveWait, NotifyBody, LeaveNotify
  <2>. QED
    BY <2>1, StepOf DEF Takes
<1>3. ASSUME NEW f \in Fibers, CallWait(f) \/ CallNotify(f) \/ LeaveWait(f) \/ LeaveNotify(f)
      PROVE  Num - used' <= Cardinality(Takers')
  <2>1. PICK from, to, call :
          /\ Step(f, from, to, call) /\ used' = used
          /\ from \in {"client", "working", "leaveWait", "leaveNotify"}
    BY <1>3 DEF CallWait, CallNotify, LeaveWait, LeaveNotify
  <2>2. pc[f] = from /\ at[f] = "out"
    BY <2>1, StepOf
  <2>3. ~Takes(f)
    BY <2>1, <2>2 DEF Takes
  <2>. QED
    BY <1>3, <1>a, <1>b, <2>1, <2>3 DEF SemStep
<1>4. ASSUME NEW f \in Fibers, WaitTest(f) PROVE Num - used' <= Cardinality(Takers')
  <2>1. /\ used' = used
        /\ \/ used >= Num /\ Step(f, "wait", "wait", "wait")
           \/ ~(used >= Num) /\ Step(f, "wait", "take", "out")
    BY <1>4 DEF WaitTest
  <2>2. CASE used >= Num
    BY <1>0, <1>2, <2>1, <2>2
  <2>3. CASE Step(f, "wait", "take", "out")
    <3>1. pc'[f] = "take" /\ at'[f] = "out"
      BY <2>3, StepOf
    <3>2. Takes(f)'
      BY <3>1 DEF Takes
    <3>. QED
      BY <1>4, <1>a, <1>b, <2>1, <3>2 DEF SemStep
  <2>. QED
    BY <2>1, <2>2, <2>3
<1>5. ASSUME NEW f \in Fibers, Take(f) PROVE Num - used' <= Cardinality(Takers')
  <2>1. Step(f, "take", "leaveWait", "out") /\ used' = used + 1
    BY <1>5 DEF Take
  <2>2. /\ pc[f] = "take" /\ pc'[f] = "leaveWait" /\ at[f] = "out" /\ at'[f] = "out"
    BY <2>1, StepOf
  <2>3. Takes(f) /\ ~Takes(f)'
    BY <2>2 DEF Takes
  <2>4. Takers' = Takers \ {f} /\ f \in Takers /\ waitQueue[Cv] # {}
    BY <1>1, <1>5, <1>b, <2>3 DEF SemStep
  <2>5. Cardinality(Takers') = Cardinality(Takers) - 1
    BY <1>0, <2>4, FS_RemoveElement
  <2>. QED
    BY <1>0, <1>2, <2>1, <2>4, <2>5
<1>6. ASSUME NEW f \in Fibers, NotifyBody(f) PROVE Num - used' <= Cardinality(Takers')
  <2>1. /\ Step(f, "notify", "leaveNotify", "notify")
        /\ used' = IF used > 0 THEN used - 1 ELSE used
    BY <1>6 DEF NotifyBody
  <2>2. pc[f] = "notify" /\ at[f] = "out" /\ at'[f] = "notify"
    BY <2>1, StepOf
  <2>3. ~Takes(f) /\ Takes(f)'
    BY <2>2 DEF Takes
  <2>4. Takers' = Takers \cup {f} /\ f \notin Takers /\ waitQueue[Cv] # {}
    BY <1>1, <1>6, <1>b, <2>3 DEF SemStep
  <2>5. Cardinality(Takers') = Cardinality(Takers) + 1
    BY <1>0, <2>4, FS_AddElement
  <2>. QED
    BY <1>0, <1>2, <2>1, <2>4, <2>5
<1> USE DEF semVars
<1>7. ASSUME NEW f \in Fibers, Wait(f), UNCHANGED semVars PROVE Num - used' <= Cardinality(Takers')
  <2>1. at[f] = "wait" /\ used' = used
    BY <1>7 DEF Wait, Goto
  <2>2. used = Num
    BY <1>0, <2>1 DEF FiberOf, Tested
  <2>. QED
    BY <1>0, <1>2, <2>1, <2>2
<1>8. ASSUME NEW f \in Fibers, Notify(f), UNCHANGED semVars
      PROVE  Num - used' <= Cardinality(Takers')
  <2>1. /\ pc' = pc /\ used' = used /\ at[f] = "notify" /\ at'[f] = "out"
        /\ \A g \in Fibers \ {f} : at'[g] = at[g]
    BY <1>0, <1>8 DEF Notify, Goto, CVTypeOK
  <2>2. on[f] = Cv /\ waitQueue \in [{Cv} -> SUBSET Fibers]
    BY <1>0, CondVarsAssumption DEF CVTypeOK
  <2>3. waitQueue[Cv] # {}
    BY <1>8, <2>2 DEF Notify
  <2>4. PICK w \in waitQueue[Cv] : Submit({w})
    BY <1>8, <2>2, <2>3 DEF Notify
  <2>5. /\ w \in Fibers /\ tasks'[w] = tasks[w] + 1
        /\ \A g \in Fibers \ {w} : tasks'[g] = tasks[g]
    BY <2>2, <2>4 DEF Submit
  <2>6. tasks[w] = 0 /\ at[w] \in {"yield", "asleep"} /\ pc[w] = "wait" /\ w # f
    BY <1>0, <2>1, <2>4, <2>5 DEF FiberOf, Queued, Placed
  <2>7. ~Takes(w) /\ Takes(w)'
    BY <2>1, <2>5, <2>6 DEF Takes
  <2>8. Takes(f) /\ ~Takes(f)'
    <3>1. pc[f] = "leaveNotify"
      BY <1>0, <2>1 DEF FiberOf, Placed
    <3>. QED
      BY <2>1, <3>1 DEF Takes
  <2>9. \A g \in Fibers \ {f, w} : Takes(g)' <=> Takes(g)
    BY <2>1, <2>5 DEF Takes
  <2>10. PICK T : T = Takers \ {f}
    OBVIOUS
  <2>11. Takers' = T \cup {w} /\ w \notin T /\ f \in Takers
    BY <1>1, <2>5, <2>7, <2>8, <2>9, <2>10
  <2>12. IsFiniteSet(T) /\ Cardinality(T) = Cardinality(Takers) - 1
    BY <1>0, <2>10, <2>11, FS_RemoveElement
  <2>13. Cardinality(Takers') = Cardinality(T) + 1
    BY <2>11, <2>12, FS_AddElement
  <2>. QED
    BY <1>0, <1>2, <2>1, <2>3, <2>12, <2>13
<1>9. ASSUME NEW f \in Fibers, LockMutex(f) \/ UnlockMutex(f), UNCHANGED semVars
      PROVE  Num - used' <= Cardinality(Takers')
  <2>1. /\ pc' = pc /\ used' = used /\ tasks' = tasks /\ waitQueue' = waitQueue
        /\ \A g \in Fibers \ {f} : at'[g] = at[g]
        /\ at'[f] = "out" /\ at[f] # "notify"
    BY <1>0, <1>9 DEF LockMutex, UnlockMutex, Goto, CVTypeOK
  <2>. QED
    BY <1>a, <2>1 DEF Takes
<1>10. ASSUME NEW f \in Fibers, YieldToHold(f, "yield", "asleep"), UNCHANGED semVars
       PROVE  Num - used' <= Cardinality(Takers')
  <2>1. /\ pc' = pc /\ used' = used /\ tasks' = tasks /\ waitQueue' = waitQueue
        /\ \A g \in Fibers \ {f} : at'[g] = at[g]
        /\ at'[f] = "asleep" /\ at[f] = "yield"
    BY <1>0, <1>10 DEF YieldToHold, Goto, CVTypeOK
  <2>. QED
    BY <1>a, <2>1 DEF Takes
<1>11. ASSUME NEW f \in Fibers, Resume(f), UNCHANGED semVars
       PROVE  Num - used' <= Cardinality(Takers')
  <2>1. /\ pc' = pc /\ used' = used /\ waitQueue' = waitQueue
        /\ (at[f] = "asleep" /\ at'[f] = "lock") \/ at[f] = "asleepFor"
        /\ \A g \in Fibers \ {f} : at'[g] = at[g] /\ tasks'[g] = tasks[g]
    BY <1>0, <1>11 DEF Resume, Goto, CVTypeOK
  <2>2. at'[f] = "lock" /\ pc[f] = "wait"
    BY <1>0, <2>1 DEF FiberOf, Placed
  <2>. QED
    BY <1>a, <2>1, <2>2 DEF Takes
<1>12. CASE UNCHANGED vars
  BY <1>a, <1>12 DEF vars, cvVars, Takes
<1>. QED
  BY <1>3, <1>4, <1>5, <1>6, <1>7, <1>8, <1>9, <1>10, <1>11, <1>12
  DEF Next, SemStep, CVNext, CVStep

-----------------------------------------------------------------------------
(* Theorems *)

\* The strengthening that both properties need: what wait() has tested still holds when
\* it acts on it, and a fiber is queued or a task, not both (co_semaphore.h:53-72,
\* co_condvar.cc:77-98).
THEOREM InductiveInvariant == Spec => []IInv
<1>1. Init => IInv
  BY TypeInit, FiberInit, ConservedInit, TakersInit DEF IInv
<1>2. IInv /\ [Next]_vars => IInv'
  BY TypeNext, FiberNext, ConservedNext, TakersNext DEF IInv
<1>. QED
  BY <1>1, <1>2, PTL DEF Spec

\* m_used never wraps below 0 or exceeds m_num, and without posters it is the number of
\* permits that are out, for any m_num and any fibers (co_semaphore.h:56-60, 66-69).
THEOREM PermitsAlwaysConserved == Spec => []PermitsConserved
<1>1. IInv => PermitsConserved
  BY DEF IInv
<1>. QED
  BY <1>1, InductiveInvariant, PTL

\* No notify() is lost: while fibers wait, as many others are on their way as there are
\* free permits (co_semaphore.h:56-59, 66-71).
THEOREM NoNotifyLost == Spec => []PermitsHaveTakers
<1>1. IInv => PermitsHaveTakers
  BY DEF IInv
<1>. QED
  BY <1>1, InductiveInvariant, PTL
=============================================================================
