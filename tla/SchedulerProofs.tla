--------------------------- MODULE SchedulerProofs ---------------------------
(***************************************************************************)
(* Scheduler for any number of threads, fibers and callbacks: no fiber is  *)
(* forgotten, an ended fiber stays ended, and while nobody yields READY    *)
(* the threads leave nothing behind when they end.                         *)
(*                                                                         *)
(* A fiber that waits leaves a token behind: whoever it has registered     *)
(* with, an entry of m_tasks, or a thread that has just taken one.  Until  *)
(* a fiber calls YieldToReady() there is one token for each such fiber and *)
(* none for any other, so that no thread ever takes a fiber that has ended *)
(* and goes without a last look at the list.                               *)
(***************************************************************************)
EXTENDS Scheduler, FiniteSetTheorems, SequenceTheorems, TLAPS

Jobs == [fiber : Fibers \cup {None}, cb : Cbs \cup {None}, thread : Threads \cup {None}]

Running == {w \in Threads : pc[w] = "running"}

\* What m_activeThreads counts (scheduler.cc:144-146, 164-166).
ActiveIsRunning == active = Cardinality(Running) /\ (active = 0 <=> Running = {})

\* A thread that runs a fiber, and one that has taken it.
Runs(w, f) == pc[w] = "running" /\ running[w] = f
Taken(w, f) == pc[w] = "taken" /\ task[w].fiber = f

\* f can go on only when somebody resumes it, and somebody can.
Waits(f) ==
    \/ loc[f] = "hold" \/ state[f] = "HOLD"
    \/ state[f] = "INIT" /\ hasCb[f]

Kept(f) ==
    \/ f \in registered
    \/ f \in UserFibers \ submitted
    \/ InTasks(f)
    \/ \E w \in Threads : Taken(w, f)

-----------------------------------------------------------------------------
(* The invariant *)

\* A task is a fiber or a callback, a thread may have neither.
JobOf(t) == t.fiber = None \/ t.cb = None
Filled(t) == t.fiber # None \/ t.cb # None

ListInv ==
    /\ \A i \in 1..Len(tasks) : JobOf(tasks[i]) /\ Filled(tasks[i])
    /\ (\E w \in Threads : idleDone[w]) => \A i \in 1..Len(tasks) : tasks[i].thread = None

ThreadOf(w) ==
    /\ pc[w] = "none" => stop
    /\ idleDone[w] => stop
    /\ JobOf(task[w])
    /\ cbFiber[w] \notin UserFibers
    /\ pc[w] \in {"running", "check"} =>
          running[w] \in Fibers /\ (task[w].cb # None => cbFiber[w] = running[w])
    /\ pc[w] = "running" => loc[running[w]] # "out"

ThreadInv ==
    /\ \A w \in Threads : ThreadOf(w)
    /\ stop /\ ~joining => Ended
    /\ \A f \in Fibers : \A v, w \in Threads : Runs(v, f) /\ Runs(w, f) => v = w

FiberOf(f) ==
    /\ state[f] = "EXEC" <=> loc[f] \in {"body", "hold"}
    /\ loc[f] # "out" => \E w \in Threads : Runs(w, f)
    /\ state[f] = "unborn" => ~hasCb[f] /\ f \notin UserFibers
    /\ state[f] = "INIT" /\ hasCb[f] => f \in UserFibers
    /\ state[f] = "READY" => spins # 0

FiberInv == \A f \in Fibers : FiberOf(f)

\* Some thread is to look at the state of f.
Has(f) == \E w \in Threads : pc[w] \in {"running", "check"} /\ running[w] = f

\* Every fiber that waits has a token.
KeptOf(f) ==
    /\ Waits(f) => Kept(f)
    /\ state[f] = "READY" => Kept(f) \/ Has(f)

KeptInv == \A f \in Fibers : KeptOf(f)

Single(f) == \A i, j \in 1..Len(tasks) : tasks[i].fiber = f /\ tasks[j].fiber = f => i = j

\* Every token is the only one of a fiber that waits, as long as nobody has yielded READY.
TokenOf(f) ==
    /\ Kept(f) => Waits(f)
    /\ f \in registered => f \notin UserFibers \ submitted
    /\ f \in registered \cup (UserFibers \ submitted) =>
          ~InTasks(f) /\ \A w \in Threads : ~Taken(w, f)
    /\ InTasks(f) => \A w \in Threads : ~Taken(w, f)
    /\ Single(f)
    /\ \A v, w \in Threads : Taken(v, f) /\ Taken(w, f) => v = w

TokenInv == spins = 0 => \A f \in Fibers : TokenOf(f)

\* The thread will end without another look at the list.
Leaves(w) == pc[w] = "none" \/ (pc[w] = "taken" /\ task[w] = NoTask /\ idleDone[w])

RestInv == (spins = 0 /\ \A w \in Threads : Leaves(w)) => tasks = <<>>

IInv ==
    /\ TypeOK
    /\ active = Cardinality(Running)
    /\ ListInv
    /\ ThreadInv
    /\ FiberInv
    /\ KeptInv
    /\ TokenInv
    /\ RestInv

-----------------------------------------------------------------------------
(* The list *)

\* submit() puts one task at the end (scheduler.h:97-108).
LEMMA SubmitFacts ==
    ASSUME TypeOK, NEW t \in Jobs, Submit(t)
    PROVE  /\ tasks' \in Seq(Jobs)
           /\ Len(tasks') = Len(tasks) + 1
           /\ tasks'[Len(tasks) + 1] = t
           /\ \A i \in 1..Len(tasks) : tasks'[i] = tasks[i]
           /\ \A f \in Fibers : InTasks(f)' <=> InTasks(f) \/ t.fiber = f
<1>1. tasks \in Seq(Jobs)
  BY DEF TypeOK, Jobs
<1>2. /\ tasks' \in Seq(Jobs)
      /\ Len(tasks') = Len(tasks) + 1
      /\ tasks'[Len(tasks) + 1] = t
      /\ \A i \in 1..Len(tasks) : tasks'[i] = tasks[i]
  BY <1>1 DEF Submit
<1>3. Len(tasks) \in Nat
  BY <1>1
<1>4. \A i : i \in 1..Len(tasks') <=> i \in 1..Len(tasks) \/ i = Len(tasks) + 1
  BY <1>2, <1>3
<1>5. ASSUME NEW f \in Fibers PROVE InTasks(f)' <=> InTasks(f) \/ t.fiber = f
  BY <1>2, <1>3, <1>4 DEF InTasks
<1>. QED
  BY <1>2, <1>5

\* erase() takes one task from the list and leaves the others (scheduler.cc:127).
LEMMA WithoutFacts ==
    ASSUME TypeOK, NEW i \in 1..Len(tasks), tasks' = Without(tasks, i)
    PROVE  /\ tasks' \in Seq(Jobs) /\ tasks[i] \in Jobs
           /\ Len(tasks') = Len(tasks) - 1
           /\ \A j \in 1..Len(tasks') : tasks'[j] = tasks[IF j < i THEN j ELSE j + 1]
           /\ \A f \in Fibers : InTasks(f) => InTasks(f)' \/ tasks[i].fiber = f
           /\ \A f \in Fibers : InTasks(f)' => InTasks(f)
<1>0. tasks \in Seq(Jobs)
  BY DEF TypeOK, Jobs
<1>1. tasks \in Seq(Jobs) /\ Len(tasks) \in Nat
  BY <1>0
<1>2. PICK a : a = SubSeq(tasks, 1, i - 1)
  OBVIOUS
<1>3. PICK b : b = SubSeq(tasks, i + 1, Len(tasks))
  OBVIOUS
<1>4. a \in Seq(Jobs) /\ Len(a) = i - 1 /\ \A j \in 1..(i - 1) : a[j] = tasks[j]
  BY <1>1, <1>2
<1>5. b \in Seq(Jobs) /\ Len(b) = Len(tasks) - i /\ \A j \in 1..(Len(tasks) - i) : b[j] = tasks[i + j]
  BY <1>1, <1>3
<1>6. tasks' = a \o b
  BY <1>2, <1>3 DEF Without
<1>7. /\ tasks' \in Seq(Jobs) /\ tasks[i] \in Jobs
      /\ Len(tasks') = Len(tasks) - 1
  <2>1. tasks' \in Seq(Jobs)
    BY <1>4, <1>5, <1>6
  <2>2. tasks[i] \in Jobs
    BY <1>1
  <2>3. Len(tasks') = Len(tasks) - 1
    <3>1. Len(a \o b) = Len(a) + Len(b)
      BY <1>4, <1>5, ConcatProperties
    <3>. QED
      BY <3>1, <1>1, <1>4, <1>5, <1>6
  <2>. QED
    BY <2>1, <2>2, <2>3
<1>8. ASSUME NEW j \in 1..Len(tasks')
      PROVE  tasks'[j] = tasks[IF j < i THEN j ELSE j + 1]
  <2>1. CASE j < i
    BY <1>1, <1>4, <1>5, <1>6, <2>1
  <2>2. CASE ~(j < i)
    <3>1. tasks'[j] = b[j - (i - 1)]
      BY <1>1, <1>4, <1>5, <1>6, <1>7, <2>2
    <3>2. j - (i - 1) \in 1..(Len(tasks) - i) /\ i + (j - (i - 1)) = j + 1
      BY <1>1, <1>7, <2>2
    <3>3. b[j - (i - 1)] = tasks[j + 1]
      BY <1>5, <3>2
    <3>. QED
      BY <2>2, <3>1, <3>3
  <2>. QED
    BY <2>1, <2>2
<1>9. ASSUME NEW f \in Fibers, InTasks(f), tasks[i].fiber # f
      PROVE  InTasks(f)'
  <2>1. PICK j \in 1..Len(tasks) : tasks[j].fiber = f
    BY <1>9 DEF InTasks
  <2>2. PICK k : k = IF j < i THEN j ELSE j - 1
    OBVIOUS
  <2>3. k \in 1..Len(tasks') /\ (IF k < i THEN k ELSE k + 1) = j
    BY <1>1, <1>7, <1>9, <2>1, <2>2
  <2>. QED
    BY <1>8, <2>1, <2>3 DEF InTasks
<1>10. ASSUME NEW f \in Fibers, InTasks(f)'
       PROVE  InTasks(f)
  <2>1. PICK j \in 1..Len(tasks') : tasks'[j].fiber = f
    BY <1>10 DEF InTasks
  <2>2. (IF j < i THEN j ELSE j + 1) \in 1..Len(tasks)
    BY <1>1, <1>7, <2>1
  <2>. QED
    BY <1>8, <2>1, <2>2 DEF InTasks
<1>. QED
  BY <1>7, <1>8, <1>9, <1>10

\* What goes into the list is a fiber or a callback.
LEMMA JobFacts ==
    /\ NoTask \in Jobs /\ JobOf(NoTask)
    /\ \A f \in Fibers, t \in Threads \cup {None} :
          /\ Task(f, None, t) \in Jobs /\ JobOf(Task(f, None, t)) /\ Filled(Task(f, None, t))
          /\ Task(f, None, t).fiber = f /\ Task(f, None, t).thread = t
    /\ \A c \in Cbs, t \in Threads \cup {None} :
          /\ Task(None, c, t) \in Jobs /\ JobOf(Task(None, c, t)) /\ Filled(Task(None, c, t))
          /\ Task(None, c, t).fiber = None /\ Task(None, c, t).thread = t
    /\ None \notin Fibers /\ None \notin Cbs /\ None \notin Threads
BY NoneAssumption DEF Jobs, JobOf, Filled, Task, NoTask

-----------------------------------------------------------------------------
(* Types and the count of active threads *)

\* A thread resumes the fiber of its task.
LEMMA TakenFacts ==
    ASSUME TypeOK, NEW w \in Threads, TakenFiber(w)
    PROVE  \E f \in Fibers :
              /\ f = task[w].fiber /\ state[f] \notin Terminated
              /\ Resume(w, f) /\ hasCb' = hasCb /\ cbFiber' = cbFiber
<1>1. task[w] \in Jobs /\ task[w].fiber # None
  BY DEF TypeOK, Jobs, TakenFiber
<1>2. PICK f \in Fibers : f = task[w].fiber
  BY <1>1 DEF Jobs
<1>3. Resume(w, f) /\ state[f] \notin Terminated /\ hasCb' = hasCb /\ cbFiber' = cbFiber
  BY <1>2 DEF TakenFiber, Resume, GoesTo
<1>. QED
  BY <1>2, <1>3

LEMMA ActiveNext == IInv /\ [Next]_vars => active' = Cardinality(Running') /\ active' \in 0..Cardinality(Threads)
<1>. SUFFICES ASSUME IInv, [Next]_vars
              PROVE  active' = Cardinality(Running') /\ active' \in 0..Cardinality(Threads)
  OBVIOUS
<1>a. /\ IsFiniteSet(Running) /\ Cardinality(Running) \in Nat
      /\ active = Cardinality(Running) /\ TypeOK
  BY ThreadsAssumption, FS_Subset, FS_CardinalityType DEF IInv, Running
<1>b. IsFiniteSet(Running') /\ Cardinality(Running') \in 0..Cardinality(Threads)
  <2>1. Running' \subseteq Threads
    BY DEF Running
  <2>. QED
    BY <2>1, ThreadsAssumption, FS_Subset, FS_CardinalityType
<1>. SUFFICES active' = Cardinality(Running')
  BY <1>b
<1>c. ASSUME active' = active, \A w \in Threads : pc'[w] = "running" <=> pc[w] = "running"
      PROVE  active' = Cardinality(Running')
  <2>1. Running' = Running
    BY <1>c DEF Running
  <2>. QED
    BY <1>a, <1>c, <2>1
<1>d. ASSUME NEW w \in Threads, NEW f \in Fibers, Resume(w, f)
      PROVE  active' = Cardinality(Running')
  <2>1. Running' = Running \cup {w} /\ w \notin Running
    BY <1>a, <1>d DEF Resume, GoesTo, Running, TypeOK
  <2>2. active' = active + 1
    BY <1>d DEF Resume
  <2>. QED
    BY <1>a, <2>1, <2>2, FS_AddElement

<1>1. CASE Start
  <2>1. \A w \in Threads : pc[w] = "none"
    BY <1>1 DEF IInv, ThreadInv, Start, Ended
  <2>. QED
    BY <1>c, <1>1, <2>1 DEF Start
<1>2. CASE Stop
  BY <1>c, <1>2 DEF Stop, threadVars
<1>3. CASE Joined
  BY <1>c, <1>3 DEF Joined, threadVars
<1>4. CASE SubmitNew
  BY <1>c, <1>4 DEF SubmitNew, threadVars
<1>5. ASSUME NEW f \in Fibers, Wake(f) PROVE active' = Cardinality(Running')
  BY <1>c, <1>5 DEF Wake, threadVars
<1>6. ASSUME NEW f \in Fibers, Register(f) PROVE active' = Cardinality(Running')
  BY <1>c, <1>6 DEF Register, Moves, threadVars
<1>7. ASSUME NEW f \in Fibers, YieldToHold(f) PROVE active' = Cardinality(Running')
  BY <1>c, <1>7 DEF YieldToHold, Moves, threadVars
<1>8. ASSUME NEW f \in Fibers, YieldToReady(f) PROVE active' = Cardinality(Running')
  BY <1>c, <1>8 DEF YieldToReady, Moves, threadVars
<1>9. ASSUME NEW f \in Fibers, Finish(f) PROVE active' = Cardinality(Running')
  BY <1>c, <1>9 DEF Finish, Moves, threadVars
<1>10. ASSUME NEW w \in Threads, Scan(w) PROVE active' = Cardinality(Running')
  BY <1>a, <1>c, <1>10 DEF Scan, GoesTo, TypeOK
<1>11. ASSUME NEW w \in Threads, TakenFiber(w) PROVE active' = Cardinality(Running')
  BY <1>a, <1>d, <1>11 DEF TakenFiber, TypeOK
<1>12. ASSUME NEW w \in Threads, TakenCb(w) PROVE active' = Cardinality(Running')
  BY <1>d, <1>12 DEF TakenCb
<1>13. ASSUME NEW w \in Threads, TakenWrong(w) PROVE active' = Cardinality(Running')
  BY <1>c, <1>13 DEF TakenWrong, threadVars
<1>14. ASSUME NEW w \in Threads, TakenNothing(w) PROVE active' = Cardinality(Running')
  BY <1>a, <1>c, <1>14 DEF TakenNothing, GoesTo, TypeOK
<1>15. ASSUME NEW w \in Threads, Idle(w) PROVE active' = Cardinality(Running')
  BY <1>a, <1>c, <1>15 DEF Idle, GoesTo, TypeOK
<1>16. ASSUME NEW w \in Threads, Return(w) PROVE active' = Cardinality(Running')
  <2>1. Running' = Running \ {w} /\ w \in Running
    BY <1>a, <1>16 DEF Return, GoesTo, Running, TypeOK
  <2>2. active' = active - 1
    BY <1>16 DEF Return
  <2>. QED
    BY <1>a, <2>1, <2>2, FS_RemoveElement
<1>17. ASSUME NEW w \in Threads, Check(w) PROVE active' = Cardinality(Running')
  BY <1>a, <1>c, <1>17 DEF Check, GoesTo, TypeOK
<1>18. ASSUME NEW w \in Threads, CheckWrong(w) PROVE active' = Cardinality(Running')
  BY <1>c, <1>18 DEF CheckWrong, threadVars
<1>19. CASE UNCHANGED vars
  BY <1>c, <1>19 DEF vars, threadVars
<1>. QED
  BY <1>1, <1>2, <1>3, <1>4, <1>5, <1>6, <1>7, <1>8, <1>9, <1>10,
     <1>11, <1>12, <1>13, <1>14, <1>15, <1>16, <1>17, <1>18, <1>19
  DEF Next, FiberStep, ThreadStep

LEMMA TypeNext == IInv /\ [Next]_vars => TypeOK'
<1>. SUFFICES ASSUME IInv, [Next]_vars PROVE TypeOK'
  OBVIOUS
<1>a. TypeOK /\ active' \in 0..Cardinality(Threads) /\ ThreadInv
  BY ActiveNext DEF IInv
<1>. USE BoundsAssumption DEF Jobs, Terminated
<1>1. CASE Start
  BY <1>a, <1>1 DEF TypeOK, Start, poolVars, fiberVars, clientVars, threadVars
<1>2. CASE Stop
  BY <1>a, <1>2 DEF TypeOK, Stop, poolVars, fiberVars, clientVars, threadVars
<1>3. CASE Joined
  BY <1>a, <1>3 DEF TypeOK, Joined, poolVars, fiberVars, clientVars, threadVars
<1>4. CASE SubmitNew
  <2>1. PICK t \in Threads \cup {None} :
           \/ \E f \in UserFibers \ submitted :
                 submitted' = submitted \cup {f} /\ Submit(Task(f, None, t))
           \/ \E c \in Cbs \ submitted :
                 submitted' = submitted \cup {c} /\ Submit(Task(None, c, t))
    BY <1>4 DEF SubmitNew
  <2>2. submitted' \subseteq UserFibers \cup Cbs
    BY <1>a, <2>1 DEF TypeOK
  <2>3. \E job \in Jobs : Submit(job)
    BY <2>1, JobFacts, UserFibersAssumption
  <2>4. tasks' \in Seq(Jobs)
    BY <1>a, <2>3, SubmitFacts
  <2>. QED
    BY <1>a, <2>2, <2>4, <1>4 DEF TypeOK, SubmitNew, poolVars, fiberVars, threadVars
<1>5. ASSUME NEW f \in Fibers, Wake(f) PROVE TypeOK'
  <2>1. tasks' \in Seq(Jobs)
    BY <1>a, <1>5, SubmitFacts, JobFacts DEF Wake, FiberTask
  <2>. QED
    BY <1>a, <2>1, <1>5 DEF TypeOK, Wake, poolVars, fiberVars, threadVars
<1>6. ASSUME NEW f \in Fibers, Register(f) PROVE TypeOK'
  <2>0. holds \in 0..MaxHolds /\ holds' = holds + 1 /\ holds < MaxHolds /\ MaxHolds \in Nat
    BY <1>a, <1>6, BoundsAssumption DEF TypeOK, Register
  <2>1. holds' \in 0..MaxHolds
    BY <2>0
  <2>2. registered' \subseteq Fibers /\ loc' \in [Fibers -> {"out", "body", "hold", "leaving"}]
    BY <1>a, <1>6 DEF TypeOK, Register, Moves
  <2>. QED
    BY <1>a, <2>1, <2>2, <1>6 DEF TypeOK, Register, Moves, poolVars, threadVars
<1>7. ASSUME NEW f \in Fibers, YieldToHold(f) PROVE TypeOK'
  BY <1>a, <1>7 DEF TypeOK, YieldToHold, Moves, Terminated, poolVars, threadVars
<1>8. ASSUME NEW f \in Fibers, YieldToReady(f) PROVE TypeOK'
  <2>0. spins \in 0..MaxSpins /\ spins' = spins + 1 /\ spins < MaxSpins /\ MaxSpins \in Nat
    BY <1>a, <1>8, BoundsAssumption DEF TypeOK, YieldToReady
  <2>1. spins' \in 0..MaxSpins
    BY <2>0
  <2>2. loc' \in [Fibers -> {"out", "body", "hold", "leaving"}]
    BY <1>a, <1>8 DEF TypeOK, YieldToReady, Moves
  <2>3. state' \in [Fibers -> {"unborn", "INIT", "HOLD", "EXEC", "READY"} \cup Terminated]
    BY <1>a, <1>8 DEF TypeOK, YieldToReady
  <2>. QED
    BY <1>a, <2>1, <2>2, <2>3, <1>8 DEF TypeOK, YieldToReady, Moves, poolVars, threadVars
<1>9. ASSUME NEW f \in Fibers, Finish(f) PROVE TypeOK'
  BY <1>a, <1>9 DEF TypeOK, Finish, Moves, Terminated, poolVars, threadVars
<1>10. ASSUME NEW w \in Threads, Scan(w) PROVE TypeOK'
  <2>1. tasks' \in Seq(Jobs) /\ task' \in [Threads -> Jobs]
    <3>1. ASSUME NEW i \in 1..Len(tasks), Takes(w, tasks[i]), tasks' = Without(tasks, i)
          PROVE  tasks' \in Seq(Jobs) /\ task' \in [Threads -> Jobs]
      BY <1>a, <3>1, WithoutFacts DEF Takes, TypeOK
    <3>2. CASE FindsNothing(w) /\ UNCHANGED tasks
      BY <1>a, <3>2, JobFacts DEF FindsNothing, Takes, TypeOK
    <3>. QED
      BY <1>10, <3>1, <3>2 DEF Scan
  <2>. QED
    BY <1>a, <2>1, <1>10 DEF TypeOK, Scan, GoesTo, poolVars, fiberVars, clientVars
<1>11. ASSUME NEW w \in Threads, TakenFiber(w) PROVE TypeOK'
  <2>1. PICK f \in Fibers : Resume(w, f) /\ hasCb' = hasCb /\ cbFiber' = cbFiber
    BY <1>11, TakenFacts, <1>a
  <2>. QED
    BY <1>a, <2>1 DEF TypeOK, Resume, GoesTo, poolVars, clientVars
<1>12. ASSUME NEW w \in Threads, TakenCb(w) PROVE TypeOK'
  <2>1. PICK f \in Fibers : /\ Resume(w, f)
                              /\ hasCb' = [hasCb EXCEPT ![f] = TRUE]
                              /\ cbFiber' = [cbFiber EXCEPT ![w] = f]
    BY <1>12 DEF TakenCb
  <2>. QED
    BY <1>a, <2>1 DEF TypeOK, Resume, GoesTo, poolVars, clientVars
<1>13. ASSUME NEW w \in Threads, TakenWrong(w) PROVE TypeOK'
  BY <1>a, <1>13 DEF TypeOK, TakenWrong, poolVars, fiberVars, clientVars, threadVars
<1>14. ASSUME NEW w \in Threads, TakenNothing(w) PROVE TypeOK'
  <2>1. task' \in [Threads -> Jobs]
    BY <1>a, JobFacts, <1>14 DEF TakenNothing, TypeOK
  <2>. QED
    BY <1>a, <2>1, <1>14 DEF TypeOK, TakenNothing, GoesTo, poolVars, fiberVars, clientVars
<1>15. ASSUME NEW w \in Threads, Idle(w) PROVE TypeOK'
  BY <1>a, <1>15 DEF TypeOK, Idle, GoesTo, poolVars, fiberVars, clientVars, threadVars
<1>16. ASSUME NEW w \in Threads, Return(w) PROVE TypeOK'
  BY <1>a, <1>16 DEF TypeOK, Return, GoesTo, poolVars, fiberVars, clientVars, threadVars
<1>17. ASSUME NEW w \in Threads, Check(w) PROVE TypeOK'
  <2>1. running[w] \in Fibers
    BY <1>a, <1>17 DEF Check, GoesTo, ThreadInv, ThreadOf
  <2>2. tasks' \in Seq(Jobs)
    <3>1. FiberTask(running[w]) \in Jobs
      BY <2>1, JobFacts DEF FiberTask
    <3>2. CASE Submit(FiberTask(running[w]))
      BY <1>a, <3>1, <3>2, SubmitFacts
    <3>3. CASE tasks' = tasks
      BY <1>a, <3>3 DEF TypeOK
    <3>. QED
      BY <1>17, <3>2, <3>3 DEF Check
  <2>3. /\ state' \in [Fibers -> {"unborn", "INIT", "HOLD", "EXEC", "READY"} \cup Terminated]
        /\ hasCb' \in [Fibers -> BOOLEAN] /\ cbFiber' \in [Threads -> Fibers \cup {None}]
    BY <1>a, <2>1, <1>17 DEF Check, TypeOK
  <2>4. task' \in [Threads -> Jobs]
    BY <1>a, JobFacts, <1>17 DEF Check, TypeOK
  <2>. QED
    BY <1>a, <2>2, <2>3, <2>4, <1>17 DEF TypeOK, Check, GoesTo, poolVars, clientVars
<1>18. ASSUME NEW w \in Threads, CheckWrong(w) PROVE TypeOK'
  BY <1>a, <1>18 DEF TypeOK, CheckWrong, poolVars, fiberVars, clientVars, threadVars
<1>19. CASE UNCHANGED vars
  BY <1>a, <1>19 DEF TypeOK, vars, poolVars, fiberVars, clientVars, threadVars
<1>. QED
  BY <1>1, <1>2, <1>3, <1>4, <1>5, <1>6, <1>7, <1>8, <1>9, <1>10,
     <1>11, <1>12, <1>13, <1>14, <1>15, <1>16, <1>17, <1>18, <1>19
  DEF Next, FiberStep, ThreadStep

-----------------------------------------------------------------------------
(* What is in the list *)

LEMMA ListNext == IInv /\ [Next]_vars => ListInv'
<1>. SUFFICES ASSUME IInv, [Next]_vars PROVE ListInv'
  OBVIOUS
<1>a. TypeOK /\ ThreadInv /\ ListInv /\ tasks \in Seq(Jobs)
  BY DEF IInv, TypeOK, Jobs
<1>b. ASSUME tasks' = tasks, \A w \in Threads : idleDone'[w] => idleDone[w] \/ tasks = <<>>
      PROVE  ListInv'
  BY <1>a, <1>b DEF ListInv
<1>c. ASSUME NEW t \in Jobs, Submit(t), JobOf(t), Filled(t), idleDone' = idleDone,
             (\E w \in Threads : idleDone[w]) => t.thread = None
      PROVE  ListInv'
  <2>1. /\ Len(tasks') = Len(tasks) + 1 /\ Len(tasks) \in Nat
        /\ tasks'[Len(tasks) + 1] = t
        /\ \A i \in 1..Len(tasks) : tasks'[i] = tasks[i]
    BY <1>a, <1>c, SubmitFacts
  <2>2. ASSUME NEW i \in 1..Len(tasks')
        PROVE  tasks'[i] = t \/ (i \in 1..Len(tasks) /\ tasks'[i] = tasks[i])
    BY <2>1
  <2>. QED
    BY <1>a, <1>c, <2>2 DEF ListInv
<1>1. CASE Start
  BY <1>a, <1>b, <1>1 DEF Start
<1>2. CASE Stop
  BY <1>b, <1>2 DEF Stop, threadVars
<1>3. CASE Joined
  BY <1>b, <1>3 DEF Joined, threadVars
<1>4. CASE SubmitNew
  <2>1. PICK t \in Threads \cup {None} :
           /\ stop => t = None
           /\ \/ \E f \in UserFibers : Submit(Task(f, None, t))
              \/ \E c \in Cbs : Submit(Task(None, c, t))
    BY <1>4 DEF SubmitNew
  <2>2. (\E w \in Threads : idleDone[w]) => t = None
    BY <1>a, <2>1 DEF ThreadInv, ThreadOf
  <2>3. \E job \in Jobs : Submit(job) /\ JobOf(job) /\ Filled(job) /\ job.thread = t
    BY <2>1, JobFacts, UserFibersAssumption
  <2>4. idleDone' = idleDone
    BY <1>4 DEF SubmitNew, threadVars
  <2>. QED
    BY <1>c, <2>2, <2>3, <2>4
<1>5. ASSUME NEW f \in Fibers, Wake(f) PROVE ListInv'
  BY <1>c, JobFacts, <1>5 DEF Wake, FiberTask, threadVars
<1>6. ASSUME NEW f \in Fibers, Register(f) PROVE ListInv'
  BY <1>b, <1>6 DEF Register, Moves, threadVars
<1>7. ASSUME NEW f \in Fibers, YieldToHold(f) PROVE ListInv'
  BY <1>b, <1>7 DEF YieldToHold, Moves, threadVars
<1>8. ASSUME NEW f \in Fibers, YieldToReady(f) PROVE ListInv'
  BY <1>b, <1>8 DEF YieldToReady, Moves, threadVars
<1>9. ASSUME NEW f \in Fibers, Finish(f) PROVE ListInv'
  BY <1>b, <1>9 DEF Finish, Moves, threadVars
<1>10. ASSUME NEW w \in Threads, Scan(w) PROVE ListInv'
  <2>1. idleDone' = idleDone
    BY <1>10 DEF Scan
  <2>2. CASE \E i \in 1..Len(tasks) : tasks' = Without(tasks, i)
    <3>1. PICK i \in 1..Len(tasks) : tasks' = Without(tasks, i)
      BY <2>2
    <3>2. /\ Len(tasks') = Len(tasks) - 1 /\ Len(tasks) \in Nat
          /\ \A j \in 1..Len(tasks') : tasks'[j] = tasks[IF j < i THEN j ELSE j + 1]
      BY <1>a, <3>1, WithoutFacts
    <3>3. \A j \in 1..Len(tasks') : \E k \in 1..Len(tasks) : tasks'[j] = tasks[k]
      BY <3>2
    <3>. QED
      BY <1>a, <2>1, <3>3 DEF ListInv
  <2>3. CASE tasks' = tasks
    BY <1>b, <2>1, <2>3
  <2>. QED
    BY <2>2, <2>3, <1>10 DEF Scan
<1>11. ASSUME NEW w \in Threads, TakenFiber(w) PROVE ListInv'
  BY <1>b, <1>11 DEF TakenFiber, Resume
<1>12. ASSUME NEW w \in Threads, TakenCb(w) PROVE ListInv'
  BY <1>b, <1>12 DEF TakenCb, Resume
<1>13. ASSUME NEW w \in Threads, TakenWrong(w) PROVE ListInv'
  BY <1>b, <1>13 DEF TakenWrong, threadVars
<1>14. ASSUME NEW w \in Threads, TakenNothing(w) PROVE ListInv'
  BY <1>b, <1>14 DEF TakenNothing, threadVars
<1>15. ASSUME NEW w \in Threads, Idle(w) PROVE ListInv'
  BY <1>a, <1>b, <1>15 DEF Idle, TypeOK
<1>16. ASSUME NEW w \in Threads, Return(w) PROVE ListInv'
  BY <1>b, <1>16 DEF Return, threadVars
<1>17. ASSUME NEW w \in Threads, Check(w) PROVE ListInv'
  <2>1. running[w] \in Fibers
    BY <1>a, <1>17 DEF Check, GoesTo, ThreadInv, ThreadOf
  <2>2. idleDone' = idleDone
    BY <1>17 DEF Check
  <2>3. CASE Submit(FiberTask(running[w]))
    <3>1. /\ FiberTask(running[w]) \in Jobs /\ JobOf(FiberTask(running[w]))
          /\ Filled(FiberTask(running[w]))
          /\ FiberTask(running[w]).thread = None
      BY <2>1, JobFacts DEF FiberTask
    <3>. QED
      BY <1>c, <2>2, <2>3, <3>1
  <2>4. CASE tasks' = tasks
    BY <1>b, <2>2, <2>4
  <2>. QED
    BY <2>3, <2>4, <1>17 DEF Check
<1>18. ASSUME NEW w \in Threads, CheckWrong(w) PROVE ListInv'
  BY <1>b, <1>18 DEF CheckWrong, threadVars
<1>19. CASE UNCHANGED vars
  BY <1>b, <1>19 DEF vars, threadVars
<1>. QED
  BY <1>1, <1>2, <1>3, <1>4, <1>5, <1>6, <1>7, <1>8, <1>9, <1>10,
     <1>11, <1>12, <1>13, <1>14, <1>15, <1>16, <1>17, <1>18, <1>19
  DEF Next, FiberStep, ThreadStep

-----------------------------------------------------------------------------
(* Threads *)

\* A thread that does nothing, while the fiber it runs keeps the thread.
LEMMA ThreadKept ==
    ASSUME TypeOK, NEW v \in Threads, ThreadOf(v), stop => stop',
           pc'[v] = pc[v], running'[v] = running[v], task'[v] = task[v],
           cbFiber'[v] = cbFiber[v], idleDone'[v] = idleDone[v],
           \A f \in Fibers : Runs(v, f) /\ loc[f] # "out" => loc'[f] # "out"
    PROVE  ThreadOf(v)'
BY DEF ThreadOf, Runs

LEMMA ThreadNext == IInv /\ [Next]_vars => ThreadInv'
<1>. SUFFICES ASSUME IInv, [Next]_vars PROVE ThreadInv'
  OBVIOUS
<1>a. TypeOK /\ ThreadInv /\ FiberInv /\ ListInv /\ \A v \in Threads : ThreadOf(v)
  BY DEF IInv, ThreadInv
<1>. DEFINE ParkedNext == stop' /\ ~joining' => Ended'
            SoleNext == \A f \in Fibers : \A v, u \in Threads : Runs(v, f)' /\ Runs(u, f)' => v = u
<1>b. ASSUME pc' = pc, running' = running, task' = task, cbFiber' = cbFiber, idleDone' = idleDone,
             stop => stop', \A f \in Fibers : loc[f] # "out" => loc'[f] # "out",
             ParkedNext
      PROVE  ThreadInv'
  <2>1. \A v \in Threads : ThreadOf(v)'
    BY <1>a, <1>b, ThreadKept
  <2>2. SoleNext
    BY <1>a, <1>b DEF ThreadInv, Runs
  <2>. QED
    BY <1>b, <2>1, <2>2 DEF ThreadInv, Ended
<1>c. ASSUME NEW w \in Threads, pc[w] # "none", stop' = stop, joining' = joining,
             \A v \in Threads \ {w} :
                /\ pc'[v] = pc[v] /\ running'[v] = running[v] /\ task'[v] = task[v]
                /\ cbFiber'[v] = cbFiber[v] /\ idleDone'[v] = idleDone[v]
             ,
             \A f \in Fibers : ~Runs(w, f) /\ loc[f] # "out" => loc'[f] # "out",
             \A f \in Fibers : Runs(w, f)' => loc[f] = "out",
             ThreadOf(w)'
      PROVE  ThreadInv'
  <2>1. ASSUME NEW v \in Threads \ {w} PROVE ThreadOf(v)'
    <3>1. \A f \in Fibers : Runs(v, f) => ~Runs(w, f)
      BY <1>a DEF ThreadInv
    <3>. QED
      BY <1>a, <1>c, <3>1, ThreadKept
  <2>2. ParkedNext
    BY <1>a, <1>c DEF ThreadInv, Ended
  <2>3. SoleNext
    <3>1. ASSUME NEW f \in Fibers, NEW v \in Threads \ {w}, Runs(v, f)'
          PROVE  Runs(v, f) /\ loc[f] # "out"
      BY <1>a, <1>c, <3>1 DEF ThreadOf, Runs
    <3>2. ASSUME NEW f \in Fibers, NEW v \in Threads, NEW u \in Threads, Runs(v, f)', Runs(u, f)', v # u
          PROVE  FALSE
      <4>1. CASE v # w /\ u # w
        BY <1>a, <3>1, <3>2, <4>1 DEF ThreadInv
      <4>2. CASE v = w \/ u = w
        BY <1>c, <3>1, <3>2, <4>2
      <4>. QED
        BY <4>1, <4>2
    <3>. QED
      BY <3>2
  <2>. QED
    BY <1>c, <2>1, <2>2, <2>3 DEF ThreadInv
<1>1. CASE Start
  <2>1. \A v \in Threads : pc'[v] = "scan" /\ idleDone'[v] = FALSE
    BY <1>1 DEF Start
  <2>2. \A v \in Threads : ThreadOf(v)'
    BY <1>a, <1>1, <2>1 DEF Start, ThreadOf
  <2>3. ParkedNext /\ SoleNext
    BY <1>1, <2>1 DEF Start, Runs
  <2>. QED
    BY <2>2, <2>3 DEF ThreadInv
<1>2. CASE Stop
  BY <1>b, <1>2 DEF Stop, fiberVars, threadVars, Ended
<1>3. CASE Joined
  <2>1. ParkedNext
    BY <1>3 DEF Joined, Ended, threadVars
  <2>. QED
    BY <1>b, <1>3, <2>1 DEF Joined, fiberVars, threadVars
<1>4. CASE SubmitNew
  <2>1. ParkedNext
    BY <1>a, <1>4 DEF SubmitNew, poolVars, threadVars, ThreadInv, Ended
  <2>. QED
    BY <1>b, <1>4, <2>1 DEF SubmitNew, poolVars, fiberVars, threadVars
<1>5. ASSUME NEW f \in Fibers, Wake(f) PROVE ThreadInv'
  <2>1. ParkedNext
    BY <1>a, <1>5 DEF Wake, poolVars, threadVars, ThreadInv, Ended
  <2>. QED
    BY <1>b, <1>5, <2>1 DEF Wake, poolVars, fiberVars, threadVars
<1>6. ASSUME NEW f \in Fibers, Register(f) PROVE ThreadInv'
  <2>1. \A g \in Fibers : loc[g] # "out" => loc'[g] # "out"
    BY <1>a, <1>6 DEF Register, Moves, TypeOK
  <2>2. ParkedNext
    BY <1>a, <1>6 DEF Register, Moves, poolVars, threadVars, ThreadInv, Ended
  <2>. QED
    BY <1>b, <1>6, <2>1, <2>2 DEF Register, Moves, poolVars, threadVars
<1>7. ASSUME NEW f \in Fibers, YieldToHold(f) PROVE ThreadInv'
  <2>1. \A g \in Fibers : loc[g] # "out" => loc'[g] # "out"
    BY <1>a, <1>7 DEF YieldToHold, Moves, TypeOK
  <2>2. ParkedNext
    BY <1>a, <1>7 DEF YieldToHold, Moves, poolVars, threadVars, ThreadInv, Ended
  <2>. QED
    BY <1>b, <1>7, <2>1, <2>2 DEF YieldToHold, Moves, poolVars, threadVars
<1>8. ASSUME NEW f \in Fibers, YieldToReady(f) PROVE ThreadInv'
  <2>1. \A g \in Fibers : loc[g] # "out" => loc'[g] # "out"
    BY <1>a, <1>8 DEF YieldToReady, Moves, TypeOK
  <2>2. ParkedNext
    BY <1>a, <1>8 DEF YieldToReady, Moves, poolVars, threadVars, ThreadInv, Ended
  <2>. QED
    BY <1>b, <1>8, <2>1, <2>2 DEF YieldToReady, Moves, poolVars, threadVars
<1>9. ASSUME NEW f \in Fibers, Finish(f) PROVE ThreadInv'
  <2>1. \A g \in Fibers : loc[g] # "out" => loc'[g] # "out"
    BY <1>a, <1>9 DEF Finish, Moves, TypeOK
  <2>2. ParkedNext
    BY <1>a, <1>9 DEF Finish, Moves, poolVars, threadVars, ThreadInv, Ended
  <2>. QED
    BY <1>b, <1>9, <2>1, <2>2 DEF Finish, Moves, poolVars, threadVars
<1>10. ASSUME NEW w \in Threads, Scan(w) PROVE ThreadInv'
  <2>1. ThreadOf(w)'
    <3>1. JobOf(task'[w])
      <4>1. CASE \E i \in 1..Len(tasks) : Takes(w, tasks[i])
        BY <1>a, <4>1 DEF Takes, ListInv, TypeOK
      <4>2. CASE FindsNothing(w)
        BY <1>a, JobFacts, <4>2 DEF FindsNothing, Takes, TypeOK
      <4>. QED
        BY <1>10, <4>1, <4>2 DEF Scan
    <3>. QED
      BY <1>a, <1>10, <3>1 DEF Scan, GoesTo, ThreadOf, TypeOK, poolVars
  <2>2. /\ pc[w] # "none" /\ stop' = stop /\ joining' = joining
        /\ \A v \in Threads \ {w} :
              /\ pc'[v] = pc[v] /\ running'[v] = running[v] /\ task'[v] = task[v]
              /\ cbFiber'[v] = cbFiber[v] /\ idleDone'[v] = idleDone[v]
    BY <1>a, <1>10 DEF Scan, GoesTo, TypeOK, poolVars, clientVars, threadVars, Takes, FindsNothing
  <2>3. /\ \A f \in Fibers : ~Runs(w, f) /\ loc[f] # "out" => loc'[f] # "out"
        /\ \A f \in Fibers : Runs(w, f)' => loc[f] = "out"
    BY <1>a, <1>10 DEF Scan, GoesTo, TypeOK, fiberVars, Runs, Takes, FindsNothing
  <2>. QED
    BY <1>c, <2>1, <2>2, <2>3
<1>11. ASSUME NEW w \in Threads, TakenFiber(w) PROVE ThreadInv'
  <2>a. PICK g \in Fibers : /\ g = task[w].fiber
                            /\ Resume(w, g) /\ hasCb' = hasCb /\ cbFiber' = cbFiber
    BY <1>a, <1>11, TakenFacts
  <2>1. ThreadOf(w)'
    <3>1. task[w].cb = None
      BY <1>a, <2>a, JobFacts DEF ThreadOf, JobOf
    <3>. QED
      BY <1>a, <2>a, <3>1 DEF Resume, GoesTo, ThreadOf, TypeOK, poolVars
  <2>2. /\ pc[w] # "none" /\ stop' = stop /\ joining' = joining
        /\ \A v \in Threads \ {w} :
              /\ pc'[v] = pc[v] /\ running'[v] = running[v] /\ task'[v] = task[v]
              /\ cbFiber'[v] = cbFiber[v] /\ idleDone'[v] = idleDone[v]
    BY <1>a, <1>11, <2>a DEF Resume, GoesTo, TypeOK, poolVars, clientVars, threadVars
  <2>3. /\ \A f \in Fibers : ~Runs(w, f) /\ loc[f] # "out" => loc'[f] # "out"
        /\ \A f \in Fibers : Runs(w, f)' => loc[f] = "out"
    BY <1>a, <1>11, <2>a DEF Resume, GoesTo, TypeOK, fiberVars, Runs
  <2>. QED
    BY <1>c, <2>1, <2>2, <2>3
<1>12. ASSUME NEW w \in Threads, TakenCb(w) PROVE ThreadInv'
  <2>a. PICK g \in Fibers : /\ IF cbFiber[w] = None THEN state[g] = "unborn" ELSE g = cbFiber[w]
                            /\ Resume(w, g) /\ cbFiber' = [cbFiber EXCEPT ![w] = g]
    BY <1>12 DEF TakenCb
  <2>1. ThreadOf(w)'
    <3>1. g \notin UserFibers
      BY <1>a, <2>a, JobFacts DEF ThreadOf, FiberInv, FiberOf
    <3>. QED
      BY <1>a, <2>a, <3>1 DEF Resume, GoesTo, ThreadOf, TypeOK, poolVars
  <2>2. /\ pc[w] # "none" /\ stop' = stop /\ joining' = joining
        /\ \A v \in Threads \ {w} :
              /\ pc'[v] = pc[v] /\ running'[v] = running[v] /\ task'[v] = task[v]
              /\ cbFiber'[v] = cbFiber[v] /\ idleDone'[v] = idleDone[v]
    BY <1>a, <1>12, <2>a DEF Resume, GoesTo, TypeOK, poolVars, clientVars, threadVars
  <2>3. /\ \A f \in Fibers : ~Runs(w, f) /\ loc[f] # "out" => loc'[f] # "out"
        /\ \A f \in Fibers : Runs(w, f)' => loc[f] = "out"
    BY <1>a, <1>12, <2>a DEF Resume, GoesTo, TypeOK, fiberVars, Runs
  <2>. QED
    BY <1>c, <2>1, <2>2, <2>3
<1>13. ASSUME NEW w \in Threads, TakenWrong(w) PROVE ThreadInv'
  <2>1. ParkedNext
    BY <1>a, <1>13 DEF TakenWrong, poolVars, threadVars, ThreadInv, Ended
  <2>. QED
    BY <1>b, <1>13, <2>1 DEF TakenWrong, poolVars, fiberVars, threadVars
<1>14. ASSUME NEW w \in Threads, TakenNothing(w) PROVE ThreadInv'
  <2>1. ThreadOf(w)'
    <3>1. task'[w] = NoTask /\ pc'[w] \in {"none", "idle"} /\ cbFiber'[w] \in {None, cbFiber[w]}
      BY <1>a, <1>14 DEF TakenNothing, GoesTo, TypeOK
    <3>2. (pc'[w] = "none" => idleDone[w]) /\ idleDone'[w] = idleDone[w] /\ stop' = stop
      BY <1>a, <1>14 DEF TakenNothing, GoesTo, TypeOK, poolVars
    <3>3. None \notin UserFibers
      BY JobFacts, UserFibersAssumption
    <3>. QED
      BY <1>a, JobFacts, <3>1, <3>2, <3>3 DEF ThreadOf
  <2>2. /\ pc[w] # "none" /\ stop' = stop /\ joining' = joining
        /\ \A v \in Threads \ {w} :
              /\ pc'[v] = pc[v] /\ running'[v] = running[v] /\ task'[v] = task[v]
              /\ cbFiber'[v] = cbFiber[v] /\ idleDone'[v] = idleDone[v]
    BY <1>a, <1>14 DEF TakenNothing, GoesTo, TypeOK, poolVars, clientVars, threadVars
  <2>3. /\ \A f \in Fibers : ~Runs(w, f) /\ loc[f] # "out" => loc'[f] # "out"
        /\ \A f \in Fibers : Runs(w, f)' => loc[f] = "out"
    BY <1>a, <1>14 DEF TakenNothing, GoesTo, TypeOK, fiberVars, Runs
  <2>. QED
    BY <1>c, <2>1, <2>2, <2>3
<1>15. ASSUME NEW w \in Threads, Idle(w) PROVE ThreadInv'
  <2>1. ThreadOf(w)'
    BY <1>a, <1>15 DEF Idle, GoesTo, ThreadOf, TypeOK, poolVars
  <2>2. /\ pc[w] # "none" /\ stop' = stop /\ joining' = joining
        /\ \A v \in Threads \ {w} :
              /\ pc'[v] = pc[v] /\ running'[v] = running[v] /\ task'[v] = task[v]
              /\ cbFiber'[v] = cbFiber[v] /\ idleDone'[v] = idleDone[v]
    BY <1>a, <1>15 DEF Idle, GoesTo, TypeOK, poolVars, clientVars, threadVars
  <2>3. /\ \A f \in Fibers : ~Runs(w, f) /\ loc[f] # "out" => loc'[f] # "out"
        /\ \A f \in Fibers : Runs(w, f)' => loc[f] = "out"
    BY <1>a, <1>15 DEF Idle, GoesTo, TypeOK, fiberVars, Runs
  <2>. QED
    BY <1>c, <2>1, <2>2, <2>3
<1>16. ASSUME NEW w \in Threads, Return(w) PROVE ThreadInv'
  <2>1. ThreadOf(w)'
    BY <1>a, <1>16 DEF Return, GoesTo, ThreadOf, TypeOK, poolVars
  <2>2. /\ pc[w] # "none" /\ stop' = stop /\ joining' = joining
        /\ \A v \in Threads \ {w} :
              /\ pc'[v] = pc[v] /\ running'[v] = running[v] /\ task'[v] = task[v]
              /\ cbFiber'[v] = cbFiber[v] /\ idleDone'[v] = idleDone[v]
    BY <1>a, <1>16 DEF Return, GoesTo, TypeOK, poolVars, clientVars, threadVars
  <2>3. /\ \A f \in Fibers : ~Runs(w, f) /\ loc[f] # "out" => loc'[f] # "out"
        /\ \A f \in Fibers : Runs(w, f)' => loc[f] = "out"
    BY <1>a, <1>16 DEF Return, GoesTo, TypeOK, fiberVars, Runs
  <2>. QED
    BY <1>c, <2>1, <2>2, <2>3
<1>17. ASSUME NEW w \in Threads, Check(w) PROVE ThreadInv'
  <2>1. ThreadOf(w)'
    <3>1. task'[w] = NoTask /\ pc'[w] = "scan" /\ cbFiber'[w] \in {None, cbFiber[w]}
      BY <1>a, <1>17 DEF Check, GoesTo, TypeOK
    <3>2. idleDone'[w] = idleDone[w] /\ stop' = stop
      BY <1>a, <1>17 DEF Check, GoesTo, TypeOK, poolVars
    <3>3. None \notin UserFibers
      BY JobFacts, UserFibersAssumption
    <3>. QED
      BY <1>a, JobFacts, <3>1, <3>2, <3>3 DEF ThreadOf
  <2>2. /\ pc[w] # "none" /\ stop' = stop /\ joining' = joining
        /\ \A v \in Threads \ {w} :
              /\ pc'[v] = pc[v] /\ running'[v] = running[v] /\ task'[v] = task[v]
              /\ cbFiber'[v] = cbFiber[v] /\ idleDone'[v] = idleDone[v]
    BY <1>a, <1>17 DEF Check, GoesTo, TypeOK, poolVars, clientVars, threadVars
  <2>3. /\ \A f \in Fibers : ~Runs(w, f) /\ loc[f] # "out" => loc'[f] # "out"
        /\ \A f \in Fibers : Runs(w, f)' => loc[f] = "out"
    BY <1>a, <1>17 DEF Check, GoesTo, TypeOK, fiberVars, Runs
  <2>. QED
    BY <1>c, <2>1, <2>2, <2>3
<1>18. ASSUME NEW w \in Threads, CheckWrong(w) PROVE ThreadInv'
  <2>1. ParkedNext
    BY <1>a, <1>18 DEF CheckWrong, poolVars, threadVars, ThreadInv, Ended
  <2>. QED
    BY <1>b, <1>18, <2>1 DEF CheckWrong, poolVars, fiberVars, threadVars
<1>19. CASE UNCHANGED vars
  <2>1. ParkedNext
    BY <1>a, <1>19 DEF vars, poolVars, threadVars, ThreadInv, Ended
  <2>. QED
    BY <1>b, <1>19, <2>1 DEF vars, poolVars, fiberVars, threadVars
<1>. QED
  BY <1>1, <1>2, <1>3, <1>4, <1>5, <1>6, <1>7, <1>8, <1>9, <1>10,
     <1>11, <1>12, <1>13, <1>14, <1>15, <1>16, <1>17, <1>18, <1>19
  DEF Next, FiberStep, ThreadStep

-----------------------------------------------------------------------------
(* Fibers *)

\* A fiber that nothing happens to.
LEMMA FiberKept ==
    ASSUME NEW g \in Fibers, FiberOf(g), state'[g] = state[g], loc'[g] = loc[g],
           hasCb'[g] = hasCb[g], spins' = 0 => spins = 0,
           \A w \in Threads : Runs(w, g) => Runs(w, g)'
    PROVE  FiberOf(g)'
BY DEF FiberOf

LEMMA SpinsType == TypeOK => spins \in Nat
<1>1. TypeOK => spins \in 0..MaxSpins
  BY DEF TypeOK
<1>. QED
  BY <1>1, BoundsAssumption

LEMMA FiberNext == IInv /\ [Next]_vars => FiberInv'
<1>. SUFFICES ASSUME IInv, [Next]_vars PROVE FiberInv'
  OBVIOUS
<1>a. TypeOK /\ ThreadInv /\ FiberInv /\ (\A v \in Threads : ThreadOf(v)) /\ (\A g \in Fibers : FiberOf(g))
  BY DEF IInv, ThreadInv, FiberInv
<1>b. ASSUME state' = state, loc' = loc, hasCb' = hasCb, spins' = spins, running' = running,
             \A w \in Threads : pc[w] = "running" => pc'[w] = "running"
      PROVE  FiberInv'
  BY <1>a, <1>b, FiberKept DEF FiberInv, Runs
<1>c. ASSUME NEW f \in Fibers, FiberOf(f)',
             \A g \in Fibers \ {f} : state'[g] = state[g] /\ loc'[g] = loc[g] /\ hasCb'[g] = hasCb[g],
             spins' = 0 => spins = 0,
             \A g \in Fibers \ {f} : \A w \in Threads : Runs(w, g) => Runs(w, g)'
      PROVE  FiberInv'
  BY <1>a, <1>c, FiberKept DEF FiberInv
<1>1. CASE Start
  BY <1>a, <1>b, <1>1 DEF Start, ThreadInv, Ended, fiberVars
<1>2. CASE Stop
  BY <1>a, <1>b, <1>2 DEF Stop, TypeOK, fiberVars, threadVars
<1>3. CASE Joined
  BY <1>a, <1>b, <1>3 DEF Joined, TypeOK, fiberVars, threadVars
<1>4. CASE SubmitNew
  BY <1>a, <1>b, <1>4 DEF SubmitNew, TypeOK, fiberVars, threadVars
<1>5. ASSUME NEW f \in Fibers, Wake(f) PROVE FiberInv'
  BY <1>a, <1>b, <1>5 DEF Wake, TypeOK, fiberVars, threadVars
<1>6. ASSUME NEW f \in Fibers, Register(f) PROVE FiberInv'
  <2>a. spins \in Nat
    BY <1>a, SpinsType
  <2>0. loc[f] = "body" /\ loc'[f] = "hold" /\ state'[f] = state[f] /\ hasCb'[f] = hasCb[f] /\ spins' = spins
    BY <1>a, <1>6 DEF Register, Moves, TypeOK, Terminated
  <2>1. /\ \A g \in Fibers \ {f} : state'[g] = state[g] /\ loc'[g] = loc[g] /\ hasCb'[g] = hasCb[g]
    BY <1>a, <1>6 DEF Register, Moves, TypeOK
  <2>2. \A g \in Fibers : \A w \in Threads : Runs(w, g) => Runs(w, g)'
    BY <1>6 DEF Register, Moves, Runs, threadVars
  <2>3. FiberOf(f)'
    <3>1. FiberOf(f) /\ loc[f] # "out"
      BY <1>a, <2>0
    <3>2. \E w \in Threads : Runs(w, f)'
      BY <2>2, <3>1 DEF FiberOf
    <3>. QED
      BY <2>a, <2>0, <3>1, <3>2 DEF FiberOf, Terminated
  <2>. QED
    BY <1>c, <2>a, <2>0, <2>1, <2>2, <2>3
<1>7. ASSUME NEW f \in Fibers, YieldToHold(f) PROVE FiberInv'
  <2>a. spins \in Nat
    BY <1>a, SpinsType
  <2>0. loc[f] = "hold" /\ loc'[f] = "leaving" /\ state'[f] = "HOLD" /\ hasCb'[f] = hasCb[f] /\ spins' = spins
    BY <1>a, <1>7 DEF YieldToHold, Moves, TypeOK, Terminated
  <2>1. /\ \A g \in Fibers \ {f} : state'[g] = state[g] /\ loc'[g] = loc[g] /\ hasCb'[g] = hasCb[g]
    BY <1>a, <1>7 DEF YieldToHold, Moves, TypeOK
  <2>2. \A g \in Fibers : \A w \in Threads : Runs(w, g) => Runs(w, g)'
    BY <1>7 DEF YieldToHold, Moves, Runs, threadVars
  <2>3. FiberOf(f)'
    <3>1. FiberOf(f) /\ loc[f] # "out"
      BY <1>a, <2>0
    <3>2. \E w \in Threads : Runs(w, f)'
      BY <2>2, <3>1 DEF FiberOf
    <3>. QED
      BY <2>a, <2>0, <3>1, <3>2 DEF FiberOf, Terminated
  <2>. QED
    BY <1>c, <2>a, <2>0, <2>1, <2>2, <2>3
<1>8. ASSUME NEW f \in Fibers, YieldToReady(f) PROVE FiberInv'
  <2>a. spins \in Nat
    BY <1>a, SpinsType
  <2>0. loc[f] = "body" /\ loc'[f] = "leaving" /\ state'[f] = "READY" /\ hasCb'[f] = hasCb[f] /\ spins' = spins + 1
    BY <1>a, <1>8 DEF YieldToReady, Moves, TypeOK, Terminated
  <2>1. /\ \A g \in Fibers \ {f} : state'[g] = state[g] /\ loc'[g] = loc[g] /\ hasCb'[g] = hasCb[g]
    BY <1>a, <1>8 DEF YieldToReady, Moves, TypeOK
  <2>2. \A g \in Fibers : \A w \in Threads : Runs(w, g) => Runs(w, g)'
    BY <1>8 DEF YieldToReady, Moves, Runs, threadVars
  <2>3. FiberOf(f)'
    <3>1. FiberOf(f) /\ loc[f] # "out"
      BY <1>a, <2>0
    <3>2. \E w \in Threads : Runs(w, f)'
      BY <2>2, <3>1 DEF FiberOf
    <3>. QED
      BY <2>a, <2>0, <3>1, <3>2 DEF FiberOf, Terminated
  <2>. QED
    BY <1>c, <2>a, <2>0, <2>1, <2>2, <2>3
<1>9. ASSUME NEW f \in Fibers, Finish(f) PROVE FiberInv'
  <2>a. spins \in Nat
    BY <1>a, SpinsType
  <2>0. loc[f] = "body" /\ loc'[f] = "leaving" /\ state'[f] \in Terminated /\ hasCb'[f] \in BOOLEAN /\ spins' = spins
    BY <1>a, <1>9 DEF Finish, Moves, TypeOK, Terminated
  <2>1. /\ \A g \in Fibers \ {f} : state'[g] = state[g] /\ loc'[g] = loc[g] /\ hasCb'[g] = hasCb[g]
    BY <1>a, <1>9 DEF Finish, Moves, TypeOK
  <2>2. \A g \in Fibers : \A w \in Threads : Runs(w, g) => Runs(w, g)'
    BY <1>9 DEF Finish, Moves, Runs, threadVars
  <2>3. FiberOf(f)'
    <3>1. FiberOf(f) /\ loc[f] # "out"
      BY <1>a, <2>0
    <3>2. \E w \in Threads : Runs(w, f)'
      BY <2>2, <3>1 DEF FiberOf
    <3>. QED
      BY <2>a, <2>0, <3>1, <3>2 DEF FiberOf, Terminated
  <2>. QED
    BY <1>c, <2>a, <2>0, <2>1, <2>2, <2>3
<1>10. ASSUME NEW w \in Threads, Scan(w) PROVE FiberInv'
  BY <1>a, <1>b, <1>10 DEF Scan, GoesTo, TypeOK, fiberVars, threadVars
<1>11. ASSUME NEW w \in Threads, TakenFiber(w) PROVE FiberInv'
  <2>a. PICK g \in Fibers : Resume(w, g) /\ hasCb' = hasCb
    BY <1>a, <1>11, TakenFacts
  <2>0. state'[g] = "EXEC" /\ loc'[g] = "body"
    BY <1>a, <2>a DEF Resume, TypeOK
  <2>4. \E v \in Threads : Runs(v, g)'
    BY <1>a, <2>a DEF Resume, GoesTo, Runs, TypeOK
  <2>1. FiberOf(g)'
    BY <2>0, <2>4 DEF FiberOf
  <2>2. /\ \A h \in Fibers \ {g} : state'[h] = state[h] /\ loc'[h] = loc[h] /\ hasCb'[h] = hasCb[h]
        /\ spins' = spins
    BY <1>a, <2>a DEF Resume, TypeOK
  <2>3. \A h \in Fibers : \A v \in Threads : Runs(v, h) => Runs(v, h)'
    BY <1>a, <2>a DEF Resume, GoesTo, Runs, TypeOK
  <2>. QED
    BY <1>c, <2>1, <2>2, <2>3
<1>12. ASSUME NEW w \in Threads, TakenCb(w) PROVE FiberInv'
  <2>a. PICK g \in Fibers : Resume(w, g) /\ hasCb' = [hasCb EXCEPT ![g] = TRUE]
    BY <1>12 DEF TakenCb
  <2>0. state'[g] = "EXEC" /\ loc'[g] = "body"
    BY <1>a, <2>a DEF Resume, TypeOK
  <2>4. \E v \in Threads : Runs(v, g)'
    BY <1>a, <2>a DEF Resume, GoesTo, Runs, TypeOK
  <2>1. FiberOf(g)'
    BY <2>0, <2>4 DEF FiberOf
  <2>2. /\ \A h \in Fibers \ {g} : state'[h] = state[h] /\ loc'[h] = loc[h] /\ hasCb'[h] = hasCb[h]
        /\ spins' = spins
    BY <1>a, <2>a DEF Resume, TypeOK
  <2>3. \A h \in Fibers : \A v \in Threads : Runs(v, h) => Runs(v, h)'
    BY <1>a, <2>a DEF Resume, GoesTo, Runs, TypeOK
  <2>. QED
    BY <1>c, <2>1, <2>2, <2>3
<1>13. ASSUME NEW w \in Threads, TakenWrong(w) PROVE FiberInv'
  BY <1>a, <1>b, <1>13 DEF TakenWrong, TypeOK, fiberVars, threadVars
<1>14. ASSUME NEW w \in Threads, TakenNothing(w) PROVE FiberInv'
  BY <1>a, <1>b, <1>14 DEF TakenNothing, GoesTo, TypeOK, fiberVars, threadVars
<1>15. ASSUME NEW w \in Threads, Idle(w) PROVE FiberInv'
  BY <1>a, <1>b, <1>15 DEF Idle, GoesTo, TypeOK, fiberVars, threadVars
<1>16. ASSUME NEW w \in Threads, Return(w) PROVE FiberInv'
  <2>a. PICK g \in Fibers : g = running[w] /\ Runs(w, g)
    BY <1>a, <1>16 DEF Return, GoesTo, Runs, ThreadOf
  <2>0. loc[g] = "leaving" /\ loc' = [loc EXCEPT ![g] = "out"] /\ UNCHANGED <<state, hasCb, spins>>
    BY <1>16, <2>a DEF Return
  <2>1. FiberOf(g)'
    BY <1>a, <2>0 DEF FiberOf, TypeOK
  <2>2. /\ \A h \in Fibers \ {g} : state'[h] = state[h] /\ loc'[h] = loc[h] /\ hasCb'[h] = hasCb[h]
        /\ spins' = spins
    BY <1>a, <2>0 DEF TypeOK
  <2>3. \A h \in Fibers \ {g} : \A v \in Threads : Runs(v, h) => Runs(v, h)'
    BY <1>a, <2>a, <1>16 DEF Return, GoesTo, Runs, TypeOK
  <2>. QED
    BY <1>c, <2>1, <2>2, <2>3
<1>17. ASSUME NEW w \in Threads, Check(w) PROVE FiberInv'
  <2>a. PICK g \in Fibers : g = running[w]
    BY <1>a, <1>17 DEF Check, GoesTo, ThreadOf
  <2>. DEFINE resets == task[w].cb # None /\ state[g] \in Terminated
  <2>0. /\ resets => loc[g] = "out"
        /\ state' = [state EXCEPT ![g] = IF resets THEN "INIT" ELSE state[g]]
        /\ hasCb' = [hasCb EXCEPT ![g] = hasCb[g] /\ ~resets]
        /\ loc' = loc /\ spins' = spins
    BY <1>17, <2>a DEF Check, fiberVars
  <2>3. \A h \in Fibers : \A v \in Threads : Runs(v, h) => Runs(v, h)'
    BY <1>a, <1>17 DEF Check, GoesTo, Runs, TypeOK
  <2>1. FiberOf(g)'
    <3>1. CASE resets
      <4>1. state'[g] = "INIT" /\ hasCb'[g] = FALSE /\ loc'[g] = "out"
        BY <1>a, <2>0, <3>1 DEF TypeOK
      <4>. QED
        BY <4>1 DEF FiberOf
    <3>2. CASE ~resets
      <4>1. state'[g] = state[g] /\ hasCb'[g] = hasCb[g] /\ loc'[g] = loc[g]
        <5>1. state'[g] = state[g] /\ loc'[g] = loc[g]
          BY <1>a, <2>0, <3>2 DEF TypeOK
        <5>2. hasCb'[g] = (hasCb[g] /\ ~resets) /\ hasCb[g] \in BOOLEAN
          BY <1>a, <2>0 DEF TypeOK
        <5>. QED
          BY <3>2, <5>1, <5>2
      <4>. QED
        BY <1>a, <2>0, <2>3, <4>1, FiberKept
    <3>. QED
      BY <3>1, <3>2
  <2>2. /\ \A h \in Fibers \ {g} : state'[h] = state[h] /\ loc'[h] = loc[h] /\ hasCb'[h] = hasCb[h]
        /\ spins' = spins
    BY <1>a, <2>0 DEF TypeOK
  <2>. QED
    BY <1>c, <2>1, <2>2, <2>3
<1>18. ASSUME NEW w \in Threads, CheckWrong(w) PROVE FiberInv'
  BY <1>a, <1>b, <1>18 DEF CheckWrong, TypeOK, fiberVars, threadVars
<1>19. CASE UNCHANGED vars
  BY <1>b, <1>19 DEF vars, fiberVars, threadVars
<1>. QED
  BY <1>1, <1>2, <1>3, <1>4, <1>5, <1>6, <1>7, <1>8, <1>9, <1>10,
     <1>11, <1>12, <1>13, <1>14, <1>15, <1>16, <1>17, <1>18, <1>19
  DEF Next, FiberStep, ThreadStep

-----------------------------------------------------------------------------
(* Tokens are kept *)

\* A token stays, or becomes one of another kind.
LEMMA TokenKept ==
    ASSUME NEW g \in Fibers,
           g \in registered => Kept(g)',
           g \in UserFibers \ submitted => Kept(g)',
           InTasks(g) => InTasks(g)',
           \A w \in Threads : Taken(w, g) => Taken(w, g)'
    PROVE  Kept(g) => Kept(g)'
BY DEF Kept

LEMMA WaiterKept ==
    ASSUME NEW g \in Fibers, KeptOf(g), state'[g] = state[g], Waits(g)' => Waits(g),
           Kept(g) => Kept(g)', Has(g) => Has(g)' \/ Kept(g)'
    PROVE  KeptOf(g)'
BY DEF KeptOf

LEMMA KeptNext == IInv /\ [Next]_vars => KeptInv'
<1>. SUFFICES ASSUME IInv, [Next]_vars PROVE KeptInv'
  OBVIOUS
<1>a. /\ TypeOK /\ ThreadInv /\ FiberInv
      /\ \A v \in Threads : ThreadOf(v)
      /\ \A g \in Fibers : FiberOf(g)
      /\ \A g \in Fibers : KeptOf(g)
  BY DEF IInv, ThreadInv, FiberInv, KeptInv
<1>b. ASSUME UNCHANGED <<tasks, fiberVars, clientVars, threadVars>> PROVE KeptInv'
  <2>1. \A g \in Fibers : KeptOf(g)' <=> KeptOf(g)
    BY <1>b DEF KeptOf, Waits, Kept, Has, Taken, InTasks, fiberVars, clientVars, threadVars
  <2>. QED
    BY <1>a, <2>1 DEF KeptInv
\* A thread takes nothing and finds nothing.
<1>c. ASSUME UNCHANGED <<state, loc, hasCb>>,
             \A g \in Fibers : (Kept(g) => Kept(g)') /\ (Has(g) => Has(g)')
      PROVE  KeptInv'
  <2>1. ASSUME NEW g \in Fibers PROVE KeptOf(g)'
    <3>1. Waits(g)' => Waits(g)
      BY <1>c DEF Waits
    <3>. QED
      BY <1>a, <1>c, <3>1, WaiterKept
  <2>. QED
    BY <2>1 DEF KeptInv
\* One fiber goes on.
<1>d. ASSUME NEW f \in Fibers, KeptOf(f)',
             \A g \in Fibers \ {f} : state'[g] = state[g] /\ loc'[g] = loc[g] /\ hasCb'[g] = hasCb[g],
             \A g \in Fibers \ {f} : (Kept(g) => Kept(g)') /\ (Has(g) => Has(g)')
      PROVE  KeptInv'
  <2>1. ASSUME NEW g \in Fibers \ {f} PROVE KeptOf(g)'
    <3>1. Waits(g)' => Waits(g)
      BY <1>d DEF Waits
    <3>. QED
      BY <1>a, <1>d, <3>1, WaiterKept
  <2>. QED
    BY <1>d, <2>1 DEF KeptInv
<1>1. CASE Start
  <2>1. /\ \A v \in Threads : pc[v] = "none"
        /\ UNCHANGED <<tasks, state, loc, hasCb, registered, submitted>>
    BY <1>1 DEF IInv, ThreadInv, Ended, Start, fiberVars, clientVars
  <2>2. \A g \in Fibers : (Kept(g) => Kept(g)') /\ ~Has(g)
    BY <2>1 DEF Kept, Taken, InTasks, Has
  <2>. QED
    BY <1>c, <2>1, <2>2
<1>2. CASE Stop
  BY <1>b, <1>2 DEF Stop, fiberVars, clientVars, threadVars
<1>3. CASE Joined
  BY <1>b, <1>3 DEF Joined, fiberVars, clientVars, threadVars
<1>4. CASE SubmitNew
  <2>1. UNCHANGED <<state, loc, hasCb, registered, pc, task, running>>
    BY <1>4 DEF SubmitNew, fiberVars, threadVars
  <2>2. PICK t \in Threads \cup {None} :
           \/ \E f \in UserFibers : submitted' = submitted \cup {f} /\ Submit(Task(f, None, t))
           \/ \E c \in Cbs : submitted' = submitted \cup {c} /\ Submit(Task(None, c, t))
    BY <1>4 DEF SubmitNew
  <2>3. ASSUME NEW g \in Fibers PROVE (Kept(g) => Kept(g)') /\ (Has(g) => Has(g)')
    <3>1. Has(g) => Has(g)'
      BY <2>1 DEF Has
    <3>2. g \in registered => Kept(g)'
      BY <2>1 DEF Kept
    <3>3. \A v \in Threads : Taken(v, g) => Taken(v, g)'
      BY <2>1 DEF Taken
    <3>4. ASSUME NEW f \in UserFibers, submitted' = submitted \cup {f}, Submit(Task(f, None, t))
          PROVE  (InTasks(g) => InTasks(g)') /\ (g \in UserFibers \ submitted => Kept(g)')
      <4>1. InTasks(g)' <=> InTasks(g) \/ f = g
        BY <1>a, <3>4, JobFacts, SubmitFacts, UserFibersAssumption
      <4>. QED
        BY <3>4, <4>1 DEF Kept
    <3>5. ASSUME NEW c \in Cbs, submitted' = submitted \cup {c}, Submit(Task(None, c, t))
          PROVE  (InTasks(g) => InTasks(g)') /\ (g \in UserFibers \ submitted => Kept(g)')
      <4>1. InTasks(g)' <=> InTasks(g)
        BY <1>a, <3>5, JobFacts, SubmitFacts
      <4>2. g \in UserFibers \ submitted /\ g # c => Kept(g)'
        BY <3>5 DEF Kept
      <4>. QED
        BY <4>1, <4>2, KindsAssumption, UserFibersAssumption
    <3>. QED
      BY <2>2, <3>1, <3>2, <3>3, <3>4, <3>5, TokenKept
  <2>. QED
    BY <1>c, <2>1, <2>3
<1>5. ASSUME NEW f \in Fibers, Wake(f) PROVE KeptInv'
  <2>1. /\ UNCHANGED <<state, loc, hasCb, submitted, pc, task, running>>
        /\ registered' = registered \ {f} /\ Submit(FiberTask(f))
    BY <1>5 DEF Wake, fiberVars, threadVars
  <2>2. \A g \in Fibers : InTasks(g)' <=> InTasks(g) \/ f = g
    BY <1>a, <2>1, JobFacts, SubmitFacts DEF FiberTask
  <2>3. ASSUME NEW g \in Fibers PROVE (Kept(g) => Kept(g)') /\ (Has(g) => Has(g)')
    BY <2>1, <2>2 DEF Kept, Taken, Has
  <2>. QED
    BY <1>c, <2>1, <2>3
<1>6. ASSUME NEW f \in Fibers, Register(f) PROVE KeptInv'
  <2>1. /\ UNCHANGED <<tasks, submitted, pc, task, running>>
        /\ registered \subseteq registered'
    BY <1>6 DEF Register, Moves, threadVars
  <2>2. \A g \in Fibers \ {f} : state'[g] = state[g] /\ loc'[g] = loc[g] /\ hasCb'[g] = hasCb[g]
    BY <1>a, <1>6 DEF Register, Moves, TypeOK
  <2>3. \A g \in Fibers : (Kept(g) => Kept(g)') /\ (Has(g) => Has(g)')
    BY <2>1 DEF Kept, InTasks, Taken, Has
  <2>4. KeptOf(f)'
    <3>1. Kept(f)'
      BY <1>6 DEF Register, Kept
    <3>. QED
      BY <3>1 DEF KeptOf
  <2>. QED
    BY <1>d, <2>2, <2>3, <2>4
<1>7. ASSUME NEW f \in Fibers, YieldToHold(f) PROVE KeptInv'
  <2>1. /\ UNCHANGED <<tasks, submitted, pc, task, running>>
        /\ registered \subseteq registered'
    BY <1>7 DEF YieldToHold, Moves, threadVars
  <2>2. \A g \in Fibers \ {f} : state'[g] = state[g] /\ loc'[g] = loc[g] /\ hasCb'[g] = hasCb[g]
    BY <1>a, <1>7 DEF YieldToHold, Moves, TypeOK
  <2>3. \A g \in Fibers : (Kept(g) => Kept(g)') /\ (Has(g) => Has(g)')
    BY <2>1 DEF Kept, InTasks, Taken, Has
  <2>4. KeptOf(f)'
    <3>1. loc[f] = "hold" /\ state'[f] = "HOLD"
      BY <1>a, <1>7 DEF YieldToHold, Moves, TypeOK
    <3>2. Kept(f)
      BY <1>a, <3>1 DEF KeptOf, Waits
    <3>. QED
      BY <2>3, <3>2 DEF KeptOf
  <2>. QED
    BY <1>d, <2>2, <2>3, <2>4
<1>8. ASSUME NEW f \in Fibers, YieldToReady(f) PROVE KeptInv'
  <2>1. /\ UNCHANGED <<tasks, submitted, pc, task, running>>
        /\ registered \subseteq registered'
    BY <1>8 DEF YieldToReady, Moves, threadVars
  <2>2. \A g \in Fibers \ {f} : state'[g] = state[g] /\ loc'[g] = loc[g] /\ hasCb'[g] = hasCb[g]
    BY <1>a, <1>8 DEF YieldToReady, Moves, TypeOK
  <2>3. \A g \in Fibers : (Kept(g) => Kept(g)') /\ (Has(g) => Has(g)')
    BY <2>1 DEF Kept, InTasks, Taken, Has
  <2>4. KeptOf(f)'
    <3>1. loc[f] = "body" /\ loc'[f] = "leaving" /\ state'[f] = "READY"
      BY <1>a, <1>8 DEF YieldToReady, Moves, TypeOK
    <3>2. \E v \in Threads : Runs(v, f)
      BY <1>a, <3>1 DEF FiberOf
    <3>3. Has(f)
      BY <3>2 DEF Runs, Has
    <3>. QED
      BY <2>3, <3>1, <3>3 DEF KeptOf, Waits
  <2>. QED
    BY <1>d, <2>2, <2>3, <2>4
<1>9. ASSUME NEW f \in Fibers, Finish(f) PROVE KeptInv'
  <2>1. /\ UNCHANGED <<tasks, submitted, pc, task, running>>
        /\ registered \subseteq registered'
    BY <1>9 DEF Finish, Moves, threadVars
  <2>2. \A g \in Fibers \ {f} : state'[g] = state[g] /\ loc'[g] = loc[g] /\ hasCb'[g] = hasCb[g]
    BY <1>a, <1>9 DEF Finish, Moves, TypeOK
  <2>3. \A g \in Fibers : (Kept(g) => Kept(g)') /\ (Has(g) => Has(g)')
    BY <2>1 DEF Kept, InTasks, Taken, Has
  <2>4. KeptOf(f)'
    <3>1. loc'[f] = "leaving" /\ state'[f] \in Terminated
      BY <1>a, <1>9 DEF Finish, Moves, TypeOK, Terminated
    <3>. QED
      BY <3>1 DEF KeptOf, Waits, Terminated
  <2>. QED
    BY <1>d, <2>2, <2>3, <2>4
<1>10. ASSUME NEW w \in Threads, Scan(w) PROVE KeptInv'
  <2>1. /\ pc[w] = "scan" /\ pc'[w] = "taken" /\ UNCHANGED <<state, loc, hasCb, registered, submitted, running>>
        /\ \A v \in Threads \ {w} : pc'[v] = pc[v] /\ task'[v] = task[v]
    BY <1>a, <1>10 DEF Scan, GoesTo, Takes, FindsNothing, TypeOK, fiberVars, clientVars
  <2>2. ASSUME NEW g \in Fibers PROVE Kept(g) => Kept(g)'
    <3>1. \A v \in Threads : Taken(v, g) => Taken(v, g)'
      BY <2>1 DEF Taken
    <3>2. ASSUME NEW i \in 1..Len(tasks), Takes(w, tasks[i]), tasks' = Without(tasks, i)
          PROVE  InTasks(g) => InTasks(g)' \/ Taken(w, g)'
      <4>1. InTasks(g) => InTasks(g)' \/ tasks[i].fiber = g
        BY <1>a, <3>2, WithoutFacts
      <4>2. task'[w] = tasks[i]
        BY <1>a, <3>2 DEF Takes, TypeOK
      <4>. QED
        BY <2>1, <4>1, <4>2 DEF Taken
    <3>3. tasks' = tasks => (InTasks(g) => InTasks(g)')
      BY DEF InTasks
    <3>. QED
      BY <2>1, <3>1, <3>2, <3>3, <1>10 DEF Kept, Scan
  <2>3. \A g \in Fibers : Has(g) => Has(g)'
    BY <2>1 DEF Has
  <2>. QED
    BY <1>c, <2>1, <2>2, <2>3
<1>11. ASSUME NEW w \in Threads, TakenFiber(w) PROVE KeptInv'
  <2>a. PICK g \in Fibers : g = task[w].fiber /\ Resume(w, g) /\ hasCb' = hasCb
    BY <1>a, <1>11, TakenFacts
  <2>b. \A h \in Fibers \ {g} : ~Taken(w, h)
    BY <2>a DEF Taken
  <2>1. state'[g] = "EXEC" /\ loc'[g] = "body"
    BY <1>a, <2>a DEF Resume, TypeOK
  <2>2. \A h \in Fibers \ {g} : state'[h] = state[h] /\ loc'[h] = loc[h] /\ hasCb'[h] = hasCb[h]
    BY <1>a, <2>a DEF Resume, TypeOK
  <2>3. KeptOf(g)'
    BY <2>1 DEF KeptOf, Waits
  <2>4. /\ UNCHANGED <<tasks, registered, submitted, task>>
        /\ pc[w] = "taken"
        /\ \A v \in Threads \ {w} : pc'[v] = pc[v] /\ running'[v] = running[v]
    BY <1>a, <2>a DEF Resume, GoesTo, TypeOK, clientVars
  <2>5. \A h \in Fibers \ {g} : Kept(h) => Kept(h)'
    BY <2>4, <2>b DEF Kept, InTasks, Taken
  <2>6. \A h \in Fibers \ {g} : Has(h) => Has(h)'
    BY <2>4 DEF Has
  <2>. QED
    BY <1>d, <2>2, <2>3, <2>5, <2>6
<1>12. ASSUME NEW w \in Threads, TakenCb(w) PROVE KeptInv'
  <2>a. PICK g \in Fibers : Resume(w, g) /\ hasCb' = [hasCb EXCEPT ![g] = TRUE]
    BY <1>12 DEF TakenCb
  <2>b. \A h \in Fibers \ {g} : ~Taken(w, h)
    BY <1>a, <1>12, JobFacts DEF TakenCb, ThreadOf, JobOf, Taken
  <2>1. state'[g] = "EXEC" /\ loc'[g] = "body"
    BY <1>a, <2>a DEF Resume, TypeOK
  <2>2. \A h \in Fibers \ {g} : state'[h] = state[h] /\ loc'[h] = loc[h] /\ hasCb'[h] = hasCb[h]
    BY <1>a, <2>a DEF Resume, TypeOK
  <2>3. KeptOf(g)'
    BY <2>1 DEF KeptOf, Waits
  <2>4. /\ UNCHANGED <<tasks, registered, submitted, task>>
        /\ pc[w] = "taken"
        /\ \A v \in Threads \ {w} : pc'[v] = pc[v] /\ running'[v] = running[v]
    BY <1>a, <2>a DEF Resume, GoesTo, TypeOK, clientVars
  <2>5. \A h \in Fibers \ {g} : Kept(h) => Kept(h)'
    BY <2>4, <2>b DEF Kept, InTasks, Taken
  <2>6. \A h \in Fibers \ {g} : Has(h) => Has(h)'
    BY <2>4 DEF Has
  <2>. QED
    BY <1>d, <2>2, <2>3, <2>5, <2>6
<1>13. ASSUME NEW w \in Threads, TakenWrong(w) PROVE KeptInv'
  BY <1>b, <1>13 DEF TakenWrong, fiberVars, clientVars, threadVars
<1>14. ASSUME NEW w \in Threads, TakenNothing(w) PROVE KeptInv'
  <2>1. /\ pc[w] = "taken" /\ UNCHANGED <<tasks, state, loc, hasCb, registered, submitted, running>>
        /\ \A v \in Threads \ {w} : pc'[v] = pc[v] /\ task'[v] = task[v]
    BY <1>a, <1>14 DEF TakenNothing, GoesTo, TypeOK, fiberVars, clientVars
  <2>2. \A g \in Fibers : Has(g) => Has(g)'
    BY <2>1 DEF Has
  <2>3. ASSUME NEW g \in Fibers, Taken(w, g) PROVE KeptOf(g)'
    <3>1. state[g] \in Terminated
      BY <2>3, <1>14, JobFacts DEF TakenNothing, Taken, NoTask, Task
    <3>2. state'[g] \in Terminated /\ loc'[g] # "hold"
      BY <1>a, <2>1, <3>1 DEF FiberOf, Terminated
    <3>. QED
      BY <3>2 DEF KeptOf, Waits, Terminated
  <2>4. ASSUME NEW g \in Fibers, ~Taken(w, g) PROVE KeptOf(g)'
    <3>1. Kept(g) => Kept(g)'
      BY <2>1, <2>4 DEF Kept, InTasks, Taken
    <3>2. Waits(g)' => Waits(g)
      BY <2>1 DEF Waits
    <3>. QED
      BY <1>a, <2>1, <2>2, <3>1, <3>2, WaiterKept
  <2>. QED
    BY <2>3, <2>4 DEF KeptInv
<1>15. ASSUME NEW w \in Threads, Idle(w) PROVE KeptInv'
  <2>1. /\ pc[w] = "idle" /\ UNCHANGED <<tasks, state, loc, hasCb, registered, submitted, running, task>>
        /\ \A v \in Threads \ {w} : pc'[v] = pc[v]
    BY <1>a, <1>15 DEF Idle, GoesTo, TypeOK, fiberVars, clientVars
  <2>2. \A g \in Fibers : (Kept(g) => Kept(g)') /\ (Has(g) => Has(g)')
    BY <2>1 DEF Kept, InTasks, Taken, Has
  <2>. QED
    BY <1>c, <2>1, <2>2
<1>16. ASSUME NEW w \in Threads, Return(w) PROVE KeptInv'
  <2>1. /\ pc[w] = "running" /\ pc'[w] = "check"
        /\ UNCHANGED <<tasks, state, hasCb, registered, submitted, running, task>>
        /\ \A v \in Threads \ {w} : pc'[v] = pc[v]
        /\ \A g \in Fibers : loc'[g] = "hold" => loc[g] = "hold"
    BY <1>a, <1>16 DEF Return, GoesTo, TypeOK, clientVars
  <2>2. \A g \in Fibers : (Kept(g) => Kept(g)') /\ (Has(g) => Has(g)')
    BY <2>1 DEF Kept, InTasks, Taken, Has
  <2>3. ASSUME NEW g \in Fibers PROVE KeptOf(g)'
    <3>1. Waits(g)' => Waits(g)
      BY <2>1 DEF Waits
    <3>. QED
      BY <1>a, <2>1, <2>2, <3>1, WaiterKept
  <2>. QED
    BY <2>3 DEF KeptInv
<1>17. ASSUME NEW w \in Threads, Check(w) PROVE KeptInv'
  <2>a. PICK g \in Fibers : g = running[w]
    BY <1>a, <1>17 DEF Check, GoesTo, ThreadOf
  <2>. DEFINE resets == task[w].cb # None /\ state[g] \in Terminated
  <2>1. /\ resets => loc[g] = "out"
        /\ state' = [state EXCEPT ![g] = IF resets THEN "INIT" ELSE state[g]]
        /\ hasCb' = [hasCb EXCEPT ![g] = hasCb[g] /\ ~resets]
        /\ loc' = loc /\ registered' = registered /\ submitted' = submitted
        /\ pc[w] = "check"
        /\ state[g] = "READY" => Submit(FiberTask(g))
        /\ state[g] # "READY" => tasks' = tasks
    BY <1>17, <2>a DEF Check, GoesTo, clientVars
  <2>2. \A v \in Threads \ {w} : pc'[v] = pc[v] /\ task'[v] = task[v] /\ running'[v] = running[v]
    BY <1>a, <1>17 DEF Check, GoesTo, TypeOK
  <2>3. \A h \in Fibers \ {g} : state'[h] = state[h] /\ loc'[h] = loc[h] /\ hasCb'[h] = hasCb[h]
    BY <1>a, <2>1 DEF TypeOK
  <2>4. \A h \in Fibers : (InTasks(h) => InTasks(h)') /\ (h = g /\ state[g] = "READY" => InTasks(h)')
    <3>1. CASE state[g] = "READY"
      BY <1>a, <2>1, <3>1, JobFacts, SubmitFacts DEF FiberTask
    <3>2. CASE state[g] # "READY"
      BY <2>1, <3>2 DEF InTasks
    <3>. QED
      BY <3>1, <3>2
  <2>5. \A h \in Fibers : Kept(h) => Kept(h)'
    BY <2>1, <2>2, <2>4 DEF Kept, Taken
  <2>6. \A h \in Fibers \ {g} : Has(h) => Has(h)'
    BY <2>a, <2>2 DEF Has
  <2>7. KeptOf(g)'
    <3>1. CASE resets
      <4>1. state'[g] = "INIT" /\ hasCb'[g] = FALSE /\ loc'[g] = "out"
        BY <1>a, <2>1, <3>1 DEF TypeOK
      <4>. QED
        BY <4>1 DEF KeptOf, Waits
    <3>2. CASE ~resets
      <4>1. state'[g] = state[g] /\ loc'[g] = loc[g]
        BY <1>a, <2>1, <3>2 DEF TypeOK
      <4>2. hasCb'[g] = (hasCb[g] /\ ~resets) /\ hasCb[g] \in BOOLEAN
        BY <1>a, <2>1 DEF TypeOK
      <4>3. Waits(g)' => Waits(g)
        BY <4>1, <4>2 DEF Waits
      <4>4. state[g] = "READY" => Kept(g)'
        BY <2>4 DEF Kept
      <4>. QED
        BY <1>a, <2>5, <4>1, <4>3, <4>4 DEF KeptOf
    <3>. QED
      BY <3>1, <3>2
  <2>. QED
    BY <1>d, <2>3, <2>5, <2>6, <2>7
<1>18. ASSUME NEW w \in Threads, CheckWrong(w) PROVE KeptInv'
  BY <1>b, <1>18 DEF CheckWrong, fiberVars, clientVars, threadVars
<1>19. CASE UNCHANGED vars
  BY <1>b, <1>19 DEF vars
<1>. QED
  BY <1>1, <1>2, <1>3, <1>4, <1>5, <1>6, <1>7, <1>8, <1>9, <1>10,
     <1>11, <1>12, <1>13, <1>14, <1>15, <1>16, <1>17, <1>18, <1>19
  DEF Next, FiberStep, ThreadStep

-----------------------------------------------------------------------------
(* There is one token *)

\* f has no new token, and goes on waiting.
LEMMA TokenShrinks ==
    ASSUME NEW g \in Fibers, TokenOf(g),
           (g \in registered)' => g \in registered,
           (g \in UserFibers \ submitted)' => g \in UserFibers \ submitted,
           InTasks(g)' => InTasks(g), Single(g)',
           \A v \in Threads : Taken(v, g)' => Taken(v, g),
           Kept(g)' /\ Waits(g) => Waits(g)'
    PROVE  TokenOf(g)'
<1>1. Kept(g)' => Kept(g)
  BY DEF Kept
<1>. QED
  BY <1>1 DEF TokenOf

\* f has no token, and f has registered.
LEMMA NoToken ==
    ASSUME NEW g \in Fibers, ~Kept(g)', Single(g)' PROVE TokenOf(g)'
BY DEF TokenOf, Kept

LEMMA Registered ==
    ASSUME NEW g \in Fibers, Waits(g)', Single(g)', ~(g \in UserFibers \ submitted)', ~InTasks(g)',
           \A v \in Threads : ~Taken(v, g)'
    PROVE  TokenOf(g)'
BY DEF TokenOf

\* The fiber that is submitted has an entry more, the one that is taken an entry less.
LEMMA Added ==
    ASSUME TypeOK, NEW t \in Jobs, Submit(t), NEW g \in Fibers
    PROVE  /\ InTasks(g)' <=> InTasks(g) \/ t.fiber = g
           /\ t.fiber # g => (Single(g) => Single(g)')
           /\ ~InTasks(g) => Single(g)'
<1>1. /\ Len(tasks') = Len(tasks) + 1
      /\ tasks'[Len(tasks) + 1] = t
      /\ \A i \in 1..Len(tasks) : tasks'[i] = tasks[i]
      /\ InTasks(g)' <=> InTasks(g) \/ t.fiber = g
  BY SubmitFacts
<1>0. tasks \in Seq(Jobs)
  BY DEF TypeOK, Jobs
<1>2. Len(tasks) \in Nat
  BY <1>0
<1>3. \A i \in 1..Len(tasks') : (i \in 1..Len(tasks) /\ tasks'[i] = tasks[i]) \/ (i = Len(tasks) + 1 /\ tasks'[i] = t)
  BY <1>1, <1>2
<1>4. t.fiber # g => (Single(g) => Single(g)')
  BY <1>3 DEF Single
<1>5. ~InTasks(g) => Single(g)'
  BY <1>3 DEF Single, InTasks
<1>. QED
  BY <1>1, <1>4, <1>5

LEMMA Removed ==
    ASSUME TypeOK, NEW i \in 1..Len(tasks), tasks' = Without(tasks, i), NEW g \in Fibers, Single(g)
    PROVE  /\ InTasks(g)' => InTasks(g)
           /\ Single(g)'
           /\ tasks[i].fiber = g => ~InTasks(g)'
<1>1. /\ Len(tasks') = Len(tasks) - 1
      /\ \A j \in 1..Len(tasks') : tasks'[j] = tasks[IF j < i THEN j ELSE j + 1]
      /\ InTasks(g)' => InTasks(g)
  BY WithoutFacts
<1>0. tasks \in Seq(Jobs)
  BY DEF TypeOK, Jobs
<1>2. Len(tasks) \in Nat
  BY <1>0
<1>. DEFINE old(j) == IF j < i THEN j ELSE j + 1
<1>3. \A j \in 1..Len(tasks') : old(j) \in 1..Len(tasks) /\ old(j) # i
  BY <1>1, <1>2
<1>4. \A j, k \in 1..Len(tasks') : old(j) = old(k) => j = k
  BY <1>1, <1>2
<1>5. \A j \in 1..Len(tasks') : tasks'[j] = tasks[old(j)]
  BY <1>1
<1>. HIDE DEF old
<1>6. Single(g)'
  BY <1>3, <1>4, <1>5 DEF Single
<1>7. tasks[i].fiber = g => ~InTasks(g)'
  BY <1>3, <1>5 DEF Single, InTasks
<1>. QED
  BY <1>1, <1>6, <1>7

LEMMA TokenNext == IInv /\ [Next]_vars => TokenInv'
<1>. SUFFICES ASSUME IInv, [Next]_vars, spins' = 0 PROVE \A g \in Fibers : TokenOf(g)'
  BY DEF TokenInv
<1>. DEFINE Goal == \A g \in Fibers : TokenOf(g)'
<1>a. /\ TypeOK /\ ThreadInv /\ FiberInv /\ TokenInv
      /\ \A v \in Threads : ThreadOf(v)
      /\ \A g \in Fibers : FiberOf(g)
  BY DEF IInv, ThreadInv, FiberInv
<1>e. spins = 0 => \A g \in Fibers : TokenOf(g) /\ Single(g)
  BY <1>a DEF TokenInv, TokenOf
\* Nothing waits any longer or shorter, and no token moves.
<1>b. ASSUME spins = 0, UNCHANGED <<tasks, registered, submitted>>,
             \A g \in Fibers : Waits(g) => Waits(g)',
             \A g \in Fibers : \A v \in Threads : Taken(v, g)' => Taken(v, g)
      PROVE  Goal
  <2>1. ASSUME NEW g \in Fibers PROVE TokenOf(g)'
    <3>1. TokenOf(g) /\ Single(g)' /\ (InTasks(g)' => InTasks(g))
      BY <1>a, <1>b DEF TokenInv, TokenOf, Single, InTasks
    <3>. QED
      BY <1>b, <3>1, TokenShrinks
  <2>. QED
    BY <2>1
<1>c. ASSUME spins = 0, UNCHANGED <<tasks, registered, submitted, pc, task, state, loc, hasCb>> PROVE Goal
  BY <1>b, <1>c DEF Waits, Taken
\* f has one token for another.
<1>d. ASSUME spins = 0, NEW f \in Fibers, TokenOf(f)',
             \A g \in Fibers \ {f} : state'[g] = state[g] /\ loc'[g] = loc[g] /\ hasCb'[g] = hasCb[g],
             \A g \in Fibers \ {f} : (g \in registered)' => g \in registered,
             \A g \in Fibers \ {f} : (g \in UserFibers \ submitted)' => g \in UserFibers \ submitted,
             \A g \in Fibers \ {f} : (InTasks(g)' => InTasks(g)) /\ Single(g)',
             \A g \in Fibers \ {f} : \A v \in Threads : Taken(v, g)' => Taken(v, g)
      PROVE  Goal
  <2>1. ASSUME NEW g \in Fibers \ {f} PROVE TokenOf(g)'
    <3>1. TokenOf(g) /\ (Waits(g) => Waits(g)')
      BY <1>a, <1>d DEF TokenInv, Waits
    <3>. QED
      BY <1>d, <3>1, TokenShrinks
  <2>. QED
    BY <1>d, <2>1
<1>1. CASE Start
  <2>1. /\ spins = 0 /\ UNCHANGED <<tasks, registered, submitted, state, loc, hasCb>>
        /\ \A v \in Threads : pc'[v] = "scan"
    BY <1>1 DEF Start, fiberVars, clientVars
  <2>. QED
    BY <1>b, <2>1 DEF Waits, Taken
<1>2. CASE Stop
  BY <1>c, <1>2 DEF Stop, fiberVars, clientVars, threadVars
<1>3. CASE Joined
  BY <1>c, <1>3 DEF Joined, fiberVars, clientVars, threadVars
<1>4. CASE SubmitNew
  <2>1. /\ spins = 0 /\ UNCHANGED <<state, loc, hasCb, registered, pc, task>>
    BY <1>4 DEF SubmitNew, fiberVars, threadVars
  <2>2. PICK t \in Threads \cup {None} :
           \/ \E f \in UserFibers \ submitted : submitted' = submitted \cup {f} /\ Submit(Task(f, None, t))
           \/ \E c \in Cbs \ submitted : submitted' = submitted \cup {c} /\ Submit(Task(None, c, t))
    BY <1>4 DEF SubmitNew
  <2>3. \A g \in Fibers : (Waits(g) => Waits(g)') /\ \A v \in Threads : Taken(v, g)' => Taken(v, g)
    BY <2>1 DEF Waits, Taken
  <2>4. ASSUME NEW f \in UserFibers \ submitted, submitted' = submitted \cup {f}, Submit(Task(f, None, t))
        PROVE  Goal
    <3>a. f \in Fibers
      BY UserFibersAssumption
    <3>1. /\ \A g \in Fibers : InTasks(g)' <=> InTasks(g) \/ f = g
          /\ \A g \in Fibers : g # f => (Single(g) => Single(g)')
          /\ ~InTasks(f) => Single(f)'
      BY <1>a, <2>4, <3>a, JobFacts, Added
    <3>2. TokenOf(f)'
      BY <1>a, <2>1, <2>3, <2>4, <3>a, <3>1 DEF TokenInv, TokenOf, Kept
    <3>. QED
      BY <1>a, <1>d, <2>1, <2>3, <2>4, <3>a, <3>1, <3>2 DEF TokenInv, TokenOf
  <2>5. ASSUME NEW c \in Cbs, submitted' = submitted \cup {c}, Submit(Task(None, c, t))
        PROVE  Goal
    <3>1. ASSUME NEW g \in Fibers PROVE (InTasks(g)' => InTasks(g)) /\ (Single(g) => Single(g)')
      BY <1>a, <2>5, JobFacts, Added
    <3>2. ASSUME NEW g \in Fibers PROVE TokenOf(g)'
      BY <1>a, <2>1, <2>3, <2>5, <3>1, TokenShrinks DEF TokenInv, TokenOf
    <3>. QED
      BY <3>2
  <2>. QED
    BY <2>2, <2>4, <2>5
<1>5. ASSUME NEW f \in Fibers, Wake(f) PROVE Goal
  <2>1. /\ spins = 0 /\ UNCHANGED <<state, loc, hasCb, submitted, pc, task>>
        /\ f \in registered /\ registered' = registered \ {f} /\ Submit(FiberTask(f))
    BY <1>5 DEF Wake, fiberVars, threadVars
  <2>2. \A g \in Fibers : (Waits(g) => Waits(g)') /\ \A v \in Threads : Taken(v, g)' => Taken(v, g)
    BY <2>1 DEF Waits, Taken
  <2>3. /\ \A g \in Fibers : InTasks(g)' <=> InTasks(g) \/ f = g
        /\ \A g \in Fibers : g # f => (Single(g) => Single(g)')
        /\ ~InTasks(f) => Single(f)'
    BY <1>a, <2>1, JobFacts, Added DEF FiberTask
  <2>4. TokenOf(f)'
    BY <1>a, <2>1, <2>2, <2>3 DEF TokenInv, TokenOf, Kept
  <2>. QED
    BY <1>a, <1>d, <2>1, <2>2, <2>3, <2>4 DEF TokenInv, TokenOf
<1>6. ASSUME NEW f \in Fibers, Register(f) PROVE Goal
  <2>1. /\ spins = 0 /\ UNCHANGED <<tasks, submitted, pc, task>>
        /\ registered' = registered \cup {f}
    BY <1>6 DEF Register, Moves, threadVars
  <2>2. \A g \in Fibers \ {f} : state'[g] = state[g] /\ loc'[g] = loc[g] /\ hasCb'[g] = hasCb[g]
    BY <1>a, <1>6 DEF Register, Moves, TypeOK
  <2>3. ASSUME NEW g \in Fibers
        PROVE  (InTasks(g)' => InTasks(g)) /\ (Single(g) => Single(g)')
    BY <2>1 DEF InTasks, Single
  <2>6. ASSUME NEW g \in Fibers, NEW v \in Threads PROVE Taken(v, g)' => Taken(v, g)
    BY <2>1 DEF Taken
  <2>4. ~Kept(f) /\ Single(f)
    <3>1. ~Waits(f)
      BY <1>a, <1>6 DEF Register, Moves, FiberOf, Waits
    <3>. QED
      BY <1>a, <2>1, <3>1 DEF TokenInv, TokenOf
  <2>5. TokenOf(f)'
    <3>1. loc'[f] = "hold"
      BY <1>a, <1>6 DEF Register, Moves, TypeOK
    <3>. QED
      <4>1. Waits(f)'
        BY <3>1 DEF Waits
      <4>2. f \notin UserFibers \ submitted /\ ~InTasks(f) /\ \A v \in Threads : ~Taken(v, f)
        BY <2>4 DEF Kept
      <4>. QED
        BY <2>1, <2>3, <2>6, <2>4, <4>1, <4>2, Registered
  <2>. QED
    BY <1>d, <1>e, <2>1, <2>2, <2>3, <2>5, <2>6
<1>7. ASSUME NEW f \in Fibers, YieldToHold(f) PROVE Goal
  <2>1. /\ spins = 0 /\ UNCHANGED <<tasks, submitted, pc, task>>
        /\ registered' = registered
    BY <1>7 DEF YieldToHold, Moves, threadVars
  <2>2. \A g \in Fibers \ {f} : state'[g] = state[g] /\ loc'[g] = loc[g] /\ hasCb'[g] = hasCb[g]
    BY <1>a, <1>7 DEF YieldToHold, Moves, TypeOK
  <2>3. ASSUME NEW g \in Fibers
        PROVE  (InTasks(g)' => InTasks(g)) /\ (Single(g) => Single(g)')
    BY <2>1 DEF InTasks, Single
  <2>6. ASSUME NEW g \in Fibers, NEW v \in Threads PROVE Taken(v, g)' => Taken(v, g)
    BY <2>1 DEF Taken
  <2>5. TokenOf(f)'
    <3>1. loc[f] = "hold" /\ state'[f] = "HOLD"
      BY <1>a, <1>7 DEF YieldToHold, Moves, TypeOK
    <3>2. TokenOf(f) /\ Waits(f)'
      BY <1>a, <2>1, <3>1 DEF TokenInv, Waits
    <3>. QED
      BY <1>e, <2>1, <2>3, <2>6, <3>2, TokenShrinks
  <2>. QED
    BY <1>d, <1>e, <2>1, <2>2, <2>3, <2>5, <2>6
<1>8. ASSUME NEW f \in Fibers, YieldToReady(f) PROVE Goal
  <2>1. spins' = spins + 1 /\ spins \in Nat
    BY <1>a, <1>8, SpinsType DEF YieldToReady
  <2>. QED
    BY <2>1
<1>9. ASSUME NEW f \in Fibers, Finish(f) PROVE Goal
  <2>1. /\ spins = 0 /\ UNCHANGED <<tasks, submitted, pc, task>>
        /\ registered' = registered
    BY <1>9 DEF Finish, Moves, threadVars
  <2>2. \A g \in Fibers \ {f} : state'[g] = state[g] /\ loc'[g] = loc[g] /\ hasCb'[g] = hasCb[g]
    BY <1>a, <1>9 DEF Finish, Moves, TypeOK
  <2>3. ASSUME NEW g \in Fibers
        PROVE  (InTasks(g)' => InTasks(g)) /\ (Single(g) => Single(g)')
    BY <2>1 DEF InTasks, Single
  <2>6. ASSUME NEW g \in Fibers, NEW v \in Threads PROVE Taken(v, g)' => Taken(v, g)
    BY <2>1 DEF Taken
  <2>4. ~Kept(f) /\ Single(f)
    <3>1. ~Waits(f)
      BY <1>a, <1>9 DEF Finish, Moves, FiberOf, Waits
    <3>. QED
      BY <1>a, <2>1, <3>1 DEF TokenInv, TokenOf
  <2>5. TokenOf(f)'
    <3>1. ~Kept(f)'
      BY <2>1, <2>3, <2>6, <2>4 DEF Kept
    <3>. QED
      BY <2>3, <2>4, <3>1, NoToken
  <2>. QED
    BY <1>d, <1>e, <2>1, <2>2, <2>3, <2>5, <2>6
<1>10. ASSUME NEW w \in Threads, Scan(w) PROVE Goal
  <2>1. /\ spins = 0 /\ pc[w] = "scan" /\ pc'[w] = "taken"
        /\ UNCHANGED <<state, loc, hasCb, registered, submitted>>
        /\ \A v \in Threads \ {w} : pc'[v] = pc[v] /\ task'[v] = task[v]
    BY <1>a, <1>10 DEF Scan, GoesTo, Takes, FindsNothing, TypeOK, fiberVars, clientVars
  <2>2. \A g \in Fibers : \A v \in Threads \ {w} : Taken(v, g)' <=> Taken(v, g)
    BY <2>1 DEF Taken
  <2>3. \A g \in Fibers : (Waits(g)' <=> Waits(g)) /\ ~Taken(w, g)
    BY <2>1 DEF Waits, Taken
  <2>4. ASSUME NEW i \in 1..Len(tasks), Takes(w, tasks[i]), tasks' = Without(tasks, i)
        PROVE  Goal
    <3>1. task'[w] = tasks[i]
      BY <1>a, <2>4 DEF Takes, TypeOK
    <3>2. ASSUME NEW g \in Fibers PROVE TokenOf(g)'
      <4>0. TokenOf(g) /\ Single(g)
        BY <1>a, <2>1 DEF TokenInv, TokenOf
      <4>1. (InTasks(g)' => InTasks(g)) /\ Single(g)' /\ (tasks[i].fiber = g => ~InTasks(g)')
        BY <1>a, <2>4, <4>0, Removed
      <4>2. CASE tasks[i].fiber # g
        <5>1. ~Taken(w, g)'
          BY <3>1, <4>2 DEF Taken
        <5>. QED
          BY <2>1, <2>2, <2>3, <4>0, <4>1, <5>1, TokenShrinks
      <4>3. CASE tasks[i].fiber = g
        <5>1. InTasks(g)
          BY <4>3 DEF InTasks
        <5>2. /\ g \notin registered /\ g \notin UserFibers \ submitted
              /\ \A v \in Threads : ~Taken(v, g)
              /\ Waits(g)
          BY <4>0, <5>1 DEF TokenOf, Kept
        <5>. QED
          BY <2>1, <2>2, <2>3, <4>1, <4>3, <5>2 DEF TokenOf
      <4>. QED
        BY <4>2, <4>3
    <3>. QED
      BY <3>2
  <2>5. CASE FindsNothing(w) /\ UNCHANGED tasks
    <3>1. task'[w] = NoTask
      BY <1>a, <2>5 DEF FindsNothing, Takes, TypeOK
    <3>2. \A g \in Fibers : ~Taken(w, g)'
      BY <3>1, JobFacts DEF Taken, NoTask, Task
    <3>. QED
      BY <1>b, <2>1, <2>2, <2>3, <2>5, <3>2
  <2>. QED
    BY <1>10, <2>4, <2>5 DEF Scan
<1>11. ASSUME NEW w \in Threads, TakenFiber(w) PROVE Goal
  <2>a. PICK g \in Fibers : g = task[w].fiber /\ Resume(w, g) /\ hasCb' = hasCb
    BY <1>a, <1>11, TakenFacts
  <2>1. /\ spins = 0 /\ UNCHANGED <<tasks, registered, submitted, task>>
        /\ pc'[w] = "running"
        /\ \A v \in Threads \ {w} : pc'[v] = pc[v]
    BY <1>a, <2>a DEF Resume, GoesTo, TypeOK, clientVars
  <2>2. \A h \in Fibers \ {g} : state'[h] = state[h] /\ loc'[h] = loc[h] /\ hasCb'[h] = hasCb[h]
    BY <1>a, <2>a DEF Resume, TypeOK
  <2>3. ASSUME NEW h \in Fibers
        PROVE  (InTasks(h)' => InTasks(h)) /\ (Single(h) => Single(h)')
    BY <2>1 DEF InTasks, Single
  <2>5. ASSUME NEW h \in Fibers, NEW v \in Threads
        PROVE  (Taken(v, h)' => Taken(v, h)) /\ ~Taken(w, h)'
    BY <2>1 DEF Taken
  <2>4. TokenOf(g)'
    <3>2. Taken(w, g)
      BY <2>a DEF Resume, GoesTo, Taken
    <3>3. ~Kept(g)'
      <4>1. /\ g \notin registered /\ g \notin UserFibers \ submitted /\ ~InTasks(g)
            /\ \A v \in Threads : Taken(v, g) => v = w
        BY <1>e, <2>1, <3>2 DEF TokenOf, Kept
      <4>2. ~InTasks(g)' /\ \A v \in Threads : ~Taken(v, g)'
        <5>1. ~InTasks(g)'
          BY <2>3, <4>1
        <5>2. ASSUME NEW v \in Threads PROVE ~Taken(v, g)'
          BY <2>5, <4>1
        <5>. QED
          BY <5>1, <5>2
      <4>. QED
        BY <2>1, <4>1, <4>2 DEF Kept
    <3>. QED
      BY <1>e, <2>1, <2>3, <3>3, NoToken
  <2>. QED
    BY <1>d, <1>e, <2>1, <2>2, <2>3, <2>4, <2>5
<1>12. ASSUME NEW w \in Threads, TakenCb(w) PROVE Goal
  <2>a. PICK g \in Fibers : /\ IF cbFiber[w] = None THEN state[g] = "unborn"
                               ELSE g = cbFiber[w] /\ state[g] \in {"INIT"} \cup Terminated
                            /\ Resume(w, g) /\ hasCb' = [hasCb EXCEPT ![g] = TRUE]
    BY <1>12 DEF TakenCb
  <2>1. /\ spins = 0 /\ UNCHANGED <<tasks, registered, submitted, task>>
        /\ pc'[w] = "running"
        /\ \A v \in Threads \ {w} : pc'[v] = pc[v]
    BY <1>a, <2>a DEF Resume, GoesTo, TypeOK, clientVars
  <2>2. \A h \in Fibers \ {g} : state'[h] = state[h] /\ loc'[h] = loc[h] /\ hasCb'[h] = hasCb[h]
    BY <1>a, <2>a DEF Resume, TypeOK
  <2>3. ASSUME NEW h \in Fibers
        PROVE  (InTasks(h)' => InTasks(h)) /\ (Single(h) => Single(h)')
    BY <2>1 DEF InTasks, Single
  <2>5. ASSUME NEW h \in Fibers, NEW v \in Threads
        PROVE  (Taken(v, h)' => Taken(v, h)) /\ ~Taken(w, h)'
    BY <2>1 DEF Taken
  <2>4. TokenOf(g)'
    <3>2. ~Waits(g)
      BY <1>a, <2>a DEF Resume, ThreadOf, FiberOf, Waits, Terminated
    <3>3. ~Kept(g)'
      <4>1. /\ g \notin registered /\ g \notin UserFibers \ submitted /\ ~InTasks(g)
            /\ \A v \in Threads : Taken(v, g) => v = w
        BY <1>e, <2>1, <3>2 DEF TokenOf, Kept
      <4>2. ~InTasks(g)' /\ \A v \in Threads : ~Taken(v, g)'
        <5>1. ~InTasks(g)'
          BY <2>3, <4>1
        <5>2. ASSUME NEW v \in Threads PROVE ~Taken(v, g)'
          BY <2>5, <4>1
        <5>. QED
          BY <5>1, <5>2
      <4>. QED
        BY <2>1, <4>1, <4>2 DEF Kept
    <3>. QED
      BY <1>e, <2>1, <2>3, <3>3, NoToken
  <2>. QED
    BY <1>d, <1>e, <2>1, <2>2, <2>3, <2>4, <2>5
<1>13. ASSUME NEW w \in Threads, TakenWrong(w) PROVE Goal
  BY <1>c, <1>13 DEF TakenWrong, fiberVars, clientVars, threadVars
<1>14. ASSUME NEW w \in Threads, TakenNothing(w) PROVE Goal
  <2>1. /\ spins = 0 /\ UNCHANGED <<tasks, state, loc, hasCb, registered, submitted>>
        /\ pc'[w] \in {"none", "idle"}
        /\ \A v \in Threads \ {w} : pc'[v] = pc[v] /\ task'[v] = task[v]
    BY <1>a, <1>14 DEF TakenNothing, GoesTo, TypeOK, fiberVars, clientVars
  <2>. QED
    BY <1>b, <2>1 DEF Waits, Taken
<1>15. ASSUME NEW w \in Threads, Idle(w) PROVE Goal
  <2>1. /\ spins = 0 /\ UNCHANGED <<tasks, state, loc, hasCb, registered, submitted, task>>
        /\ pc'[w] = "scan"
        /\ \A v \in Threads \ {w} : pc'[v] = pc[v]
    BY <1>a, <1>15 DEF Idle, GoesTo, TypeOK, fiberVars, clientVars
  <2>. QED
    BY <1>b, <2>1 DEF Waits, Taken
<1>16. ASSUME NEW w \in Threads, Return(w) PROVE Goal
  <2>a. loc[running[w]] = "leaving" /\ loc' = [loc EXCEPT ![running[w]] = "out"]
    BY <1>16 DEF Return
  <2>1. /\ spins = 0 /\ UNCHANGED <<tasks, state, hasCb, registered, submitted, task>>
        /\ pc'[w] = "check"
        /\ \A v \in Threads \ {w} : pc'[v] = pc[v]
        /\ \A g \in Fibers : loc[g] = "hold" => loc'[g] = "hold"
    BY <1>a, <2>a, <1>16 DEF Return, GoesTo, TypeOK, clientVars
  <2>. QED
    BY <1>b, <2>1 DEF Waits, Taken
<1>17. ASSUME NEW w \in Threads, Check(w) PROVE Goal
  <2>a. PICK g \in Fibers : g = running[w]
    BY <1>a, <1>17 DEF Check, GoesTo, ThreadOf
  <2>. DEFINE resets == task[w].cb # None /\ state[g] \in Terminated
  <2>0. spins = 0
    BY <1>17 DEF Check
  <2>b. state[g] # "READY"
    BY <1>a, <2>0 DEF FiberOf
  <2>1. /\ resets => loc[g] = "out"
        /\ state' = [state EXCEPT ![g] = IF resets THEN "INIT" ELSE state[g]]
        /\ hasCb' = [hasCb EXCEPT ![g] = hasCb[g] /\ ~resets]
        /\ UNCHANGED <<tasks, loc, registered, submitted>>
        /\ pc'[w] # "taken"
    BY <1>a, <1>17, <2>a, <2>b DEF Check, GoesTo, clientVars, TypeOK
  <2>2. \A v \in Threads \ {w} : pc'[v] = pc[v] /\ task'[v] = task[v]
    BY <1>a, <1>17 DEF Check, GoesTo, TypeOK
  <2>3. \A h \in Fibers \ {g} : state'[h] = state[h] /\ loc'[h] = loc[h] /\ hasCb'[h] = hasCb[h]
    BY <1>a, <2>1 DEF TypeOK
  <2>4. Waits(g) => Waits(g)'
    <3>1. CASE resets
      BY <2>1, <3>1 DEF Waits, Terminated
    <3>2. CASE ~resets
      <4>1. state'[g] = state[g] /\ loc'[g] = loc[g]
        BY <1>a, <2>1, <3>2 DEF TypeOK
      <4>2. hasCb'[g] = (hasCb[g] /\ ~resets) /\ hasCb[g] \in BOOLEAN
        BY <1>a, <2>1 DEF TypeOK
      <4>. QED
        BY <3>2, <4>1, <4>2 DEF Waits
    <3>. QED
      BY <3>1, <3>2
  <2>5. \A h \in Fibers : Waits(h) => Waits(h)'
    BY <2>3, <2>4 DEF Waits
  <2>6. \A h \in Fibers : \A v \in Threads : Taken(v, h)' => Taken(v, h)
    BY <2>1, <2>2 DEF Taken
  <2>. QED
    BY <1>b, <2>0, <2>1, <2>5, <2>6
<1>18. ASSUME NEW w \in Threads, CheckWrong(w) PROVE Goal
  BY <1>c, <1>18 DEF CheckWrong, fiberVars, clientVars, threadVars
<1>19. CASE UNCHANGED vars
  BY <1>c, <1>19 DEF vars, fiberVars, clientVars, threadVars
<1>. QED
  BY <1>1, <1>2, <1>3, <1>4, <1>5, <1>6, <1>7, <1>8, <1>9, <1>10,
     <1>11, <1>12, <1>13, <1>14, <1>15, <1>16, <1>17, <1>18, <1>19
  DEF Next, FiberStep, ThreadStep

-----------------------------------------------------------------------------
(* The threads leave nothing behind *)

LEMMA RestNext == IInv /\ [Next]_vars => RestInv'
<1>. SUFFICES ASSUME IInv, [Next]_vars, spins' = 0, \A v \in Threads : Leaves(v)'
              PROVE  tasks' = <<>>
  BY DEF RestInv
<1>a. /\ TypeOK /\ ListInv /\ ThreadInv /\ FiberInv /\ TokenInv /\ RestInv
      /\ \A v \in Threads : ThreadOf(v)
      /\ \A g \in Fibers : FiberOf(g)
  BY DEF IInv, ThreadInv, FiberInv
<1>b. ASSUME spins = 0, tasks' = tasks, \A v \in Threads : Leaves(v)
      PROVE  tasks' = <<>>
  BY <1>a, <1>b DEF RestInv
<1>c. ASSUME spins = 0, UNCHANGED <<tasks, pc, task, idleDone>>
      PROVE  tasks' = <<>>
  <2>1. \A v \in Threads : Leaves(v)
    BY <1>c DEF Leaves
  <2>. QED
    BY <1>b, <1>c, <2>1
\* A client's thread submits nothing any more, and no fiber runs that could.
<1>d. ASSUME UNCHANGED <<pc, task, idleDone>>, NEW g \in Fibers, ~stop \/ loc[g] = "body"
      PROVE  FALSE
  <2>1. \A v \in Threads : Leaves(v)
    BY <1>d DEF Leaves
  <2>2. PICK v \in Threads : TRUE
    BY ThreadsAssumption
  <2>3. stop
    BY <1>a, <2>1, <2>2 DEF Leaves, ThreadOf
  <2>4. PICK u \in Threads : Runs(u, g)
    BY <1>a, <1>d, <2>3 DEF FiberOf
  <2>. QED
    BY <2>1, <2>4 DEF Leaves, Runs
<1>e. ASSUME UNCHANGED <<pc, task, idleDone>>, ~stop
      PROVE  FALSE
  <2>1. \A v \in Threads : Leaves(v)
    BY <1>e DEF Leaves
  <2>2. PICK v \in Threads : TRUE
    BY ThreadsAssumption
  <2>. QED
    BY <1>a, <1>e, <2>1, <2>2 DEF Leaves, ThreadOf
\* A thread that goes on does not leave.
<1>f. ASSUME NEW v \in Threads, pc'[v] \notin {"none", "taken"}
      PROVE  FALSE
  BY <1>f DEF Leaves
<1>1. CASE Start
  <2>1. PICK v \in Threads : TRUE
    BY ThreadsAssumption
  <2>. QED
    BY <1>f, <1>1, <2>1 DEF Start
<1>2. CASE Stop
  BY <1>c, <1>2 DEF Stop, fiberVars, clientVars, threadVars
<1>3. CASE Joined
  BY <1>c, <1>3 DEF Joined, fiberVars, clientVars, threadVars
<1>4. CASE SubmitNew
  BY <1>d, <1>e, <1>4 DEF SubmitNew, threadVars
<1>5. ASSUME NEW f \in Fibers, Wake(f) PROVE tasks' = <<>>
  BY <1>d, <1>e, <1>5 DEF Wake, threadVars
<1>6. ASSUME NEW f \in Fibers, Register(f) PROVE tasks' = <<>>
  BY <1>c, <1>6 DEF Register, Moves, threadVars
<1>7. ASSUME NEW f \in Fibers, YieldToHold(f) PROVE tasks' = <<>>
  BY <1>c, <1>7 DEF YieldToHold, Moves, threadVars
<1>8. ASSUME NEW f \in Fibers, YieldToReady(f) PROVE tasks' = <<>>
  <2>1. spins' = spins + 1 /\ spins \in Nat
    BY <1>a, <1>8, SpinsType DEF YieldToReady
  <2>. QED
    BY <2>1
<1>9. ASSUME NEW f \in Fibers, Finish(f) PROVE tasks' = <<>>
  BY <1>c, <1>9 DEF Finish, Moves, threadVars
<1>10. ASSUME NEW w \in Threads, Scan(w) PROVE tasks' = <<>>
  <2>1. /\ spins = 0 /\ pc[w] = "scan" /\ pc'[w] = "taken"
        /\ \A v \in Threads \ {w} : pc'[v] = pc[v]
        /\ idleDone' = idleDone
    BY <1>a, <1>10 DEF Scan, GoesTo, TypeOK, fiberVars
  <2>2. task'[w] = NoTask /\ idleDone[w]
    BY <2>1 DEF Leaves
  <2>3. ASSUME NEW i \in 1..Len(tasks), Takes(w, tasks[i])
        PROVE  FALSE
    <3>1. task'[w] = tasks[i]
      BY <1>a, <2>3 DEF Takes, TypeOK
    <3>. QED
      BY <1>a, <2>2, <3>1 DEF ListInv, Filled, NoTask, Task
  <2>4. CASE FindsNothing(w) /\ UNCHANGED tasks
    <3>1. \A v \in Threads : pc[v] # "running"
      BY <2>1 DEF Leaves
    <3>2. \A g \in Fibers : state[g] # "EXEC"
      BY <1>a, <3>1 DEF FiberOf, Runs
    <3>3. \A i \in 1..Len(tasks) : tasks[i].thread = None
      BY <1>a, <2>2 DEF ListInv
    <3>4. tasks \in Seq(Jobs)
      BY <1>a DEF TypeOK, Jobs
    <3>5. \A i \in 1..Len(tasks) : tasks[i].fiber # None => tasks[i].fiber \in Fibers
      <4>1. \A i \in 1..Len(tasks) : tasks[i] \in Jobs
        BY <3>4
      <4>. QED
        BY <4>1 DEF Jobs
    <3>6. \A i \in 1..Len(tasks) : Eligible(w, tasks[i])
      BY <3>2, <3>3, <3>5 DEF Eligible
    <3>7. 1..Len(tasks) = {}
      BY <2>4, <3>6 DEF FindsNothing
    <3>8. Len(tasks) \in Nat
      BY <3>4
    <3>9. Len(tasks) = 0
      <4>1. 1 \notin 1..Len(tasks)
        BY <3>7
      <4>. QED
        BY <3>8, <4>1
    <3>. QED
      BY <2>4, <3>4, <3>9
  <2>. QED
    BY <1>10, <2>3, <2>4 DEF Scan
<1>11. ASSUME NEW w \in Threads, TakenFiber(w) PROVE tasks' = <<>>
  <2>1. pc'[w] = "running"
    BY <1>a, <1>11 DEF TakenFiber, Resume, GoesTo, TypeOK
  <2>. QED
    BY <1>f, <2>1
<1>12. ASSUME NEW w \in Threads, TakenCb(w) PROVE tasks' = <<>>
  <2>1. pc'[w] = "running"
    BY <1>a, <1>12 DEF TakenCb, Resume, GoesTo, TypeOK
  <2>. QED
    BY <1>f, <2>1
<1>13. ASSUME NEW w \in Threads, TakenWrong(w) PROVE tasks' = <<>>
  BY <1>c, <1>13 DEF TakenWrong, fiberVars, clientVars, threadVars
<1>14. ASSUME NEW w \in Threads, TakenNothing(w) PROVE tasks' = <<>>
  <2>1. /\ spins = 0 /\ UNCHANGED <<tasks, idleDone>> /\ pc[w] = "taken"
        /\ pc'[w] = IF idleDone[w] THEN "none" ELSE "idle"
        /\ \A v \in Threads \ {w} : pc'[v] = pc[v] /\ task'[v] = task[v]
    BY <1>a, <1>14 DEF TakenNothing, GoesTo, TypeOK, fiberVars
  <2>2. idleDone[w]
    BY <1>f, <2>1
  <2>3. ASSUME task[w].fiber # None, state[task[w].fiber] \in Terminated
        PROVE  FALSE
    <3>1. PICK f \in Fibers : f = task[w].fiber
      BY <1>a, <2>3 DEF TypeOK
    <3>2. Waits(f)
      BY <1>a, <2>1, <3>1 DEF TokenInv, TokenOf, Kept, Taken
    <3>. QED
      BY <1>a, <2>3, <3>1, <3>2 DEF FiberOf, Waits, Terminated
  <2>4. task[w] = NoTask
    BY <1>14, <2>3 DEF TakenNothing
  <2>5. \A v \in Threads : Leaves(v)
    BY <2>1, <2>2, <2>4 DEF Leaves
  <2>. QED
    BY <1>b, <2>1, <2>5
<1>15. ASSUME NEW w \in Threads, Idle(w) PROVE tasks' = <<>>
  <2>1. pc'[w] = "scan"
    BY <1>a, <1>15 DEF Idle, GoesTo, TypeOK
  <2>. QED
    BY <1>f, <2>1
<1>16. ASSUME NEW w \in Threads, Return(w) PROVE tasks' = <<>>
  <2>1. pc'[w] = "check"
    BY <1>a, <1>16 DEF Return, GoesTo, TypeOK
  <2>. QED
    BY <1>f, <2>1
<1>17. ASSUME NEW w \in Threads, Check(w) PROVE tasks' = <<>>
  <2>1. pc'[w] = "scan"
    BY <1>a, <1>17 DEF Check, GoesTo, TypeOK
  <2>. QED
    BY <1>f, <2>1
<1>18. ASSUME NEW w \in Threads, CheckWrong(w) PROVE tasks' = <<>>
  BY <1>c, <1>18 DEF CheckWrong, fiberVars, clientVars, threadVars
<1>19. CASE UNCHANGED vars
  BY <1>c, <1>19 DEF vars, fiberVars, clientVars, threadVars
<1>. QED
  BY <1>1, <1>2, <1>3, <1>4, <1>5, <1>6, <1>7, <1>8, <1>9, <1>10,
     <1>11, <1>12, <1>13, <1>14, <1>15, <1>16, <1>17, <1>18, <1>19
  DEF Next, FiberStep, ThreadStep

-----------------------------------------------------------------------------
(* What the invariant says of the scheduler *)

LEMMA InitIInv == Init => IInv
<1>. SUFFICES ASSUME Init PROVE IInv
  OBVIOUS
<1>1. IsFiniteSet(Threads) /\ Cardinality(Threads) \in Nat
  BY ThreadsAssumption, FS_CardinalityType
<1>2. TypeOK
  <2>1. NoTask \in Jobs
    BY JobFacts
  <2>2. MaxHolds \in Nat /\ MaxSpins \in Nat
    BY BoundsAssumption
  <2>3. active \in 0..Cardinality(Threads) /\ holds \in 0..MaxHolds /\ spins \in 0..MaxSpins
    BY <1>1, <2>2 DEF Init
  <2>4. state \in [Fibers -> {"unborn", "INIT", "HOLD", "EXEC", "READY"} \cup Terminated]
    BY DEF Init
  <2>5. task \in [Threads -> Jobs]
    BY <2>1 DEF Init
  <2>6. /\ tasks \in Seq(Jobs)
        /\ pc \in [Threads -> {"none", "scan", "taken", "running", "check", "idle"}]
        /\ cbFiber \in [Threads -> Fibers \cup {None}]
        /\ running \in [Threads -> Fibers \cup {None}]
        /\ idleDone \in [Threads -> BOOLEAN]
    BY DEF Init
  <2>7. /\ stop \in BOOLEAN /\ joining \in BOOLEAN
        /\ loc \in [Fibers -> {"out", "body", "hold", "leaving"}]
        /\ registered \subseteq Fibers
        /\ submitted \subseteq UserFibers \cup Cbs
        /\ fault \in {"none", "assert", "live context"}
    BY DEF Init
  <2>8. hasCb \in [Fibers -> BOOLEAN]
    <3>1. \A f \in Fibers : (f \in UserFibers) \in BOOLEAN
      OBVIOUS
    <3>. QED
      BY <3>1 DEF Init
  <2>. QED
    BY <2>3, <2>4, <2>5, <2>6, <2>7, <2>8 DEF TypeOK, Jobs
<1>3. active = Cardinality(Running)
  <2>1. Running = {}
    BY DEF Init, Running
  <2>. QED
    BY <2>1, FS_EmptySet DEF Init
<1>4. ListInv
  BY DEF Init, ListInv
<1>5. ThreadInv
  <2>1. ASSUME NEW v \in Threads PROVE ThreadOf(v)
    BY JobFacts, UserFibersAssumption DEF Init, ThreadOf
  <2>. QED
    BY <2>1 DEF Init, ThreadInv, Ended, Runs
<1>6. FiberInv
  BY DEF Init, FiberInv, FiberOf
<1>7. KeptInv
  BY DEF Init, KeptInv, KeptOf, Waits, Kept
<1>8. TokenInv
  <2>1. ASSUME NEW g \in Fibers PROVE TokenOf(g)
    <3>1. ~InTasks(g) /\ Single(g) /\ \A v \in Threads : ~Taken(v, g)
      BY DEF Init, InTasks, Single, Taken
    <3>. QED
      BY <3>1 DEF Init, TokenOf, Kept, Waits
  <2>. QED
    BY <2>1 DEF TokenInv
<1>9. RestInv
  BY DEF Init, RestInv
<1>. QED
  BY <1>2, <1>3, <1>4, <1>5, <1>6, <1>7, <1>8, <1>9 DEF IInv

LEMMA NextIInv == IInv /\ [Next]_vars => IInv'
<1>. SUFFICES ASSUME IInv, [Next]_vars PROVE IInv'
  OBVIOUS
<1>1. TypeOK'
  BY TypeNext
<1>2. active' = Cardinality(Running')
  BY ActiveNext
<1>3. ListInv'
  BY ListNext
<1>4. ThreadInv'
  BY ThreadNext
<1>5. FiberInv'
  BY FiberNext
<1>6. KeptInv'
  BY KeptNext
<1>7. TokenInv'
  BY TokenNext
<1>8. RestInv'
  BY RestNext
<1>. QED
  BY <1>1, <1>2, <1>3, <1>4, <1>5, <1>6, <1>7, <1>8 DEF IInv

\* Whatever fibers and callbacks are submitted and whenever stop() is called, the list,
\* the threads and the fibers fit together as the invariant says (scheduler.cc:93-202).
THEOREM InductiveInvariant == Spec => []IInv
BY InitIInv, NextIInv, PTL DEF Spec

\* m_activeThreads is the number of threads that are between resume() and the return from
\* it, and it is zero exactly when there are none, so that stopping() (scheduler.cc:201)
\* does not look past a fiber that still runs and may submit.
THEOREM ActiveCounted == Spec => [](TypeOK /\ ActiveIsRunning)
<1>1. IInv => TypeOK /\ ActiveIsRunning
  <2>. SUFFICES ASSUME IInv
                PROVE  TypeOK /\ ActiveIsRunning
    OBVIOUS
  <2>1. TypeOK /\ active = Cardinality(Running)
    BY DEF IInv
  <2>2. IsFiniteSet(Running)
    BY ThreadsAssumption, FS_Subset DEF Running
  <2>3. Cardinality(Running) = 0 <=> Running = {}
    BY <2>2, FS_EmptySet
  <2>. QED
    BY <2>1, <2>3 DEF ActiveIsRunning
<1>. QED
  BY <1>1, InductiveInvariant, PTL

\* A fiber that has not ended is never forgotten, for any number of threads: it is in
\* the list, a thread has it, or it has registered with someone, also when it yields
\* READY and several threads see it (scheduler.cc:98-179).
THEOREM NobodyForgotten == Spec => []NoFiberForgotten
<1>1. IInv => NoFiberForgotten
  <2>. SUFFICES ASSUME IInv, NEW f \in Fibers, Live(f)
                PROVE  \/ InTasks(f)
                       \/ \E w \in Threads : HeldBy(w, f)
                       \/ f \in registered
                       \/ f \in UserFibers \ submitted
    BY DEF NoFiberForgotten
  <2>1. TypeOK /\ FiberOf(f) /\ KeptOf(f)
    BY DEF IInv, FiberInv, KeptInv
  <2>2. state[f] \in {"INIT", "HOLD", "EXEC", "READY"} /\ hasCb[f]
    BY <2>1 DEF TypeOK, Live, FiberOf
  <2>3. CASE Kept(f) \/ Has(f)
    BY <2>3 DEF Kept, Taken, Has, HeldBy
  <2>4. CASE \E w \in Threads : Runs(w, f)
    BY <2>4 DEF Runs, HeldBy
  <2>5. Kept(f) \/ Has(f) \/ \E w \in Threads : Runs(w, f)
    BY <2>1, <2>2 DEF FiberOf, KeptOf, Waits
  <2>. QED
    BY <2>3, <2>4, <2>5
<1>. QED
  BY <1>1, InductiveInvariant, PTL

\* While no fiber yields READY, stop() leaves nothing behind when it returns: the list
\* is empty and no fiber runs (scheduler.cc:181-189, 198-202).
THEOREM NothingLeftAtExit == Spec => []ExitMeansDone
<1>1. IInv => ExitMeansDone
  <2>. SUFFICES ASSUME IInv, spins = 0, Ended
                PROVE  tasks = <<>> /\ \A f \in Fibers : state[f] \notin {"EXEC", "READY"}
    BY DEF ExitMeansDone, ExitIsClean
  <2>1. tasks = <<>>
    BY DEF IInv, RestInv, Leaves, Ended
  <2>2. ASSUME NEW f \in Fibers PROVE state[f] \notin {"EXEC", "READY"}
    <3>1. FiberOf(f)
      BY DEF IInv, FiberInv
    <3>. QED
      BY <3>1 DEF FiberOf, Runs, Ended
  <2>. QED
    BY <2>1, <2>2
<1>. QED
  BY <1>1, InductiveInvariant, PTL

LEMMA EndedStep ==
    ASSUME IInv, [Next]_vars, NEW f \in Fibers, state[f] \in Terminated, state'[f] # state[f]
    PROVE  \E w \in Threads : cbFiber[w] = f /\ task[w].cb # None /\ pc'[w] # pc[w]
<1>. DEFINE Goal == \E v \in Threads : cbFiber[v] = f /\ task[v].cb # None /\ pc'[v] # pc[v]
<1>a. TypeOK /\ FiberOf(f) /\ loc[f] \in {"out", "leaving"}
  BY DEF IInv, FiberInv, FiberOf, TypeOK, Terminated
<1>b. state' # state
  OBVIOUS
<1>c. \A v \in Threads : ThreadOf(v)
  BY DEF IInv, ThreadInv
<1>1. CASE Start
  BY <1>b, <1>1 DEF Start, fiberVars
<1>2. CASE Stop
  BY <1>b, <1>2 DEF Stop, fiberVars
<1>3. CASE Joined
  BY <1>b, <1>3 DEF Joined, fiberVars
<1>4. CASE SubmitNew
  BY <1>b, <1>4 DEF SubmitNew, fiberVars
<1>5. ASSUME NEW g \in Fibers, Wake(g) PROVE Goal
  BY <1>b, <1>5 DEF Wake, fiberVars
<1>6. ASSUME NEW g \in Fibers, Register(g) PROVE Goal
  BY <1>b, <1>6 DEF Register
<1>7. ASSUME NEW g \in Fibers, YieldToHold(g) PROVE Goal
  BY <1>a, <1>7 DEF YieldToHold, Moves, TypeOK
<1>8. ASSUME NEW g \in Fibers, YieldToReady(g) PROVE Goal
  BY <1>a, <1>8 DEF YieldToReady, Moves, TypeOK
<1>9. ASSUME NEW g \in Fibers, Finish(g) PROVE Goal
  BY <1>a, <1>9 DEF Finish, Moves, TypeOK
<1>10. ASSUME NEW w \in Threads, Scan(w) PROVE Goal
  BY <1>b, <1>10 DEF Scan, fiberVars
<1>11. ASSUME NEW w \in Threads, TakenFiber(w) PROVE Goal
  <2>1. PICK g \in Fibers : g = task[w].fiber /\ state[g] \notin Terminated /\ Resume(w, g)
    BY <1>a, <1>11, TakenFacts
  <2>. QED
    BY <1>a, <2>1 DEF Resume, TypeOK
<1>12. ASSUME NEW w \in Threads, TakenCb(w) PROVE Goal
  <2>1. PICK g \in Fibers : /\ task[w].cb # None
                            /\ IF cbFiber[w] = None THEN state[g] = "unborn"
                               ELSE g = cbFiber[w] /\ state[g] \in {"INIT"} \cup Terminated
                            /\ Resume(w, g)
    BY <1>12 DEF TakenCb
  <2>2. g = f
    BY <1>a, <2>1 DEF Resume, TypeOK
  <2>3. cbFiber[w] = f
    BY <2>1, <2>2 DEF Terminated
  <2>4. pc'[w] # pc[w]
    BY <1>a, <2>1 DEF Resume, GoesTo, TypeOK
  <2>. QED
    BY <2>1, <2>3, <2>4
<1>13. ASSUME NEW w \in Threads, TakenWrong(w) PROVE Goal
  BY <1>b, <1>13 DEF TakenWrong, fiberVars
<1>14. ASSUME NEW w \in Threads, TakenNothing(w) PROVE Goal
  BY <1>b, <1>14 DEF TakenNothing, fiberVars
<1>15. ASSUME NEW w \in Threads, Idle(w) PROVE Goal
  BY <1>b, <1>15 DEF Idle, fiberVars
<1>16. ASSUME NEW w \in Threads, Return(w) PROVE Goal
  BY <1>b, <1>16 DEF Return
<1>17. ASSUME NEW w \in Threads, Check(w) PROVE Goal
  <2>1. PICK g \in Fibers : g = running[w]
    BY <1>c, <1>17 DEF Check, GoesTo, ThreadOf
  <2>2. state' = [state EXCEPT ![g] = IF task[w].cb # None /\ state[g] \in Terminated THEN "INIT" ELSE state[g]]
    BY <1>17, <2>1 DEF Check
  <2>3. g = f /\ task[w].cb # None
    BY <1>a, <2>2 DEF TypeOK
  <2>4. cbFiber[w] = f /\ pc'[w] # pc[w]
    BY <1>a, <1>c, <1>17, <2>1, <2>3 DEF Check, GoesTo, ThreadOf, TypeOK
  <2>. QED
    BY <2>3, <2>4
<1>18. ASSUME NEW w \in Threads, CheckWrong(w) PROVE Goal
  BY <1>b, <1>18 DEF CheckWrong, fiberVars
<1>19. CASE UNCHANGED vars
  BY <1>b, <1>19 DEF vars, fiberVars
<1>. QED
  BY <1>1, <1>2, <1>3, <1>4, <1>5, <1>6, <1>7, <1>8, <1>9, <1>10,
     <1>11, <1>12, <1>13, <1>14, <1>15, <1>16, <1>17, <1>18, <1>19
  DEF Next, FiberStep, ThreadStep

\* No step of any thread or fiber gives an ended fiber another state, but for the thread
\* that keeps it as its cb_fiber and has a callback to run (scheduler.cc:142-179,
\* fiber.cc:121-139).
THEOREM EndedNeverRuns == Spec => EndedStaysEnded
<1>1. IInv /\ [Next]_vars =>
        [\A f \in Fibers :
            state[f] \in Terminated /\ state'[f] # state[f] =>
                \E w \in Threads : cbFiber[w] = f /\ task[w].cb # None /\ pc'[w] # pc[w]]_vars
  BY EndedStep
<1>. QED
  BY <1>1, InductiveInvariant, PTL DEF Spec, EndedStaysEnded
=============================================================================
