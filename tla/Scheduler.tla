----------------------------- MODULE Scheduler -----------------------------
(***************************************************************************)
(* The scheduler (src/base/scheduler.cc, include/base/scheduler.h) and its *)
(* fibers (src/base/fiber.cc): a list of tasks, shared by the threads of   *)
(* a pool that all execute Scheduler::run().                               *)
(*                                                                         *)
(* A task is a fiber, or a callback for which the thread makes a fiber (or *)
(* reuses the one in its local variable cb_fiber).  A running fiber may    *)
(* register itself somewhere and hold, yield and stay ready, submit tasks, *)
(* wake fibers that have registered, and end.                              *)
(*                                                                         *)
(* A fiber that leaves its thread first stores its new state and then      *)
(* saves its context (fiber.cc:182-183): two steps.  A thread that runs a  *)
(* fiber or resets one whose context is live does something undefined, and *)
(* an assertion that fails aborts the program: then `fault' says what      *)
(* happened and nothing more happens.                                      *)
(*                                                                         *)
(* The base class does not block in wait(): an idle thread looks again and *)
(* again.  Blocking is added by IOManager, which overrides wait().         *)
(***************************************************************************)
EXTENDS Naturals, FiniteSets, Sequences

CONSTANTS
    Fibers,     \* fiber objects
    UserFibers, \* those that are submitted as fibers; the others run callbacks
    Cbs,        \* the callbacks submitted, each of them once
    Threads,    \* the pool
    None,       \* null
    MaxSubmits, \* bound: how many fibers and callbacks the clients submit
    MaxHolds,   \* bound: how often fibers hold
    MaxSpins    \* bound: how often fibers yield and stay ready

ASSUME UserFibersAssumption == UserFibers \subseteq Fibers
ASSUME NoneAssumption == None \notin Fibers \cup Cbs \cup Threads
ASSUME KindsAssumption == Fibers \cap Cbs = {}
ASSUME BoundsAssumption == MaxHolds \in Nat /\ MaxSpins \in Nat
ASSUME ThreadsAssumption == IsFiniteSet(Threads) /\ Threads # {}

VARIABLES
    tasks,      \* m_tasks
    stop,       \* m_stop
    joining,    \* stop() waits for the threads to end
    active,     \* m_activeThreads
    state,      \* m_state of each fiber; "unborn" before its constructor
    hasCb,      \* is m_cb of each fiber set
    loc,        \* where each fiber is in its function
    holds,      \* how often fibers have held
    spins,      \* how often fibers have called YieldToReady()
    registered, \* fibers that somebody may wake
    submitted,  \* fibers and callbacks the clients have submitted
    pc,         \* where each thread is in run()
    task,       \* the local variable `task' of each thread
    cbFiber,    \* the local variable `cb_fiber'
    running,    \* the fiber each thread executes or is about to look at
    idleDone,   \* is the idle fiber of each thread in state TERM
    fault       \* what has gone wrong

poolVars == <<stop, joining>>
fiberVars == <<state, hasCb, loc, holds, spins>>
clientVars == <<registered, submitted>>
threadVars == <<pc, task, cbFiber, running, idleDone>>
vars == <<tasks, active, poolVars, fiberVars, clientVars, threadVars, fault>>

Terminated == {"TERM", "EXCEPT"}
Task(f, c, t) == [fiber |-> f, cb |-> c, thread |-> t]
NoTask == Task(None, None, None)
FiberTask(f) == Task(f, None, None)

TypeOK ==
    /\ tasks \in Seq([fiber : Fibers \cup {None}, cb : Cbs \cup {None},
                      thread : Threads \cup {None}])
    /\ stop \in BOOLEAN
    /\ joining \in BOOLEAN
    /\ active \in 0..Cardinality(Threads)
    /\ state \in [Fibers -> {"unborn", "INIT", "HOLD", "EXEC", "READY"} \cup Terminated]
    /\ hasCb \in [Fibers -> BOOLEAN]
    /\ loc \in [Fibers -> {"out", "body", "hold", "leaving"}]
    /\ holds \in 0..MaxHolds /\ spins \in 0..MaxSpins
    /\ registered \subseteq Fibers
    /\ submitted \subseteq UserFibers \cup Cbs
    /\ pc \in [Threads -> {"none", "scan", "taken", "running", "check",
                           "idle"}]
    /\ task \in [Threads -> [fiber : Fibers \cup {None}, cb : Cbs \cup {None},
                             thread : Threads \cup {None}]]
    /\ cbFiber \in [Threads -> Fibers \cup {None}]
    /\ running \in [Threads -> Fibers \cup {None}]
    /\ idleDone \in [Threads -> BOOLEAN]
    /\ fault \in {"none", "assert", "live context"}

\* The constructors have run: the scheduler and the user's fibers exist.
Init ==
    /\ tasks = <<>>
    /\ stop = TRUE
    /\ joining = FALSE
    /\ active = 0
    /\ state = [f \in Fibers |-> IF f \in UserFibers THEN "INIT" ELSE "unborn"]
    /\ hasCb = [f \in Fibers |-> f \in UserFibers]
    /\ loc = [f \in Fibers |-> "out"]
    /\ holds = 0 /\ spins = 0
    /\ registered = {}
    /\ submitted = {}
    /\ pc = [w \in Threads |-> "none"]
    /\ task = [w \in Threads |-> NoTask]
    /\ cbFiber = [w \in Threads |-> None]
    /\ running = [w \in Threads |-> None]
    /\ idleDone = [w \in Threads |-> FALSE]
    /\ fault = "none"

Ended == \A w \in Threads : pc[w] = "none"

-----------------------------------------------------------------------------
(* start(), stop() *)

Start ==
    /\ stop
    /\ ~joining
    /\ stop' = FALSE
    /\ pc' = [w \in Threads |-> "scan"]
    /\ idleDone' = [w \in Threads |-> FALSE]
    /\ UNCHANGED <<tasks, joining, active, fiberVars, clientVars, task, cbFiber,
                   running, fault>>

Stop ==
    /\ ~stop
    /\ stop' = TRUE
    /\ joining' = TRUE
    /\ UNCHANGED <<tasks, active, fiberVars, clientVars, threadVars, fault>>

\* The joins of stop() return.
Joined ==
    /\ joining
    /\ Ended
    /\ joining' = FALSE
    /\ UNCHANGED <<tasks, stop, active, fiberVars, clientVars, threadVars, fault>>

-----------------------------------------------------------------------------
(* submit() *)

Submit(t) == tasks' = Append(tasks, t)

\* Somebody submits a new fiber or callback: another thread until stop() is
\* called, a running fiber at any time.  Pinned tasks (the argument `thread')
\* are submitted before stop() only.
SubmitNew ==
    /\ Cardinality(submitted) < MaxSubmits
    /\ ~stop \/ \E f \in Fibers : loc[f] = "body"
    /\ \E t \in Threads \cup {None} :
        /\ stop => t = None
        /\ \/ \E f \in UserFibers \ submitted :
                 /\ submitted' = submitted \cup {f}
                 /\ Submit(Task(f, None, t))
           \/ \E c \in Cbs \ submitted :
                 /\ submitted' = submitted \cup {c}
                 /\ Submit(Task(None, c, t))
    /\ UNCHANGED <<active, poolVars, fiberVars, registered, threadVars, fault>>

\* Somebody, as above, wakes a fiber that has registered.
Wake(f) ==
    /\ ~stop \/ \E g \in Fibers : loc[g] = "body"
    /\ f \in registered
    /\ registered' = registered \ {f}
    /\ Submit(FiberTask(f))
    /\ UNCHANGED <<active, poolVars, fiberVars, submitted, threadVars, fault>>

-----------------------------------------------------------------------------
(* What a fiber does while a thread executes it *)

\* Fiber f goes from one place of its function to another.
Moves(f, from, to) ==
    /\ loc[f] = from
    /\ loc' = [loc EXCEPT ![f] = to]
    /\ UNCHANGED <<tasks, active, poolVars, submitted, threadVars, fault>>

\* It makes itself known (to a lock, a timer, epoll...) before it holds.
Register(f) ==
    /\ Moves(f, "body", "hold")
    /\ hasCb[f]
    /\ holds < MaxHolds
    /\ registered' = registered \cup {f}
    /\ holds' = holds + 1
    /\ UNCHANGED <<state, hasCb, spins>>

\* YieldToHold(), YieldToReady(): the state is stored, the context not saved.
YieldToHold(f) ==
    /\ Moves(f, "hold", "leaving")
    /\ state' = [state EXCEPT ![f] = "HOLD"]
    /\ UNCHANGED <<hasCb, holds, spins, registered>>

YieldToReady(f) ==
    /\ Moves(f, "body", "leaving")
    /\ hasCb[f]
    /\ spins < MaxSpins
    /\ state' = [state EXCEPT ![f] = "READY"]
    /\ spins' = spins + 1
    /\ UNCHANGED <<hasCb, holds, registered>>

\* MainFunc: the callback returns (and is dropped) or throws; calling an empty
\* one throws.
Finish(f) ==
    /\ Moves(f, "body", "leaving")
    /\ \/ /\ hasCb[f]
          /\ state' = [state EXCEPT ![f] = "TERM"]
          /\ hasCb' = [hasCb EXCEPT ![f] = FALSE]
       \/ /\ state' = [state EXCEPT ![f] = "EXCEPT"]
          /\ UNCHANGED hasCb
    /\ UNCHANGED <<holds, spins, registered>>

FiberStep(f) ==
    Register(f) \/ YieldToHold(f) \/ YieldToReady(f) \/ Finish(f)

-----------------------------------------------------------------------------
(* run() *)

GoesTo(w, from, to) ==
    /\ pc[w] = from
    /\ pc' = [pc EXCEPT ![w] = to]

\* Lines 108-124: the thread may take a task that is not pinned to another
\* thread and whose fiber does not run.
Eligible(w, t) ==
    /\ t.thread \in {None, w}
    /\ t.fiber # None => state[t.fiber] # "EXEC"

FirstEligible(w, i) ==
    /\ Eligible(w, tasks[i])
    /\ \A j \in 1..(i - 1) : ~Eligible(w, tasks[j])

Without(s, i) == SubSeq(s, 1, i - 1) \o SubSeq(s, i + 1, Len(s))

Takes(w, t) == task' = [task EXCEPT ![w] = t]

FindsNothing(w) ==
    /\ \A i \in 1..Len(tasks) : ~Eligible(w, tasks[i])
    /\ Takes(w, NoTask)

\* Mutant of Scan: the skipped tasks are erased as well.
ScanErasing(w) ==
    /\ GoesTo(w, "scan", "taken")
    /\ \/ \E i \in 1..Len(tasks) :
             /\ FirstEligible(w, i)
             /\ Takes(w, tasks[i])
             /\ tasks' = SubSeq(tasks, i + 1, Len(tasks))
       \/ FindsNothing(w) /\ tasks' = <<>>
    /\ UNCHANGED <<active, poolVars, fiberVars, clientVars, cbFiber, running,
                   idleDone, fault>>

\* Mutant of Scan: the loop is `while (!m_stop)'.
ScanUnlessStopped(w) ==
    /\ GoesTo(w, "scan", IF stop THEN "none" ELSE "taken")
    /\ \/ \E i \in 1..Len(tasks) :
             /\ ~stop
             /\ FirstEligible(w, i)
             /\ Takes(w, tasks[i])
             /\ tasks' = Without(tasks, i)
       \/ (stop \/ FindsNothing(w)) /\ Takes(w, NoTask) /\ UNCHANGED tasks
    /\ UNCHANGED <<active, poolVars, fiberVars, clientVars, cbFiber, running,
                   idleDone, fault>>

\* Lines 98-136.
Scan(w) ==
    /\ GoesTo(w, "scan", "taken")
    /\ \/ \E i \in 1..Len(tasks) :
             /\ FirstEligible(w, i)
             /\ Takes(w, tasks[i])
             /\ tasks' = Without(tasks, i)
       \/ FindsNothing(w) /\ UNCHANGED tasks
    /\ UNCHANGED <<active, poolVars, fiberVars, clientVars, cbFiber, running,
                   idleDone, fault>>

\* Fiber::resume() by thread w; the fiber is not EXEC and its context is saved.
Resume(w, f) ==
    /\ GoesTo(w, "taken", "running")
    /\ state[f] # "EXEC"
    /\ loc[f] = "out"
    /\ active' = active + 1
    /\ running' = [running EXCEPT ![w] = f]
    /\ state' = [state EXCEPT ![f] = "EXEC"]
    /\ loc' = [loc EXCEPT ![f] = "body"]
    /\ UNCHANGED <<tasks, poolVars, holds, spins, clientVars, task, idleDone, fault>>

\* Mutant of TakenFiber: the state is not looked at.
TakenAnyFiber(w) ==
    LET f == task[w].fiber IN
    /\ f # None
    /\ Resume(w, f)
    /\ UNCHANGED <<hasCb, cbFiber>>

\* Lines 142-145.
TakenFiber(w) ==
    LET f == task[w].fiber IN
    /\ f # None
    /\ state[f] \notin Terminated
    /\ Resume(w, f)
    /\ UNCHANGED <<hasCb, cbFiber>>

\* Lines 153-165: the fiber in cb_fiber is reset, or a new one is made.
TakenCb(w) ==
    /\ task[w].cb # None
    /\ \E f \in Fibers :
        /\ IF cbFiber[w] = None THEN state[f] = "unborn"
           ELSE f = cbFiber[w] /\ state[f] \in {"INIT"} \cup Terminated
        /\ Resume(w, f)
        /\ hasCb' = [hasCb EXCEPT ![f] = TRUE]
        /\ cbFiber' = [cbFiber EXCEPT ![w] = f]

\* What goes wrong there: resume() (fiber.cc:98) or reset() (fiber.cc:124)
\* fails its assertion, or the fiber is still on its way out of a thread.
TakenWrong(w) ==
    /\ pc[w] = "taken"
    /\ \E f \in Fibers :
        /\ \/ task[w].fiber = f /\ state[f] \notin Terminated
           \/ task[w].cb # None /\ cbFiber[w] = f
        /\ \/ fault' = "live context" /\ loc[f] = "leaving"
           \/ /\ fault' = "assert"
              /\ \/ state[f] = "EXEC"
                 \/ task[w].cb # None /\ state[f] \in {"HOLD", "READY"}
    /\ UNCHANGED <<tasks, active, poolVars, fiberVars, clientVars, threadVars>>

\* Lines 181-193: no task, or one whose fiber is done.  The thread ends when
\* its idle fiber has ended; `task' and `cb_fiber' die with it.
TakenNothing(w) ==
    /\ \/ task[w] = NoTask
       \/ task[w].fiber # None /\ state[task[w].fiber] \in Terminated
    /\ GoesTo(w, "taken", IF idleDone[w] THEN "none" ELSE "idle")
    /\ task' = [task EXCEPT ![w] = NoTask]
    /\ cbFiber' = [cbFiber EXCEPT ![w] = IF idleDone[w] THEN None ELSE @]
    /\ UNCHANGED <<tasks, active, poolVars, fiberVars, clientVars, running,
                   idleDone, fault>>

\* wait() and stopping(): the idle fiber holds again, or ends.
Idle(w) ==
    /\ GoesTo(w, "idle", "scan")
    /\ idleDone' = [idleDone EXCEPT ![w] = stop /\ tasks = <<>> /\ active = 0]
    /\ UNCHANGED <<tasks, active, poolVars, fiberVars, clientVars, task, cbFiber,
                   running, fault>>

\* Mutant of Return: line 146 is missing.
ReturnUncounted(w) ==
    LET f == running[w] IN
    /\ GoesTo(w, "running", "check")
    /\ loc[f] = "leaving"
    /\ loc' = [loc EXCEPT ![f] = "out"]
    /\ UNCHANGED <<tasks, active, poolVars, state, hasCb, holds, spins, clientVars, task,
                   cbFiber, running, idleDone, fault>>

\* Fiber::yield(): the context is saved and resume() returns to the thread,
\* which counts itself out (lines 146, 166).
Return(w) ==
    LET f == running[w] IN
    /\ GoesTo(w, "running", "check")
    /\ loc[f] = "leaving"
    /\ loc' = [loc EXCEPT ![f] = "out"]
    /\ active' = active - 1
    /\ UNCHANGED <<tasks, poolVars, state, hasCb, holds, spins, clientVars, task, cbFiber,
                   running, idleDone, fault>>

\* Mutant of Check: a fiber that is ready is not submitted.
CheckForgetful(w) ==
    /\ GoesTo(w, "check", "scan")
    /\ task' = [task EXCEPT ![w] = NoTask]
    /\ running' = [running EXCEPT ![w] = None]
    /\ cbFiber' = [cbFiber EXCEPT ![w] = None]
    /\ UNCHANGED <<tasks, active, poolVars, fiberVars, clientVars, idleDone, fault>>

\* Lines 147-151 and 167-179: what the thread does depends on the state that
\* the fiber has by now.
Check(w) ==
    LET f == running[w]
        fromCb == task[w].cb # None
        resets == fromCb /\ state[f] \in Terminated
    IN
    /\ GoesTo(w, "check", "scan")
    /\ ~(resets /\ loc[f] # "out")
    /\ task' = [task EXCEPT ![w] = NoTask]
    /\ running' = [running EXCEPT ![w] = None]
    /\ IF state[f] = "READY" THEN Submit(FiberTask(f)) ELSE UNCHANGED tasks
    /\ state' = [state EXCEPT ![f] = IF resets THEN "INIT" ELSE @]
    /\ hasCb' = [hasCb EXCEPT ![f] = @ /\ ~resets]
    /\ cbFiber' = [cbFiber EXCEPT ![w] = IF fromCb /\ ~resets THEN None ELSE @]
    /\ UNCHANGED <<active, poolVars, loc, holds, spins, clientVars, idleDone, fault>>

\* The thread resets a fiber that is still on its way out of another thread.
CheckWrong(w) ==
    /\ pc[w] = "check"
    /\ task[w].cb # None
    /\ state[running[w]] \in Terminated
    /\ loc[running[w]] # "out"
    /\ fault' = "live context"
    /\ UNCHANGED <<tasks, active, poolVars, fiberVars, clientVars, threadVars>>

ThreadStep(w) ==
    \/ Scan(w)
    \/ TakenFiber(w) \/ TakenCb(w) \/ TakenNothing(w) \/ TakenWrong(w)
    \/ Idle(w)
    \/ Return(w) \/ Check(w) \/ CheckWrong(w)

-----------------------------------------------------------------------------

Next ==
    /\ fault = "none"
    /\ \/ Start \/ Stop \/ Joined
       \/ SubmitNew
       \/ \E f \in Fibers : Wake(f) \/ FiberStep(f)
       \/ \E w \in Threads : ThreadStep(w)

Spec == Init /\ [][Next]_vars

(***************************************************************************)
(* Fairness.  The threads run, and so do the fibers on them: a fiber does  *)
(* not compute for ever.  A fiber that waits for an event is woken if      *)
(* someone is left to wake it.                                             *)
(***************************************************************************)
Fairness ==
    /\ WF_vars(fault = "none" /\ Joined)
    /\ \A w \in Threads : WF_vars(fault = "none" /\ ThreadStep(w))
    /\ \A f \in Fibers : WF_vars(fault = "none" /\ FiberStep(f))

FairSpec == Spec /\ Fairness

-----------------------------------------------------------------------------
(* What the scheduler promises *)

InTasks(f) == \E i \in 1..Len(tasks) : tasks[i].fiber = f
HeldBy(w, f) == task[w].fiber = f \/ running[w] = f \/ cbFiber[w] = f
Live(f) == hasCb[f] /\ state[f] \notin Terminated

\* A fiber that has not ended is never forgotten: it is in the list, a thread
\* has it, or it has made itself known to someone who will wake it.  A fiber
\* that yields READY is not lost between its thread and the list.
NoFiberForgotten ==
    \A f \in Fibers :
        Live(f) => \/ InTasks(f)
                   \/ \E w \in Threads : HeldBy(w, f)
                   \/ f \in registered
                   \/ f \in UserFibers \ submitted

\* When stop() returns, no task is left in the list and no fiber runs.
ExitIsClean ==
    stop /\ ~joining /\ Ended =>
        tasks = <<>> /\ \A f \in Fibers : state[f] \notin {"EXEC", "READY"}

\* So it is as long as nobody calls YieldToReady(), as no fiber of the library does
\* (scheduler.cc:181-189, 198-202).
ExitMeansDone == spins = 0 => ExitIsClean

\* A fiber that has ended never runs again; only the thread that keeps it as
\* its cb_fiber gives it a new life, for a callback (scheduler.cc:142-179,
\* fiber.cc:121-139).
EndedStaysEnded ==
    [][\A f \in Fibers :
          state[f] \in Terminated /\ state'[f] # state[f] =>
              \E w \in Threads : cbFiber[w] = f /\ task[w].cb # None /\ pc'[w] # pc[w]]_vars

\* Every submitted fiber is taken sooner or later, pinned or not, although
\* threads skip tasks and end: it runs, or has ended already.
TaskIsRun ==
    \A f \in Fibers :
        InTasks(f) /\ ~stop ~> state[f] \in {"EXEC"} \cup Terminated \/ fault # "none"

\* stop() returns: the threads do not wait for one another for ever.
StopReturns == stop /\ joining ~> ~joining \/ fault # "none"

\* A thread resumes a fiber only when the context it had is saved: what the
\* comment at scheduler.cc:117-119 is about.
ResumeSaved == fault # "live context"
=============================================================================
