----------------------------- MODULE CoCondVar -----------------------------
(***************************************************************************)
(* The coroutine condition variable CoCondVar (src/sync/co_condvar.cc),    *)
(* together with the CoMutex its callers pass to it.  The modules Channel  *)
(* and CoSemaphore extend this one: they are the callers.  notifyAll() and *)
(* the wait() without a lock, which neither calls, are left out.           *)
(*                                                                         *)
(* A caller enters a member function by setting at[f] to the function's    *)
(* label and on[f] to the condition variable; the function has returned    *)
(* when at[f] is "out" again.                                              *)
(*                                                                         *)
(* CoMutex is used by what module CoMutex shows of it: one owner at a      *)
(* time, and a fiber that wants it waits until it is free.  A section      *)
(* under the spin lock m_mutex of the condition variable is one step when  *)
(* nothing in it can block; waitFor() keeps that spin lock while it takes  *)
(* the CoMutex again (lines 136-149), so there it is held across steps.    *)
(***************************************************************************)
EXTENDS Naturals, FiniteSets, Sequences

CONSTANTS
    Fibers,     \* the fibers of the callers
    NoFiber,    \* no owner, no holder
    CondVars,   \* the condition variables used with one CoMutex
    MaxTasks    \* bound: pending submissions of one fiber

ASSUME NoFiberAssumption == NoFiber \notin Fibers
ASSUME MaxTasksAssumption == MaxTasks \in Nat \ {0}

VARIABLES
    owner,      \* who has the CoMutex
    waitQueue,  \* m_waitQueue (a std::set) of each condition variable
    spin,       \* who has the spin lock m_mutex of each condition variable
    keepAlive,  \* is m_timer set: the empty timer that keeps the scheduler up
    tasks,      \* how often each fiber is in Scheduler::m_tasks
    state,      \* Fiber::m_state
    at,         \* the label of each fiber inside the member functions
    on,         \* the condition variable of the call
    timer,      \* the timer of each fiber's waitFor()
    timedOut    \* *timeCondition of each fiber's waitFor()

cvVars == <<owner, waitQueue, spin, keepAlive, tasks, state, at, on, timer, timedOut>>

CVLabels ==
    { "out",        \* not in a member function
      "lock",       \* CoMutex::lock()
      "unlock",     \* CoMutex::unlock()
      "notify",
      "wait",       \* wait(lock), before line 80
      "yield",      \* before YieldToHold()
      "asleep",     \* inside YieldToHold()
      "waitFor",    \* waitFor(), before line 112
      "yieldFor", "asleepFor",
      "woken",      \* resumed, before line 136
      "relockFor",  \* line 142: CoMutex::lock() with the spin lock held
      "leaveFor",   \* line 149: the spin lock is free, timeCondition is alive
      "wild" }      \* erased m_timers.end() (timer.cc:31): never goes on

CVTypeOK ==
    /\ owner \in Fibers \cup {NoFiber}
    /\ waitQueue \in [CondVars -> SUBSET Fibers]
    /\ spin \in [CondVars -> Fibers \cup {NoFiber}]
    /\ keepAlive \in [CondVars -> BOOLEAN]
    /\ tasks \in [Fibers -> Nat]
    /\ state \in [Fibers -> {"EXEC", "HOLD"}]
    /\ at \in [Fibers -> CVLabels]
    /\ on \in [Fibers -> CondVars]
    /\ timer \in [Fibers -> {"none", "armed", "due"}]
    /\ timedOut \in [Fibers -> BOOLEAN]

CVInit ==
    /\ owner = NoFiber
    /\ waitQueue = [c \in CondVars |-> {}]
    /\ spin = [c \in CondVars |-> NoFiber]
    /\ keepAlive = [c \in CondVars |-> FALSE]
    /\ tasks = [f \in Fibers |-> 0]
    /\ state = [f \in Fibers |-> "EXEC"]
    /\ at = [f \in Fibers |-> "out"]
    /\ on \in [Fibers -> CondVars]
    /\ timer = [f \in Fibers |-> "none"]
    /\ timedOut = [f \in Fibers |-> FALSE]

Goto(f, from, to) ==
    /\ at[f] = from
    /\ at' = [at EXCEPT ![f] = to]

-----------------------------------------------------------------------------
(* The CoMutex and the scheduler *)

\* CoMutex::lock(), and lock.lock() at the end of wait(lock).
LockMutex(f) ==
    /\ Goto(f, "lock", "out")
    /\ owner = NoFiber
    /\ owner' = f
    /\ UNCHANGED <<waitQueue, spin, keepAlive, tasks, state, on, timer, timedOut>>

UnlockMutex(f) ==
    /\ Goto(f, "unlock", "out")
    /\ owner' = NoFiber
    /\ UNCHANGED <<waitQueue, spin, keepAlive, tasks, state, on, timer, timedOut>>

\* A worker takes a submitted fiber that is not EXEC and resumes it.
Resume(f) ==
    /\ tasks[f] > 0
    /\ state[f] = "HOLD"
    /\ tasks' = [tasks EXCEPT ![f] = @ - 1]
    /\ state' = [state EXCEPT ![f] = "EXEC"]
    /\ Goto(f, "asleep", "lock") \/ Goto(f, "asleepFor", "woken")
    /\ UNCHANGED <<owner, waitQueue, spin, keepAlive, on, timer, timedOut>>

YieldToHold(f, from, to) ==
    /\ Goto(f, from, to)
    /\ state' = [state EXCEPT ![f] = "HOLD"]
    /\ UNCHANGED <<owner, waitQueue, spin, keepAlive, tasks, on, timer, timedOut>>

Submit(fs) == tasks' = [f \in Fibers |-> IF f \in fs THEN tasks[f] + 1 ELSE tasks[f]]

-----------------------------------------------------------------------------
(* notify() *)

\* The first fiber of the std::set is the one with the lowest address: any.
Notify(f) ==
    LET c == on[f] IN
    /\ Goto(f, "notify", "out")
    /\ spin[c] = NoFiber
    /\ IF waitQueue[c] = {}
       THEN UNCHANGED <<waitQueue, tasks>>
       ELSE \E w \in waitQueue[c] :
               /\ waitQueue' = [waitQueue EXCEPT ![c] = @ \ {w}]
               /\ Submit({w})
    /\ keepAlive' = [keepAlive EXCEPT ![c] = FALSE]
    /\ UNCHANGED <<owner, spin, state, on, timer, timedOut>>

-----------------------------------------------------------------------------
(* wait(lock) *)

\* Lines 80-91: queue itself, see to the keep-alive timer, unlock the CoMutex.
Wait(f) ==
    LET c == on[f] IN
    /\ Goto(f, "wait", "yield")
    /\ spin[c] = NoFiber
    /\ waitQueue' = [waitQueue EXCEPT ![c] = @ \cup {f}]
    /\ keepAlive' = [keepAlive EXCEPT ![c] = TRUE]
    /\ owner' = NoFiber
    /\ UNCHANGED <<spin, tasks, state, on, timer, timedOut>>

-----------------------------------------------------------------------------
(* waitFor(lock, timeout_ms) *)

\* Lines 106-132: a fresh timeCondition, queue, unlock, arm the timer.
WaitFor(f) ==
    LET c == on[f] IN
    /\ Goto(f, "waitFor", "yieldFor")
    /\ spin[c] = NoFiber
    /\ waitQueue' = [waitQueue EXCEPT ![c] = @ \cup {f}]
    /\ owner' = NoFiber
    /\ timer' = [timer EXCEPT ![f] = "armed"]
    /\ timedOut' = [timedOut EXCEPT ![f] = FALSE]
    /\ UNCHANGED <<spin, keepAlive, tasks, state, on>>

\* getExpiredCallbacks takes the timer out of m_timers; its callback becomes
\* a task of the scheduler (timer.cc:191-198, io_manager.cc wait()).
Expire(f) ==
    /\ timer[f] = "armed"
    /\ timer' = [timer EXCEPT ![f] = "due"]
    /\ UNCHANGED <<owner, waitQueue, spin, keepAlive, tasks, state, at, on, timedOut>>

\* Lines 121-129, run as a task while timeCondition is alive.
TimerCallback(f) ==
    LET c == on[f] IN
    /\ timer[f] = "due"
    /\ spin[c] = NoFiber
    /\ tasks[f] < MaxTasks
    /\ timer' = [timer EXCEPT ![f] = "none"]
    /\ timedOut' = [timedOut EXCEPT ![f] = TRUE]
    /\ waitQueue' = [waitQueue EXCEPT ![c] = @ \ {f}]
    /\ Submit({f})
    /\ UNCHANGED <<owner, spin, keepAlive, state, at, on>>

\* Lines 136-140.  cancel() erases what find() returned (timer.cc:30-31): for
\* a timer that is not in m_timers any more that is erase(end()).
Woken(f) ==
    LET c == on[f] IN
    /\ spin[c] = NoFiber
    /\ spin' = [spin EXCEPT ![c] = f]
    /\ \/ timedOut[f] /\ Goto(f, "woken", "relockFor") /\ UNCHANGED timer
       \/ /\ ~timedOut[f] /\ timer[f] = "armed"
          /\ Goto(f, "woken", "relockFor")
          /\ timer' = [timer EXCEPT ![f] = "none"]
       \/ /\ ~timedOut[f] /\ timer[f] # "armed"
          /\ Goto(f, "woken", "wild")
          /\ UNCHANGED timer
    /\ UNCHANGED <<owner, waitQueue, keepAlive, tasks, state, on, timedOut>>

\* Lines 142-149: take the CoMutex, then free the spin lock.
RelockFor(f) ==
    /\ Goto(f, "relockFor", "leaveFor")
    /\ owner = NoFiber
    /\ owner' = f
    /\ spin' = [spin EXCEPT ![on[f]] = NoFiber]
    /\ UNCHANGED <<waitQueue, keepAlive, tasks, state, on, timer, timedOut>>

\* timeCondition dies with the frame: a callback still due finds it gone.
LeaveFor(f) ==
    /\ Goto(f, "leaveFor", "out")
    /\ timer' = [timer EXCEPT ![f] = "none"]
    /\ UNCHANGED <<owner, waitQueue, spin, keepAlive, tasks, state, on, timedOut>>

-----------------------------------------------------------------------------

CVStep(f) ==
    \/ LockMutex(f) \/ UnlockMutex(f)
    \/ Notify(f)
    \/ Wait(f) \/ YieldToHold(f, "yield", "asleep")

\* What only the callers of waitFor() add.
WaitForStep(f) ==
    \/ WaitFor(f) \/ YieldToHold(f, "yieldFor", "asleepFor")
    \/ Woken(f) \/ RelockFor(f) \/ LeaveFor(f)

TimerStep(f) == Expire(f) \/ TimerCallback(f)

CVNext(f) == CVStep(f) \/ Resume(f)

=============================================================================
