------------------------------ MODULE CoMutex ------------------------------
(***************************************************************************)
(* The coroutine lock CoMutex (src/sync/mutex.cc, include/sync/mutex.h)    *)
(* and the part of the scheduler it leans on.                              *)
(*                                                                         *)
(* m_mutex is the spin lock that stands for the lock itself, m_gaurd the   *)
(* spin lock that protects m_waitQueue.  A fiber that does not get m_mutex *)
(* queues itself and yields; unlock() pops one waiter, frees m_mutex and   *)
(* hands the waiter to the scheduler (`go fiber').  The waiter then races  *)
(* with everybody else for m_mutex (the lock may be barged).               *)
(*                                                                         *)
(* Fibers run on Workers threads.  A running fiber has state EXEC; the     *)
(* scheduler resumes a submitted fiber only when it is not EXEC            *)
(* (scheduler.cc:120).  One action is what a thread does between two       *)
(* accesses to memory that another thread may touch.  That YieldToHold     *)
(* stores HOLD before it saves the context (fiber.cc:182-183) is the       *)
(* subject of module Scheduler: here both happen in one step.              *)
(***************************************************************************)
EXTENDS Naturals, FiniteSets, Sequences

CONSTANTS
    Fibers,     \* the fibers that use the lock (their ids are never 0)
    NoFiber,    \* m_fiberId = 0, a null Fiber::ptr
    Workers     \* number of scheduler threads

ASSUME NoFiberAssumption == NoFiber \notin Fibers
ASSUME WorkersAssumption == Workers \in Nat \ {0}

VARIABLES
    mutex,      \* m_mutex: is the spin lock taken
    guard,      \* m_gaurd: is the spin lock taken
    fiberId,    \* m_fiberId
    waitQueue,  \* m_waitQueue
    popped,     \* the local variable `fiber' of each caller of unlock()
    state,      \* Fiber::m_state
    tasks,      \* how often each fiber is in Scheduler::m_tasks
    pc          \* where each fiber is in lock() and unlock()

vars == <<mutex, guard, fiberId, waitQueue, popped, state, tasks, pc>>

Labels ==
    { "client",         \* outside the lock
      "check",          \* lock(): about to compare m_fiberId (line 15)
      "recheck",        \* the same, called by a fiber inside the section
      "try",            \* about to call tryLock() (line 20)
      "enter",          \* about to take m_gaurd (line 23)
      "retry",          \* about to call tryLock() under m_gaurd (line 25)
      "drop",           \* got it there: about to free m_gaurd (line 27)
      "push",           \* about to push itself (line 34)
      "leave",          \* about to free m_gaurd (line 35)
      "yield",          \* about to call YieldToHold() (line 37)
      "asleep",         \* inside YieldToHold()
      "own",            \* about to store its id in m_fiberId (lines 28, 40)
      "section",        \* the critical section
      "unlock",         \* unlock(): about to take m_gaurd (line 45)
      "clear",          \* about to store 0 in m_fiberId (line 46)
      "pop",            \* about to pop a waiter (lines 49-54)
      "free",           \* about to free m_mutex (line 56)
      "unguard",        \* about to free m_gaurd (line 57)
      "go" }            \* about to submit the waiter (lines 58-62)

\* Where a fiber has m_mutex, and where it has m_gaurd.
OwnerLabels == {"drop", "own", "section", "recheck", "unlock", "clear", "pop", "free"}
GuardLabels == {"retry", "drop", "push", "leave", "clear", "pop", "free", "unguard"}

Owns(f)   == pc[f] \in OwnerLabels
Guards(f) == pc[f] \in GuardLabels

TypeOK ==
    /\ mutex \in BOOLEAN
    /\ guard \in BOOLEAN
    /\ fiberId \in Fibers \cup {NoFiber}
    /\ waitQueue \in Seq(Fibers)
    /\ popped \in [Fibers -> Fibers \cup {NoFiber}]
    /\ state \in [Fibers -> {"INIT", "READY", "HOLD", "EXEC"}]
    /\ tasks \in [Fibers -> Nat]
    /\ pc \in [Fibers -> Labels]

\* Every fiber has been created and submitted; the lock is free.
Init ==
    /\ mutex = FALSE
    /\ guard = FALSE
    /\ fiberId = NoFiber
    /\ waitQueue = <<>>
    /\ popped = [f \in Fibers |-> NoFiber]
    /\ state = [f \in Fibers |-> "INIT"]
    /\ tasks = [f \in Fibers |-> 1]
    /\ pc = [f \in Fibers |-> "client"]

-----------------------------------------------------------------------------
(* The scheduler, as far as the lock sees it *)

Running(f) == state[f] = "EXEC"

\* Mutant of Resume: a fiber is resumed whether it was submitted or not.
ResumeUnsubmitted(f) ==
    /\ ~Running(f)
    /\ tasks' = [tasks EXCEPT ![f] = @ - 1]
    /\ state' = [state EXCEPT ![f] = "EXEC"]
    /\ pc' = IF pc[f] = "asleep" THEN [pc EXCEPT ![f] = "try"] ELSE pc
    /\ UNCHANGED <<mutex, guard, fiberId, waitQueue, popped>>

\* Scheduler::run: a worker takes the task of a fiber that is not EXEC and
\* resumes the fiber.  A waiter continues with `while (!tryLock())'.
Resume(f) ==
    /\ tasks[f] > 0
    /\ ~Running(f)
    /\ Cardinality({g \in Fibers : Running(g)}) < Workers
    /\ tasks' = [tasks EXCEPT ![f] = @ - 1]
    /\ state' = [state EXCEPT ![f] = "EXEC"]
    /\ pc' = IF pc[f] = "asleep" THEN [pc EXCEPT ![f] = "try"] ELSE pc
    /\ UNCHANGED <<mutex, guard, fiberId, waitQueue, popped>>

\* YieldToReady() of a fiber outside lock() and unlock(): the worker that
\* ran it submits it again (scheduler.cc:147-150).  It may hold the lock.
Pause(f) ==
    /\ Running(f)
    /\ pc[f] \in {"client", "section"}
    /\ state' = [state EXCEPT ![f] = "READY"]
    /\ tasks' = [tasks EXCEPT ![f] = @ + 1]
    /\ UNCHANGED <<mutex, guard, fiberId, waitQueue, popped, pc>>

-----------------------------------------------------------------------------
(* CoMutex::lock() *)

\* A running fiber moves from one label to another.
Goto(f, from, to) ==
    /\ Running(f)
    /\ pc[f] = from
    /\ pc' = [pc EXCEPT ![f] = to]

CallLock(f) ==
    /\ \/ Goto(f, "client", "check")
       \/ Goto(f, "section", "recheck")     \* the owner locks once more
    /\ UNCHANGED <<mutex, guard, fiberId, waitQueue, popped, state, tasks>>

\* Line 15: return if m_fiberId is this fiber's id.
CheckOwner(f) ==
    /\ \E from \in {"check", "recheck"} :
          Goto(f, from, IF fiberId = f THEN "section" ELSE "try")
    /\ UNCHANGED <<mutex, guard, fiberId, waitQueue, popped, state, tasks>>

\* tryLock() at label `from': take m_mutex if it is free.
TryLock(f, from, got, failed) ==
    /\ Goto(f, from, IF mutex THEN failed ELSE got)
    /\ mutex' = TRUE
    /\ UNCHANGED <<guard, fiberId, waitQueue, popped, state, tasks>>

\* Mutants: the result of tryLock() is ignored; tryLock() is not called again
\* under m_gaurd.
TryFirstBlind(f) == TryLock(f, "try", "own", "own")
TryGuardedBlind(f) == TryLock(f, "retry", "drop", "drop")
PushAtOnce(f) ==
    /\ Goto(f, "retry", "push")
    /\ UNCHANGED <<mutex, guard, fiberId, waitQueue, popped, state, tasks>>

TryFirst(f) == TryLock(f, "try", "own", "enter")

TryGuarded(f) == TryLock(f, "retry", "drop", "push")

\* m_gaurd.lock() spins: the step is taken when the spin lock is free.
TakeGuard(f) ==
    /\ ~guard
    /\ guard' = TRUE
    /\ \/ Goto(f, "enter", "retry")
       \/ Goto(f, "unlock", "clear")
    /\ UNCHANGED <<mutex, fiberId, waitQueue, popped, state, tasks>>

DropGuard(f) ==
    /\ \/ Goto(f, "drop", "own")
       \/ Goto(f, "leave", "yield")
       \/ Goto(f, "unguard", "go")
    /\ guard' = FALSE
    /\ UNCHANGED <<mutex, fiberId, waitQueue, popped, state, tasks>>

PushSelf(f) ==
    /\ Goto(f, "push", "leave")
    /\ waitQueue' = Append(waitQueue, f)
    /\ UNCHANGED <<mutex, guard, fiberId, popped, state, tasks>>

Yield(f) ==
    /\ Goto(f, "yield", "asleep")
    /\ state' = [state EXCEPT ![f] = "HOLD"]
    /\ UNCHANGED <<mutex, guard, fiberId, waitQueue, popped, tasks>>

SetOwner(f) ==
    /\ Goto(f, "own", "section")
    /\ fiberId' = f
    /\ UNCHANGED <<mutex, guard, waitQueue, popped, state, tasks>>

-----------------------------------------------------------------------------
(* CoMutex::unlock() *)

CallUnlock(f) ==
    /\ Goto(f, "section", "unlock")
    /\ UNCHANGED <<mutex, guard, fiberId, waitQueue, popped, state, tasks>>

\* Mutant of ClearOwner: line 46 is missing.
KeepOwnerId(f) ==
    /\ Goto(f, "clear", "pop")
    /\ UNCHANGED <<mutex, guard, fiberId, waitQueue, popped, state, tasks>>

ClearOwner(f) ==
    /\ Goto(f, "clear", "pop")
    /\ fiberId' = NoFiber
    /\ UNCHANGED <<mutex, guard, waitQueue, popped, state, tasks>>

\* Mutant of PopWaiter: front() without pop().
PeekWaiter(f) ==
    /\ Goto(f, "pop", "free")
    /\ IF waitQueue = <<>>
       THEN UNCHANGED popped
       ELSE popped' = [popped EXCEPT ![f] = Head(waitQueue)]
    /\ UNCHANGED <<mutex, guard, fiberId, waitQueue, state, tasks>>

PopWaiter(f) ==
    /\ Goto(f, "pop", "free")
    /\ IF waitQueue = <<>>
       THEN UNCHANGED <<waitQueue, popped>>
       ELSE /\ popped' = [popped EXCEPT ![f] = Head(waitQueue)]
            /\ waitQueue' = Tail(waitQueue)
    /\ UNCHANGED <<mutex, guard, fiberId, state, tasks>>

FreeMutex(f) ==
    /\ Goto(f, "free", "unguard")
    /\ mutex' = FALSE
    /\ UNCHANGED <<guard, fiberId, waitQueue, popped, state, tasks>>

\* `go fiber' if a waiter was popped; the local variable dies with unlock().
GoWaiter(f) ==
    /\ Goto(f, "go", "client")
    /\ tasks' = [g \in Fibers |-> IF g = popped[f] THEN tasks[g] + 1 ELSE tasks[g]]
    /\ popped' = [popped EXCEPT ![f] = NoFiber]
    /\ UNCHANGED <<mutex, guard, fiberId, waitQueue, state>>

-----------------------------------------------------------------------------

\* The steps of lock() and unlock() once they are called.
LockStep(f) ==
    \/ CheckOwner(f) \/ TryFirst(f) \/ TryGuarded(f) \/ TakeGuard(f)
    \/ DropGuard(f) \/ PushSelf(f) \/ Yield(f) \/ SetOwner(f)

UnlockStep(f) ==
    \/ ClearOwner(f) \/ PopWaiter(f) \/ FreeMutex(f) \/ GoWaiter(f)

Step(f) ==
    \/ Resume(f) \/ Pause(f)
    \/ CallLock(f) \/ CallUnlock(f)
    \/ LockStep(f) \/ UnlockStep(f)

Next == \E f \in Fibers : Step(f)

Spec == Init /\ [][Next]_vars

(***************************************************************************)
(* Fairness.  A thread runs: the steps of lock() and unlock() are weakly   *)
(* fair (TakeGuard strongly: pthread spin locks are contended, and a       *)
(* spinning thread is assumed to get one that is free again and again).    *)
(* m_tasks is scanned from the front and appended at the back, so a        *)
(* submitted fiber is not passed over for ever: Resume is strongly fair.   *)
(* Client code is assumed not to keep a worker or the lock for ever.       *)
(***************************************************************************)
Fairness ==
    \A f \in Fibers :
        /\ WF_vars(LockStep(f))
        /\ WF_vars(UnlockStep(f))
        /\ SF_vars(TakeGuard(f))
        /\ SF_vars(Resume(f))
        /\ WF_vars(pc[f] = "client" /\ Pause(f))
        /\ SF_vars(CallUnlock(f))

FairSpec == Spec /\ Fairness

-----------------------------------------------------------------------------
(* What the lock promises *)

\* Between lock() and unlock() the fiber is alone: no two fibers are where
\* the code takes m_mutex to be theirs (mutex.cc:12-63).
MutualExclusion ==
    \A f, g \in Fibers : Owns(f) /\ Owns(g) => f = g

\* m_fiberId names exactly the fiber that is in the critical section, so that
\* the early return at mutex.cc:15 never lets a fiber in without the lock, and
\* an owner that locks again always takes it.
OwnerIdHonest ==
    \A f \in Fibers :
        fiberId = f <=> pc[f] \in {"section", "recheck", "unlock", "clear"}

\* Fibers that will try m_mutex again without being woken by an unlock() yet
\* to come: those before a tryLock(), and waiters already taken off the queue.
Queued(f) == \E i \in 1..Len(waitQueue) : waitQueue[i] = f
Contending(f) ==
    \/ pc[f] \in {"try", "enter", "retry"}
    \/ pc[f] \in {"yield", "asleep"} /\ ~Queued(f)

\* No lost wakeup: when the lock is free and fibers wait, one fiber is on its
\* way to the lock whose unlock() will pop the next waiter.
NoLostWakeup ==
    ~mutex /\ waitQueue # <<>> => \E f \in Fibers : Contending(f)

\* A waiter is in one place: queued once, or popped by one unlock() that has
\* yet to submit it, or submitted once.  It is neither forgotten nor resumed
\* twice for one wait (mutex.cc:34, 52-61).
Handed(f) == \E g \in Fibers : popped[g] = f
QueuedOnce(f) ==
    \A i, j \in 1..Len(waitQueue) : waitQueue[i] = f /\ waitQueue[j] = f => i = j
HandedOnce(f) ==
    \A g, h \in Fibers : popped[g] = f /\ popped[h] = f => g = h
WaiterInOnePlace ==
    \A f \in Fibers :
        /\ QueuedOnce(f) /\ HandedOnce(f) /\ tasks[f] <= 1
        /\ ~(Queued(f) /\ Handed(f))
        /\ Queued(f) \/ Handed(f) =>
              tasks[f] = 0 /\ pc[f] \in {"leave", "yield", "asleep"}
        /\ pc[f] \in {"leave", "yield", "asleep"} =>
              Queued(f) \/ Handed(f) \/ tasks[f] = 1

\* Every fiber that queued itself is eventually handed to the scheduler: the
\* unlock() calls that follow reach it (mutex.cc:34, 52-61).
WaiterIsSubmitted ==
    \A f \in Fibers : Queued(f) ~> tasks[f] > 0

-----------------------------------------------------------------------------
(* CoMutex implements the abstract lock *)

Owner ==
    IF \E f \in Fibers : Owns(f) THEN CHOOSE f \in Fibers : Owns(f) ELSE NoFiber

Lock == INSTANCE AbstractLock WITH Clients <- Fibers, None <- NoFiber, owner <- Owner

\* The lock is taken only when it is free and freed only by its owner.
ImplementsLock == Lock!Spec
=============================================================================
