----------------------------- MODULE IOManager -----------------------------
(***************************************************************************)
(* The IO scheduler (src/base/io_manager.cc): threads that run tasks and,  *)
(* when there are none, block in epoll_wait() until a descriptor is ready, *)
(* a byte is written to the tickle pipe, or a timeout passes; the timers   *)
(* of module TimeManager; and the destructor, which stops it all.          *)
(*                                                                         *)
(* Tasks are callbacks here (what fibers add is in module Scheduler), and  *)
(* a callback waits for one event of its own.  The pipe is edge triggered  *)
(* and read until it is empty, so it matters only whether it holds a write *)
(* that has not been reported yet.                                         *)
(*                                                                         *)
(* m_activeThreads and m_idleThreads are counted from where the threads    *)
(* are: they change in the same step.                                      *)
(***************************************************************************)
EXTENDS TimeManager, Sequences, SequencesExt

CONSTANTS
    Threads,    \* the pool
    Outside,    \* a thread that is not of the pool and uses the IOManager
    Cbs,        \* callbacks, each submitted once or added as an event once
    None,       \* no task
    Pipe,       \* the tickle pipe
    MaxSleep,   \* MAX_TIMEOUT
    MaxOps      \* bound: how many operations the clients make

ASSUME OutsideAssumption == Outside \notin Threads
ASSUME NoneAssumption == None \notin Cbs \cup Timers
ASSUME PipeAssumption == Pipe \notin Cbs
ASSUME MaxSleepAssumption == MaxSleep \in 1..(Forever - 1)
ASSUME MaxOpsAssumption == MaxOps \in Nat

VARIABLES
    tasks,      \* m_tasks
    stop,       \* m_stop
    joining,    \* the destructor has called Scheduler::stop()
    waiting,    \* callbacks that wait for their event (m_pendingEventCount)
    ready,      \* what epoll has to report: their events, and the pipe
    used,       \* callbacks that have been submitted or added
    ops,        \* how many operations there have been
    pc,         \* where each thread is in run() and wait()
    task,       \* the local variable `task'
    alarm,      \* next_timeout, and then the time left in epoll_wait()
    cbs, got,   \* the local variables `cbs' and `events'
    idleDone,   \* has the idle fiber ended
    owes        \* who has to call notify() next

poolVars == <<stop, joining>>
epollVars == <<waiting, ready>>
clientVars == <<used, ops>>
threadVars == <<pc, task, alarm, cbs, got, idleDone>>
vars == <<timerVars, tasks, poolVars, epollVars, clientVars, threadVars, owes>>

Jobs == Cbs \cup Timers
NoTimer == -1       \* ~0ull

TypeOK ==
    /\ TimerTypeOK
    /\ tasks \in Seq(Jobs)
    /\ stop \in BOOLEAN /\ joining \in BOOLEAN
    /\ waiting \subseteq Cbs /\ ready \subseteq waiting \cup {Pipe}
    /\ used \subseteq Cbs /\ ops \in 0..MaxOps
    /\ pc \in [Threads -> {"none", "scan", "taken", "run", "look", "count", "judge",
                           "sleep", "collect", "submit", "events"}]
    /\ task \in [Threads -> Jobs \cup {None}]
    /\ alarm \in [Threads -> {NoTimer} \cup 0..Forever]
    /\ cbs \in [Threads -> Seq(Timers)]
    /\ got \in [Threads -> SUBSET (Cbs \cup {Pipe})]
    /\ idleDone \in [Threads -> BOOLEAN]
    /\ owes \subseteq Threads \cup {Outside}

\* The constructor has started the threads.
Init ==
    /\ TimerInit
    /\ tasks = <<>>
    /\ stop = FALSE /\ joining = FALSE
    /\ waiting = {} /\ ready = {}
    /\ used = {} /\ ops = 0
    /\ pc = [w \in Threads |-> "scan"]
    /\ task = [w \in Threads |-> None]
    /\ alarm = [w \in Threads |-> NoTimer]
    /\ cbs = [w \in Threads |-> <<>>]
    /\ got = [w \in Threads |-> {}]
    /\ idleDone = [w \in Threads |-> FALSE]
    /\ owes = {}

Active == {w \in Threads : pc[w] = "run"}
Idle == {w \in Threads : pc[w] \in {"look", "count", "judge", "sleep", "collect", "submit",
                                    "events"}}

\* Threads between getNextTimer() and epoll_wait().
Looking == {w \in Threads : pc[w] \in {"count", "judge"}}

-----------------------------------------------------------------------------
(* notify(), submit() *)

\* notify() writes to the pipe if a thread is idle; onInsertAtFront() calls it.
Tickle(called) == ready' = IF called /\ Idle # {} THEN ready \cup {Pipe} ELSE ready

\* submit(): whoever adds to an empty list calls notify() after unlocking.
Submit(a, batch) ==
    /\ tasks' = tasks \o batch
    /\ owes' = IF tasks = <<>> /\ batch # <<>> THEN owes \cup {a} ELSE owes

\* The call that submit() and run() make after they have unlocked m_mutex.
Notify(a) ==
    /\ a \in owes
    /\ owes' = owes \ {a}
    /\ Tickle(TRUE)
    /\ UNCHANGED <<timerVars, tasks, poolVars, waiting, clientVars, threadVars>>

-----------------------------------------------------------------------------
(* What callbacks, and the thread outside until it destroys the IOManager, *)
(* may do                                                                  *)

MayAct(a) == a \notin owes /\ IF a = Outside THEN ~stop ELSE pc[a] = "run"

Acts(a) == MayAct(a) /\ ops < MaxOps /\ ops' = ops + 1

SubmitCb(a) ==
    /\ Acts(a)
    /\ \E c \in Cbs \ used : Submit(a, <<c>>) /\ used' = used \cup {c}
    /\ UNCHANGED <<timerVars, poolVars, epollVars, threadVars>>

AddEvent(a) ==
    /\ Acts(a)
    /\ \E c \in Cbs \ used : waiting' = waiting \cup {c} /\ used' = used \cup {c}
    /\ UNCHANGED <<timerVars, tasks, poolVars, ready, threadVars, owes>>

\* Timer objects are created in order.
New(t) == \A u \in Timers : ms[u] = 0 <=> u >= t

\* A call of a member function of Timer or TimeManager.
TimerOp(a) ==
    /\ Acts(a)
    /\ \E t \in Timers, m \in Periods, front \in BOOLEAN :
        /\ \/ AddTimer(t, m, front) /\ New(t)
           \/ ms[t] # 0 /\ Reset(t, m, TRUE, front)
           \/ ms[t] # 0 /\ Reset(t, m, FALSE, front)
           \/ ms[t] # 0 /\ ~front /\ (Cancel(t) \/ Refresh(t))
        /\ Tickle(front)
    /\ UNCHANGED <<tasks, poolVars, waiting, used, threadVars, owes>>

-----------------------------------------------------------------------------
(* Scheduler::run() *)

Step(w, from, to) ==
    /\ w \notin owes
    /\ pc[w] = from
    /\ pc' = [pc EXCEPT ![w] = to]

\* Take the first task; tell the others if there are more.
Scan(w) ==
    /\ Step(w, "scan", "taken")
    /\ IF tasks = <<>>
       THEN UNCHANGED <<tasks, task, owes>>
       ELSE /\ task' = [task EXCEPT ![w] = Head(tasks)]
            /\ tasks' = Tail(tasks)
            /\ owes' = IF tasks' = <<>> THEN owes ELSE owes \cup {w}
    /\ UNCHANGED <<timerVars, poolVars, epollVars, clientVars, alarm, cbs, got, idleDone>>

\* Run it; without one, resume the idle fiber, or end if it has ended.
Taken(w) ==
    /\ \/ task[w] # None /\ Step(w, "taken", "run")
       \/ task[w] = None /\ ~idleDone[w] /\ Step(w, "taken", "look")
       \/ task[w] = None /\ idleDone[w] /\ Step(w, "taken", "none")
    /\ UNCHANGED <<timerVars, tasks, poolVars, epollVars, clientVars, task, alarm, cbs,
                   got, idleDone, owes>>

\* The callback returns.
Done(w) ==
    /\ Step(w, "run", "scan")
    /\ task' = [task EXCEPT ![w] = None]
    /\ UNCHANGED <<timerVars, tasks, poolVars, epollVars, clientVars, alarm, cbs, got,
                   idleDone, owes>>

-----------------------------------------------------------------------------
(* wait() *)

\* stopping(next_timeout): first getNextTimer()...
Look(w) ==
    /\ Step(w, "look", IF timers = {} THEN "count" ELSE "judge")
    /\ LookAtNext
    /\ alarm' = [alarm EXCEPT ![w] = IF timers = {} THEN NoTimer ELSE Nearest]
    /\ UNCHANGED <<tasks, poolVars, epollVars, clientVars, task, cbs, got, idleDone, owes>>

\* ...then, without a timer, m_pendingEventCount...
Count(w) ==
    /\ Step(w, "count", IF waiting = {} THEN "judge" ELSE "sleep")
    /\ alarm' = [alarm EXCEPT ![w] = IF waiting = {} THEN NoTimer ELSE MaxSleep]
    /\ UNCHANGED <<timerVars, tasks, poolVars, epollVars, clientVars, task, cbs, got,
                   idleDone, owes>>

\* ...and then Scheduler::stopping().
Stopping == stop /\ tasks = <<>> /\ Active = {}

\* Mutant of SleepTime: ~0ull is passed on to epoll_wait().
SleepTimeUnclamped(next) ==
    IF next = NoTimer \/ next = Forever THEN Forever
    ELSE IF next < MaxSleep THEN next ELSE MaxSleep

\* Lines 395-405.  Forever is negative as an int: epoll_wait() has no timeout.
SleepTime(next) ==
    IF next = NoTimer THEN MaxSleep
    ELSE IF next = Forever \/ next < MaxSleep THEN next ELSE MaxSleep

Judge(w) ==
    LET ends == alarm[w] = NoTimer /\ Stopping IN
    /\ Step(w, "judge", IF ends THEN "scan" ELSE "sleep")
    /\ idleDone' = [idleDone EXCEPT ![w] = ends]
    /\ alarm' = [alarm EXCEPT ![w] = IF ends THEN NoTimer ELSE SleepTime(@)]
    /\ UNCHANGED <<timerVars, tasks, poolVars, epollVars, clientVars, task, cbs, got, owes>>

\* epoll_wait() returns.
Wake(w) ==
    /\ Step(w, "sleep", "collect")
    /\ alarm[w] = 0 \/ ready # {}
    /\ alarm' = [alarm EXCEPT ![w] = NoTimer]
    /\ got' = [got EXCEPT ![w] = ready]
    /\ ready' = {}
    /\ UNCHANGED <<timerVars, tasks, poolVars, waiting, clientVars, task, cbs, idleDone, owes>>

\* Line 417.
Collect(w) ==
    /\ Step(w, "collect", "submit")
    /\ \E s \in SetToSeqs(Expired) : cbs' = [cbs EXCEPT ![w] = s]
    /\ TakeExpired
    /\ UNCHANGED <<tasks, poolVars, epollVars, clientVars, task, alarm, got, idleDone, owes>>

\* Lines 418-421.
SubmitExpired(w) ==
    /\ Step(w, "submit", "events")
    /\ Submit(w, cbs[w])
    /\ cbs' = [cbs EXCEPT ![w] = <<>>]
    /\ UNCHANGED <<timerVars, poolVars, epollVars, clientVars, task, alarm, got, idleDone>>

\* Lines 424-484: one event is triggered.
Trigger(w) ==
    /\ Step(w, "events", "events")
    /\ \E c \in got[w] \ {Pipe} :
        /\ got' = [got EXCEPT ![w] = @ \ {c}]
        /\ waiting' = waiting \ {c}
        /\ Submit(w, <<c>>)
    /\ UNCHANGED <<timerVars, poolVars, ready, clientVars, task, alarm, cbs, idleDone>>

\* Mutant of Drain: line 433 leaves the loop over the events.
DrainLast(w) ==
    /\ Step(w, "events", "events")
    /\ Pipe \in got[w]
    /\ got' = [got EXCEPT ![w] = {}]
    /\ ready' = ready \ {Pipe}
    /\ UNCHANGED <<timerVars, tasks, poolVars, waiting, clientVars, task, alarm, cbs,
                   idleDone, owes>>

\* Lines 427-434: the pipe is read until it is empty.
Drain(w) ==
    /\ Step(w, "events", "events")
    /\ Pipe \in got[w]
    /\ got' = [got EXCEPT ![w] = @ \ {Pipe}]
    /\ ready' = ready \ {Pipe}
    /\ UNCHANGED <<timerVars, tasks, poolVars, waiting, clientVars, task, alarm, cbs,
                   idleDone, owes>>

\* Line 488: back to run().
Yield(w) ==
    /\ got[w] = {}
    /\ Step(w, "events", "scan")
    /\ UNCHANGED <<timerVars, tasks, poolVars, epollVars, clientVars, task, alarm, cbs, got,
                   idleDone, owes>>

ThreadStep(w) ==
    \/ Scan(w) \/ Taken(w) \/ Done(w)
    \/ Look(w) \/ Count(w) \/ Judge(w) \/ Wake(w)
    \/ Collect(w) \/ SubmitExpired(w) \/ Trigger(w) \/ Drain(w) \/ Yield(w)

-----------------------------------------------------------------------------
(* The destructor, and the world *)

\* ~IOManager(): after a while (sleep(3): longer than a thread takes for
\* stopping()) m_stop is set...
Destroy ==
    /\ MayAct(Outside)
    /\ Looking = {}
    /\ stop' = TRUE
    /\ UNCHANGED <<timerVars, tasks, joining, epollVars, clientVars, threadVars, owes>>

\* ...stopping() is looked at from time to time, and then Scheduler::stop()
\* notifies the threads and joins them.
DestroyPoll ==
    /\ stop /\ ~joining
    /\ LookAtNext
    /\ joining' = (timers = {} /\ waiting = {} /\ Stopping)
    /\ Tickle(joining')
    /\ UNCHANGED <<tasks, stop, waiting, clientVars, threadVars, owes>>

\* The descriptor of a callback gets ready.
GetReady(c) ==
    /\ c \in waiting \ ready
    /\ \A w \in Threads : c \notin got[w]
    /\ ready' = ready \cup {c}
    /\ UNCHANGED <<timerVars, tasks, poolVars, waiting, clientVars, threadVars, owes>>

\* Time passes for the timers and for the threads in epoll_wait().  A unit of
\* it is longer than the way from getNextTimer() to epoll_wait().
Clock ==
    /\ Looking = {}
    /\ Pass
    /\ alarm' = [w \in Threads |->
                    IF pc[w] = "sleep" THEN Earlier(alarm[w], 1) ELSE alarm[w]]
    /\ UNCHANGED <<tasks, poolVars, epollVars, clientVars, pc, task, cbs, got, idleDone, owes>>

Next ==
    \/ \E a \in Threads \cup {Outside} :
          Notify(a) \/ SubmitCb(a) \/ AddEvent(a) \/ TimerOp(a)
    \/ \E w \in Threads : ThreadStep(w)
    \/ Destroy \/ DestroyPoll
    \/ \E c \in Cbs : GetReady(c)
    \/ Clock

Spec == Init /\ [][Next]_vars

(***************************************************************************)
(* Fairness.  The threads run (callbacks return), whoever has submitted a  *)
(* task goes on to call notify(), and time passes.  Events need not come.  *)
(***************************************************************************)
Fairness ==
    /\ \A w \in Threads : WF_vars(ThreadStep(w))
    /\ \A a \in Threads \cup {Outside} : WF_vars(Notify(a))
    /\ WF_vars(Clock)
    /\ WF_vars(DestroyPoll)

FairSpec == Spec /\ Fairness

-----------------------------------------------------------------------------
(* What the IO scheduler promises *)

Ended == \A w \in Threads : pc[w] = "none"

\* When all threads sleep and nothing is about to wake them, one of them will
\* wake up in time for the first timer: the one that was told of it by
\* onInsertAtFront(), or that looked at it.  While m_tickled is set nobody is
\* told (getNextTimer() does not reset it when it finds no timer), and the
\* destructor resets it.
AlarmIsEarly ==
    (/\ \A w \in Threads : pc[w] = "sleep"
     /\ ready = {} /\ owes = {} /\ timers # {} /\ ~tickled /\ ~stop)
    => \E w \in Threads : alarm[w] <= Nearest

\* The tasks in the list are taken sooner or later: no thread sleeps for good
\* while there is something to do (io_manager.h:90-91).  That the list gets
\* empty, and not only shorter, is due to MaxOps.
TaskIsTaken == tasks # <<>> ~> tasks = <<>>

\* An event that happens makes the callback that waits for it run, whatever
\* the threads were doing when epoll reported it (wait(), triggerEvent()).
EventIsServed ==
    \A c \in Cbs : c \in ready ~> Ended \/ \E w \in Threads : task[w] = c

\* Timers go off, or are cancelled: addTimer() of an earlier one does not leave
\* the threads asleep for the later one, nor a notification that is missed.
TimerGoesOff == timers \ Recurring # {} ~> Ended \/ timers \subseteq Recurring

=============================================================================
