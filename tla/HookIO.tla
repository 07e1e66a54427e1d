------------------------------- MODULE HookIO -------------------------------
(***************************************************************************)
(* The hooked system calls on one socket (src/base/hook.cc): do_io(),      *)
(* which stands behind read, recv, accept, write, send..., connect() with  *)
(* its timeout, and close(), over the events of module FdEvents.           *)
(*                                                                         *)
(* A fiber calls the function; if it would block, the fiber arms a timer   *)
(* (when the socket has a timeout for that direction), registers for the   *)
(* event and holds.  It is resumed by the event, by the callback of the    *)
(* timer, which cancels the event, or by somebody who cancels or closes.   *)
(*                                                                         *)
(* getExpiredCallbacks() takes an expired timer out of m_timers but leaves *)
(* its m_cb, so that the cancel() of line 160 or 520 erases end(): libstdc++*)
(* either loops for ever under the lock of the timers (the set is empty)   *)
(* or frees its header, which aborts.  Here fault = "heap" ends the run.   *)
(*                                                                         *)
(* The descriptor number is not used for another socket after close().    *)
(***************************************************************************)
EXTENDS FdEvents

CONSTANTS
    Calls,      \* Calls[f]: the functions fiber f calls
    LimitSets,  \* the events for which the socket has a timeout: a choice of sets
    MaxOps      \* bound: how often others cancel, delete or close

Functions == {"read", "write", "connect"}

\* No two fibers wait for the same event: addEvent() asserts it (line 184 of
\* io_manager.cc).
Event(c) == IF c = "read" THEN "READ" ELSE "WRITE"
ASSUME CallsAssumption ==
    /\ Calls \in [Fibers -> SUBSET Functions]
    /\ \A f, g \in Fibers : \A c \in Calls[f], d \in Calls[g] : Event(c) = Event(d) => f = g
ASSUME LimitSetsAssumption == LimitSets \subseteq SUBSET Events
ASSUME MaxOpsAssumption == MaxOps \in Nat

VARIABLES
    limits,     \* the events for which the socket has a timeout
    managed,    \* is there an FdCtx in FdManager::m_fds
    closing,    \* where somebody is in close()
    ops,        \* how often others have cancelled, deleted or closed
    pc,         \* where each fiber is in its call
    call,       \* the function it calls
    timer,      \* its local variable `timer'; gone: *timeCondition is ETIMEDOUT
    firing      \* the callback of its timer is about to cancel the event

callVars == <<pc, call, timer, firing>>
otherVars == <<limits, managed, closing, ops>>
vars == <<fdVars, callVars, otherVars>>

TypeOK ==
    /\ FdTypeOK
    /\ limits \in LimitSets
    /\ managed \in BOOLEAN
    /\ closing \in {"no", "forget", "close", "done"}
    /\ ops \in 0..MaxOps
    /\ pc \in [Fibers -> {"client", "try", "add", "yield", "asleep", "woken"}]
    /\ call \in [Fibers -> Functions]
    /\ timer \in [Fibers -> {"none", "armed", "gone"}]
    /\ firing \in [Fibers -> BOOLEAN]

\* socket() or accept() has made the FdCtx.
Init ==
    /\ FdInit
    /\ limits \in LimitSets
    /\ managed = TRUE /\ closing = "no" /\ ops = 0
    /\ pc = [f \in Fibers |-> "client"]
    /\ call \in {c \in [Fibers -> Functions] : \A f \in Fibers : c[f] \in Calls[f]}
    /\ timer = [f \in Fibers |-> "none"]
    /\ firing = [f \in Fibers |-> FALSE]

EventOf(f) == Event(call[f])

Goto(f, from, to) ==
    /\ pc[f] = from
    /\ pc' = [pc EXCEPT ![f] = to]

-----------------------------------------------------------------------------
(* do_io(), connect_with_timeout() *)

\* Lines 98-121: without an FdCtx the call is passed on and never waits.
Call(f) ==
    /\ managed
    /\ Goto(f, "client", "try")
    /\ \E c \in Calls[f] : call' = [call EXCEPT ![f] = c]
    /\ UNCHANGED <<fdVars, timer, firing, otherVars>>

\* Lines 123-128: the call returns, perhaps with an error, and has used up what
\* there was or not; or it would block.
Try(f) ==
    LET e == EventOf(f) IN
    /\ \/ /\ e \in ready \/ ~open
          /\ Goto(f, "try", "client")
          /\ \/ UNCHANGED ready
             \/ open /\ ~hup /\ ready' = ready \ {e}
       \/ /\ e \notin ready /\ open
          /\ Goto(f, "try", "add")
          /\ UNCHANGED ready
    /\ UNCHANGED <<open, hup, epollVars, got, contextVars, fault, call, timer,
                   firing, otherVars>>

\* Lines 134-156: the timer is armed and the event added, or without the event
\* the timer is cancelled and the call fails.  A timeout is longer than the way
\* from addConditionTimer() to addEvent().
AddEvent(f) ==
    LET e == EventOf(f) IN
    /\ \/ /\ Goto(f, "add", "yield")
          /\ Add(f, e)
          /\ timer' = [timer EXCEPT ![f] = IF e \in limits THEN "armed" ELSE "none"]
       \/ e \notin events /\ ~CanAdd(e) /\ Goto(f, "add", "client") /\ UNCHANGED <<fdVars, timer>>
    /\ UNCHANGED <<call, firing, otherVars>>

\* Nobody but the context or the scheduler has a pointer to a fiber that was
\* made for a callback.  One that holds without it is destroyed, which is an
\* error (fiber.cc:77).
Lost(f) == tasks[f] = 0 /\ \A e \in Events : waiter[e] # f

\* Line 157.
Yield(f) ==
    /\ Goto(f, "yield", "asleep")
    /\ fault' = IF Lost(f) THEN "assert" ELSE fault
    /\ UNCHANGED <<socketVars, epollVars, got, contextVars, call, timer, firing, otherVars>>

\* The scheduler resumes the fiber.
Resume(f) ==
    /\ tasks[f] > 0
    /\ Goto(f, "asleep", "woken")
    /\ tasks' = [tasks EXCEPT ![f] = @ - 1]
    /\ UNCHANGED <<socketVars, epollVars, got, events, waiter, pending, fault, call, timer,
                   firing, otherVars>>

\* Lines 158-167: the timer is cancelled and the call repeated, that of
\* connect() looks for an error instead (lines 537-551).
Woken(f) ==
    /\ timer[f] # "gone"
    /\ Goto(f, "woken", IF call[f] = "connect" THEN "client" ELSE "try")
    /\ timer' = [timer EXCEPT ![f] = "none"]
    /\ UNCHANGED <<fdVars, call, firing, otherVars>>

\* The same with an expired timer: erase(end()).
WokenLate(f) ==
    /\ timer[f] = "gone"
    /\ Goto(f, "woken", "woken")
    /\ fault' = "heap"
    /\ UNCHANGED <<socketVars, epollVars, got, contextVars, call, timer, firing, otherVars>>

FiberStep(f) ==
    \/ Try(f) \/ AddEvent(f) \/ Yield(f) \/ Woken(f) \/ WokenLate(f)

-----------------------------------------------------------------------------
(* The timer and its callback *)

\* The timer expires and its callback runs: timeCondition is alive and zero
\* (lines 139-143).
Expire(f) ==
    /\ timer[f] = "armed"
    /\ timer' = [timer EXCEPT ![f] = "gone"]
    /\ firing' = [firing EXCEPT ![f] = TRUE]
    /\ UNCHANGED <<fdVars, pc, call, otherVars>>

\* Mutant of Fire: line 144 is missing.
FireQuietly(f) ==
    /\ firing[f]
    /\ firing' = [firing EXCEPT ![f] = FALSE]
    /\ UNCHANGED <<fdVars, pc, call, timer, otherVars>>

\* Line 144: the event is cancelled, if it is still registered.
Fire(f) ==
    /\ firing[f]
    /\ firing' = [firing EXCEPT ![f] = FALSE]
    /\ \/ CancelEvent(EventOf(f))
       \/ (EventOf(f) \notin events \/ ~watched) /\ UNCHANGED fdVars
    /\ UNCHANGED <<pc, call, timer, otherVars>>

-----------------------------------------------------------------------------
(* What others do: Socket::cancelRead() and the like, delEvent() in the    *)
(* clients of the RPC layer, close()                                       *)

Cancel ==
    /\ closing = "no" /\ ops < MaxOps /\ ops' = ops + 1
    /\ CancelAllEvent \/ \E e \in Events : CancelEvent(e)
    /\ UNCHANGED <<callVars, limits, managed, closing>>

\* The fiber that is dropped while it holds is destroyed.
Delete ==
    /\ closing = "no" /\ ops < MaxOps /\ ops' = ops + 1
    /\ \E e \in Events :
        /\ waiter[e] # None => pc[waiter[e]] # "asleep"
        /\ DelEvent(e)
    /\ UNCHANGED <<callVars, limits, managed, closing>>

DeleteWrong ==
    /\ closing = "no" /\ ops < MaxOps /\ ops' = ops + 1
    /\ watched
    /\ \E e \in Events : waiter[e] # None /\ pc[waiter[e]] = "asleep"
    /\ fault' = "assert"
    /\ UNCHANGED <<socketVars, epollVars, got, contextVars, callVars, limits, managed,
                   closing>>

\* close(): cancelAllEvent(), FdManager::del(), close_f() (lines 254-271).
CloseCancel ==
    /\ closing = "no" /\ ops < MaxOps /\ ops' = ops + 1
    /\ closing' = "forget"
    /\ CancelAllEvent \/ ((events = {} \/ ~watched) /\ UNCHANGED fdVars)
    /\ UNCHANGED <<callVars, limits, managed>>

CloseForget ==
    /\ closing = "forget"
    /\ closing' = "close"
    /\ managed' = FALSE
    /\ UNCHANGED <<fdVars, callVars, limits, ops>>

CloseFd ==
    /\ closing = "close"
    /\ closing' = "done"
    /\ open' = FALSE
    /\ Unwatch
    /\ UNCHANGED <<ready, hup, got, contextVars, fault, callVars, limits, managed, ops>>

Others == Cancel \/ Delete \/ DeleteWrong \/ CloseCancel \/ CloseForget \/ CloseFd

-----------------------------------------------------------------------------

\* A program that has aborted does nothing more.
Next ==
    /\ fault = "none"
    /\ \/ \E f \in Fibers : Call(f) \/ FiberStep(f) \/ Resume(f) \/ Expire(f) \/ Fire(f)
       \/ \E w \in Pollers : PollerStep(w) /\ UNCHANGED <<callVars, otherVars>>
       \/ (HangUp \/ \E e \in Events : Arrive(e)) /\ UNCHANGED <<callVars, otherVars>>
       \/ Others

Spec == Init /\ [][Next]_vars

(***************************************************************************)
(* Fairness.  The threads run: fibers that are submitted are resumed,      *)
(* epoll_wait() returns what there is, timers expire.  Nobody need call,   *)
(* cancel or close, and data need not arrive.                              *)
(***************************************************************************)
Running(A) == fault = "none" /\ A

Fairness ==
    /\ \A f \in Fibers :
        /\ WF_vars(Running(FiberStep(f)))
        /\ WF_vars(Running(Resume(f)))
        /\ WF_vars(Running(Expire(f)))
        /\ WF_vars(Running(Fire(f)))
    /\ \A w \in Pollers : WF_vars(Running(PollerStep(w)) /\ UNCHANGED <<callVars, otherVars>>)

FairSpec == Spec /\ Fairness

-----------------------------------------------------------------------------
(* What the hooked calls promise *)

\* A fiber that holds in a hooked call is in exactly one place, the context of
\* its event or once on the list of tasks, and one that does not wait is in
\* none: whatever events, timeouts and cancellations come together, it is
\* resumed once for each wait.  (One that delEvent() drops on its way to hold
\* is an error as soon as it holds.)
Registered(f) == {e \in Events : waiter[e] = f}
WaiterInOnePlace ==
    \A f \in Fibers :
        LET places == Cardinality(Registered(f)) + tasks[f] IN
        /\ places <= 1
        /\ pc[f] \notin {"yield", "asleep"} => places = 0
        /\ fault = "none" /\ pc[f] = "asleep" => places = 1
        /\ Registered(f) \subseteq events \cap {EventOf(f)}

\* m_pendingEventCount is the number of registered events, so that stopping()
\* is right about them, through every way in which one is triggered, cancelled
\* or deleted.
PendingIsCounted == pending = Cardinality(events)

\* Fibers, contexts and the count agree at every moment, whoever triggers, cancels,
\* deletes or closes.
WaitersAccounted == WaiterInOnePlace /\ PendingIsCounted

\* No edge is lost: while an event is registered for which the socket is ready,
\* epoll will report it, or a thread has got it and is about to handle it.
ReadyIsNoticed ==
    \A e \in events :
        open /\ fault = "none" /\ e \in ready =>
            listed \/ \E w \in Pollers : got[w] \cap {e, "HUP"} # {}

\* Until somebody closes the socket, a hooked call whose event comes, or that
\* has a timeout, does not sleep for ever.
HookedCallReturns ==
    \A f \in Fibers :
        pc[f] = "asleep" /\ (EventOf(f) \in limits \/ EventOf(f) \in ready)
            ~> \/ pc[f] # "asleep" \/ fault # "none" \/ closing # "no"
               \/ EventOf(f) \notin limits \cup ready

=============================================================================
