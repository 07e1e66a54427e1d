------------------------------ MODULE FdEvents ------------------------------
(***************************************************************************)
(* The events of one descriptor in IOManager (src/base/io_manager.cc): its *)
(* FdContext, what epoll knows of the descriptor, and the threads that     *)
(* wait in epoll_wait() and handle what it returns.  Module HookIO adds    *)
(* the fibers that wait for events, and the specification.                 *)
(*                                                                         *)
(* Everything a function does under FdContext::mutex is one step; a thread *)
(* has left epoll_wait() with its copy of the events before it takes that  *)
(* mutex.  The descriptor is edge triggered: epoll puts it on a list when  *)
(* something happens or when epoll_ctl() finds it ready, and epoll_wait()  *)
(* takes it from there and reports all that is ready and asked for at that *)
(* moment (EPOLLHUP, here with EPOLLERR, is always asked for).             *)
(***************************************************************************)
EXTENDS Naturals, FiniteSets

CONSTANTS
    Fibers,     \* the fibers that wait for events
    Pollers,    \* the threads of the IOManager
    None        \* no fiber, no event

Events == {"READ", "WRITE"}

ASSUME NoneAssumption == None \notin Fibers \cup Events

VARIABLES
    open,       \* is the descriptor open
    ready,      \* the events for which it is ready
    hup,        \* has the peer hung up
    watched,    \* is it in the epoll set
    mask,       \* the events epoll was last told of
    listed,     \* is it on the list of the next epoll_wait()
    got,        \* what each thread got from epoll_wait() and has not handled
    events,     \* FdContext::events
    waiter,     \* the fiber in the EventContexts `read' and `write'
    pending,    \* m_pendingEventCount
    tasks,      \* how often each fiber is in m_tasks
    fault       \* what stopped the program

socketVars == <<open, ready, hup>>
epollVars == <<watched, mask, listed>>
contextVars == <<events, waiter, pending, tasks>>
fdVars == <<socketVars, epollVars, got, contextVars, fault>>

FdTypeOK ==
    /\ open \in BOOLEAN /\ hup \in BOOLEAN
    /\ watched \in BOOLEAN /\ listed \in BOOLEAN
    /\ ready \subseteq Events /\ mask \subseteq Events /\ events \subseteq Events
    /\ got \in [Pollers -> SUBSET (Events \cup {"HUP"})]
    /\ waiter \in [Events -> Fibers \cup {None}]
    /\ pending \in Nat
    /\ tasks \in [Fibers -> Nat]
    /\ fault \in {"none", "assert", "heap"}

\* A new socket, not added to epoll yet.
FdInit ==
    /\ open = TRUE /\ ready = {} /\ hup = FALSE
    /\ watched = FALSE /\ mask = {} /\ listed = FALSE
    /\ got = [w \in Pollers |-> {}]
    /\ events = {}
    /\ waiter = [e \in Events |-> None]
    /\ pending = 0
    /\ tasks = [f \in Fibers |-> 0]
    /\ fault = "none"

-----------------------------------------------------------------------------
(* epoll *)

Report(asked) == (ready \cap asked) \cup IF hup THEN {"HUP"} ELSE {}

\* EPOLL_CTL_ADD or MOD: the descriptor is listed if there is something.
Watch(asked) ==
    /\ watched' = TRUE
    /\ mask' = asked
    /\ listed' = (listed \/ Report(asked) # {})

\* EPOLL_CTL_DEL, and the last close() of the descriptor.
Unwatch ==
    /\ watched' = FALSE
    /\ mask' = {}
    /\ listed' = FALSE

\* Data or room arrives.
Arrive(e) ==
    /\ open
    /\ ready' = ready \cup {e}
    /\ listed' = (listed \/ e \in mask)
    /\ UNCHANGED <<open, hup, watched, mask, got, contextVars, fault>>

\* The peer hangs up: no call blocks any more.
HangUp ==
    /\ open
    /\ hup' = TRUE
    /\ ready' = Events
    /\ listed' = watched
    /\ UNCHANGED <<open, watched, mask, got, contextVars, fault>>

\* epoll_wait() returns to thread w (lines 405-414).
Collect(w) ==
    /\ listed
    /\ got[w] = {}
    /\ got' = [got EXCEPT ![w] = Report(mask)]
    /\ listed' = FALSE
    /\ UNCHANGED <<socketVars, watched, mask, contextVars, fault>>

-----------------------------------------------------------------------------
(* The FdContext *)

\* Mutant of Trigger: the context keeps its fiber.
TriggerKeeping(es) ==
    /\ events' = events \ es
    /\ UNCHANGED waiter
    /\ tasks' = [f \in Fibers |->
                    IF \E e \in es : waiter[e] = f THEN tasks[f] + 1 ELSE tasks[f]]

\* triggerEvent() for each event of es: its fiber is submitted.
Trigger(es) ==
    /\ events' = events \ es
    /\ waiter' = [e \in Events |-> IF e \in es THEN None ELSE waiter[e]]
    /\ tasks' = [f \in Fibers |->
                    IF \E e \in es : waiter[e] = f THEN tasks[f] + 1 ELSE tasks[f]]

\* addEvent(fd, e), lines 188-220: epoll refuses to ADD a descriptor it has,
\* and any that is closed.
CanAdd(e) == open /\ e \notin events /\ (watched <=> events # {})

Add(f, e) ==
    /\ CanAdd(e)
    /\ Watch(events \cup {e})
    /\ events' = events \cup {e}
    /\ waiter' = [waiter EXCEPT ![e] = f]
    /\ pending' = pending + 1
    /\ UNCHANGED <<socketVars, got, tasks, fault>>

\* delEvent(fd, e), lines 238-266: the fiber is dropped from the context.  The
\* operation is MOD even when no event is left (line 245).
DelEvent(e) ==
    /\ e \in events /\ watched
    /\ Watch(events \ {e})
    /\ events' = events \ {e}
    /\ waiter' = [waiter EXCEPT ![e] = None]
    /\ pending' = pending - 1
    /\ UNCHANGED <<socketVars, got, tasks, fault>>

\* cancelEvent(fd, e), lines 281-306, with the same choice of the operation.
CancelEvent(e) ==
    /\ e \in events /\ watched
    /\ Watch(events \ {e})
    /\ Trigger({e})
    /\ pending' = pending - 1
    /\ UNCHANGED <<socketVars, got, fault>>

\* cancelAllEvent(fd), lines 321-353.
CancelAllEvent ==
    /\ events # {} /\ watched
    /\ Unwatch
    /\ Trigger(events)
    /\ pending' = pending - Cardinality(events)
    /\ UNCHANGED <<socketVars, got, fault>>

-----------------------------------------------------------------------------
(* wait() handles what it got *)

\* Lines 442-454: a hang-up stands for every event that is registered now.
RealEvents(w) ==
    (got[w] \cap Events) \cup IF "HUP" \in got[w] THEN events ELSE {}

\* Mutant of Handle: op is always EPOLL_CTL_DEL.
HandleUnwatching(w) ==
    LET real == RealEvents(w) IN
    /\ real \cap events # {} /\ real \subseteq events /\ watched
    /\ Unwatch
    /\ Trigger(real)
    /\ pending' = pending - Cardinality(real)
    /\ got' = [got EXCEPT ![w] = {}]
    /\ UNCHANGED <<socketVars, fault>>

\* Lines 462-483: epoll is told of the events that are left, and each of the
\* real events is triggered.
Handle(w) ==
    LET real == RealEvents(w)
        left == events \ real
    IN
    /\ real \cap events # {} /\ real \subseteq events /\ watched
    /\ IF left = {} THEN Unwatch ELSE Watch(left)
    /\ Trigger(real)
    /\ pending' = pending - Cardinality(real)
    /\ got' = [got EXCEPT ![w] = {}]
    /\ UNCHANGED <<socketVars, fault>>

\* One of them is not registered (any more): triggerEvent() aborts (line 82).
HandleWrong(w) ==
    LET real == RealEvents(w) IN
    /\ real \cap events # {} /\ ~(real \subseteq events) /\ watched
    /\ fault' = "assert"
    /\ UNCHANGED <<socketVars, epollVars, got, contextVars>>

\* Lines 455-458 and 466-471: nobody waits for them, or epoll_ctl() fails.
Ignore(w) ==
    /\ got[w] # {}
    /\ RealEvents(w) \cap events = {} \/ ~watched
    /\ got' = [got EXCEPT ![w] = {}]
    /\ UNCHANGED <<socketVars, epollVars, contextVars, fault>>

PollerStep(w) == Collect(w) \/ Handle(w) \/ HandleWrong(w) \/ Ignore(w)

=============================================================================
