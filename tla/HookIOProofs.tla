---------------------------- MODULE HookIOProofs ----------------------------
(***************************************************************************)
(* The hooked calls of module HookIO, for any fibers, pollers, calls,      *)
(* choices of timeouts and any number of cancellations: a waiter is in one *)
(* place, the count of pending events is right and no edge is lost.        *)
(*                                                                         *)
(* A fiber is on the list of tasks or in the context of the one event it   *)
(* waits for, and never in both, because addEvent() refuses an event that  *)
(* is registered and whoever takes a fiber out of the context submits it   *)
(* in the same section.  Edges are not lost because, while the descriptor  *)
(* is open, epoll is asked for exactly the registered events.              *)
(***************************************************************************)
EXTENDS HookIO, FiniteSetTheorems, TLAPS

\* The place a fiber is in, without counting.
PlaceInv ==
    /\ \A e \in Events : \A f \in Fibers : waiter[e] = f =>
          /\ e \in events /\ e = EventOf(f)
          /\ tasks[f] = 0
          /\ pc[f] \in {"yield", "asleep"}
    /\ \A f \in Fibers :
          /\ tasks[f] \in {0, 1}
          /\ tasks[f] = 1 => pc[f] \in {"yield", "asleep"}
          /\ fault = "none" /\ pc[f] = "asleep" => ~Lost(f)

\* While the descriptor is open, epoll is asked for what is registered.
EpollInv ==
    open => /\ mask = events
            /\ events # {} => watched

IInv ==
    /\ TypeOK
    /\ PlaceInv
    /\ PendingIsCounted
    /\ EpollInv
    /\ ReadyIsNoticed

-----------------------------------------------------------------------------
(* The count of pending events and the types *)

\* There are two events: their sets can be counted.
LEMMA EventsFinite ==
    ASSUME NEW es \in SUBSET Events
    PROVE  IsFiniteSet(es) /\ Cardinality(es) \in Nat
<1>1. IsFiniteSet({"READ"}) /\ IsFiniteSet({"WRITE"})
  BY FS_Singleton
<1>2. Events = {"READ"} \cup {"WRITE"}
  BY DEF Events
<1>3. IsFiniteSet(Events)
  BY <1>1, <1>2, FS_Union
<1>. QED
  BY <1>3, FS_Subset, FS_CardinalityType

\* A call waits for one of them.
LEMMA EventOfType == TypeOK => \A f \in Fibers : EventOf(f) \in Events
BY DEF TypeOK, EventOf, Event, Events

\* Events that are registered go from the set and from the count.
LEMMA EventsGo ==
    ASSUME TypeOK, PendingIsCounted, NEW es \in SUBSET events,
           events' = events \ es, pending' = pending - Cardinality(es)
    PROVE  PendingIsCounted'
<1>1. events \in SUBSET Events /\ es \in SUBSET Events /\ (events \cap es) = es
  BY DEF TypeOK, FdTypeOK
<1>2. Cardinality(events \ es) = Cardinality(events) - Cardinality(es)
  BY <1>1, EventsFinite, FS_Difference
<1>. QED
  BY <1>2 DEF PendingIsCounted

\* The same for one event.
LEMMA OneEventGoes ==
    ASSUME TypeOK, PendingIsCounted, NEW e \in events,
           events' = events \ {e}, pending' = pending - 1
    PROVE  PendingIsCounted'
<1>1. Cardinality({e}) = 1 /\ {e} \in SUBSET events
  BY FS_Singleton
<1>. QED
  BY <1>1, EventsGo

\* Every function changes the set of registered events and m_pendingEventCount alike.
LEMMA CountNext == TypeOK /\ PendingIsCounted /\ [Next]_vars => PendingIsCounted'
<1> SUFFICES ASSUME TypeOK, PendingIsCounted, [Next]_vars
             PROVE  PendingIsCounted'
  OBVIOUS
<1>1. ASSUME UNCHANGED contextVars PROVE PendingIsCounted'
  BY <1>1 DEF contextVars, PendingIsCounted
<1>2. ASSUME UNCHANGED fdVars PROVE PendingIsCounted'
  BY <1>1, <1>2 DEF fdVars
<1>3. ASSUME NEW e \in Events, CancelEvent(e) PROVE PendingIsCounted'
  BY <1>3, OneEventGoes DEF CancelEvent, Trigger
<1>4. ASSUME CancelAllEvent PROVE PendingIsCounted'
  BY <1>4, EventsGo DEF CancelAllEvent, Trigger
<1>5. ASSUME NEW f \in Fibers, AddEvent(f) PROVE PendingIsCounted'
  <2>1. CASE Add(f, EventOf(f))
    <3>1. events \in SUBSET Events /\ EventOf(f) \notin events
      BY <2>1 DEF Add, CanAdd, TypeOK, FdTypeOK
    <3>2. Cardinality(events \cup {EventOf(f)}) = Cardinality(events) + 1
      BY <3>1, EventsFinite, FS_AddElement
    <3>. QED
      BY <2>1, <3>2 DEF Add, PendingIsCounted
  <2>. QED
    BY <1>2, <1>5, <2>1 DEF AddEvent
<1>6. ASSUME NEW w \in Pollers, PollerStep(w) PROVE PendingIsCounted'
  <2>1. CASE Handle(w)
    BY <2>1, EventsGo DEF Handle, Trigger
  <2>. QED
    BY <1>1, <1>6, <2>1 DEF PollerStep, Collect, HandleWrong, Ignore
<1>7. CASE Others
  <2>1. CASE Cancel
    BY <1>3, <1>4, <2>1 DEF Cancel
  <2>2. CASE Delete
    BY <2>2, OneEventGoes DEF Delete, DelEvent
  <2>3. CASE CloseCancel
    BY <1>2, <1>4, <2>3 DEF CloseCancel
  <2>. QED
    BY <1>1, <1>2, <1>7, <2>1, <2>2, <2>3 DEF Others, DeleteWrong, CloseForget, CloseFd
<1>8. ASSUME NEW f \in Fibers, Fire(f) PROVE PendingIsCounted'
  BY <1>2, <1>3, <1>8, EventOfType DEF Fire
<1>9. ASSUME NEW f \in Fibers, Call(f) \/ Expire(f) \/ Woken(f) PROVE PendingIsCounted'
  BY <1>2, <1>9 DEF Call, Expire, Woken
<1>10. ASSUME NEW f \in Fibers, Try(f) \/ Yield(f) \/ WokenLate(f) PROVE PendingIsCounted'
  BY <1>1, <1>10 DEF Try, Yield, WokenLate
<1>11. ASSUME NEW f \in Fibers, Resume(f) PROVE PendingIsCounted'
  BY <1>11 DEF Resume, PendingIsCounted
<1>12. ASSUME HangUp \/ \E e \in Events : Arrive(e) PROVE PendingIsCounted'
  BY <1>1, <1>12 DEF HangUp, Arrive
<1>13. CASE UNCHANGED vars
  BY <1>2, <1>13 DEF vars
<1>. QED
  BY <1>5, <1>6, <1>7, <1>8, <1>9, <1>10, <1>11, <1>12, <1>13 DEF Next, FiberStep

\* Every step keeps the types; the count is a number because it counts.
LEMMA TypeNext == TypeOK /\ PendingIsCounted' /\ [Next]_vars => TypeOK'
<1> SUFFICES ASSUME TypeOK, PendingIsCounted', [Next]_vars
             PROVE  TypeOK'
  OBVIOUS
<1> USE CallsAssumption DEF TypeOK, FdTypeOK, Goto
<1>1. ASSUME (events \subseteq Events)' PROVE pending' \in Nat
  BY <1>1, EventsFinite DEF PendingIsCounted
<1>2. ASSUME NEW f \in Fibers, Call(f) PROVE TypeOK'
  BY <1>2 DEF Call, fdVars, socketVars, epollVars, contextVars, otherVars
<1>3. ASSUME NEW f \in Fibers, Try(f) PROVE TypeOK'
  BY <1>3 DEF Try, epollVars, contextVars, otherVars
<1>4. ASSUME NEW f \in Fibers, AddEvent(f) PROVE TypeOK'
  <2>1. CASE Add(f, EventOf(f))
    <3>1. EventOf(f) \in Events
      BY EventOfType
    <3>. QED
      BY <1>1, <1>4, <2>1, <3>1 DEF AddEvent, Add, Watch, socketVars, otherVars, fdVars
  <2>. QED
    BY <1>4, <2>1 DEF AddEvent, fdVars, socketVars, epollVars, contextVars, otherVars
<1>5. ASSUME NEW f \in Fibers, Yield(f) PROVE TypeOK'
  BY <1>5 DEF Yield, socketVars, epollVars, contextVars, otherVars
<1>6. ASSUME NEW f \in Fibers, Woken(f) PROVE TypeOK'
  BY <1>6 DEF Woken, fdVars, socketVars, epollVars, contextVars, otherVars
<1>7. ASSUME NEW f \in Fibers, WokenLate(f) PROVE TypeOK'
  BY <1>7 DEF WokenLate, socketVars, epollVars, contextVars, otherVars
<1>8. ASSUME NEW f \in Fibers, Resume(f) PROVE TypeOK'
  <2>1. tasks[f] - 1 \in Nat
    BY <1>8 DEF Resume
  <2>. QED
    BY <1>8, <2>1 DEF Resume, socketVars, epollVars, otherVars
<1>9. ASSUME NEW f \in Fibers, Expire(f) PROVE TypeOK'
  BY <1>9 DEF Expire, fdVars, socketVars, epollVars, contextVars, otherVars
<1>10. ASSUME NEW es \in SUBSET Events, Trigger(es)
       PROVE  (events \subseteq Events /\ waiter \in [Events -> Fibers \cup {None}]
                 /\ tasks \in [Fibers -> Nat])'
  BY <1>10 DEF Trigger
<1>11. ASSUME NEW e \in Events, CancelEvent(e)
       PROVE  FdTypeOK'
  BY <1>1, <1>10, <1>11 DEF CancelEvent, Watch, socketVars
<1>12. ASSUME CancelAllEvent PROVE FdTypeOK'
  BY <1>1, <1>10, <1>12 DEF CancelAllEvent, Unwatch, socketVars
<1>13. ASSUME UNCHANGED fdVars PROVE FdTypeOK'
  BY <1>13 DEF fdVars, socketVars, epollVars, contextVars
<1>14. ASSUME NEW f \in Fibers, Fire(f) PROVE TypeOK'
  <2>1. FdTypeOK'
    BY <1>11, <1>13, <1>14, EventOfType DEF Fire
  <2>. QED
    BY <1>14, <2>1 DEF Fire, otherVars
<1>15. ASSUME NEW w \in Pollers, PollerStep(w), UNCHANGED <<callVars, otherVars>> PROVE TypeOK'
  <2>1. CASE Collect(w)
    BY <1>15, <2>1 DEF Collect, Report, socketVars, contextVars, callVars, otherVars
  <2>2. CASE Handle(w)
    <3>1. RealEvents(w) \in SUBSET Events
      BY DEF RealEvents
    <3>2. UNCHANGED <<open, ready, hup, fault>> /\ got' \in [Pollers -> SUBSET (Events \cup {"HUP"})]
      BY <2>2 DEF Handle, socketVars
    <3>3. watched' \in BOOLEAN /\ listed' \in BOOLEAN /\ mask' \subseteq Events
      BY <2>2, <3>1 DEF Handle, Watch, Unwatch
    <3>. QED
      BY <1>1, <1>10, <1>15, <2>2, <3>1, <3>2, <3>3 DEF Handle, callVars, otherVars
  <2>3. CASE HandleWrong(w)
    BY <1>15, <2>3 DEF HandleWrong, socketVars, epollVars, contextVars, callVars, otherVars
  <2>4. CASE Ignore(w)
    BY <1>15, <2>4 DEF Ignore, socketVars, epollVars, contextVars, callVars, otherVars
  <2>. QED
    BY <1>15, <2>1, <2>2, <2>3, <2>4 DEF PollerStep
<1>16. ASSUME HangUp \/ \E e \in Events : Arrive(e), UNCHANGED <<callVars, otherVars>>
       PROVE  TypeOK'
  BY <1>16 DEF HangUp, Arrive, contextVars, callVars, otherVars
<1>17. CASE Others
  <2>1. CASE Cancel
    <3>1. FdTypeOK'
      BY <1>11, <1>12, <2>1 DEF Cancel
    <3>. QED
      BY <2>1, <3>1, MaxOpsAssumption DEF Cancel, callVars
  <2>2. CASE Delete
    BY <1>1, <2>2, MaxOpsAssumption DEF Delete, DelEvent, Watch, socketVars, callVars
  <2>3. CASE DeleteWrong
    BY <2>3, MaxOpsAssumption
    DEF DeleteWrong, socketVars, epollVars, contextVars, callVars
  <2>4. CASE CloseCancel
    <3>1. FdTypeOK'
      BY <1>12, <1>13, <2>4 DEF CloseCancel
    <3>. QED
      BY <2>4, <3>1, MaxOpsAssumption DEF CloseCancel, callVars
  <2>5. CASE CloseForget
    BY <2>5, <1>13 DEF CloseForget, callVars
  <2>6. CASE CloseFd
    BY <2>6 DEF CloseFd, Unwatch, contextVars, callVars
  <2>. QED
    BY <1>17, <2>1, <2>2, <2>3, <2>4, <2>5, <2>6 DEF Others
<1>18. CASE UNCHANGED vars
  BY <1>13, <1>18 DEF vars, callVars, otherVars
<1>. QED
  BY <1>2, <1>3, <1>4, <1>5, <1>6, <1>7, <1>8, <1>9, <1>14, <1>15, <1>16, <1>17, <1>18
  DEF Next, FiberStep

-----------------------------------------------------------------------------
(* Waiters *)

\* Who takes fibers out of the context submits them.
LEMMA TriggerKeeps ==
    ASSUME TypeOK, PlaceInv, NEW es \in SUBSET events, Trigger(es),
           UNCHANGED <<pc, call, fault>>
    PROVE  PlaceInv'
<1> USE DEF TypeOK, FdTypeOK, PlaceInv, EventOf
<1>1. ASSUME NEW f \in Fibers, NEW d \in es, waiter[d] = f
      PROVE  tasks'[f] = 1 /\ pc'[f] \in {"yield", "asleep"} /\ \A e \in Events : waiter'[e] # f
  BY <1>1, NoneAssumption DEF Trigger
<1>2. ASSUME NEW f \in Fibers, \A d \in es : waiter[d] # f
      PROVE  tasks'[f] = tasks[f] /\ \A e \in Events : waiter'[e] = f <=> waiter[e] = f
  BY <1>2, NoneAssumption DEF Trigger
<1>3. ASSUME NEW e \in Events, NEW f \in Fibers, waiter'[e] = f
      PROVE  e \in events' /\ e = EventOf(f)' /\ tasks'[f] = 0 /\ pc'[f] \in {"yield", "asleep"}
  BY <1>1, <1>2, <1>3, NoneAssumption DEF Trigger
<1>4. ASSUME NEW f \in Fibers
      PROVE  /\ tasks'[f] \in {0, 1}
             /\ tasks'[f] = 1 => pc'[f] \in {"yield", "asleep"}
             /\ (fault = "none")' /\ pc'[f] = "asleep" => ~Lost(f)'
  BY <1>1, <1>2 DEF Lost
<1>. QED
  BY <1>3, <1>4

\* A step that leaves the context alone and no fiber to hold without a place.
LEMMA PlaceKept ==
    ASSUME PlaceInv, UNCHANGED <<events, waiter, tasks>>,
           (fault = "none")' => fault = "none",
           NEW x \in Fibers, \A f \in Fibers : f # x => pc'[f] = pc[f] /\ call'[f] = call[f],
           \/ pc'[x] = pc[x] /\ call'[x] = call[x]
           \/ pc[x] \notin {"yield", "asleep"} /\ pc'[x] # "asleep"
           \/ call'[x] = call[x] /\ pc[x] = "yield" /\ pc'[x] = "asleep"
                /\ ((fault = "none")' => ~Lost(x))
    PROVE  PlaceInv'
BY DEF PlaceInv, Lost, EventOf

\* A waiter is in the context of its event or once on the list of tasks.
LEMMA PlaceNext == TypeOK /\ PlaceInv /\ [Next]_vars => PlaceInv'
<1> SUFFICES ASSUME TypeOK, PlaceInv, [Next]_vars
             PROVE  PlaceInv'
  OBVIOUS
<1>1. ASSUME UNCHANGED <<contextVars, fault, pc, call>> PROVE PlaceInv'
  BY <1>1 DEF contextVars, PlaceInv, Lost, EventOf
<1>2. ASSUME NEW es \in SUBSET events, Trigger(es), UNCHANGED <<fault, callVars>> PROVE PlaceInv'
  BY <1>2, TriggerKeeps DEF callVars
<1>3. ASSUME NEW f \in Fibers, Call(f) PROVE PlaceInv'
  <2>1. UNCHANGED <<events, waiter, tasks, fault>>
    BY <1>3 DEF Call, fdVars, contextVars
  <2>2. pc[f] = "client" /\ pc'[f] = "try" /\ \A g \in Fibers : g # f => pc'[g] = pc[g] /\ call'[g] = call[g]
    BY <1>3 DEF Call, Goto, TypeOK
  <2>. QED
    BY <2>1, <2>2, PlaceKept
<1>4. ASSUME NEW f \in Fibers, Try(f) PROVE PlaceInv'
  <2>1. UNCHANGED <<events, waiter, tasks, fault, call>>
    BY <1>4 DEF Try, contextVars
  <2>2. pc[f] = "try" /\ pc'[f] \in {"client", "add"} /\ \A g \in Fibers : g # f => pc'[g] = pc[g]
    BY <1>4 DEF Try, Goto, TypeOK
  <2>. QED
    BY <2>1, <2>2, PlaceKept
<1>5. ASSUME NEW f \in Fibers, AddEvent(f) PROVE PlaceInv'
  <2> DEFINE d == EventOf(f)
  <2>1. pc[f] = "add" /\ tasks[f] = 0 /\ \A e \in Events : waiter[e] # f
    BY <1>5 DEF AddEvent, Goto, PlaceInv
  <2>2. d \in Events
    BY EventOfType
  <2>3. CASE Add(f, d)
    <3>1. /\ pc'[f] = "yield" /\ \A g \in Fibers : g # f => pc'[g] = pc[g]
          /\ UNCHANGED <<tasks, fault, call>>
          /\ d \notin events /\ events' = events \cup {d} /\ waiter' = [waiter EXCEPT ![d] = f]
      BY <1>5, <2>3 DEF AddEvent, Add, CanAdd, Goto, TypeOK
    <3>2. \A g \in Fibers : waiter[d] # g
      BY <3>1, <2>2 DEF PlaceInv
    <3>3. waiter'[d] = f /\ \A e \in Events : e # d => waiter'[e] = waiter[e]
      BY <2>2, <3>1 DEF TypeOK, FdTypeOK
    <3>4. \A g \in Fibers : EventOf(g)' = EventOf(g)
      BY <3>1 DEF EventOf
    <3>5. ASSUME NEW e \in Events, NEW g \in Fibers, waiter'[e] = g
          PROVE  e \in events' /\ e = EventOf(g)' /\ tasks'[g] = 0 /\ pc'[g] \in {"yield", "asleep"}
      BY <2>1, <3>1, <3>3, <3>4, <3>5 DEF PlaceInv
    <3>6. ASSUME NEW g \in Fibers
          PROVE  /\ tasks'[g] \in {0, 1}
                 /\ tasks'[g] = 1 => pc'[g] \in {"yield", "asleep"}
                 /\ (fault = "none")' /\ pc'[g] = "asleep" => ~Lost(g)'
      BY <2>1, <3>1, <3>2, <3>3 DEF PlaceInv, Lost
    <3>. QED
      BY <3>5, <3>6 DEF PlaceInv
  <2>4. CASE UNCHANGED fdVars
    <3>1. UNCHANGED <<events, waiter, tasks, fault, call>>
      BY <1>5, <2>4 DEF AddEvent, fdVars, contextVars
    <3>2. pc'[f] \in {"yield", "client"} /\ \A g \in Fibers : g # f => pc'[g] = pc[g]
      BY <1>5 DEF AddEvent, Goto, TypeOK
    <3>. QED
      BY <2>1, <3>1, <3>2, PlaceKept
  <2>. QED
    BY <1>5, <2>3, <2>4 DEF AddEvent
<1>6. ASSUME NEW f \in Fibers, Yield(f) PROVE PlaceInv'
  <2>1. UNCHANGED <<events, waiter, tasks, call>> /\ fault' = IF Lost(f) THEN "assert" ELSE fault
    BY <1>6 DEF Yield, contextVars
  <2>2. pc[f] = "yield" /\ pc'[f] = "asleep" /\ \A g \in Fibers : g # f => pc'[g] = pc[g]
    BY <1>6 DEF Yield, Goto, TypeOK
  <2>. QED
    BY <2>1, <2>2, PlaceKept
<1>7. ASSUME NEW f \in Fibers, Woken(f) PROVE PlaceInv'
  <2>1. UNCHANGED <<events, waiter, tasks, fault, call>>
    BY <1>7 DEF Woken, fdVars, contextVars
  <2>2. pc[f] = "woken" /\ pc'[f] \in {"client", "try"} /\ \A g \in Fibers : g # f => pc'[g] = pc[g]
    BY <1>7 DEF Woken, Goto, TypeOK
  <2>. QED
    BY <2>1, <2>2, PlaceKept
<1>8. ASSUME NEW f \in Fibers, WokenLate(f) PROVE PlaceInv'
  <2>1. UNCHANGED <<events, waiter, tasks, call>> /\ fault' = "heap"
    BY <1>8 DEF WokenLate, contextVars
  <2>2. pc[f] = "woken" /\ pc'[f] = "woken" /\ \A g \in Fibers : g # f => pc'[g] = pc[g]
    BY <1>8 DEF WokenLate, Goto, TypeOK
  <2>. QED
    BY <2>1, <2>2, PlaceKept
<1>9. ASSUME NEW f \in Fibers, Resume(f) PROVE PlaceInv'
  <2>1. UNCHANGED <<events, waiter, fault, call>> /\ tasks[f] = 1 /\ tasks' = [tasks EXCEPT ![f] = @ - 1]
    BY <1>9 DEF Resume, PlaceInv
  <2>2. tasks'[f] = 0 /\ \A g \in Fibers : g # f => tasks'[g] = tasks[g]
    BY <2>1 DEF TypeOK, FdTypeOK
  <2>3. pc'[f] = "woken" /\ \A g \in Fibers : g # f => pc'[g] = pc[g]
    BY <1>9 DEF Resume, Goto, TypeOK
  <2>. QED
    BY <2>1, <2>2, <2>3 DEF PlaceInv, Lost, EventOf
<1>10. ASSUME NEW f \in Fibers, Expire(f) \/ Fire(f) PROVE PlaceInv'
  <2>1. CASE UNCHANGED fdVars
    BY <1>1, <1>10, <2>1 DEF Expire, Fire, fdVars, CancelEvent
  <2>2. CASE CancelEvent(EventOf(f))
    <3>1. UNCHANGED <<pc, call, fault>>
      BY <1>10, <2>2 DEF Expire, Fire, CancelEvent, fdVars
    <3>2. {EventOf(f)} \in SUBSET events /\ Trigger({EventOf(f)})
      BY <2>2 DEF CancelEvent
    <3>. QED
      BY <3>1, <3>2, TriggerKeeps
  <2>. QED
    BY <1>10, <2>1, <2>2 DEF Expire, Fire
<1>11. ASSUME NEW w \in Pollers, PollerStep(w), UNCHANGED <<callVars, otherVars>> PROVE PlaceInv'
  <2>1. CASE Handle(w)
    <3>1. RealEvents(w) \in SUBSET events
      BY <2>1 DEF Handle
    <3>. QED
      BY <1>2, <1>11, <2>1, <3>1 DEF Handle
  <2>2. CASE HandleWrong(w)
    BY <1>11, <2>2 DEF HandleWrong, contextVars, callVars, PlaceInv, Lost, EventOf
  <2>. QED
    BY <1>1, <1>11, <2>1, <2>2 DEF PollerStep, Collect, Ignore, callVars
<1>12. ASSUME HangUp \/ \E e \in Events : Arrive(e), UNCHANGED <<callVars, otherVars>>
       PROVE  PlaceInv'
  BY <1>1, <1>12 DEF HangUp, Arrive, callVars
<1>13. CASE Others
  <2>1. ASSUME NEW e \in Events, CancelEvent(e), UNCHANGED callVars PROVE PlaceInv'
    BY <1>2, <2>1 DEF CancelEvent
  <2>2. ASSUME CancelAllEvent, UNCHANGED callVars PROVE PlaceInv'
    BY <1>2, <2>2 DEF CancelAllEvent
  <2>3. CASE Cancel
    BY <2>1, <2>2, <2>3 DEF Cancel
  <2>4. CASE Delete
    <3>1. PICK e \in Events : /\ waiter[e] # None => pc[waiter[e]] # "asleep"
                              /\ DelEvent(e)
      BY <2>4 DEF Delete
    <3>2. /\ events' = events \ {e} /\ waiter' = [waiter EXCEPT ![e] = None]
          /\ UNCHANGED <<tasks, fault, pc, call>>
      BY <2>4, <3>1 DEF DelEvent, Delete, callVars
    <3>3. ASSUME NEW d \in Events, NEW g \in Fibers
          PROVE  waiter'[d] = g <=> waiter[d] = g /\ d # e
      BY <3>2, NoneAssumption DEF TypeOK, FdTypeOK
    <3>4. ASSUME NEW g \in Fibers, pc[g] = "asleep"
          PROVE  waiter[e] # g
      BY <3>1, <3>4, NoneAssumption DEF TypeOK, FdTypeOK
    <3>. QED
      BY <3>2, <3>3, <3>4 DEF PlaceInv, Lost, EventOf
  <2>5. CASE DeleteWrong
    BY <2>5 DEF DeleteWrong, contextVars, callVars, PlaceInv, Lost, EventOf
  <2>6. CASE CloseCancel
    BY <1>1, <2>2, <2>6 DEF CloseCancel, fdVars, callVars
  <2>. QED
    BY <1>1, <1>13, <2>3, <2>4, <2>5, <2>6 DEF Others, CloseForget, CloseFd, fdVars, callVars
<1>14. CASE UNCHANGED vars
  BY <1>1, <1>14 DEF vars, fdVars, callVars
<1>. QED
  BY <1>3, <1>4, <1>5, <1>6, <1>7, <1>8, <1>9, <1>10, <1>11, <1>12, <1>13, <1>14
  DEF Next, FiberStep

-----------------------------------------------------------------------------
(* Edges *)

Noticed(e) == listed \/ \E w \in Pollers : got[w] \cap {e, "HUP"} # {}

\* epoll_ctl() with the events that are left lists the descriptor if one of them is
\* ready; the events that were there go on to be noticed.
LEMMA WatchNotices ==
    ASSUME EpollInv, NEW left, Watch(left), events' = left, UNCHANGED <<ready, hup, open>>
    PROVE  EpollInv' /\ ReadyIsNoticed'
BY DEF EpollInv, ReadyIsNoticed, Watch, Report

\* While the descriptor is open, epoll knows what is registered, and no edge is lost.
LEMMA EpollNext ==
    TypeOK /\ EpollInv /\ ReadyIsNoticed /\ [Next]_vars => EpollInv' /\ ReadyIsNoticed'
<1> SUFFICES ASSUME TypeOK, EpollInv, ReadyIsNoticed, [Next]_vars
             PROVE  EpollInv' /\ ReadyIsNoticed'
  OBVIOUS
<1> DEFINE Same == UNCHANGED <<open, hup, epollVars, events>>
<1>1. ASSUME Same, ready' \subseteq ready, UNCHANGED got, (fault = "none")' => fault = "none"
      PROVE  EpollInv' /\ ReadyIsNoticed'
  BY <1>1 DEF EpollInv, ReadyIsNoticed, epollVars
<1>2. ASSUME UNCHANGED fdVars PROVE EpollInv' /\ ReadyIsNoticed'
  BY <1>1, <1>2 DEF fdVars, socketVars, epollVars, contextVars
<1>3. ASSUME NEW e \in Events, CancelEvent(e) PROVE EpollInv' /\ ReadyIsNoticed'
  BY <1>3, WatchNotices DEF CancelEvent, Trigger, socketVars
<1>4. ASSUME CancelAllEvent PROVE EpollInv' /\ ReadyIsNoticed'
  BY <1>4 DEF CancelAllEvent, Trigger, Unwatch, EpollInv, ReadyIsNoticed
<1>5. ASSUME NEW f \in Fibers, Call(f) \/ Woken(f) \/ Expire(f) PROVE EpollInv' /\ ReadyIsNoticed'
  BY <1>2, <1>5 DEF Call, Woken, Expire
<1>6. ASSUME NEW f \in Fibers, Try(f) PROVE EpollInv' /\ ReadyIsNoticed'
  <2>1. ready' \subseteq ready
    BY <1>6 DEF Try
  <2>. QED
    BY <1>1, <1>6, <2>1 DEF Try, contextVars
<1>7. ASSUME NEW f \in Fibers, AddEvent(f) PROVE EpollInv' /\ ReadyIsNoticed'
  BY <1>2, <1>7, WatchNotices DEF AddEvent, Add, socketVars
<1>8. ASSUME NEW f \in Fibers, Yield(f) \/ WokenLate(f) PROVE EpollInv' /\ ReadyIsNoticed'
  BY <1>1, <1>8 DEF Yield, WokenLate, socketVars, contextVars
<1>9. ASSUME NEW f \in Fibers, Resume(f) PROVE EpollInv' /\ ReadyIsNoticed'
  BY <1>1, <1>9 DEF Resume, socketVars
<1>10. ASSUME NEW f \in Fibers, Fire(f) PROVE EpollInv' /\ ReadyIsNoticed'
  BY <1>2, <1>3, <1>10, EventOfType DEF Fire
<1>11. ASSUME NEW w \in Pollers, PollerStep(w) PROVE EpollInv' /\ ReadyIsNoticed'
  <2>1. CASE Collect(w)
    <3>1. \/ Same /\ UNCHANGED <<ready, fault>>
          \/ UNCHANGED <<open, hup, ready, watched, mask, events, fault>>
      BY <2>1 DEF Collect, socketVars, contextVars
    <3>2. got'[w] = Report(mask)
      BY <2>1 DEF Collect, TypeOK, FdTypeOK
    <3>3. EpollInv'
      BY <3>1 DEF EpollInv, epollVars
    <3>4. ASSUME NEW e \in events', open', e \in ready' PROVE Noticed(e)'
      <4>1. e \in Report(mask)
        BY <3>1, <3>4 DEF EpollInv, Report, epollVars
      <4>. QED
        BY <3>2, <4>1 DEF Noticed
    <3>. QED
      BY <3>3, <3>4 DEF ReadyIsNoticed, Noticed
  <2>2. CASE Handle(w)
    <3> DEFINE left == events \ RealEvents(w)
    <3>1. events' = left /\ UNCHANGED <<open, ready, hup>>
      BY <2>2 DEF Handle, Trigger, socketVars
    <3>2. CASE left = {}
      BY <2>2, <3>1, <3>2 DEF Handle, Unwatch, EpollInv, ReadyIsNoticed
    <3>3. CASE left # {}
      BY <2>2, <3>1, <3>3, WatchNotices DEF Handle
    <3>. QED
      BY <3>2, <3>3
  <2>3. CASE HandleWrong(w)
    BY <1>1, <2>3 DEF HandleWrong, socketVars, contextVars
  <2>4. CASE Ignore(w)
    <3>1. Same /\ UNCHANGED <<ready, fault>>
      BY <2>4 DEF Ignore, socketVars, contextVars
    <3>2. EpollInv'
      BY <3>1 DEF EpollInv, epollVars
    <3>3. ASSUME NEW e \in events', open', fault' = "none", e \in ready' PROVE Noticed(e)'
      <4>1. e \in events /\ open /\ watched /\ e \in ready /\ fault = "none" /\ e \in Events
        BY <3>1, <3>3 DEF EpollInv, TypeOK, FdTypeOK
      <4>2. got[w] \cap {e, "HUP"} = {}
        BY <2>4, <4>1 DEF Ignore, RealEvents
      <4>3. listed \/ \E v \in Pollers : v # w /\ got[v] \cap {e, "HUP"} # {}
        BY <4>1, <4>2 DEF ReadyIsNoticed
      <4>4. \A v \in Pollers : v # w => got'[v] = got[v]
        BY <2>4 DEF Ignore, TypeOK, FdTypeOK
      <4>. QED
        BY <3>1, <4>3, <4>4 DEF Noticed, epollVars
    <3>. QED
      BY <3>2, <3>3 DEF ReadyIsNoticed, Noticed
  <2>. QED
    BY <1>11, <2>1, <2>2, <2>3, <2>4 DEF PollerStep
<1>12. ASSUME HangUp \/ \E e \in Events : Arrive(e) PROVE EpollInv' /\ ReadyIsNoticed'
  <2>1. CASE HangUp
    BY <2>1 DEF HangUp, contextVars, EpollInv, ReadyIsNoticed
  <2>2. ASSUME NEW e \in Events, Arrive(e) PROVE EpollInv' /\ ReadyIsNoticed'
    BY <2>2 DEF Arrive, contextVars, EpollInv, ReadyIsNoticed
  <2>. QED
    BY <1>12, <2>1, <2>2
<1>13. CASE Others
  <2>1. CASE Cancel
    BY <1>3, <1>4, <2>1 DEF Cancel
  <2>2. CASE Delete
    BY <2>2, WatchNotices DEF Delete, DelEvent, socketVars
  <2>3. CASE DeleteWrong
    BY <1>1, <2>3 DEF DeleteWrong, socketVars, contextVars
  <2>4. CASE CloseCancel
    BY <1>2, <1>4, <2>4 DEF CloseCancel
  <2>5. CASE CloseFd
    BY <2>5 DEF CloseFd, EpollInv, ReadyIsNoticed
  <2>. QED
    BY <1>2, <1>13, <2>1, <2>2, <2>3, <2>4, <2>5 DEF Others, CloseForget
<1>14. CASE UNCHANGED vars
  BY <1>2, <1>14 DEF vars
<1>. QED
  BY <1>5, <1>6, <1>7, <1>8, <1>9, <1>10, <1>11, <1>12, <1>13, <1>14 DEF Next, FiberStep

-----------------------------------------------------------------------------
(* The theorems *)

LEMMA InitInv == Init => IInv
<1> SUFFICES ASSUME Init PROVE IInv
  OBVIOUS
<1> USE DEF Init, FdInit
<1>1. FdTypeOK
  BY DEF FdTypeOK
<1>2. TypeOK
  BY <1>1, CallsAssumption, MaxOpsAssumption DEF TypeOK
<1>3. PlaceInv
  BY NoneAssumption DEF PlaceInv
<1>4. PendingIsCounted
  BY FS_EmptySet DEF PendingIsCounted
<1>5. EpollInv /\ ReadyIsNoticed
  BY DEF EpollInv, ReadyIsNoticed
<1>. QED
  BY <1>2, <1>3, <1>4, <1>5 DEF IInv

LEMMA NextInv == IInv /\ [Next]_vars => IInv'
BY CountNext, TypeNext, PlaceNext, EpollNext DEF IInv

\* What the code keeps true at every step, for any fibers and threads.
THEOREM InductiveInvariant == Spec => []IInv
BY InitInv, NextInv, PTL DEF Spec

\* Every reachable state is well typed.
THEOREM TypeCorrect == Spec => []TypeOK
<1>1. IInv => TypeOK
  BY DEF IInv
<1>. QED
  BY <1>1, InductiveInvariant, PTL

\* Counting the places of a fiber gives what PlaceInv says of them.
LEMMA PlacesCounted == TypeOK /\ PlaceInv => WaiterInOnePlace
<1> SUFFICES ASSUME TypeOK, PlaceInv, NEW f \in Fibers
             PROVE  LET places == Cardinality(Registered(f)) + tasks[f] IN
                    /\ places <= 1
                    /\ pc[f] \notin {"yield", "asleep"} => places = 0
                    /\ fault = "none" /\ pc[f] = "asleep" => places = 1
                    /\ Registered(f) \subseteq events \cap {EventOf(f)}
  BY DEF WaiterInOnePlace
<1>1. Registered(f) \subseteq events \cap {EventOf(f)}
  BY DEF Registered, PlaceInv
<1>2. CASE Registered(f) = {}
  <2>1. Cardinality(Registered(f)) = 0
    BY <1>2, FS_EmptySet
  <2>2. fault = "none" /\ pc[f] = "asleep" => tasks[f] = 1
    BY <1>2 DEF PlaceInv, Lost, Registered
  <2>. QED
    BY <1>1, <2>1, <2>2 DEF PlaceInv
<1>3. CASE Registered(f) # {}
  <2>1. Registered(f) = {EventOf(f)}
    BY <1>1, <1>3
  <2>2. Cardinality(Registered(f)) = 1
    BY <2>1, FS_Singleton
  <2>3. tasks[f] = 0 /\ pc[f] \in {"yield", "asleep"}
    BY <2>1, EventOfType DEF PlaceInv, Registered
  <2>. QED
    BY <1>1, <2>2, <2>3
<1>. QED
  BY <1>2, <1>3

\* A fiber that holds in a hooked call is in exactly one place, and the count of
\* pending events is that of the context (io_manager.cc:184-353, hook.cc:123-167).
THEOREM HookedWaitersAccounted == Spec => []WaitersAccounted
<1>1. IInv => WaitersAccounted
  BY PlacesCounted DEF IInv, WaitersAccounted
<1>. QED
  BY <1>1, InductiveInvariant, PTL

\* No edge is lost: an event that is registered and ready is reported, or is about to be.
THEOREM NoEdgeLost == Spec => []ReadyIsNoticed
<1>1. IInv => ReadyIsNoticed
  BY DEF IInv
<1>. QED
  BY <1>1, InductiveInvariant, PTL
=============================================================================
