--------------------------- MODULE CoMutexProofs ---------------------------
(***************************************************************************)
(* The lock of module CoMutex, for any set of fibers and any number of     *)
(* workers: type correctness, mutual exclusion, the honesty of m_fiberId,  *)
(* no lost wakeup, and the refinement of AbstractLock.                     *)
(*                                                                         *)
(* The invariant is inductive only with what the two spin locks protect:   *)
(* m_gaurd has one holder (so that nobody queues between the pop and the   *)
(* release of m_mutex in unlock()), and a fiber that is about to queue     *)
(* itself under m_gaurd knows that m_mutex is taken.                       *)
(***************************************************************************)
EXTENDS CoMutex, TLAPS

\* A fiber that has a spin lock has it alone.
SpinLocksInv ==
    /\ \A f \in Fibers : Owns(f) => mutex
    /\ \A f \in Fibers : Guards(f) => guard
    /\ \A f, g \in Fibers : Guards(f) /\ Guards(g) => f = g

\* Between its push and its resumption a waiter is in one place; what unlock()
\* popped it keeps only until it has submitted it; a fiber that runs outside
\* its wait is not submitted.
QueueInv ==
    /\ WaiterInOnePlace
    /\ \A f \in Fibers : Handed(f) => pc[f] # "leave"
    /\ \A g \in Fibers : popped[g] # NoFiber => pc[g] \in {"free", "unguard", "go"}
    /\ \A f \in Fibers :
          Running(f) /\ pc[f] \notin {"yield", "asleep"} => tasks[f] = 0
    /\ \A f \in Fibers : pc[f] \notin {"client", "section", "asleep"} => Running(f)

\* The second tryLock() failed under m_gaurd: the owner has yet to unlock.
PushInv == \A f \in Fibers : pc[f] \in {"push", "leave"} => mutex

\* When m_mutex is about to be freed and fibers wait, one of them was popped
\* and is on its way.
FreeInv ==
    \A f \in Fibers : pc[f] = "free" /\ waitQueue # <<>> =>
        \E w \in Fibers : w # f /\ Contending(w)

IInv ==
    /\ TypeOK
    /\ SpinLocksInv
    /\ MutualExclusion
    /\ OwnerIdHonest
    /\ QueueInv
    /\ PushInv
    /\ FreeInv
    /\ NoLostWakeup

-----------------------------------------------------------------------------

\* The type invariant holds at first and every step keeps it.
LEMMA TypeInit == Init => TypeOK
<1> SUFFICES ASSUME Init PROVE TypeOK
  OBVIOUS
<1>1. waitQueue \in Seq(Fibers)
  BY DEF Init
<1>2. mutex \in BOOLEAN /\ guard \in BOOLEAN
  BY DEF Init
<1>3. tasks \in [Fibers -> Nat]
  BY DEF Init
<1>4. popped \in [Fibers -> Fibers \cup {NoFiber}] /\ fiberId \in Fibers \cup {NoFiber}
  BY DEF Init
<1>5. state \in [Fibers -> {"INIT", "READY", "HOLD", "EXEC"}] /\ pc \in [Fibers -> Labels]
  BY DEF Init, Labels
<1>. QED
  BY <1>1, <1>2, <1>3, <1>4, <1>5 DEF TypeOK

LEMMA TypeNext == TypeOK /\ [Next]_vars => TypeOK'
<1> SUFFICES ASSUME TypeOK, [Next]_vars
             PROVE  TypeOK'
  OBVIOUS
<1> USE DEF TypeOK, Labels, Goto
<1>1. ASSUME NEW f \in Fibers, Resume(f) PROVE TypeOK'
  <2>1. tasks[f] - 1 \in Nat
    BY <1>1 DEF Resume
  <2>. QED
    BY <1>1, <2>1 DEF Resume
<1>2. ASSUME NEW f \in Fibers, Pause(f) PROVE TypeOK'
  BY <1>2 DEF Pause
<1>3. ASSUME NEW f \in Fibers, CallLock(f) PROVE TypeOK'
  BY <1>3 DEF CallLock
<1>4. ASSUME NEW f \in Fibers, CallUnlock(f) PROVE TypeOK'
  BY <1>4 DEF CallUnlock
<1>5. ASSUME NEW f \in Fibers, CheckOwner(f) PROVE TypeOK'
  BY <1>5 DEF CheckOwner
<1>6. ASSUME NEW f \in Fibers, TryFirst(f) PROVE TypeOK'
  BY <1>6 DEF TryFirst, TryLock
<1>7. ASSUME NEW f \in Fibers, TryGuarded(f) PROVE TypeOK'
  BY <1>7 DEF TryGuarded, TryLock
<1>8. ASSUME NEW f \in Fibers, TakeGuard(f) PROVE TypeOK'
  BY <1>8 DEF TakeGuard
<1>9. ASSUME NEW f \in Fibers, DropGuard(f) PROVE TypeOK'
  BY <1>9 DEF DropGuard
<1>10. ASSUME NEW f \in Fibers, PushSelf(f) PROVE TypeOK'
  BY <1>10 DEF PushSelf
<1>11. ASSUME NEW f \in Fibers, Yield(f) PROVE TypeOK'
  BY <1>11 DEF Yield
<1>12. ASSUME NEW f \in Fibers, SetOwner(f) PROVE TypeOK'
  BY <1>12 DEF SetOwner
<1>13. ASSUME NEW f \in Fibers, ClearOwner(f) PROVE TypeOK'
  BY <1>13 DEF ClearOwner
<1>14. ASSUME NEW f \in Fibers, PopWaiter(f) PROVE TypeOK'
  <2>1. CASE waitQueue = <<>>
    BY <1>14, <2>1 DEF PopWaiter
  <2>2. CASE waitQueue # <<>>
    <3>1. Head(waitQueue) \in Fibers /\ Tail(waitQueue) \in Seq(Fibers)
      BY <2>2
    <3>. QED
      BY <1>14, <2>2, <3>1 DEF PopWaiter
  <2>. QED
    BY <2>1, <2>2
<1>15. ASSUME NEW f \in Fibers, FreeMutex(f) PROVE TypeOK'
  BY <1>15 DEF FreeMutex
<1>16. ASSUME NEW f \in Fibers, GoWaiter(f) PROVE TypeOK'
  BY <1>16 DEF GoWaiter
<1>17. CASE UNCHANGED vars
  BY <1>17 DEF vars
<1>. QED
  BY <1>1, <1>2, <1>3, <1>4, <1>5, <1>6, <1>7, <1>8, <1>9, <1>10, <1>11,
     <1>12, <1>13, <1>14, <1>15, <1>16, <1>17
  DEF Next, Step, LockStep, UnlockStep

\* Every reachable state is well typed.
THEOREM TypeCorrect == Spec => []TypeOK
BY TypeInit, TypeNext, PTL DEF Spec

-----------------------------------------------------------------------------

\* The two spin locks exclude: each has at most one holder.
LEMMA LocksNext ==
    TypeOK /\ OwnerIdHonest /\ SpinLocksInv /\ MutualExclusion /\ [Next]_vars => (SpinLocksInv /\ MutualExclusion)'
<1> SUFFICES ASSUME TypeOK /\ OwnerIdHonest /\ SpinLocksInv /\ MutualExclusion, [Next]_vars
             PROVE  (SpinLocksInv /\ MutualExclusion)'
  OBVIOUS
<1> USE DEF TypeOK, SpinLocksInv, MutualExclusion, Owns, Guards, OwnerLabels, GuardLabels, Labels
<1>1. ASSUME NEW x \in Fibers, Resume(x) PROVE (SpinLocksInv /\ MutualExclusion)'
  BY <1>1 DEF Resume
<1>2. ASSUME NEW x \in Fibers, Pause(x) PROVE (SpinLocksInv /\ MutualExclusion)'
  BY <1>2 DEF Pause
<1>3. ASSUME NEW x \in Fibers, CallLock(x) PROVE (SpinLocksInv /\ MutualExclusion)'
  <2>1. CASE pc[x] = "client"
    BY <1>3, <2>1 DEF CallLock, Goto
  <2>2. CASE pc[x] = "section"
    <3>1. pc' = [pc EXCEPT ![x] = "recheck"] /\ UNCHANGED <<mutex, guard>>
      BY <1>3, <2>2 DEF CallLock, Goto
    <3>2. \A f \in Fibers : (Owns(f)' <=> Owns(f)) /\ (Guards(f)' <=> Guards(f))
      BY <2>2, <3>1
    <3>. QED
      BY <3>1, <3>2
  <2>. QED
    BY <1>3, <2>1, <2>2 DEF CallLock, Goto
<1>4. ASSUME NEW x \in Fibers, CallUnlock(x) PROVE (SpinLocksInv /\ MutualExclusion)'
  BY <1>4 DEF CallUnlock, Goto
<1>5. ASSUME NEW x \in Fibers, CheckOwner(x) PROVE (SpinLocksInv /\ MutualExclusion)'
  <2>1. CASE pc[x] = "check"
    <3>1. fiberId # x
      BY <2>1 DEF OwnerIdHonest
    <3>. QED
      BY <1>5, <2>1, <3>1 DEF CheckOwner, Goto
  <2>2. CASE pc[x] = "recheck"
    BY <1>5, <2>2 DEF CheckOwner, Goto
  <2>. QED
    BY <1>5, <2>1, <2>2 DEF CheckOwner, Goto
<1>6. ASSUME NEW x \in Fibers, TryFirst(x) PROVE (SpinLocksInv /\ MutualExclusion)'
  BY <1>6 DEF TryFirst, TryLock, Goto
<1>7. ASSUME NEW x \in Fibers, TryGuarded(x) PROVE (SpinLocksInv /\ MutualExclusion)'
  BY <1>7 DEF TryGuarded, TryLock, Goto
<1>8. ASSUME NEW x \in Fibers, TakeGuard(x) PROVE (SpinLocksInv /\ MutualExclusion)'
  <2>1. CASE pc[x] = "enter"
    BY <1>8, <2>1 DEF TakeGuard, Goto
  <2>2. CASE pc[x] = "unlock"
    BY <1>8, <2>2 DEF TakeGuard, Goto
  <2>. QED
    BY <1>8, <2>1, <2>2 DEF TakeGuard, Goto
<1>9. ASSUME NEW x \in Fibers, DropGuard(x) PROVE (SpinLocksInv /\ MutualExclusion)'
  <2>1. CASE pc[x] = "drop"
    <3>1. pc' = [pc EXCEPT ![x] = "own"] /\ UNCHANGED mutex
      BY <1>9, <2>1 DEF DropGuard, Goto
    <3>2. \A f \in Fibers : (Owns(f)' <=> Owns(f)) /\ ~Guards(f)'
      BY <2>1, <3>1
    <3>. QED
      BY <3>1, <3>2
  <2>2. CASE pc[x] = "leave"
    <3>1. pc' = [pc EXCEPT ![x] = "yield"] /\ UNCHANGED mutex
      BY <1>9, <2>2 DEF DropGuard, Goto
    <3>2. \A f \in Fibers : (Owns(f)' <=> Owns(f)) /\ ~Guards(f)'
      BY <2>2, <3>1
    <3>. QED
      BY <3>1, <3>2
  <2>3. CASE pc[x] = "unguard"
    <3>1. pc' = [pc EXCEPT ![x] = "go"] /\ UNCHANGED mutex
      BY <1>9, <2>3 DEF DropGuard, Goto
    <3>2. \A f \in Fibers : (Owns(f)' <=> Owns(f)) /\ ~Guards(f)'
      BY <2>3, <3>1
    <3>. QED
      BY <3>1, <3>2
  <2>. QED
    BY <1>9, <2>1, <2>2, <2>3 DEF DropGuard, Goto
<1>10. ASSUME NEW x \in Fibers, PushSelf(x) PROVE (SpinLocksInv /\ MutualExclusion)'
  BY <1>10 DEF PushSelf, Goto
<1>11. ASSUME NEW x \in Fibers, Yield(x) PROVE (SpinLocksInv /\ MutualExclusion)'
  BY <1>11 DEF Yield, Goto
<1>12. ASSUME NEW x \in Fibers, SetOwner(x) PROVE (SpinLocksInv /\ MutualExclusion)'
  BY <1>12 DEF SetOwner, Goto
<1>13. ASSUME NEW x \in Fibers, ClearOwner(x) PROVE (SpinLocksInv /\ MutualExclusion)'
  BY <1>13 DEF ClearOwner, Goto
<1>14. ASSUME NEW x \in Fibers, PopWaiter(x) PROVE (SpinLocksInv /\ MutualExclusion)'
  BY <1>14 DEF PopWaiter, Goto
<1>15. ASSUME NEW x \in Fibers, FreeMutex(x) PROVE (SpinLocksInv /\ MutualExclusion)'
  BY <1>15 DEF FreeMutex, Goto
<1>16. ASSUME NEW x \in Fibers, GoWaiter(x) PROVE (SpinLocksInv /\ MutualExclusion)'
  BY <1>16 DEF GoWaiter, Goto
<1>17. CASE UNCHANGED vars
  BY <1>17 DEF vars
<1>. QED
  BY <1>1, <1>2, <1>3, <1>4, <1>5, <1>6, <1>7, <1>8, <1>9, <1>10, <1>11, <1>12, <1>13, <1>14, <1>15, <1>16, <1>17
  DEF Next, Step, LockStep, UnlockStep

\* m_fiberId changes only in the hands of the owner.
LEMMA OwnerIdNext ==
    TypeOK /\ MutualExclusion /\ OwnerIdHonest /\ [Next]_vars => OwnerIdHonest'
<1> SUFFICES ASSUME TypeOK /\ MutualExclusion /\ OwnerIdHonest, [Next]_vars
             PROVE  OwnerIdHonest'
  OBVIOUS
<1> USE NoFiberAssumption DEF TypeOK, MutualExclusion, OwnerIdHonest, Owns, OwnerLabels, Labels
<1>1. ASSUME NEW x \in Fibers, Resume(x) PROVE OwnerIdHonest'
  BY <1>1 DEF Resume
<1>2. ASSUME NEW x \in Fibers, Pause(x) PROVE OwnerIdHonest'
  BY <1>2 DEF Pause
<1>3. ASSUME NEW x \in Fibers, CallLock(x) PROVE OwnerIdHonest'
  <2>1. CASE pc[x] = "client"
    BY <1>3, <2>1 DEF CallLock, Goto
  <2>2. CASE pc[x] = "section"
    BY <1>3, <2>2 DEF CallLock, Goto
  <2>. QED
    BY <1>3, <2>1, <2>2 DEF CallLock, Goto
<1>4. ASSUME NEW x \in Fibers, CallUnlock(x) PROVE OwnerIdHonest'
  BY <1>4 DEF CallUnlock, Goto
<1>5. ASSUME NEW x \in Fibers, CheckOwner(x) PROVE OwnerIdHonest'
  <2>1. CASE pc[x] = "check"
    BY <1>5, <2>1 DEF CheckOwner, Goto
  <2>2. CASE pc[x] = "recheck"
    BY <1>5, <2>2 DEF CheckOwner, Goto
  <2>. QED
    BY <1>5, <2>1, <2>2 DEF CheckOwner, Goto
<1>6. ASSUME NEW x \in Fibers, TryFirst(x) PROVE OwnerIdHonest'
  BY <1>6 DEF TryFirst, TryLock, Goto
<1>7. ASSUME NEW x \in Fibers, TryGuarded(x) PROVE OwnerIdHonest'
  BY <1>7 DEF TryGuarded, TryLock, Goto
<1>8. ASSUME NEW x \in Fibers, TakeGuard(x) PROVE OwnerIdHonest'
  <2>1. CASE pc[x] = "enter"
    BY <1>8, <2>1 DEF TakeGuard, Goto
  <2>2. CASE pc[x] = "unlock"
    BY <1>8, <2>2 DEF TakeGuard, Goto
  <2>. QED
    BY <1>8, <2>1, <2>2 DEF TakeGuard, Goto
<1>9. ASSUME NEW x \in Fibers, DropGuard(x) PROVE OwnerIdHonest'
  <2>1. CASE pc[x] = "drop"
    BY <1>9, <2>1 DEF DropGuard, Goto
  <2>2. CASE pc[x] = "leave"
    <3>1. pc' = [pc EXCEPT ![x] = "yield"] /\ UNCHANGED fiberId
      BY <1>9, <2>2 DEF DropGuard, Goto
    <3>. QED
      BY <2>2, <3>1
  <2>3. CASE pc[x] = "unguard"
    <3>1. pc' = [pc EXCEPT ![x] = "go"] /\ UNCHANGED fiberId
      BY <1>9, <2>3 DEF DropGuard, Goto
    <3>. QED
      BY <2>3, <3>1
  <2>. QED
    BY <1>9, <2>1, <2>2, <2>3 DEF DropGuard, Goto
<1>10. ASSUME NEW x \in Fibers, PushSelf(x) PROVE OwnerIdHonest'
  BY <1>10 DEF PushSelf, Goto
<1>11. ASSUME NEW x \in Fibers, Yield(x) PROVE OwnerIdHonest'
  BY <1>11 DEF Yield, Goto
<1>12. ASSUME NEW x \in Fibers, SetOwner(x) PROVE OwnerIdHonest'
  BY <1>12 DEF SetOwner, Goto
<1>13. ASSUME NEW x \in Fibers, ClearOwner(x) PROVE OwnerIdHonest'
  BY <1>13 DEF ClearOwner, Goto
<1>14. ASSUME NEW x \in Fibers, PopWaiter(x) PROVE OwnerIdHonest'
  BY <1>14 DEF PopWaiter, Goto
<1>15. ASSUME NEW x \in Fibers, FreeMutex(x) PROVE OwnerIdHonest'
  BY <1>15 DEF FreeMutex, Goto
<1>16. ASSUME NEW x \in Fibers, GoWaiter(x) PROVE OwnerIdHonest'
  BY <1>16 DEF GoWaiter, Goto
<1>17. CASE UNCHANGED vars
  BY <1>17 DEF vars
<1>. QED
  BY <1>1, <1>2, <1>3, <1>4, <1>5, <1>6, <1>7, <1>8, <1>9, <1>10, <1>11, <1>12, <1>13, <1>14, <1>15, <1>16, <1>17
  DEF Next, Step, LockStep, UnlockStep

\* The owner cannot unlock while another fiber has m_gaurd.
LEMMA PushNext ==
    TypeOK /\ SpinLocksInv /\ PushInv /\ [Next]_vars => PushInv'
<1> SUFFICES ASSUME TypeOK /\ SpinLocksInv /\ PushInv, [Next]_vars
             PROVE  PushInv'
  OBVIOUS
<1> USE DEF TypeOK, SpinLocksInv, PushInv, Guards, GuardLabels, Labels
<1>1. ASSUME NEW x \in Fibers, Resume(x) PROVE PushInv'
  BY <1>1 DEF Resume
<1>2. ASSUME NEW x \in Fibers, Pause(x) PROVE PushInv'
  BY <1>2 DEF Pause
<1>3. ASSUME NEW x \in Fibers, CallLock(x) PROVE PushInv'
  <2>1. CASE pc[x] = "client"
    BY <1>3, <2>1 DEF CallLock, Goto
  <2>2. CASE pc[x] = "section"
    BY <1>3, <2>2 DEF CallLock, Goto
  <2>. QED
    BY <1>3, <2>1, <2>2 DEF CallLock, Goto
<1>4. ASSUME NEW x \in Fibers, CallUnlock(x) PROVE PushInv'
  BY <1>4 DEF CallUnlock, Goto
<1>5. ASSUME NEW x \in Fibers, CheckOwner(x) PROVE PushInv'
  <2>1. CASE pc[x] = "check"
    BY <1>5, <2>1 DEF CheckOwner, Goto
  <2>2. CASE pc[x] = "recheck"
    BY <1>5, <2>2 DEF CheckOwner, Goto
  <2>. QED
    BY <1>5, <2>1, <2>2 DEF CheckOwner, Goto
<1>6. ASSUME NEW x \in Fibers, TryFirst(x) PROVE PushInv'
  BY <1>6 DEF TryFirst, TryLock, Goto
<1>7. ASSUME NEW x \in Fibers, TryGuarded(x) PROVE PushInv'
  BY <1>7 DEF TryGuarded, TryLock, Goto
<1>8. ASSUME NEW x \in Fibers, TakeGuard(x) PROVE PushInv'
  <2>1. CASE pc[x] = "enter"
    BY <1>8, <2>1 DEF TakeGuard, Goto
  <2>2. CASE pc[x] = "unlock"
    BY <1>8, <2>2 DEF TakeGuard, Goto
  <2>. QED
    BY <1>8, <2>1, <2>2 DEF TakeGuard, Goto
<1>9. ASSUME NEW x \in Fibers, DropGuard(x) PROVE PushInv'
  <2>1. CASE pc[x] = "drop"
    BY <1>9, <2>1 DEF DropGuard, Goto
  <2>2. CASE pc[x] = "leave"
    BY <1>9, <2>2 DEF DropGuard, Goto
  <2>3. CASE pc[x] = "unguard"
    BY <1>9, <2>3 DEF DropGuard, Goto
  <2>. QED
    BY <1>9, <2>1, <2>2, <2>3 DEF DropGuard, Goto
<1>10. ASSUME NEW x \in Fibers, PushSelf(x) PROVE PushInv'
  BY <1>10 DEF PushSelf, Goto
<1>11. ASSUME NEW x \in Fibers, Yield(x) PROVE PushInv'
  BY <1>11 DEF Yield, Goto
<1>12. ASSUME NEW x \in Fibers, SetOwner(x) PROVE PushInv'
  BY <1>12 DEF SetOwner, Goto
<1>13. ASSUME NEW x \in Fibers, ClearOwner(x) PROVE PushInv'
  BY <1>13 DEF ClearOwner, Goto
<1>14. ASSUME NEW x \in Fibers, PopWaiter(x) PROVE PushInv'
  BY <1>14 DEF PopWaiter, Goto
<1>15. ASSUME NEW x \in Fibers, FreeMutex(x) PROVE PushInv'
  BY <1>15 DEF FreeMutex, Goto
<1>16. ASSUME NEW x \in Fibers, GoWaiter(x) PROVE PushInv'
  BY <1>16 DEF GoWaiter, Goto
<1>17. CASE UNCHANGED vars
  BY <1>17 DEF vars
<1>. QED
  BY <1>1, <1>2, <1>3, <1>4, <1>5, <1>6, <1>7, <1>8, <1>9, <1>10, <1>11, <1>12, <1>13, <1>14, <1>15, <1>16, <1>17
  DEF Next, Step, LockStep, UnlockStep

-----------------------------------------------------------------------------
(* The waiters *)

LEMMA AppendElements ==
    ASSUME NEW S, NEW q \in Seq(S), NEW e \in S
    PROVE  /\ Len(Append(q, e)) = Len(q) + 1
           /\ \A i \in 1..Len(q) : Append(q, e)[i] = q[i]
           /\ Append(q, e)[Len(q) + 1] = e
OBVIOUS

LEMMA TailElements ==
    ASSUME NEW S, NEW q \in Seq(S), q # <<>>
    PROVE  /\ Len(q) \in Nat \ {0}
           /\ Len(Tail(q)) = Len(q) - 1
           /\ \A i \in 1..Len(Tail(q)) : Tail(q)[i] = q[i + 1]
           /\ Head(q) = q[1]
OBVIOUS

\* The step leaves fiber f where it is: queued, popped or neither.
SameQueue(f) ==
    /\ Queued(f)' <=> Queued(f)
    /\ Handed(f)' <=> Handed(f)
    /\ QueuedOnce(f)' <=> QueuedOnce(f)
    /\ HandedOnce(f)' <=> HandedOnce(f)

\* A step that moves x, outside its push and its wait, and touches no queue.
LEMMA QueueKept ==
    ASSUME TypeOK, QueueInv, NEW x \in Fibers, Running(x), UNCHANGED <<tasks, state, popped>>,
           \A f \in Fibers : SameQueue(f),
           \A f \in Fibers : f # x => pc'[f] = pc[f],
           pc'[x] \notin {"leave", "asleep"},
           pc[x] \notin {"yield", "asleep", "free", "go"},
           pc[x] = "unguard" => pc'[x] = "go",
           pc[x] = "leave" <=> pc'[x] = "yield"
    PROVE  QueueInv'
<1> USE DEF QueueInv, SameQueue, Running
<1>1. WaiterInOnePlace'
  <2> SUFFICES ASSUME NEW f \in Fibers
               PROVE  /\ QueuedOnce(f)' /\ HandedOnce(f)' /\ tasks'[f] <= 1
                      /\ ~(Queued(f) /\ Handed(f))'
                      /\ (Queued(f) \/ Handed(f))' =>
                            tasks'[f] = 0 /\ pc'[f] \in {"leave", "yield", "asleep"}
                      /\ pc'[f] \in {"leave", "yield", "asleep"} =>
                            (Queued(f) \/ Handed(f))' \/ tasks'[f] = 1
    BY DEF WaiterInOnePlace
  <2>1. CASE f = x
    BY <2>1 DEF WaiterInOnePlace
  <2>2. CASE f # x
    BY <2>2 DEF WaiterInOnePlace
  <2>. QED
    BY <2>1, <2>2
<1>2. (\A f \in Fibers : Handed(f) => pc[f] # "leave")'
  OBVIOUS
<1>3. (\A g \in Fibers : popped[g] # NoFiber => pc[g] \in {"free", "unguard", "go"})'
  OBVIOUS
<1>4. (\A f \in Fibers : Running(f) /\ pc[f] \notin {"yield", "asleep"} => tasks[f] = 0)'
  OBVIOUS
<1>5. (\A f \in Fibers : pc[f] \notin {"client", "section", "asleep"} => Running(f))'
  OBVIOUS
<1>. QED
  BY <1>1, <1>2, <1>3, <1>4, <1>5

\* Only a fiber that is in no queue queues itself; unlock() moves a waiter on.
LEMMA QueueNext ==
    TypeOK /\ SpinLocksInv /\ QueueInv /\ [Next]_vars => QueueInv'
<1> SUFFICES ASSUME TypeOK /\ SpinLocksInv /\ QueueInv, [Next]_vars
             PROVE  QueueInv'
  OBVIOUS
<1> USE DEF TypeOK, SpinLocksInv, QueueInv, WaiterInOnePlace, Running, Labels
<1>1. ASSUME NEW x \in Fibers, Resume(x) PROVE QueueInv'
  <2> USE DEF Resume
  <2>1. ~Queued(x) /\ ~Handed(x) /\ tasks[x] = 1
    BY <1>1
  <2>2. tasks' = [tasks EXCEPT ![x] = 0] /\ Running(x)'
    BY <1>1, <2>1
  <2>3. \A f \in Fibers : SameQueue(f)
    BY <1>1 DEF SameQueue, Queued, Handed, QueuedOnce, HandedOnce
  <2>5. \A f \in Fibers : f # x => pc'[f] = pc[f] /\ tasks'[f] = tasks[f] /\ state'[f] = state[f]
    BY <1>1
  <2>6. pc'[x] \notin {"leave", "yield", "asleep"}
    BY <1>1, <2>1
  <2>. QED
    BY <1>1, <2>1, <2>2, <2>3, <2>5, <2>6 DEF SameQueue
<1>2. ASSUME NEW x \in Fibers, Pause(x) PROVE QueueInv'
  <2>0. \A f \in Fibers : SameQueue(f)
    BY <1>2 DEF Pause, SameQueue, Queued, Handed, QueuedOnce, HandedOnce
  <2>. QED
    BY <1>2, <2>0 DEF Pause, SameQueue
<1>3. ASSUME NEW x \in Fibers, CallLock(x) PROVE QueueInv'
  <2>0. \A f \in Fibers : SameQueue(f)
    BY <1>3 DEF CallLock, Goto, SameQueue, Queued, Handed, QueuedOnce, HandedOnce
  <2>1. Running(x) /\ tasks' = tasks /\ state' = state /\ popped' = popped
    BY <1>3 DEF CallLock, Goto
  <2>2. \A f \in Fibers : f # x => pc'[f] = pc[f]
    BY <1>3 DEF CallLock, Goto
  <2>3. /\ pc'[x] \notin {"leave", "asleep"}
        /\ pc[x] \notin {"yield", "asleep", "free", "go"}
        /\ pc[x] = "unguard" => pc'[x] = "go"
        /\ pc[x] = "leave" <=> pc'[x] = "yield"
    BY <1>3 DEF CallLock, Goto
  <2>. QED
    BY <2>0, <2>1, <2>2, <2>3, QueueKept
<1>4. ASSUME NEW x \in Fibers, CallUnlock(x) PROVE QueueInv'
  <2>0. \A f \in Fibers : SameQueue(f)
    BY <1>4 DEF CallUnlock, Goto, SameQueue, Queued, Handed, QueuedOnce, HandedOnce
  <2>. QED
    BY <1>4, <2>0 DEF CallUnlock, Goto, SameQueue
<1>5. ASSUME NEW x \in Fibers, CheckOwner(x) PROVE QueueInv'
  <2>0. \A f \in Fibers : SameQueue(f)
    BY <1>5 DEF CheckOwner, Goto, SameQueue, Queued, Handed, QueuedOnce, HandedOnce
  <2>. QED
    BY <1>5, <2>0 DEF CheckOwner, Goto, SameQueue
<1>6. ASSUME NEW x \in Fibers, TryFirst(x) PROVE QueueInv'
  <2>0. \A f \in Fibers : SameQueue(f)
    BY <1>6 DEF TryFirst, TryLock, Goto, SameQueue, Queued, Handed, QueuedOnce, HandedOnce
  <2>. QED
    BY <1>6, <2>0 DEF TryFirst, TryLock, Goto, SameQueue
<1>7. ASSUME NEW x \in Fibers, TryGuarded(x) PROVE QueueInv'
  <2>0. \A f \in Fibers : SameQueue(f)
    BY <1>7 DEF TryGuarded, TryLock, Goto, SameQueue, Queued, Handed, QueuedOnce, HandedOnce
  <2>. QED
    BY <1>7, <2>0 DEF TryGuarded, TryLock, Goto, SameQueue
<1>8. ASSUME NEW x \in Fibers, TakeGuard(x) PROVE QueueInv'
  <2>0. \A f \in Fibers : SameQueue(f)
    BY <1>8 DEF TakeGuard, Goto, SameQueue, Queued, Handed, QueuedOnce, HandedOnce
  <2>1. Running(x) /\ tasks' = tasks /\ state' = state /\ popped' = popped
    BY <1>8 DEF TakeGuard, Goto
  <2>2. \A f \in Fibers : f # x => pc'[f] = pc[f]
    BY <1>8 DEF TakeGuard, Goto
  <2>3. /\ pc'[x] \notin {"leave", "asleep"}
        /\ pc[x] \notin {"yield", "asleep", "free", "go"}
        /\ pc[x] = "unguard" => pc'[x] = "go"
        /\ pc[x] = "leave" <=> pc'[x] = "yield"
    BY <1>8 DEF TakeGuard, Goto
  <2>. QED
    BY <2>0, <2>1, <2>2, <2>3, QueueKept
<1>9. ASSUME NEW x \in Fibers, DropGuard(x) PROVE QueueInv'
  <2>0. \A f \in Fibers : SameQueue(f)
    BY <1>9 DEF DropGuard, Goto, SameQueue, Queued, Handed, QueuedOnce, HandedOnce
  <2>1. Running(x) /\ tasks' = tasks /\ state' = state /\ popped' = popped
    BY <1>9 DEF DropGuard, Goto
  <2>2. \A f \in Fibers : f # x => pc'[f] = pc[f]
    BY <1>9 DEF DropGuard, Goto
  <2>3. /\ pc'[x] \notin {"leave", "asleep"}
        /\ pc[x] \notin {"yield", "asleep", "free", "go"}
        /\ pc[x] = "unguard" => pc'[x] = "go"
        /\ pc[x] = "leave" <=> pc'[x] = "yield"
    BY <1>9 DEF DropGuard, Goto
  <2>. QED
    BY <2>0, <2>1, <2>2, <2>3, QueueKept
<1>10. ASSUME NEW x \in Fibers, PushSelf(x) PROVE QueueInv'
  <2> USE DEF PushSelf, Goto
  <2>1. ~Queued(x) /\ ~Handed(x) /\ tasks[x] = 0
    BY <1>10
  <2>2. \A f \in Fibers : (Queued(f)' <=> (Queued(f) \/ f = x)) /\ QueuedOnce(f)'
    <3> DEFINE q == Append(waitQueue, x)
    <3>1. /\ Len(q) = Len(waitQueue) + 1
          /\ \A i \in 1..Len(waitQueue) : q[i] = waitQueue[i]
          /\ q[Len(waitQueue) + 1] = x
      BY AppendElements
    <3>2. Len(waitQueue) \in Nat /\ waitQueue' = q
      BY <1>10
    <3>3. \A i \in 1..Len(q) : i \in 1..Len(waitQueue) \/ i = Len(waitQueue) + 1
      BY <3>1, <3>2
    <3> HIDE DEF q
    <3>4. \A f \in Fibers : Queued(f)' <=> (Queued(f) \/ f = x)
      <4>1. \A i \in 1..Len(waitQueue) : i \in 1..Len(q)
        BY <3>1, <3>2
      <4>2. Len(waitQueue) + 1 \in 1..Len(q)
        BY <3>1, <3>2
      <4>. QED
        BY <3>1, <3>2, <3>3, <4>1, <4>2 DEF Queued
    <3>5. \A f \in Fibers : QueuedOnce(f)'
      <4> SUFFICES ASSUME NEW f \in Fibers, NEW i \in 1..Len(q), NEW j \in 1..Len(q),
                          q[i] = f, q[j] = f
                   PROVE  i = j
        BY <3>2 DEF QueuedOnce
      <4>1. CASE f = x
        <5>1. ~\E k \in 1..Len(waitQueue) : q[k] = x
          BY <2>1, <3>1 DEF Queued
        <5>. QED
          BY <3>3, <4>1, <5>1
      <4>2. CASE f # x
        <5>1. i \in 1..Len(waitQueue) /\ j \in 1..Len(waitQueue)
          BY <3>1, <3>3, <4>2
        <5>. QED
          BY <3>1, <5>1 DEF QueuedOnce
      <4>. QED
        BY <4>1, <4>2
    <3>. QED
      BY <3>4, <3>5
  <2>3. \A f \in Fibers : (Handed(f)' <=> Handed(f)) /\ (HandedOnce(f)' <=> HandedOnce(f))
    BY <1>10 DEF Handed, HandedOnce
  <2>. QED
    BY <1>10, <2>1, <2>2, <2>3
<1>11. ASSUME NEW x \in Fibers, Yield(x) PROVE QueueInv'
  <2>0. \A f \in Fibers : SameQueue(f)
    BY <1>11 DEF Yield, Goto, SameQueue, Queued, Handed, QueuedOnce, HandedOnce
  <2>. QED
    BY <1>11, <2>0 DEF Yield, Goto, SameQueue
<1>12. ASSUME NEW x \in Fibers, SetOwner(x) PROVE QueueInv'
  <2>0. \A f \in Fibers : SameQueue(f)
    BY <1>12 DEF SetOwner, Goto, SameQueue, Queued, Handed, QueuedOnce, HandedOnce
  <2>. QED
    BY <1>12, <2>0 DEF SetOwner, Goto, SameQueue
<1>13. ASSUME NEW x \in Fibers, ClearOwner(x) PROVE QueueInv'
  <2>0. \A f \in Fibers : SameQueue(f)
    BY <1>13 DEF ClearOwner, Goto, SameQueue, Queued, Handed, QueuedOnce, HandedOnce
  <2>. QED
    BY <1>13, <2>0 DEF ClearOwner, Goto, SameQueue
<1>14. ASSUME NEW x \in Fibers, PopWaiter(x) PROVE QueueInv'
  <2> USE DEF PopWaiter, Goto
  <2>1. CASE waitQueue = <<>>
    <3>1. \A f \in Fibers : SameQueue(f)
      BY <1>14, <2>1 DEF SameQueue, Queued, Handed, QueuedOnce, HandedOnce
    <3>. QED
      BY <1>14, <2>1, <3>1 DEF SameQueue
  <2>2. CASE waitQueue # <<>>
    <3> DEFINE w == Head(waitQueue)
    <3>1. /\ Len(waitQueue) \in Nat \ {0}
          /\ Len(waitQueue') = Len(waitQueue) - 1
          /\ \A i \in 1..Len(waitQueue') : waitQueue'[i] = waitQueue[i + 1]
          /\ w = waitQueue[1]
      <4>1. waitQueue \in Seq(Fibers) /\ waitQueue' = Tail(waitQueue)
        BY <1>14, <2>2
      <4>. QED
        BY <2>2, <4>1, TailElements
    <3>2. w \in Fibers /\ Queued(w) /\ ~Handed(w) /\ tasks[w] = 0
      BY <3>1 DEF Queued
    <3>3. pc[w] # "leave"
      BY <1>14, <3>2 DEF Guards, GuardLabels
    <3>4. popped[x] = NoFiber /\ popped' = [popped EXCEPT ![x] = w]
      BY <1>14, <2>2
    <3> HIDE DEF w
    <3>5. \A f \in Fibers : (Queued(f)' <=> (Queued(f) /\ f # w)) /\ QueuedOnce(f)'
      <4>1. \A i \in 1..Len(waitQueue') : i + 1 \in 1..Len(waitQueue) /\ i + 1 # 1
        BY <3>1
      <4>2. \A i \in 1..Len(waitQueue) : i = 1 \/ (i - 1 \in 1..Len(waitQueue') /\ (i - 1) + 1 = i)
        BY <3>1
      <4>3. \A f \in Fibers : Queued(f)' => Queued(f) /\ f # w
        <5> SUFFICES ASSUME NEW f \in Fibers, NEW i \in 1..Len(waitQueue'), waitQueue'[i] = f
                     PROVE  Queued(f) /\ f # w
          BY DEF Queued
        <5>1. i + 1 \in 1..Len(waitQueue) /\ waitQueue[i + 1] = f /\ i + 1 # 1
          BY <3>1, <4>1
        <5>2. 1 \in 1..Len(waitQueue) /\ waitQueue[1] = w
          BY <3>1
        <5>3. QueuedOnce(f)
          OBVIOUS
        <5>4. ~(waitQueue[i + 1] = f /\ waitQueue[1] = f)
          BY <5>1, <5>2, <5>3 DEF QueuedOnce
        <5>. QED
          BY <5>1, <5>2, <5>4 DEF Queued
      <4>4. \A f \in Fibers : Queued(f) /\ f # w => Queued(f)'
        <5> SUFFICES ASSUME NEW f \in Fibers, f # w, NEW i \in 1..Len(waitQueue), waitQueue[i] = f
                     PROVE  Queued(f)'
          BY DEF Queued
        <5>1. i - 1 \in 1..Len(waitQueue') /\ waitQueue'[i - 1] = f
          BY <3>1, <4>2
        <5>. QED
          BY <5>1 DEF Queued
      <4>5. \A f \in Fibers : QueuedOnce(f)'
        <5> SUFFICES ASSUME NEW f \in Fibers, NEW i \in 1..Len(waitQueue'), NEW j \in 1..Len(waitQueue'),
                            waitQueue'[i] = f, waitQueue'[j] = f
                     PROVE  i = j
          BY DEF QueuedOnce
        <5>1. waitQueue[i + 1] = f /\ waitQueue[j + 1] = f
          BY <3>1
        <5>2. i + 1 \in 1..Len(waitQueue) /\ j + 1 \in 1..Len(waitQueue)
          BY <4>1
        <5>3. QueuedOnce(f)
          OBVIOUS
        <5>4. i + 1 = j + 1
          BY <5>1, <5>2, <5>3 DEF QueuedOnce
        <5>5. i \in Nat /\ j \in Nat
          BY <3>1
        <5>. QED
          BY <5>4, <5>5
      <4>. QED
        BY <4>3, <4>4, <4>5
    <3>6. \A f \in Fibers : (Handed(f)' <=> (Handed(f) \/ f = w)) /\ HandedOnce(f)'
      BY <3>2, <3>4, NoFiberAssumption DEF Handed, HandedOnce
    <3>. QED
      BY <1>14, <2>2, <3>2, <3>3, <3>4, <3>5, <3>6
  <2>. QED
    BY <2>1, <2>2
<1>15. ASSUME NEW x \in Fibers, FreeMutex(x) PROVE QueueInv'
  <2>0. \A f \in Fibers : SameQueue(f)
    BY <1>15 DEF FreeMutex, Goto, SameQueue, Queued, Handed, QueuedOnce, HandedOnce
  <2>. QED
    BY <1>15, <2>0 DEF FreeMutex, Goto, SameQueue
<1>16. ASSUME NEW x \in Fibers, GoWaiter(x) PROVE QueueInv'
  <2> USE DEF GoWaiter, Goto
  <2>1. \A f \in Fibers : (Queued(f)' <=> Queued(f)) /\ (QueuedOnce(f)' <=> QueuedOnce(f))
    BY <1>16 DEF Queued, QueuedOnce
  <2>2. \A f \in Fibers :
            (Handed(f)' <=> (Handed(f) /\ f # popped[x])) /\ HandedOnce(f)'
    BY <1>16, NoFiberAssumption DEF Handed, HandedOnce
  <2>3. \A f \in Fibers : f = popped[x] => Handed(f) /\ tasks[f] = 0 /\ tasks'[f] = 1
    BY <1>16 DEF Handed
  <2>4. \A f \in Fibers : f # popped[x] => tasks'[f] = tasks[f]
    BY <1>16
  <2>. QED
    BY <1>16, <2>1, <2>2, <2>3, <2>4
<1>17. CASE UNCHANGED vars
  BY <1>17 DEF vars, Queued, Handed, QueuedOnce, HandedOnce
<1>. QED
  BY <1>1, <1>2, <1>3, <1>4, <1>5, <1>6, <1>7, <1>8, <1>9, <1>10, <1>11, <1>12, <1>13, <1>14, <1>15, <1>16, <1>17
  DEF Next, Step, LockStep, UnlockStep

\* A free lock always has a contender: tryLock() takes it, unlock() popped one.
LEMMA WakeNext ==
    TypeOK /\ SpinLocksInv /\ QueueInv /\ QueueInv' /\ PushInv /\ FreeInv /\ NoLostWakeup /\ [Next]_vars => (FreeInv /\ NoLostWakeup)'
<1> SUFFICES ASSUME TypeOK /\ SpinLocksInv /\ QueueInv /\ QueueInv' /\ PushInv /\ FreeInv /\ NoLostWakeup, [Next]_vars
             PROVE  (FreeInv /\ NoLostWakeup)'
  OBVIOUS
<1> USE DEF TypeOK, Labels
<1>1. ASSUME NEW x \in Fibers, Resume(x) PROVE (FreeInv /\ NoLostWakeup)'
  <2>1. \A w \in Fibers : Queued(w)' <=> Queued(w)
    BY <1>1 DEF Resume, Queued
  <2>2. \A w \in Fibers : Contending(w) => Contending(w)'
    BY <1>1, <2>1 DEF Resume, Contending
  <2>3. \A f \in Fibers : pc'[f] = "free" => pc[f] = "free"
    BY <1>1 DEF Resume
  <2>4. waitQueue' = waitQueue /\ (mutex' <=> mutex)
    BY <1>1 DEF Resume
  <2>. QED
    BY <2>2, <2>3, <2>4 DEF FreeInv, NoLostWakeup
<1>2. ASSUME NEW x \in Fibers, Pause(x) PROVE (FreeInv /\ NoLostWakeup)'
  <2>1. \A w \in Fibers : Queued(w)' <=> Queued(w)
    BY <1>2 DEF Pause, Queued
  <2>2. \A w \in Fibers : Contending(w) => Contending(w)'
    BY <1>2, <2>1 DEF Pause, Contending
  <2>3. \A f \in Fibers : pc'[f] = "free" => pc[f] = "free"
    BY <1>2 DEF Pause
  <2>4. waitQueue' = waitQueue /\ (mutex' <=> mutex)
    BY <1>2 DEF Pause
  <2>. QED
    BY <2>2, <2>3, <2>4 DEF FreeInv, NoLostWakeup
<1>3. ASSUME NEW x \in Fibers, CallLock(x) PROVE (FreeInv /\ NoLostWakeup)'
  <2>1. \A w \in Fibers : Queued(w)' <=> Queued(w)
    BY <1>3 DEF CallLock, Goto, Queued
  <2>2. \A w \in Fibers : Contending(w) => Contending(w)'
    BY <1>3, <2>1 DEF CallLock, Goto, Contending
  <2>3. \A f \in Fibers : pc'[f] = "free" => pc[f] = "free"
    BY <1>3 DEF CallLock, Goto
  <2>4. waitQueue' = waitQueue /\ (mutex' <=> mutex)
    BY <1>3 DEF CallLock, Goto
  <2>. QED
    BY <2>2, <2>3, <2>4 DEF FreeInv, NoLostWakeup
<1>4. ASSUME NEW x \in Fibers, CallUnlock(x) PROVE (FreeInv /\ NoLostWakeup)'
  <2>1. \A w \in Fibers : Queued(w)' <=> Queued(w)
    BY <1>4 DEF CallUnlock, Goto, Queued
  <2>2. \A w \in Fibers : Contending(w) => Contending(w)'
    BY <1>4, <2>1 DEF CallUnlock, Goto, Contending
  <2>3. \A f \in Fibers : pc'[f] = "free" => pc[f] = "free"
    BY <1>4 DEF CallUnlock, Goto
  <2>4. waitQueue' = waitQueue /\ (mutex' <=> mutex)
    BY <1>4 DEF CallUnlock, Goto
  <2>. QED
    BY <2>2, <2>3, <2>4 DEF FreeInv, NoLostWakeup
<1>5. ASSUME NEW x \in Fibers, CheckOwner(x) PROVE (FreeInv /\ NoLostWakeup)'
  <2>1. \A w \in Fibers : Queued(w)' <=> Queued(w)
    BY <1>5 DEF CheckOwner, Goto, Queued
  <2>2. \A w \in Fibers : Contending(w) => Contending(w)'
    BY <1>5, <2>1 DEF CheckOwner, Goto, Contending
  <2>3. \A f \in Fibers : pc'[f] = "free" => pc[f] = "free"
    BY <1>5 DEF CheckOwner, Goto
  <2>4. waitQueue' = waitQueue /\ (mutex' <=> mutex)
    BY <1>5 DEF CheckOwner, Goto
  <2>. QED
    BY <2>2, <2>3, <2>4 DEF FreeInv, NoLostWakeup
<1>6. ASSUME NEW x \in Fibers, TryFirst(x) PROVE (FreeInv /\ NoLostWakeup)'
  <2> USE DEF TryFirst, TryLock, Goto
  <2>1. \A w \in Fibers : Queued(w)' <=> Queued(w)
    BY <1>6 DEF Queued
  <2>2. mutex' /\ waitQueue' = waitQueue
    BY <1>6
  <2>3. ASSUME NEW f \in Fibers, pc'[f] = "free", waitQueue' # <<>>
        PROVE  \E w \in Fibers : w # f /\ Contending(w)'
    <3>1. pc[f] = "free" /\ mutex
      BY <1>6, <2>3 DEF SpinLocksInv, Owns, OwnerLabels
    <3>2. \A w \in Fibers : Contending(w) => Contending(w)'
      BY <1>6, <2>1, <3>1 DEF Contending
    <3>. QED
      BY <2>2, <2>3, <3>1, <3>2 DEF FreeInv
  <2>. QED
    BY <2>2, <2>3 DEF FreeInv, NoLostWakeup
<1>7. ASSUME NEW x \in Fibers, TryGuarded(x) PROVE (FreeInv /\ NoLostWakeup)'
  <2>1. mutex' /\ \A f \in Fibers : pc'[f] = "free" => pc[f] = "free"
    BY <1>7 DEF TryGuarded, TryLock, Goto
  <2>2. \A f \in Fibers : pc[f] # "free"
    BY <1>7 DEF TryGuarded, TryLock, Goto, SpinLocksInv, Guards, GuardLabels
  <2>. QED
    BY <2>1, <2>2 DEF FreeInv, NoLostWakeup
<1>8. ASSUME NEW x \in Fibers, TakeGuard(x) PROVE (FreeInv /\ NoLostWakeup)'
  <2>1. \A w \in Fibers : Queued(w)' <=> Queued(w)
    BY <1>8 DEF TakeGuard, Goto, Queued
  <2>2. \A w \in Fibers : Contending(w) => Contending(w)'
    BY <1>8, <2>1 DEF TakeGuard, Goto, Contending
  <2>3. \A f \in Fibers : pc'[f] = "free" => pc[f] = "free"
    BY <1>8 DEF TakeGuard, Goto
  <2>4. waitQueue' = waitQueue /\ (mutex' <=> mutex)
    BY <1>8 DEF TakeGuard, Goto
  <2>. QED
    BY <2>2, <2>3, <2>4 DEF FreeInv, NoLostWakeup
<1>9. ASSUME NEW x \in Fibers, DropGuard(x) PROVE (FreeInv /\ NoLostWakeup)'
  <2>1. \A w \in Fibers : Queued(w)' <=> Queued(w)
    BY <1>9 DEF DropGuard, Goto, Queued
  <2>2. \A w \in Fibers : Contending(w) => Contending(w)'
    BY <1>9, <2>1 DEF DropGuard, Goto, Contending
  <2>3. \A f \in Fibers : pc'[f] = "free" => pc[f] = "free"
    BY <1>9 DEF DropGuard, Goto
  <2>4. waitQueue' = waitQueue /\ (mutex' <=> mutex)
    BY <1>9 DEF DropGuard, Goto
  <2>. QED
    BY <2>2, <2>3, <2>4 DEF FreeInv, NoLostWakeup
<1>10. ASSUME NEW x \in Fibers, PushSelf(x) PROVE (FreeInv /\ NoLostWakeup)'
  <2>1. mutex'
    BY <1>10 DEF PushSelf, Goto, PushInv
  <2>2. \A f \in Fibers : pc[f] # "free"
    BY <1>10 DEF PushSelf, Goto, SpinLocksInv, Guards, GuardLabels
  <2>3. \A f \in Fibers : pc'[f] # "free"
    BY <1>10, <2>2 DEF PushSelf, Goto
  <2>. QED
    BY <2>1, <2>3 DEF FreeInv, NoLostWakeup
<1>11. ASSUME NEW x \in Fibers, Yield(x) PROVE (FreeInv /\ NoLostWakeup)'
  <2>1. \A w \in Fibers : Queued(w)' <=> Queued(w)
    BY <1>11 DEF Yield, Goto, Queued
  <2>2. \A w \in Fibers : Contending(w) => Contending(w)'
    BY <1>11, <2>1 DEF Yield, Goto, Contending
  <2>3. \A f \in Fibers : pc'[f] = "free" => pc[f] = "free"
    BY <1>11 DEF Yield, Goto
  <2>4. waitQueue' = waitQueue /\ (mutex' <=> mutex)
    BY <1>11 DEF Yield, Goto
  <2>. QED
    BY <2>2, <2>3, <2>4 DEF FreeInv, NoLostWakeup
<1>12. ASSUME NEW x \in Fibers, SetOwner(x) PROVE (FreeInv /\ NoLostWakeup)'
  <2>1. \A w \in Fibers : Queued(w)' <=> Queued(w)
    BY <1>12 DEF SetOwner, Goto, Queued
  <2>2. \A w \in Fibers : Contending(w) => Contending(w)'
    BY <1>12, <2>1 DEF SetOwner, Goto, Contending
  <2>3. \A f \in Fibers : pc'[f] = "free" => pc[f] = "free"
    BY <1>12 DEF SetOwner, Goto
  <2>4. waitQueue' = waitQueue /\ (mutex' <=> mutex)
    BY <1>12 DEF SetOwner, Goto
  <2>. QED
    BY <2>2, <2>3, <2>4 DEF FreeInv, NoLostWakeup
<1>13. ASSUME NEW x \in Fibers, ClearOwner(x) PROVE (FreeInv /\ NoLostWakeup)'
  <2>1. \A w \in Fibers : Queued(w)' <=> Queued(w)
    BY <1>13 DEF ClearOwner, Goto, Queued
  <2>2. \A w \in Fibers : Contending(w) => Contending(w)'
    BY <1>13, <2>1 DEF ClearOwner, Goto, Contending
  <2>3. \A f \in Fibers : pc'[f] = "free" => pc[f] = "free"
    BY <1>13 DEF ClearOwner, Goto
  <2>4. waitQueue' = waitQueue /\ (mutex' <=> mutex)
    BY <1>13 DEF ClearOwner, Goto
  <2>. QED
    BY <2>2, <2>3, <2>4 DEF FreeInv, NoLostWakeup
<1>14. ASSUME NEW x \in Fibers, PopWaiter(x) PROVE (FreeInv /\ NoLostWakeup)'
  <2> USE DEF PopWaiter, Goto
  <2>1. mutex'
    BY <1>14 DEF SpinLocksInv, Owns, OwnerLabels
  <2>2. \A f \in Fibers : pc'[f] = "free" => f = x
    BY <1>14 DEF SpinLocksInv, Guards, GuardLabels
  <2>3. ASSUME waitQueue' # <<>>
        PROVE  \E w \in Fibers : w # x /\ Contending(w)'
    <3>1. waitQueue # <<>>
      BY <1>14, <2>3
    <3>2. Head(waitQueue) \in Fibers
      BY <3>1
    <3>3. PICK w \in Fibers : w = Head(waitQueue)
      BY <3>2
    <3>4. popped'[x] = w
      BY <1>14, <3>1, <3>3
    <3>5. Handed(w)'
      BY <3>4 DEF Handed
    <3>6. ~Queued(w)' /\ pc'[w] \in {"yield", "asleep"}
      BY <3>5 DEF QueueInv, WaiterInOnePlace
    <3>7. w # x
      BY <1>14, <3>6
    <3>. QED
      BY <3>6, <3>7 DEF Contending
  <2>. QED
    BY <2>1, <2>2, <2>3 DEF FreeInv, NoLostWakeup
<1>15. ASSUME NEW x \in Fibers, FreeMutex(x) PROVE (FreeInv /\ NoLostWakeup)'
  <2> USE DEF FreeMutex, Goto
  <2>1. \A w \in Fibers : Queued(w)' <=> Queued(w)
    BY <1>15 DEF Queued
  <2>2. \A w \in Fibers : Contending(w) => Contending(w)'
    BY <1>15, <2>1 DEF Contending
  <2>3. \A f \in Fibers : pc'[f] = "free" => pc[f] = "free"
    BY <1>15
  <2>4. waitQueue' = waitQueue
    BY <1>15
  <2>5. waitQueue # <<>> => \E w \in Fibers : Contending(w)
    BY <1>15 DEF FreeInv
  <2>. QED
    BY <2>2, <2>3, <2>4, <2>5 DEF FreeInv, NoLostWakeup
<1>16. ASSUME NEW x \in Fibers, GoWaiter(x) PROVE (FreeInv /\ NoLostWakeup)'
  <2>1. \A w \in Fibers : Queued(w)' <=> Queued(w)
    BY <1>16 DEF GoWaiter, Goto, Queued
  <2>2. \A w \in Fibers : Contending(w) => Contending(w)'
    BY <1>16, <2>1 DEF GoWaiter, Goto, Contending
  <2>3. \A f \in Fibers : pc'[f] = "free" => pc[f] = "free"
    BY <1>16 DEF GoWaiter, Goto
  <2>4. waitQueue' = waitQueue /\ (mutex' <=> mutex)
    BY <1>16 DEF GoWaiter, Goto
  <2>. QED
    BY <2>2, <2>3, <2>4 DEF FreeInv, NoLostWakeup
<1>17. CASE UNCHANGED vars
  BY <1>17 DEF vars, FreeInv, NoLostWakeup, Contending, Queued
<1>. QED
  BY <1>1, <1>2, <1>3, <1>4, <1>5, <1>6, <1>7, <1>8, <1>9, <1>10, <1>11, <1>12, <1>13, <1>14, <1>15, <1>16, <1>17
  DEF Next, Step, LockStep, UnlockStep

-----------------------------------------------------------------------------
(* The invariant and the theorems *)

LEMMA IInvInit == Init => IInv
<1> SUFFICES ASSUME Init PROVE IInv
  OBVIOUS
<1>1. TypeOK
  BY TypeInit
<1>2. SpinLocksInv /\ MutualExclusion /\ PushInv
  BY DEF Init, SpinLocksInv, MutualExclusion, PushInv, Owns, Guards, OwnerLabels, GuardLabels
<1>3. OwnerIdHonest
  BY NoFiberAssumption DEF Init, OwnerIdHonest
<1>4. QueueInv
  <2>1. \A f \in Fibers : ~Queued(f) /\ QueuedOnce(f)
    BY DEF Init, Queued, QueuedOnce
  <2>2. \A f \in Fibers : ~Handed(f) /\ HandedOnce(f)
    BY NoFiberAssumption DEF Init, Handed, HandedOnce
  <2>. QED
    BY <2>1, <2>2 DEF Init, QueueInv, WaiterInOnePlace, Running
<1>5. FreeInv /\ NoLostWakeup
  BY DEF Init, FreeInv, NoLostWakeup
<1>. QED
  BY <1>1, <1>2, <1>3, <1>4, <1>5 DEF IInv

LEMMA IInvNext == IInv /\ [Next]_vars => IInv'
BY TypeNext, LocksNext, OwnerIdNext, PushNext, QueueNext, WakeNext DEF IInv

LEMMA IInvCorrect == Spec => []IInv
BY IInvInit, IInvNext, PTL DEF Spec

\* No two fibers are ever in the lock (mutex.cc:12-63).
THEOREM MutexExcludes == Spec => []MutualExclusion
<1>1. IInv => MutualExclusion
  BY DEF IInv
<1>. QED
  BY <1>1, IInvCorrect, PTL

\* m_fiberId names exactly the fiber in the critical section, so that the early
\* return of lock() (mutex.cc:15) admits nobody else.
THEOREM OwnerIdCorrect == Spec => []OwnerIdHonest
<1>1. IInv => OwnerIdHonest
  BY DEF IInv
<1>. QED
  BY <1>1, IInvCorrect, PTL

\* A waiter is queued once, popped once or submitted once, and never lost.
THEOREM WaitersAccounted == Spec => []WaiterInOnePlace
<1>1. IInv => WaiterInOnePlace
  BY DEF IInv, QueueInv
<1>. QED
  BY <1>1, IInvCorrect, PTL

\* A free lock with fibers on its queue always has a fiber on its way to it.
THEOREM WakeupsKept == Spec => []NoLostWakeup
<1>1. IInv => NoLostWakeup
  BY DEF IInv
<1>. QED
  BY <1>1, IInvCorrect, PTL

-----------------------------------------------------------------------------
(* Refinement of AbstractLock *)

\* Owner is the fiber that owns the lock, if there is one.
LEMMA OwnerIs ==
    ASSUME MutualExclusion
    PROVE  /\ \A f \in Fibers : Owns(f) => Owner = f
           /\ (\A f \in Fibers : ~Owns(f)) => Owner = NoFiber
BY DEF MutualExclusion, Owner

\* A step in which nobody starts or stops owning the lock does not change Owner.
LEMMA OwnerKept ==
    ASSUME MutualExclusion, MutualExclusion',
           \A f \in Fibers : Owns(f)' <=> Owns(f)
    PROVE  Owner' = Owner
<1>1. CASE \E f \in Fibers : Owns(f)
  <2>1. PICK f \in Fibers : Owns(f)
    BY <1>1
  <2>. QED
    BY <2>1 DEF MutualExclusion, Owner
<1>2. CASE \A f \in Fibers : ~Owns(f)
  BY <1>2 DEF Owner
<1>. QED
  BY <1>1, <1>2

\* Each step of the lock is a step of the abstract lock or leaves it alone.
LEMMA LockStepSimulated ==
    IInv /\ IInv' /\ [Next]_vars => [Lock!Next]_Owner
<1> SUFFICES ASSUME IInv, IInv', [Next]_vars
             PROVE  [Lock!Next]_Owner
  OBVIOUS
<1> USE DEF IInv, TypeOK, Labels, Lock!Next, Lock!Acquire, Lock!Release
<1> DEFINE Same == \A f \in Fibers : Owns(f)' <=> Owns(f)
<1>0. Same => Owner' = Owner
  BY OwnerKept
<1>a. ASSUME NEW x \in Fibers, ~mutex, Owns(x)' PROVE Lock!Acquire(x)
  <2>1. Owner' = x
    BY <1>a DEF MutualExclusion, Owner
  <2>2. Owner = NoFiber
    BY <1>a DEF SpinLocksInv, Owner
  <2>. QED
    BY <2>1, <2>2
<1>1. ASSUME NEW x \in Fibers, Resume(x) PROVE [Lock!Next]_Owner
  <2>1. Same
    BY <1>1 DEF Resume, Owns, OwnerLabels
  <2>. QED
    BY <2>1, <1>0
<1>2. ASSUME NEW x \in Fibers, Pause(x) PROVE [Lock!Next]_Owner
  <2>1. Same
    BY <1>2 DEF Pause, Owns, OwnerLabels
  <2>. QED
    BY <2>1, <1>0
<1>3. ASSUME NEW x \in Fibers, CallLock(x) PROVE [Lock!Next]_Owner
  <2>1. Same
    BY <1>3 DEF CallLock, Goto, Owns, OwnerLabels
  <2>. QED
    BY <2>1, <1>0
<1>4. ASSUME NEW x \in Fibers, CallUnlock(x) PROVE [Lock!Next]_Owner
  <2>1. Same
    BY <1>4 DEF CallUnlock, Goto, Owns, OwnerLabels
  <2>. QED
    BY <2>1, <1>0
<1>5. ASSUME NEW x \in Fibers, CheckOwner(x) PROVE [Lock!Next]_Owner
  <2>1. fiberId = x <=> pc[x] = "recheck"
    BY <1>5 DEF CheckOwner, Goto, OwnerIdHonest
  <2>2. Same
    BY <1>5, <2>1 DEF CheckOwner, Goto, Owns, OwnerLabels
  <2>. QED
    BY <2>2, <1>0
<1>6. ASSUME NEW x \in Fibers, TryFirst(x) PROVE [Lock!Next]_Owner
  <2>1. CASE mutex
    <3>1. Same
      BY <1>6, <2>1 DEF TryFirst, TryLock, Goto, Owns, OwnerLabels
    <3>. QED
      BY <3>1, <1>0
  <2>2. CASE ~mutex
    <3>1. Owns(x)'
      BY <1>6, <2>2 DEF TryFirst, TryLock, Goto, Owns, OwnerLabels
    <3>. QED
      BY <2>2, <3>1, <1>a
  <2>. QED
    BY <2>1, <2>2
<1>7. ASSUME NEW x \in Fibers, TryGuarded(x) PROVE [Lock!Next]_Owner
  <2>1. CASE mutex
    <3>1. Same
      BY <1>7, <2>1 DEF TryGuarded, TryLock, Goto, Owns, OwnerLabels
    <3>. QED
      BY <3>1, <1>0
  <2>2. CASE ~mutex
    <3>1. Owns(x)'
      BY <1>7, <2>2 DEF TryGuarded, TryLock, Goto, Owns, OwnerLabels
    <3>. QED
      BY <2>2, <3>1, <1>a
  <2>. QED
    BY <2>1, <2>2
<1>8. ASSUME NEW x \in Fibers, TakeGuard(x) PROVE [Lock!Next]_Owner
  <2>1. Same
    BY <1>8 DEF TakeGuard, Goto, Owns, OwnerLabels
  <2>. QED
    BY <2>1, <1>0
<1>9. ASSUME NEW x \in Fibers, DropGuard(x) PROVE [Lock!Next]_Owner
  <2>1. Same
    BY <1>9 DEF DropGuard, Goto, Owns, OwnerLabels
  <2>. QED
    BY <2>1, <1>0
<1>10. ASSUME NEW x \in Fibers, PushSelf(x) PROVE [Lock!Next]_Owner
  <2>1. Same
    BY <1>10 DEF PushSelf, Goto, Owns, OwnerLabels
  <2>. QED
    BY <2>1, <1>0
<1>11. ASSUME NEW x \in Fibers, Yield(x) PROVE [Lock!Next]_Owner
  <2>1. Same
    BY <1>11 DEF Yield, Goto, Owns, OwnerLabels
  <2>. QED
    BY <2>1, <1>0
<1>12. ASSUME NEW x \in Fibers, SetOwner(x) PROVE [Lock!Next]_Owner
  <2>1. Same
    BY <1>12 DEF SetOwner, Goto, Owns, OwnerLabels
  <2>. QED
    BY <2>1, <1>0
<1>13. ASSUME NEW x \in Fibers, ClearOwner(x) PROVE [Lock!Next]_Owner
  <2>1. Same
    BY <1>13 DEF ClearOwner, Goto, Owns, OwnerLabels
  <2>. QED
    BY <2>1, <1>0
<1>14. ASSUME NEW x \in Fibers, PopWaiter(x) PROVE [Lock!Next]_Owner
  <2>1. Same
    BY <1>14 DEF PopWaiter, Goto, Owns, OwnerLabels
  <2>. QED
    BY <2>1, <1>0
<1>15. ASSUME NEW x \in Fibers, FreeMutex(x) PROVE [Lock!Next]_Owner
  <2>1. Owns(x)
    BY <1>15 DEF FreeMutex, Goto, Owns, OwnerLabels
  <2>2. Owner = x
    BY <2>1, OwnerIs
  <2>3. \A f \in Fibers : ~Owns(f)'
    BY <1>15 DEF FreeMutex, SpinLocksInv
  <2>4. Owner' = NoFiber
    BY <2>3 DEF Owner
  <2>. QED
    BY <2>2, <2>4
<1>16. ASSUME NEW x \in Fibers, GoWaiter(x) PROVE [Lock!Next]_Owner
  <2>1. Same
    BY <1>16 DEF GoWaiter, Goto, Owns, OwnerLabels
  <2>. QED
    BY <2>1, <1>0
<1>17. CASE UNCHANGED vars
  <2>1. Same
    BY <1>17 DEF vars, Owns
  <2>. QED
    BY <2>1, <1>0
<1>. QED
  BY <1>1, <1>2, <1>3, <1>4, <1>5, <1>6, <1>7, <1>8, <1>9, <1>10, <1>11, <1>12, <1>13, <1>14, <1>15, <1>16, <1>17
  DEF Next, Step, LockStep, UnlockStep

\* CoMutex is a lock: taken only when free, freed only by the fiber that has it.
THEOREM LockImplemented == Spec => ImplementsLock
<1>1. Init => Lock!Init
  BY DEF Init, Lock!Init, Owner, Owns, OwnerLabels
<1>. QED
  BY <1>1, IInvCorrect, LockStepSimulated, PTL DEF Spec, ImplementsLock, Lock!Spec

=============================================================================
