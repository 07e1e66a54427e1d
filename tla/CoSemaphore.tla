---------------------------- MODULE CoSemaphore ----------------------------
(***************************************************************************)
(* CoSemaphore (include/sync/co_semaphore.h): m_num permits of which       *)
(* m_used are taken, under one CoMutex and one condition variable.  Users  *)
(* call wait(), work, and call notify(), for ever; posters call notify()   *)
(* without having waited.                                                  *)
(***************************************************************************)
EXTENDS CoCondVar

CONSTANTS
    Num,        \* m_num
    PosterSets, \* the fibers that only call notify(): a choice of sets
    Cv          \* m_condvar

ASSUME NumAssumption == Num \in Nat \ {0}
ASSUME PosterSetsAssumption == PosterSets \subseteq SUBSET Fibers
ASSUME CondVarsAssumption == CondVars = {Cv}
ASSUME FibersAssumption == IsFiniteSet(Fibers)

VARIABLES
    posters,    \* the fibers that only call notify()
    used,       \* m_used
    pc          \* where each fiber is in wait() and notify()

semVars == <<posters, used, pc>>
vars == <<cvVars, semVars>>

Labels == { "client", "wait", "take", "leaveWait", "working",
            "notify", "leaveNotify" }

TypeOK ==
    /\ CVTypeOK
    /\ posters \in PosterSets
    /\ used \in Nat
    /\ pc \in [Fibers -> Labels]

Init ==
    /\ CVInit
    /\ posters \in PosterSets
    /\ used = 0
    /\ pc = [f \in Fibers |-> "client"]

Step(f, from, to, call) ==
    /\ pc[f] = from
    /\ pc' = [pc EXCEPT ![f] = to]
    /\ Goto(f, "out", call)
    /\ UNCHANGED <<owner, waitQueue, spin, keepAlive, tasks, state, on, timer, timedOut, posters>>

CallWait(f) ==
    /\ f \notin posters
    /\ Step(f, "client", "wait", "lock")
    /\ UNCHANGED used

\* Mutant of WaitTest: off by one.
WaitTestLate(f) ==
    /\ IF used > Num THEN Step(f, "wait", "wait", "wait")
                     ELSE Step(f, "wait", "take", "out")
    /\ UNCHANGED used

\* Lines 56-59.
WaitTest(f) ==
    /\ IF used >= Num THEN Step(f, "wait", "wait", "wait")
                      ELSE Step(f, "wait", "take", "out")
    /\ UNCHANGED used

\* Line 60.
Take(f) ==
    /\ Step(f, "take", "leaveWait", "out")
    /\ used' = used + 1

\* ~ScopedLock at line 61.
LeaveWait(f) ==
    /\ Step(f, "leaveWait", "working", "unlock")
    /\ UNCHANGED used

CallNotify(f) ==
    /\ Step(f, IF f \in posters THEN "client" ELSE "working", "notify", "lock")
    /\ UNCHANGED used

\* Mutant of NotifyBody: line 71 is missing.
NotifySilent(f) ==
    /\ Step(f, "notify", "leaveNotify", "out")
    /\ used' = IF used > 0 THEN used - 1 ELSE used

\* Lines 66-71: a notify() without a permit out is forgotten.
NotifyBody(f) ==
    /\ Step(f, "notify", "leaveNotify", "notify")
    /\ used' = IF used > 0 THEN used - 1 ELSE used

LeaveNotify(f) ==
    /\ Step(f, "leaveNotify", "client", "unlock")
    /\ UNCHANGED used

SemStep(f) ==
    \/ WaitTest(f) \/ Take(f) \/ LeaveWait(f)
    \/ NotifyBody(f) \/ LeaveNotify(f)

Next ==
    \E f \in Fibers :
        \/ CallWait(f) \/ CallNotify(f)
        \/ SemStep(f)
        \/ CVNext(f) /\ UNCHANGED semVars

Spec == Init /\ [][Next]_vars

\* The threads run.  Whether a user gives its permit back is up to the user.
Fairness ==
    \A f \in Fibers :
        /\ WF_vars(SemStep(f))
        /\ WF_vars(CVStep(f) /\ UNCHANGED semVars)
        /\ WF_vars(Resume(f) /\ UNCHANGED semVars)

FairSpec == Spec /\ Fairness

-----------------------------------------------------------------------------

\* Fibers that have a permit.
Holders == {f \in Fibers : pc[f] \in {"leaveWait", "working"}}

\* Fibers about to give one back.
Returning == {f \in Fibers : pc[f] = "notify"}

\* m_used, which is unsigned, stays in 0..m_num and never wraps.  Unless a poster gives
\* back what it has not, it counts the permits that are out, so that never more than
\* m_num fibers work at once (co_semaphore.h:56-60, 66-69); notify() has a permit to
\* give back until line 68.
PermitsConserved ==
    /\ used \in 0..Num
    /\ posters = {} => used = Cardinality(Holders) + Cardinality(Returning)

\* Fibers on their way to a permit, or to telling another one of it.
Takers ==
    {f \in Fibers :
        \/ at[f] = "notify"
        \/ pc[f] \in {"wait", "take"} /\ (at[f] \in {"out", "lock"} \/ tasks[f] > 0)}

\* While fibers wait for a permit, every free permit has a fiber on its way to
\* it: no notify() is lost.
PermitsHaveTakers == waitQueue[Cv] # {} => Num - used <= Cardinality(Takers)

=============================================================================
