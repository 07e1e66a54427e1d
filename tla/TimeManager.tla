---------------------------- MODULE TimeManager ----------------------------
(***************************************************************************)
(* Timers (src/base/timer.cc): the ordered set m_timers, who adds to it,   *)
(* takes from it and asks how long to sleep.  Each operation runs under    *)
(* m_mutex and is one step.                                                *)
(*                                                                         *)
(* Times are relative: left[t] is m_next minus the current time, 0 when    *)
(* the time has come, and Forever for a timer of UINT32_MAX ms.            *)
(*                                                                         *)
(* The operators say what one call does to the timers; the module that     *)
(* extends this one says who calls, and what onInsertAtFront() does.       *)
(***************************************************************************)
EXTENDS Integers, FiniteSets

CONSTANTS
    Timers,     \* timer objects, numbered
    Recurring,  \* those with m_recurring
    Periods,    \* the values of m_ms
    Forever     \* UINT32_MAX: a time that does not come

ASSUME ForeverAssumption == Forever \in Nat
ASSUME PeriodsAssumption == Periods \subseteq 1..Forever
ASSUME TimersAssumption == Timers \subseteq Nat /\ Recurring \subseteq Timers

VARIABLES
    timers,     \* m_timers
    ms,         \* m_ms of each timer
    left,       \* m_next of each timer, relative to the current time
    tickled     \* m_tickled

timerVars == <<timers, ms, left, tickled>>

TimerTypeOK ==
    /\ timers \subseteq Timers
    /\ ms \in [Timers -> Periods \cup {0}]
    /\ left \in [Timers -> 0..Forever]
    /\ tickled \in BOOLEAN

TimerInit ==
    /\ timers = {}
    /\ ms = [t \in Timers |-> 0]
    /\ left = [t \in Timers |-> 0]
    /\ tickled = FALSE

-----------------------------------------------------------------------------

\* Compare: t is the first of the set; equal times are ordered by address.
IsFirst(t, set) == t \in set /\ \A u \in set : left[t] <= left[u]

\* The time until the first timer.
Nearest == left[CHOOSE t \in timers : IsFirst(t, timers)]

\* d units earlier; what is due stays due.
Earlier(l, d) == IF l = Forever THEN Forever ELSE IF l > d THEN l - d ELSE 0

\* Mutant of Insert: onInsertAtFront() is not called.
InsertQuiet(t, l, front) ==
    /\ timers' = timers \cup {t}
    /\ left' = [left EXCEPT ![t] = l]
    /\ ~front
    /\ UNCHANGED tickled

\* addTimer(timer, lock) of a timer that is l away.  `front' is the result
\* at_front: onInsertAtFront() is called if it is true.
Insert(t, l, front) ==
    /\ timers' = timers \cup {t}
    /\ left' = [left EXCEPT ![t] = l]
    /\ front => ~tickled /\ \A u \in timers \ {t} : l <= left[u]
    /\ ~front => tickled \/ \E u \in timers \ {t} : left[u] <= l
    /\ tickled' = (tickled \/ front)

\* addTimer(ms, cb, recurring), addConditionTimer().
AddTimer(t, m, front) ==
    /\ t \notin timers
    /\ ms' = [ms EXCEPT ![t] = m]
    /\ Insert(t, m, front)

\* cancel(): m_cb is never cleared, so that the timer is always searched for;
\* one that is not in the set any more is erased all the same (line 31).
Cancel(t) ==
    /\ t \in timers
    /\ timers' = timers \ {t}
    /\ UNCHANGED <<ms, left, tickled>>

\* refresh(): the timer starts anew, if it is still there.
Refresh(t) ==
    /\ left' = [left EXCEPT ![t] = IF t \in timers THEN ms[t] ELSE @]
    /\ UNCHANGED <<timers, ms, tickled>>

\* reset(ms, now_time): from now, or from when the timer was last started; how
\* long a timer is due already is not modelled.  It also puts a timer back that
\* is not in the set any more.
ResetTimes(t, m, now) ==
    IF now \/ Forever \in {m, left[t]} THEN {m}
    ELSE IF left[t] = 0 THEN 0..Earlier(m, ms[t])
    ELSE {Earlier(left[t] + m, ms[t])}

Reset(t, m, now, front) ==
    IF m = ms[t] /\ ~now
    THEN ~front /\ UNCHANGED timerVars
    ELSE /\ ms' = [ms EXCEPT ![t] = m]
         /\ \E l \in ResetTimes(t, m, now) : Insert(t, l, front)

\* getNextTimer(): m_tickled is reset if there is a timer.
LookAtNext ==
    /\ tickled' = (tickled /\ timers = {})
    /\ UNCHANGED <<timers, ms, left>>

\* getExpiredCallbacks(): the timers that are due are taken out; recurring
\* ones are put back for the next time.
Expired == {t \in timers : left[t] = 0}

\* Mutant of TakeExpired: line 192 is missing.
TakeExpiredKeeping ==
    /\ left' = [t \in Timers |-> IF t \in Expired \cap Recurring THEN ms[t] ELSE left[t]]
    /\ UNCHANGED <<timers, ms, tickled>>

TakeExpired ==
    /\ timers' = timers \ (Expired \ Recurring)
    /\ left' = [t \in Timers |-> IF t \in Expired \cap Recurring THEN ms[t] ELSE left[t]]
    /\ UNCHANGED <<ms, tickled>>

\* A unit of time passes.
Pass ==
    /\ left' = [t \in Timers |-> Earlier(left[t], 1)]
    /\ UNCHANGED <<timers, ms, tickled>>
=============================================================================
