SPECIFICATION FairSpec
CONSTANTS
    w1 = w1
    w2 = w2
    c1 = c1
    None = None
    Pipe = Pipe
    Outside = Outside
    Threads <- MCThreads
    Cbs <- MCCbs
    Timers <- MCTimers
    Recurring <- MCNoTimers
    Periods <- MCPeriods
    Forever = 9
    MaxSleep = 2
    MaxOps = 2
INVARIANT AlarmIsEarly
PROPERTIES
    TaskIsTaken
    EventIsServed
    TimerGoesOff
