CONSTANTS
    c = c
    r = r
    Client = {c}
    Remote = {r}
    MaxAccepts = 1
    MaxFds = 1
    MaxTimers = 1
    Id = {0}
    Interval = {1}
    MaxNow = 2
SPECIFICATION MCSpec
INVARIANTS TimersInProcess OneAcceptPerCall
PROPERTIES AlarmsInProcess IntroducesSessions ReturnsWhenDone TimersFire ProcessEnds
\* a script that was aborted, or that does nothing after run(), ends a behaviour
CHECK_DEADLOCK FALSE
