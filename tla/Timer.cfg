CONSTANTS
    MaxTimers = 2
    Id = {0, 1, 2}
    Interval = {1, 2}
    MaxNow = 5
SPECIFICATION FairSpec
INVARIANTS TypeOK Retained OneWaitEach OnSchedule CancelEndsCalls
PROPERTIES RunOutlasts TimerFires RunEnds ImplementsAlarm
\* after the last tick and the end of run() the script may have nothing to do
CHECK_DEADLOCK FALSE
