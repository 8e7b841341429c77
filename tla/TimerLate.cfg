CONSTANTS
    MaxTimers = 2
    Id = {0, 1}
    Interval = {1}
    MaxNow = 2
SPECIFICATION Spec
INVARIANT CancelIsFinal
\* after the last tick and the end of run() the script may have nothing to do
CHECK_DEADLOCK FALSE
