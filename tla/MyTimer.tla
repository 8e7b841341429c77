------------------------------- MODULE MyTimer -------------------------------
(***************************************************************************)
(* libsocket/mytimer.hpp with its two functions in socketcore.cpp: the     *)
(* timers of one script, the io_context that runs them, and the script,    *)
(* which creates and cancels timers from its main chunk and from the       *)
(* callbacks, and calls run().                                             *)
(***************************************************************************)
EXTENDS Integers, Sequences, FiniteSets

CONSTANTS
    MaxTimers,      \* bound: timers a script creates
    Id,             \* the values of an id
    Interval,       \* values of msTime
    MaxNow          \* bound: where the clock stops

ASSUME TimerAssumption ==
    /\ MaxTimers \in Nat
    /\ Interval \subseteq Nat \ {0}
    /\ MaxNow \in Nat

VARIABLES
    \* the io_context and the script
    script,         \* "main" chunk, "run" of the io_context, a "callback",
                    \* or "aborted" by an error
    current,        \* the timer whose callback it is in, 0 otherwise
    stopped,        \* the io_context ran out of work
    now,            \* the clock
    queue,          \* completions of waits that are ready to be handled
    \* the timers
    exists,         \* the timers created so far
    id_, msTime_, bLoop_,
    expiry,         \* timer_.expires_at()
    wait,           \* the async_wait: "none", "pending", or "queued"
    timerSet_,
    mapIdToTimer_,
    \* history, for the properties
    born,           \* when it was created
    once,           \* it was created with bLoop = false
    fired,          \* how often func_ was called
    cancelled,      \* "no", or what its wait was when it was cancelled first
    late            \* how often func_ was called after that

ioVars == <<script, current, stopped, now, queue>>
timerVars == <<exists, id_, msTime_, bLoop_, expiry, wait>>
tableVars == <<timerSet_, mapIdToTimer_>>
historyVars == <<born, once, fired, cancelled, late>>
vars == <<ioVars, timerVars, tableVars, historyVars>>

Timer == 1..MaxTimers

Init ==
    /\ script = "main"
    /\ current = 0
    /\ stopped = FALSE
    /\ now = 0
    /\ queue = <<>>
    /\ exists = {}
    /\ id_ = [t \in Timer |-> 0]
    /\ msTime_ = [t \in Timer |-> 0]
    /\ bLoop_ = [t \in Timer |-> FALSE]
    /\ expiry = [t \in Timer |-> 0]
    /\ wait = [t \in Timer |-> "none"]
    /\ timerSet_ = {}
    /\ mapIdToTimer_ = <<>>
    /\ born = [t \in Timer |-> 0]
    /\ once = [t \in Timer |-> FALSE]
    /\ fired = [t \in Timer |-> 0]
    /\ cancelled = [t \in Timer |-> "no"]
    /\ late = [t \in Timer |-> 0]
-----------------------------------------------------------------------------
(***************************************************************************)
(* Calls of the script, from its main chunk or from a callback.            *)
(***************************************************************************)
InScript == script \in {"main", "callback"}

\* Mutant: uuid() without try_lock_id().
uuidUnchecked(i) == TRUE

\* uuid() counts from wherever the uninitialized uuid_ of this object stands
\* to an id that no timer had before.
uuid(i) == i \notin timerSet_

\* retain() keeps the timer in mapIdToTimer_, where emplace leaves an entry
\* that is already there.
retain(t, i) ==
    mapIdToTimer_' = [x \in DOMAIN mapIdToTimer_ \cup {i} |->
                         IF x \in DOMAIN mapIdToTimer_ THEN mapIdToTimer_[x] ELSE t]

\* The constructor: the deadline counts from now.
mytimer(t, ms, loop, i) ==
    /\ exists' = exists \cup {t}
    /\ id_' = [id_ EXCEPT ![t] = i]
    /\ timerSet_' = timerSet_ \cup {i}
    /\ msTime_' = [msTime_ EXCEPT ![t] = ms]
    /\ bLoop_' = [bLoop_ EXCEPT ![t] = loop]
    /\ expiry' = [expiry EXCEPT ![t] = now + ms]
    /\ born' = [born EXCEPT ![t] = now]
    /\ once' = [once EXCEPT ![t] = ~loop]

\* timer(): the constructor starts the wait, then retain().  A timer that is
\* not retained is destroyed at once, which cancels its wait.
Create(t, ms, loop) ==
    /\ InScript
    /\ t \notin exists
    /\ \A u \in Timer : u < t => u \in exists
    /\ \E i \in Id :
          /\ uuid(i)
          /\ mytimer(t, ms, loop, i)
          /\ retain(t, i)
          /\ IF i \in DOMAIN mapIdToTimer_
             THEN /\ wait' = [wait EXCEPT ![t] = "queued"]
                  /\ queue' = Append(queue, [t |-> t, ok |-> FALSE])
             ELSE /\ wait' = [wait EXCEPT ![t] = "pending"]
                  /\ UNCHANGED queue
    /\ UNCHANGED <<script, current, stopped, now, fired, cancelled, late>>

\* Mutant: cancel() only clears bLoop_.
CancelNoWait(t) == UNCHANGED <<wait, queue>>

\* Mutant: a completion is posted for a wait that is no longer pending, too.
CancelAnyWait(t) ==
    IF wait[t] # "none"
    THEN /\ wait' = [wait EXCEPT ![t] = "queued"]
         /\ queue' = Append(queue, [t |-> t, ok |-> FALSE])
    ELSE UNCHANGED <<wait, queue>>

\* timer_.cancel(): a pending wait completes with an error.  A completion
\* that is already queued is out of its reach.
CancelWait(t) ==
    IF wait[t] = "pending"
    THEN /\ wait' = [wait EXCEPT ![t] = "queued"]
         /\ queue' = Append(queue, [t |-> t, ok |-> FALSE])
    ELSE UNCHANGED <<wait, queue>>

\* cancel()
cancel(t) ==
    /\ bLoop_' = [bLoop_ EXCEPT ![t] = FALSE]
    /\ CancelWait(t)
    /\ cancelled' = [cancelled EXCEPT ![t] = IF @ = "no" THEN wait[t] ELSE @]

\* timerCancel().  An id that was never given out is ignored.
cancelById(i) ==
    /\ InScript
    /\ i \in DOMAIN mapIdToTimer_
    /\ cancel(mapIdToTimer_[i])
    /\ UNCHANGED <<script, current, stopped, now, exists, id_, msTime_, expiry,
                   tableVars, born, once, fired, late>>

\* An error in the script that it does not catch ends the process: start()'s
\* handler does not go on.
Raise ==
    /\ InScript
    /\ script' = "aborted"
    /\ UNCHANGED <<current, stopped, now, queue, timerVars, tableVars, historyVars>>

\* run() from the main chunk.  Nobody calls restart(), so a later run() of a
\* stopped io_context returns at once and changes nothing.
Run ==
    /\ script = "main"
    /\ ~stopped
    /\ script' = "run"
    /\ UNCHANGED <<current, stopped, now, queue, timerVars, tableVars, historyVars>>
-----------------------------------------------------------------------------
(***************************************************************************)
(* The io_context in run(): it polls the clock and runs one handler at a   *)
(* time.                                                                   *)
(***************************************************************************)
Due == {t \in Timer : wait[t] = "pending" /\ expiry[t] <= now}

\* The orders in which the timer queue gives out a set of timers.
InExpiryOrder(S) ==
    {q \in [1..Cardinality(S) -> S] :
        \A i, j \in 1..Cardinality(S) :
            i < j => q[i] # q[j] /\ expiry[q[i]] <= expiry[q[j]]}

\* All waits that are due complete together, before any of their handlers.
Poll ==
    /\ script = "run"
    /\ Due # {}
    /\ \E q \in InExpiryOrder(Due) :
          queue' = queue \o [i \in 1..Cardinality(Due) |-> [t |-> q[i], ok |-> TRUE]]
    /\ wait' = [t \in Timer |-> IF t \in Due THEN "queued" ELSE wait[t]]
    /\ UNCHANGED <<script, current, stopped, now, exists, id_, msTime_, bLoop_, expiry,
                   tableVars, historyVars>>

\* start()'s handler, up to the script's callback.
Fire ==
    /\ script = "run"
    /\ queue # <<>>
    /\ Head(queue).ok
    /\ LET t == Head(queue).t
       IN  /\ script' = "callback"
           /\ current' = t
           /\ wait' = [wait EXCEPT ![t] = "none"]
           /\ fired' = [fired EXCEPT ![t] = @ + 1]
           /\ late' = [late EXCEPT ![t] = IF cancelled[t] = "no" THEN @ ELSE @ + 1]
    /\ queue' = Tail(queue)
    /\ UNCHANGED <<stopped, now, exists, id_, msTime_, bLoop_, expiry,
                   tableVars, born, once, cancelled>>

\* start()'s handler with an error does nothing.
Aborted ==
    /\ script = "run"
    /\ queue # <<>>
    /\ ~Head(queue).ok
    /\ wait' = [wait EXCEPT ![Head(queue).t] = "none"]
    /\ queue' = Tail(queue)
    /\ UNCHANGED <<script, current, stopped, now, exists, id_, msTime_, bLoop_, expiry,
                   tableVars, historyVars>>

\* Mutant: the handler always starts again.
StartsAlways(t) == TRUE

\* bLoop_ is read after func_ returned.
StartsAgain(t) == bLoop_[t]

\* Mutant: expires_from_now() in the handler.
NextExpiryFromNow(t) == now + msTime_[t]

\* Mutant: seconds() for milliseconds().
NextExpirySeconds(t) == expiry[t] + 1000 * msTime_[t]

NextExpiry(t) == expiry[t] + msTime_[t]

\* func_ returns to start()'s handler.
FuncReturn ==
    /\ script = "callback"
    /\ current # 0
    /\ IF StartsAgain(current)
       THEN /\ expiry' = [expiry EXCEPT ![current] = NextExpiry(current)]
            /\ wait' = [wait EXCEPT ![current] = "pending"]
       ELSE UNCHANGED <<expiry, wait>>
    /\ script' = "run"
    /\ current' = 0
    /\ UNCHANGED <<stopped, now, queue, exists, id_, msTime_, bLoop_,
                   tableVars, historyVars>>

\* Mutant: a completion that is queued is no work.
ReturnsFromQueue ==
    /\ script = "run"
    /\ \A t \in Timer : wait[t] # "pending"
    /\ script' = "main"
    /\ stopped' = TRUE
    /\ UNCHANGED <<current, now, queue, timerVars, tableVars, historyVars>>

\* Without a wait there is no outstanding work: the io_context stops and
\* run() returns to the main chunk.
RunReturns ==
    /\ script = "run"
    /\ \A t \in Timer : wait[t] = "none"
    /\ script' = "main"
    /\ stopped' = TRUE
    /\ UNCHANGED <<current, now, queue, timerVars, tableVars, historyVars>>

\* Time passes, also during a callback.
Tick ==
    /\ now < MaxNow
    /\ now' = now + 1
    /\ UNCHANGED <<script, current, stopped, queue, timerVars, tableVars, historyVars>>

Next ==
    \/ \E t \in Timer, ms \in Interval, loop \in BOOLEAN : Create(t, ms, loop)
    \/ \E i \in Id : cancelById(i)
    \/ Raise
    \/ Run
    \/ Poll
    \/ Fire
    \/ Aborted
    \/ FuncReturn
    \/ RunReturns
    \/ Tick

Spec == Init /\ [][Next]_vars

(***************************************************************************)
(* The script calls run() and returns from its callbacks, run() does not   *)
(* rest while there is something to do, and time passes.  Nothing makes    *)
(* the script create or cancel a timer.                                    *)
(***************************************************************************)
Fairness ==
    /\ WF_vars(Run)
    /\ WF_vars(Poll)
    /\ WF_vars(Fire)
    /\ WF_vars(Aborted)
    /\ WF_vars(FuncReturn)
    /\ WF_vars(RunReturns)
    /\ WF_vars(Tick)

FairSpec == Spec /\ Fairness
-----------------------------------------------------------------------------
Waits == {"none", "pending", "queued"}

\* The script and the io_context that runs it.
ScriptTypes ==
    /\ script \in {"main", "run", "callback", "aborted"}
    /\ script = "callback" => current # 0
    /\ current # 0 => script \in {"callback", "aborted"}
    /\ stopped \in BOOLEAN

\* The timers, their waits and the tables of ids.
TimerTypes ==
    /\ current \in Timer \cup {0}
    /\ now \in 0..MaxNow
    /\ queue \in Seq([t : Timer, ok : BOOLEAN])
    /\ exists \subseteq Timer
    /\ id_ \in [Timer -> Id \cup {0}]
    /\ msTime_ \in [Timer -> Interval \cup {0}]
    /\ bLoop_ \in [Timer -> BOOLEAN]
    /\ expiry \in [Timer -> Nat]
    /\ \A t \in Timer : expiry[t] <= MaxNow + msTime_[t]
    /\ wait \in [Timer -> Waits]
    /\ timerSet_ \subseteq Id
    /\ DOMAIN mapIdToTimer_ \subseteq Id
    /\ \A i \in DOMAIN mapIdToTimer_ : mapIdToTimer_[i] \in Timer
    /\ born \in [Timer -> 0..MaxNow]
    /\ once \in [Timer -> BOOLEAN]
    /\ fired \in [Timer -> Nat]
    /\ cancelled \in [Timer -> Waits \cup {"no"}]
    /\ late \in [Timer -> Nat]

\* The type invariant.
TypeOK == ScriptTypes /\ TimerTypes

(***************************************************************************)
(* retain() and the ids: the id that the script got stands for this timer  *)
(* for good.  It keeps alive the object whose this the wait's handler      *)
(* captured, and timerCancel() never reaches another timer.                *)
(***************************************************************************)
Retained ==
    \A t \in exists :
        id_[t] \in DOMAIN mapIdToTimer_ /\ mapIdToTimer_[id_[t]] = t

(***************************************************************************)
(* However create, cancel and completions interleave, a timer has at most  *)
(* one wait, and none while its callback runs; each wait completes once.   *)
(***************************************************************************)
OneWaitEach ==
    \A t \in Timer :
        LET completions == {i \in 1..Len(queue) : queue[i].t = t}
        IN  /\ wait[t] = "queued" => \E i \in completions : completions = {i}
            /\ wait[t] # "queued" => completions = {}
            /\ current = t => wait[t] = "none"

(***************************************************************************)
(* expires_at() + ms: a loop timer does not drift, however late its        *)
(* callbacks run, and no call comes before its time.                       *)
(***************************************************************************)
OnSchedule ==
    \A t \in exists :
        LET starts == fired[t] + (IF wait[t] = "none" THEN 0 ELSE 1)
        IN  /\ wait[t] # "none" => expiry[t] = born[t] + msTime_[t] * starts
            /\ now >= born[t] + msTime_[t] * fired[t]
            /\ once[t] => fired[t] <= 1

(***************************************************************************)
(* After timerCancel() the callback runs once at the most, and only if the *)
(* completion was already queued; a cancel out of the timer's own callback *)
(* is enough to end a loop.                                                *)
(***************************************************************************)
CancelEndsCalls ==
    \A t \in Timer : late[t] <= IF cancelled[t] = "queued" THEN 1 ELSE 0

(***************************************************************************)
(* A timer that the script does not cancel fires, unless it is created     *)
(* after run() returned or an error ends the process.                      *)
(***************************************************************************)
TimerFires ==
    \A t \in Timer :
        t \in exists /\ ~stopped /\ born[t] + msTime_[t] <= MaxNow ~>
            fired[t] > 0 \/ cancelled[t] # "no" \/ script = "aborted"

\* Nothing more is to come of a timer: it was cancelled, or called its once.
Done(t) == cancelled[t] # "no" \/ (once[t] /\ fired[t] = 1)

(***************************************************************************)
(* run() does not return before every timer is done: none that still has   *)
(* to call is without a wait, whatever was created or cancelled meanwhile. *)
(***************************************************************************)
RunOutlasts == [][stopped' /\ ~stopped => \A t \in exists : Done(t)]_vars

\* It will not wait again, or not beyond the last tick.
Ending(t) == cancelled[t] # "no" \/ (once[t] /\ expiry[t] <= MaxNow)

(***************************************************************************)
(* examples/example_timer.lua prints "done" after run(): when every timer  *)
(* has been cancelled or is not a loop, run() returns, or an error ends    *)
(* the process.                                                            *)
(***************************************************************************)
RunEnds == <>[](\A t \in exists : Ending(t)) => <>(stopped \/ script = "aborted")

\* A timer as Alarm has it.  A cancelled one may still call if its completion
\* was queued before.
Status(t) ==
    IF t \notin exists THEN "unset"
    ELSE IF cancelled[t] = "no"
    THEN IF once[t] /\ fired[t] = 1 THEN "off" ELSE "set"
    ELSE IF [t |-> t, ok |-> TRUE] \in {queue[i] : i \in 1..Len(queue)}
    THEN "cancelled" ELSE "off"

Alarms == INSTANCE Alarm WITH
    Alarms <- Timer,
    Intervals <- Interval,
    clock <- now,
    status <- [t \in Timer |-> Status(t)],
    due <- [t \in Timer |->
        IF t \notin exists THEN 0
        ELSE born[t] + msTime_[t] * (IF once[t] THEN 1 ELSE fired[t] + 1)],
    every <- [t \in Timer |-> IF once[t] THEN 0 ELSE msTime_[t]],
    calls <- fired

(***************************************************************************)
(* The refinement: the waits, the queue of completions and the handlers of *)
(* the timers together do what Alarm promises, cancels included.           *)
(***************************************************************************)
ImplementsAlarm == Alarms!Spec

(***************************************************************************)
(* README.md: timerCancel cancels the timer.  A cancelled timer does not   *)
(* call back any more.                                                     *)
(***************************************************************************)
CancelIsFinal == \A t \in Timer : late[t] = 0
=============================================================================
