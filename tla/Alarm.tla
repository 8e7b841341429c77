-------------------------------- MODULE Alarm --------------------------------
(***************************************************************************)
(* What mytimer promises a script.  An alarm is set for a time; it calls   *)
(* no sooner than that, once, or again and again at the same interval.     *)
(* After cancel() it calls once more at the most, and never again after it *)
(* has been silent.                                                        *)
(***************************************************************************)
EXTENDS Naturals

CONSTANTS Alarms, Intervals

VARIABLES
    clock,
    status,         \* "unset", "set", "cancelled" or "off"
    due,            \* when it calls next
    every,          \* the interval, 0 if it is not to repeat
    calls           \* how often it has called

alarmVars == <<clock, status, due, every, calls>>

Init ==
    /\ clock = 0
    /\ status = [a \in Alarms |-> "unset"]
    /\ due = [a \in Alarms |-> 0]
    /\ every = [a \in Alarms |-> 0]
    /\ calls = [a \in Alarms |-> 0]

Set(a) ==
    /\ status[a] = "unset"
    /\ \E ms \in Intervals :
          /\ due' = [due EXCEPT ![a] = clock + ms]
          /\ \E repeats \in {0, ms} : every' = [every EXCEPT ![a] = repeats]
    /\ status' = [status EXCEPT ![a] = "set"]
    /\ UNCHANGED <<clock, calls>>

Call(a) ==
    /\ status[a] \in {"set", "cancelled"}
    /\ due[a] <= clock
    /\ calls' = [calls EXCEPT ![a] = @ + 1]
    /\ due' = [due EXCEPT ![a] = @ + every[a]]
    /\ status' = [status EXCEPT ![a] =
                     IF @ = "set" /\ every[a] # 0 THEN "set" ELSE "off"]
    /\ UNCHANGED <<clock, every>>

Cancel(a) ==
    /\ status[a] = "set"
    /\ status' = [status EXCEPT ![a] = "cancelled"]
    /\ UNCHANGED <<clock, due, every, calls>>

\* A cancelled alarm will not call any more.
Silence(a) ==
    /\ status[a] \in {"set", "cancelled"}
    /\ status' = [status EXCEPT ![a] = "off"]
    /\ UNCHANGED <<clock, due, every, calls>>

Tick ==
    /\ clock' = clock + 1
    /\ UNCHANGED <<status, due, every, calls>>

Next == Tick \/ \E a \in Alarms : Set(a) \/ Call(a) \/ Cancel(a) \/ Silence(a)

Spec == Init /\ [][Next]_alarmVars
=============================================================================
