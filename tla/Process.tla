------------------------------- MODULE Process -------------------------------
(***************************************************************************)
(* One process: libsocket/socketcore.cpp registers setCallBack, listen,    *)
(* accept, connect, the timers and run() for a script, all on the one      *)
(* io_context of its Socket object.  The handlers of sockets and timers    *)
(* take turns in run(), and every callback may call every function.        *)
(***************************************************************************)
EXTENDS Socket

CONSTANTS MaxTimers, Id, Interval, MaxNow

\* What MyTimer asks of its constants.
ASSUME ProcessAssumption ==
    /\ MaxTimers \in Nat
    /\ Interval \subseteq Nat \ {0}
    /\ MaxNow \in Nat

VARIABLES
    current, now, queue,
    exists, id_, msTime_, bLoop_, expiry, wait,
    timerSet_, mapIdToTimer_,
    born, once, fired, cancelled, late

\* The timers, on the same script and the same io_context.
T == INSTANCE MyTimer

timersOnly == <<current, now, queue, exists, id_, msTime_, bLoop_, expiry, wait,
                timerSet_, mapIdToTimer_, born, once, fired, cancelled, late>>
socketOnly == <<cbs_, socketVars, sessionVars, gone, countVars>>
processVars == <<vars, timersOnly>>

ProcessInit == Init /\ T!Init

SocketStep ==
    /\ ScriptNext \/ HandlerNext \/ PeerNext \/ Run
    /\ UNCHANGED timersOnly

TimerScript ==
    \/ \E t \in T!Timer, ms \in Interval, loop \in BOOLEAN : T!Create(t, ms, loop)
    \/ \E i \in Id : T!cancelById(i)

TimerStep ==
    /\ TimerScript \/ T!Poll \/ T!Fire \/ T!Aborted \/ T!FuncReturn \/ T!Tick
    /\ UNCHANGED socketOnly

\* Mutant: a wait of a timer is no work.
ReturnsFromTimers == RunReturns /\ UNCHANGED timersOnly

\* run() returns when neither a socket nor a timer is left to wait for.
ProcessReturns == RunReturns /\ T!RunReturns

ProcessNext == SocketStep \/ TimerStep \/ ProcessReturns

(***************************************************************************)
(* As for each part alone; the timers are looked at in every turn of       *)
(* run(), however many other handlers are ready.                           *)
(***************************************************************************)
ProcessFairness ==
    /\ Fairness
    /\ SF_T!vars(T!Poll) /\ SF_T!vars(T!Fire) /\ SF_T!vars(T!Aborted)
    /\ WF_T!vars(T!FuncReturn) /\ WF_T!vars(T!Tick)
    /\ WF_processVars(ProcessReturns)

ProcessSpec == ProcessInit /\ [][ProcessNext]_processVars /\ ProcessFairness
-----------------------------------------------------------------------------
(***************************************************************************)
(* The timers keep to their time and their cancels also when callbacks of  *)
(* Sessions come between, and create and cancel timers.                    *)
(***************************************************************************)
TimersInProcess == T!OneWaitEach /\ T!OnSchedule /\ T!CancelEndsCalls

(***************************************************************************)
(* Each timer does what Alarm promises, whatever the handlers of Sessions  *)
(* do between its own, and however long their callbacks run.               *)
(***************************************************************************)
AlarmsInProcess == T!ImplementsAlarm

(***************************************************************************)
(* run() does not return while an accept chain is alive or a timer still   *)
(* has to call: the work of each part counts until it is done.             *)
(***************************************************************************)
ReturnsWhenDone ==
    [][stopped' /\ ~stopped => failed = started /\ \A t \in exists : T!Done(t)]_processVars

(***************************************************************************)
(* Messages and connections do not starve the timers: one that is not      *)
(* cancelled fires, unless it was created after run() returned.            *)
(***************************************************************************)
TimersFire ==
    \A t \in T!Timer :
        t \in exists /\ ~stopped /\ born[t] + msTime_[t] <= MaxNow ~>
            fired[t] > 0 \/ cancelled[t] # "no" \/ script = "aborted"

\* Nothing is left that could keep run() from returning.
WindsUp ==
    /\ \A t \in exists : T!Ending(t)
    /\ failed = started
    /\ \A s \in Peer : st[s] = "live" => gone[s]
    /\ \A s \in Remote : st[s] \notin {"opening", "failed"}

(***************************************************************************)
(* run() ends: when the timers have run down, the accept chains have       *)
(* failed and the peers have left, no forgotten read, wait or accept keeps *)
(* the process in run().                                                   *)
(***************************************************************************)
ProcessEnds == <>[]WindsUp => <>(stopped \/ script = "aborted")
=============================================================================
