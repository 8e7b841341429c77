----------------------------- MODULE ProcessProofs -----------------------------
(***************************************************************************)
(* Proofs about Process: what is proved of the sockets and of the timers   *)
(* alone still holds when their handlers take turns on one io_context.     *)
(***************************************************************************)
EXTENDS Process, SocketProofs

\* What is proved about the timers.
TP == INSTANCE TimerProofs

\* A timer's callback and a Session's do not run at the same time.
Turns ==
    current # 0 => script \in {"callback", "aborted"} /\ \A s \in Peer : cb[s] = "none"

\* The invariants of both parts, and what makes them one process.
PInv == LInv /\ TP!IInv /\ Turns
-----------------------------------------------------------------------------
\* Before the script runs.
LEMMA InitPInv == ProcessInit => PInv
<1> SUFFICES ASSUME ProcessInit PROVE PInv
  OBVIOUS
<1>1. LInv
  BY InitLInv DEF ProcessInit
<1>2. TP!Init
  BY DEF ProcessInit, T!Init, TP!Init, T!Timer, TP!Timer
<1>3. TP!IInv
  BY <1>2, ProcessAssumption, TP!InitIInv
<1>4. Turns
  BY DEF ProcessInit, T!Init, Turns
<1>. QED  BY <1>1, <1>3, <1>4 DEF PInv

\* The sockets' steps leave the timers alone, and none is taken in a timer's
\* callback that would end it.
LEMMA SocketKeeps == ASSUME PInv, SocketStep PROVE PInv'
<1>1. LInv'
  <2>1. Next
    BY DEF SocketStep, Next
  <2>. QED  BY <2>1, NextLInv DEF PInv
<1>2. TP!IInv'
  <2>1. UNCHANGED <<current, now, queue, TP!timerVars, TP!tableVars, TP!historyVars>>
    BY DEF SocketStep, timersOnly, TP!timerVars, TP!tableVars, TP!historyVars
  <2>. QED  BY <2>1, ProcessAssumption, TP!RestKeeps DEF PInv
<1>3. Turns'
  <2>1. CASE current = 0
    BY <2>1 DEF SocketStep, timersOnly, Turns
  <2>2. CASE current # 0
    <3>1. script \in {"callback", "aborted"} /\ \A s \in Peer : cb[s] = "none"
      BY <2>2 DEF PInv, Turns
    <3>2. ~HandlerNext
      BY <3>1 DEF HandlerNext, PollAcceptor, AcceptDone, AcceptError, ConnectDone,
                  ConnectError, Message, CallbackReturn, ReadError, Abort, Peer
    <3>3. ~Run
      BY <3>1 DEF Run
    <3>4. (script' = "aborted" \/ script' = script) /\ cb' = cb
      BY <3>2, <3>3 DEF SocketStep, ScriptNext, PeerNext, setCallBack, listen, Accept,
                        connect, Drop, Raise, Arrive, Leave, scriptVars, sessionVars
    <3>. QED  BY <3>1, <3>4 DEF Turns
  <2>. QED  BY <2>1, <2>2
<1>. QED  BY <1>1, <1>2, <1>3 DEF PInv

\* What Process takes from the timers is what is proved of them.
LEMMA TimersStep ==
    ASSUME TimerStep \/ ProcessReturns
    PROVE  TP!Next
<1>1. ASSUME NEW t \in T!Timer, NEW ms \in Interval, NEW loop \in BOOLEAN,
             T!Create(t, ms, loop)
      PROVE  t \in TP!Timer /\ TP!Create(t, ms, loop)
  BY <1>1 DEF T!Timer, TP!Timer, T!Create, TP!Create, T!InScript, TP!InScript,
              T!uuid, TP!uuid, T!mytimer, TP!mytimer, T!retain, TP!retain
<1>2. ASSUME NEW i \in Id, T!cancelById(i) PROVE TP!cancelById(i)
  BY <1>2 DEF T!cancelById, TP!cancelById, T!InScript, TP!InScript, T!cancel, TP!cancel,
              T!CancelWait, TP!CancelWait, T!tableVars, TP!tableVars
<1>3. T!Poll => TP!Poll
  <2>1. T!Timer = TP!Timer /\ T!Due = TP!Due
    BY DEF T!Timer, TP!Timer, T!Due, TP!Due
  <2>2. \A S : T!Cardinality(S) = TP!Cardinality(S)
    BY DEF T!Cardinality, TP!Cardinality
  <2>3. \A S : T!InExpiryOrder(S) = TP!InExpiryOrder(S)
    BY <2>2 DEF T!InExpiryOrder, TP!InExpiryOrder
  <2>. QED  BY <2>1, <2>2, <2>3 DEF T!Poll, TP!Poll, T!tableVars, TP!tableVars,
                              T!historyVars, TP!historyVars
<1>4. T!Fire => TP!Fire
  BY DEF T!Fire, TP!Fire, T!tableVars, TP!tableVars
<1>5. T!Aborted => TP!Aborted
  BY DEF T!Aborted, TP!Aborted, T!tableVars, TP!tableVars, T!historyVars, TP!historyVars
<1>6. T!FuncReturn => TP!FuncReturn
  BY DEF T!FuncReturn, TP!FuncReturn, T!StartsAgain, TP!StartsAgain, T!NextExpiry,
         TP!NextExpiry, T!tableVars, TP!tableVars, T!historyVars, TP!historyVars
<1>7. T!Tick => TP!Tick
  BY DEF T!Tick, TP!Tick, T!timerVars, TP!timerVars, T!tableVars, TP!tableVars,
         T!historyVars, TP!historyVars
<1>8. T!RunReturns => TP!RunReturns
  BY DEF T!RunReturns, TP!RunReturns, T!Timer, TP!Timer, T!timerVars, TP!timerVars,
         T!tableVars, TP!tableVars, T!historyVars, TP!historyVars
<1>. QED
  BY <1>1, <1>2, <1>3, <1>4, <1>5, <1>6, <1>7, <1>8
     DEF TimerStep, TimerScript, ProcessReturns, TP!Next

\* A handler of the timers begins when no callback runs, and ends its own.
LEMMA TimersKeep == ASSUME PInv, TimerStep PROVE PInv'
<1>0. UNCHANGED socketOnly
  BY DEF TimerStep
<1>1. TP!IInv'
  <2>1. script = "run" => current = 0
    BY DEF PInv, Turns
  <2>. QED  BY <2>1, ProcessAssumption, TimersStep, TP!NextKeeps DEF PInv
<1>2. /\ script' \in {"main", "run", "callback", "aborted"} /\ stopped' = stopped
      /\ script' \in {"main", "run"} => \A s \in Peer : cb[s] = "none"
      /\ current' # 0 => script' \in {"callback", "aborted"} /\ \A s \in Peer : cb[s] = "none"
  <2>1. /\ script \in {"main", "run", "callback", "aborted"}
        /\ script \in {"main", "run"} => \A s \in Peer : cb[s] = "none"
        /\ current # 0 => script \in {"callback", "aborted"} /\ \A s \in Peer : cb[s] = "none"
    BY DEF PInv, LInv, SInv, TypeOK, OneCallback, Turns
  <2>2. CASE TimerScript \/ T!Poll \/ T!Aborted \/ T!Tick
    <3>1. UNCHANGED <<script, stopped, current>>
      BY <2>2 DEF TimerScript, T!Create, T!cancelById, T!Poll, T!Aborted, T!Tick
    <3>. QED  BY <2>1, <3>1
  <2>3. CASE T!Fire
    <3>1. script = "run" /\ script' = "callback" /\ stopped' = stopped
      BY <2>3 DEF T!Fire
    <3>. QED  BY <2>1, <3>1
  <2>4. CASE T!FuncReturn
    <3>1. current # 0 /\ script' = "run" /\ current' = 0 /\ stopped' = stopped
      BY <2>4 DEF T!FuncReturn
    <3>. QED  BY <2>1, <3>1
  <2>. QED  BY <2>2, <2>3, <2>4 DEF TimerStep
<1>3. UNCHANGED <<cbs_, listening, accepts, accepted, refused, backlog, st, held, cb, rd,
                  gone, started, failed>>
  BY <1>0 DEF socketOnly, socketVars, acceptVars, sessionVars, countVars
<1>4. TypeOK'
  BY <1>2, <1>3 DEF PInv, LInv, SInv, TypeOK
<1>5. OneCallback' /\ Accounted' /\ InLine' /\ DescriptorsOwned'
  BY <1>2, <1>3 DEF PInv, LInv, SInv, OneCallback, Accounted, Chains, InLine, Line,
                    DescriptorsOwned
<1>6. Turns'
  BY <1>2, <1>3 DEF Turns
<1>. QED  BY <1>1, <1>4, <1>5, <1>6 DEF PInv, LInv, SInv

\* run() returns out of both.
LEMMA ReturnKeeps == ASSUME PInv, ProcessReturns PROVE PInv'
<1>1. LInv'
  <2>1. Next
    BY DEF ProcessReturns, Next
  <2>. QED  BY <2>1, NextLInv DEF PInv
<1>2. TP!IInv'
  <2>1. script = "run" => current = 0
    BY DEF PInv, Turns
  <2>. QED  BY <2>1, ProcessAssumption, TimersStep, TP!NextKeeps DEF PInv
<1>3. Turns'
  <2>1. script = "run" /\ current' = current
    BY DEF ProcessReturns, T!RunReturns
  <2>. QED  BY <2>1 DEF PInv, Turns
<1>. QED  BY <1>1, <1>2, <1>3 DEF PInv

\* Every step keeps both invariants.
LEMMA NextPInv == PInv /\ [ProcessNext]_processVars => PInv'
<1> SUFFICES ASSUME PInv, [ProcessNext]_processVars PROVE PInv'
  OBVIOUS
<1>1. CASE UNCHANGED processVars
  <2>1. UNCHANGED vars /\ UNCHANGED timersOnly
    BY <1>1 DEF processVars
  <2>2. LInv'
    BY <2>1, NextLInv DEF PInv
  <2>3. UNCHANGED <<current, now, queue, TP!timerVars, TP!tableVars, TP!historyVars>>
    BY <2>1 DEF timersOnly, TP!timerVars, TP!tableVars, TP!historyVars
  <2>4. TP!IInv'
    BY <2>3, ProcessAssumption, TP!RestKeeps DEF PInv
  <2>5. Turns'
    BY <2>1 DEF PInv, Turns, vars, scriptVars, sessionVars, timersOnly
  <2>. QED  BY <2>2, <2>4, <2>5 DEF PInv
<1>. QED  BY <1>1, SocketKeeps, TimersKeep, ReturnKeeps DEF ProcessNext

LEMMA ProcessInvariant == ProcessSpec => []PInv
BY InitPInv, NextPInv, PTL DEF ProcessSpec
-----------------------------------------------------------------------------
(***************************************************************************)
(* The timers keep to their time and their cancels also when callbacks of  *)
(* Sessions come between, and create and cancel timers.                    *)
(***************************************************************************)
THEOREM TimersKeepTime == ProcessSpec => []TimersInProcess
<1>1. TP!IInv => TP!OneWaitEach /\ TP!OnSchedule /\ TP!CancelEndsCalls
  BY ProcessAssumption, TP!QueuedOnce, TP!Scheduled, TP!CancelsEnd
<1>2. PInv => TimersInProcess
  BY <1>1 DEF PInv, TimersInProcess, T!OneWaitEach, TP!OneWaitEach, T!OnSchedule,
              TP!OnSchedule, T!CancelEndsCalls, TP!CancelEndsCalls, T!Timer, TP!Timer
<1>. QED  BY <1>2, ProcessInvariant, PTL

(***************************************************************************)
(* Every accept() of the script is one chain, also of a script that calls  *)
(* it from the callbacks of timers.                                        *)
(***************************************************************************)
THEOREM ChainsInProcess == ProcessSpec => []OneAcceptPerCall
<1>1. PInv => OneAcceptPerCall
  BY RunningAccept DEF PInv, LInv
<1>. QED  BY <1>1, ProcessInvariant, PTL

\* Only ProcessReturns stops the io_context.
LEMMA StopsOnce ==
    ASSUME [ProcessNext]_processVars, stopped', ~stopped
    PROVE  ProcessReturns
<1>1. ~SocketStep
  BY DEF SocketStep, ScriptNext, HandlerNext, PeerNext, setCallBack, listen, Accept,
         connect, Drop, Raise, PollAcceptor, AcceptDone, AcceptError, ConnectDone,
         ConnectError, Message, CallbackReturn, ReadError, Abort, Arrive, Leave,
         Run, scriptVars
<1>2. ~TimerStep
  BY DEF TimerStep, TimerScript, T!Create, T!cancelById, T!Poll, T!Fire, T!Aborted,
         T!FuncReturn, T!Tick
<1>3. stopped' # stopped
  OBVIOUS
<1>. QED  BY <1>1, <1>2, <1>3 DEF ProcessNext, processVars, vars, scriptVars

(***************************************************************************)
(* run() does not return while an accept chain is alive or a timer still   *)
(* has to call.                                                            *)
(***************************************************************************)
THEOREM ReturnsLast == ProcessSpec => ReturnsWhenDone
<1>1. ASSUME PInv, [ProcessNext]_processVars, stopped', ~stopped
      PROVE  failed = started /\ \A t \in exists : T!Done(t)
  <2>1. ProcessReturns
    BY <1>1, StopsOnce
  <2>2. failed = started
    BY <1>1, <2>1, NothingLeft DEF ProcessReturns, RunReturns, PInv, LInv
  <2>3. current = 0 /\ \A t \in TP!Timer : wait[t] = "none"
    BY <1>1, <2>1 DEF ProcessReturns, T!RunReturns, T!Timer, TP!Timer, PInv, Turns
  <2>4. \A t \in exists : TP!Done(t)
    BY <1>1, <2>3, ProcessAssumption, TP!IdleIsDone DEF PInv
  <2>. QED  BY <2>2, <2>4 DEF T!Done, TP!Done
<1>2. PInv /\ [ProcessNext]_processVars =>
          [stopped' /\ ~stopped =>
              failed = started /\ \A t \in exists : T!Done(t)]_processVars
  BY <1>1
<1>. QED  BY <1>2, ProcessInvariant, PTL DEF ProcessSpec, ReturnsWhenDone

(***************************************************************************)
(* Also with timers in the process a Session is introduced once, before    *)
(* any message, and nothing calls back for one that is over.               *)
(***************************************************************************)
THEOREM SessionsInProcess == ProcessSpec => IntroducesSessions
<1>1. ProcessInit => Life!Init
  BY DEF ProcessInit, Init, Life!Init, Phase
<1>2. ASSUME PInv, [ProcessNext]_processVars PROVE Life!Next \/ phases' = phases
  <2>1. CASE SocketStep \/ ProcessReturns \/ UNCHANGED processVars
    <3>1. [Next]_vars
      BY <2>1 DEF SocketStep, ProcessReturns, Next, processVars
    <3>. QED  BY <1>2, <3>1, LifeStep DEF PInv
  <2>2. CASE TimerStep
    BY <2>2 DEF TimerStep, socketOnly, sessionVars, phases, Phase
  <2>. QED  BY <1>2, <2>1, <2>2 DEF ProcessNext
<1>3. PInv /\ [ProcessNext]_processVars => [Life!Next]_phases
  BY <1>2
<1>. QED  BY <1>1, <1>3, ProcessInvariant, PTL
          DEF ProcessSpec, IntroducesSessions, Life!Spec, phases

\* Each step of the process is one of Alarm, or changes nothing there.
LEMMA AlarmsStep ==
    ASSUME PInv, [ProcessNext]_processVars
    PROVE  TP!Alarms!Next \/ TP!alarms' = TP!alarms
<1>1. CASE TimerStep \/ ProcessReturns
  <2>1. script = "run" => current = 0
    BY DEF PInv, Turns
  <2>2. TP!Next
    BY <1>1, TimersStep
  <2>. QED  BY <2>1, <2>2, ProcessAssumption, TP!AlarmStep DEF PInv
<1>2. CASE SocketStep \/ UNCHANGED processVars
  <2>1. UNCHANGED timersOnly
    BY <1>2 DEF SocketStep, processVars
  <2>. QED  BY <2>1 DEF timersOnly, TP!alarms, TP!statuses, TP!Status, TP!dues, TP!DueOf,
                        TP!everys, TP!EveryOf
<1>. QED  BY <1>1, <1>2 DEF ProcessNext

\* The alarms of Process are those of the proofs.
LEMMA SameAlarms ==
    /\ TP!Alarms!Next => T!Alarms!Next
    /\ TP!alarms' = TP!alarms => UNCHANGED T!Alarms!alarmVars
<1>1. TP!Alarms!Tick => T!Alarms!Tick
  BY DEF T!Alarms!Tick, TP!Alarms!Tick, T!Status, TP!Status, T!Timer, TP!Timer
<1>2. ASSUME NEW a \in TP!Timer
      PROVE  /\ TP!Alarms!Set(a) => T!Alarms!Set(a)
             /\ TP!Alarms!Call(a) => T!Alarms!Call(a)
             /\ TP!Alarms!Cancel(a) => T!Alarms!Cancel(a)
             /\ TP!Alarms!Silence(a) => T!Alarms!Silence(a)
  BY DEF T!Alarms!Set, TP!Alarms!Set, T!Alarms!Call, TP!Alarms!Call, T!Alarms!Cancel,
         TP!Alarms!Cancel, T!Alarms!Silence, TP!Alarms!Silence, T!Status, TP!Status,
         T!Timer, TP!Timer
<1>3. T!Timer = TP!Timer
  BY DEF T!Timer, TP!Timer
<1>4. TP!Alarms!Next => T!Alarms!Next
  BY <1>1, <1>2, <1>3 DEF T!Alarms!Next, TP!Alarms!Next
<1>5. TP!alarms' = TP!alarms => UNCHANGED T!Alarms!alarmVars
  BY DEF T!Alarms!alarmVars, TP!alarms, TP!statuses, TP!dues, TP!DueOf, TP!everys,
         TP!EveryOf, T!Status, TP!Status, T!Timer, TP!Timer
<1>. QED  BY <1>4, <1>5

(***************************************************************************)
(* Each timer does what Alarm promises, whatever the handlers of Sessions  *)
(* do between its own, and however long their callbacks run.               *)
(***************************************************************************)
THEOREM AlarmsKeepTime == ProcessSpec => AlarmsInProcess
<1>1. ProcessInit => T!Alarms!Init
  BY DEF ProcessInit, T!Init, T!Alarms!Init, T!Status, T!Timer
<1>2. PInv /\ [ProcessNext]_processVars => [T!Alarms!Next]_(T!Alarms!alarmVars)
  BY AlarmsStep, SameAlarms
<1>. QED
  BY <1>1, <1>2, ProcessInvariant, PTL
     DEF ProcessSpec, AlarmsInProcess, T!ImplementsAlarm, T!Alarms!Spec
=============================================================================
