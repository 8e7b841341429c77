----------------------------- MODULE TimerProofs -----------------------------
(***************************************************************************)
(* Proofs about MyTimer, for any number of timers, ids and intervals and   *)
(* any length of time.                                                     *)
(***************************************************************************)
EXTENDS MyTimer, SequenceTheorems, FiniteSetTheorems, TLAPS

Completion == [t : Timer, ok : BOOLEAN]

\* The ids and the table: an id is given to one timer, and one that is in the
\* table belongs to a timer that exists.
Table ==
    /\ Retained
    /\ DOMAIN mapIdToTimer_ \subseteq timerSet_
    /\ \A i \in DOMAIN mapIdToTimer_ : mapIdToTimer_[i] \in exists
    /\ \A t \in Timer \ exists :
          /\ wait[t] = "none" /\ fired[t] = 0
          /\ cancelled[t] = "no" /\ late[t] = 0
    /\ current # 0 => current \in exists

\* The queue has each queued wait once, and nothing else.
Queued ==
    /\ \A i \in 1..Len(queue) : wait[queue[i].t] = "queued"
    /\ \A t \in Timer : wait[t] = "queued" => \E i \in 1..Len(queue) : queue[i].t = t
    /\ \A i, j \in 1..Len(queue) : queue[i].t = queue[j].t => i = j
    /\ current # 0 => wait[current] = "none"

\* When the call of a timer falls due that comes after n others.
Deadline(t, n) == born[t] + msTime_[t] * n

\* The deadlines of one timer.
OnTime(t) ==
    /\ msTime_[t] \in Interval
    /\ wait[t] # "none" => expiry[t] = Deadline(t, fired[t] + 1)
    /\ current = t => expiry[t] = Deadline(t, fired[t])
    /\ Deadline(t, fired[t]) <= now
    /\ once[t] => ~bLoop_[t]
    /\ once[t] /\ wait[t] # "none" => fired[t] = 0
    /\ once[t] => fired[t] <= 1

\* No completion without an error is queued before its time.
QueuedInTime == \A i \in 1..Len(queue) : queue[i].ok => expiry[queue[i].t] <= now

\* No completion without an error is queued for t.
WillNotCall(t) == \A i \in 1..Len(queue) : queue[i].t = t => ~queue[i].ok

\* What is left to a timer once it has been cancelled.
Cancelling(t) ==
    /\ cancelled[t] = "no" => late[t] = 0
    /\ cancelled[t] # "no" => ~bLoop_[t] /\ wait[t] # "pending"
    /\ cancelled[t] \in {"none", "pending"} => late[t] = 0 /\ WillNotCall(t)
    /\ cancelled[t] = "queued" => late[t] <= 1 /\ (late[t] = 1 => WillNotCall(t))

\* No completion with an error is queued for t.
WillCall(t) == \A i \in 1..Len(queue) : queue[i].t = t => queue[i].ok

\* What is still to come of a timer until it is cancelled.
Going(t) ==
    /\ bLoop_[t] => wait[t] # "none" \/ current = t
    /\ cancelled[t] = "no" => (bLoop_[t] <=> ~once[t]) /\ WillCall(t)
    /\ cancelled[t] = "no" /\ once[t] /\ wait[t] = "none" => fired[t] = 1

Timing == (\A t \in exists : OnTime(t)) /\ QueuedInTime
Cancels == \A t \in Timer : Cancelling(t)
Goes == \A t \in exists : Going(t)

\* The inductive invariant of the timers.  It does not say where the script is:
\* other handlers of the io_context may call back between those of the timers.
IInv == TimerTypes /\ Table /\ Queued /\ Timing /\ Cancels /\ Goes
-----------------------------------------------------------------------------
\* There are finitely many timers, and none is 0.
LEMMA Timers == Timer \subseteq Nat \ {0} /\ IsFiniteSet(Timer)
BY TimerAssumption, FS_Interval DEF Timer

\* Products of naturals, for the provers.
LEMMA Product == \A m, n \in Nat : m * n \in Nat /\ m * (n + 1) = m * n + m
OBVIOUS

\* Before the script runs there is no timer.
LEMMA InitIInv == Init => IInv
<1> SUFFICES ASSUME Init PROVE IInv
  OBVIOUS
<1>1. Len(queue) = 0 /\ queue \in Seq(Completion)
  BY EmptySeq DEF Init
<1>2. DOMAIN mapIdToTimer_ = {}
  BY DEF Init
<1>3. 0 \in 0..MaxNow
  BY TimerAssumption
<1>4. TimerTypes
  <2>1. /\ queue \in Seq([t : Timer, ok : BOOLEAN])
        /\ DOMAIN mapIdToTimer_ \subseteq Id
        /\ \A i \in DOMAIN mapIdToTimer_ : mapIdToTimer_[i] \in Timer
    BY <1>1, <1>2 DEF Completion
  <2>2. \A t \in Timer : expiry[t] <= MaxNow + msTime_[t]
    BY <1>3, TimerAssumption DEF Init
  <2>. QED  BY <2>1, <2>2, <1>3 DEF Init, TimerTypes, Waits
<1>5. Table
  BY <1>2 DEF Init, Table, Retained
<1>6. Queued
  BY <1>1 DEF Init, Queued
<1>7. Timing
  BY <1>1 DEF Init, Timing, QueuedInTime
<1>8. Cancels
  BY <1>1 DEF Init, Cancels, Cancelling, WillNotCall
<1>9. Goes
  BY DEF Init, Goes
<1>. QED  BY <1>4, <1>5, <1>6, <1>7, <1>8, <1>9 DEF IInv
-----------------------------------------------------------------------------
(***************************************************************************)
(* A completion is added at the end of the queue.                          *)
(***************************************************************************)
LEMMA Posted ==
    ASSUME TimerTypes, NEW e \in Completion, queue' = Append(queue, e)
    PROVE  /\ queue' \in Seq(Completion)
           /\ Len(queue) \in Nat /\ Len(queue') = Len(queue) + 1
           /\ \A i \in 1..Len(queue) : queue'[i] = queue[i] /\ queue[i] \in Completion
           /\ queue'[Len(queue) + 1] = e
<1>1. queue \in Seq(Completion)
  BY DEF TimerTypes, Completion
<1>. QED  BY <1>1, AppendProperties, LenProperties

(***************************************************************************)
(* The first completion is taken.                                          *)
(***************************************************************************)
LEMMA Taken ==
    ASSUME TimerTypes, queue # <<>>, queue' = Tail(queue)
    PROVE  /\ queue' \in Seq(Completion)
           /\ Len(queue) \in Nat \ {0} /\ Len(queue') = Len(queue) - 1
           /\ Head(queue) = queue[1] /\ Head(queue) \in Completion
           /\ \A i \in 1..Len(queue') : queue'[i] = queue[i + 1] /\ queue'[i] \in Completion
<1>1. queue \in Seq(Completion)
  BY DEF TimerTypes, Completion
<1>2. Len(queue) \in Nat \ {0}
  BY <1>1, EmptySeq
<1>3. /\ Head(queue) \in Completion
      /\ queue' \in Seq(Completion)
      /\ Len(queue') = Len(queue) - 1
      /\ \A i \in 1..Len(queue') : queue'[i] = queue[i + 1]
  BY <1>1, HeadTailProperties
<1>4. Head(queue) = queue[1]
  BY <1>1, <1>2
<1>5. \A i \in 1..Len(queue') : queue'[i] \in Completion
  BY <1>3, LenProperties
<1>. QED  BY <1>2, <1>3, <1>4, <1>5

(***************************************************************************)
(* The queue with one completion more, of a wait that was not queued.      *)
(***************************************************************************)
LEMMA PostedQueued ==
    ASSUME TimerTypes, Queued, NEW e \in Completion, queue' = Append(queue, e),
           wait[e.t] # "queued", wait' = [wait EXCEPT ![e.t] = "queued"],
           current' = current, current # e.t
    PROVE  Queued'
<1>1. /\ Len(queue) \in Nat /\ Len(queue') = Len(queue) + 1
      /\ \A i \in 1..Len(queue) : queue'[i] = queue[i] /\ queue[i] \in Completion
      /\ queue'[Len(queue) + 1] = e
  BY Posted
<1>2. e.t \in Timer /\ wait \in [Timer -> Waits]
  BY DEF Completion, TimerTypes
<1>3. \A i \in 1..Len(queue) : queue[i].t \in Timer /\ queue[i].t # e.t
  BY <1>1 DEF Queued, Completion
<1>4. \A i \in 1..Len(queue') : i \in 1..Len(queue) \/ i = Len(queue) + 1
  BY <1>1
<1>5. \A i \in 1..Len(queue') : wait'[queue'[i].t] = "queued"
  BY <1>1, <1>2, <1>3, <1>4 DEF Queued
<1>6. ASSUME NEW t \in Timer, wait'[t] = "queued"
      PROVE  \E i \in 1..Len(queue') : queue'[i].t = t
  <2>1. CASE t = e.t
    BY <2>1, <1>1
  <2>2. CASE t # e.t
    <3>1. PICK i \in 1..Len(queue) : queue[i].t = t
      BY <2>2, <1>2, <1>6 DEF Queued
    <3>. QED  BY <3>1, <1>1
  <2>. QED  BY <2>1, <2>2
<1>7. ASSUME NEW i \in 1..Len(queue'), NEW j \in 1..Len(queue'),
             queue'[i].t = queue'[j].t
      PROVE  i = j
  BY <1>1, <1>3, <1>4, <1>7 DEF Queued
<1>8. current' # 0 => wait'[current'] = "none"
  BY <1>2 DEF Queued, TimerTypes
<1>. QED  BY <1>5, <1>6, <1>7, <1>8 DEF Queued

(***************************************************************************)
(* The queue without its first completion, whose wait is over.             *)
(***************************************************************************)
LEMMA TakenQueued ==
    ASSUME TimerTypes, Queued, queue # <<>>, queue' = Tail(queue),
           wait' = [wait EXCEPT ![Head(queue).t] = "none"],
           current' \in {current, Head(queue).t}
    PROVE  /\ Queued'
           /\ \A i \in 1..Len(queue') : queue'[i].t # Head(queue).t
<1> DEFINE h == Head(queue)
<1>1. /\ Len(queue) \in Nat \ {0} /\ Len(queue') = Len(queue) - 1
      /\ h = queue[1] /\ h \in Completion
      /\ \A i \in 1..Len(queue') : queue'[i] = queue[i + 1] /\ queue'[i] \in Completion
  BY Taken
<1>2. h.t \in Timer /\ wait \in [Timer -> Waits]
  BY <1>1 DEF Completion, TimerTypes
<1>3. \A i \in 1..Len(queue') : i + 1 \in 1..Len(queue) /\ i + 1 # 1
  BY <1>1
<1>4. \A i \in 1..Len(queue') : queue'[i].t # h.t /\ queue'[i].t \in Timer
  BY <1>1, <1>3 DEF Queued, Completion
<1>5. \A i \in 1..Len(queue') : wait'[queue'[i].t] = "queued"
  BY <1>1, <1>2, <1>3, <1>4 DEF Queued
<1>6. ASSUME NEW t \in Timer, wait'[t] = "queued"
      PROVE  \E i \in 1..Len(queue') : queue'[i].t = t
  <2>1. t # h.t /\ wait[t] = "queued"
    BY <1>2, <1>6
  <2>2. PICK i \in 1..Len(queue) : queue[i].t = t
    BY <2>1 DEF Queued
  <2>3. i # 1 /\ i - 1 \in 1..Len(queue') /\ (i - 1) + 1 = i
    BY <2>1, <2>2, <1>1
  <2>. QED  BY <2>2, <2>3, <1>1
<1>7. ASSUME NEW i \in 1..Len(queue'), NEW j \in 1..Len(queue'),
             queue'[i].t = queue'[j].t
      PROVE  i = j
  <2>1. i + 1 = j + 1
    BY <1>1, <1>3, <1>7 DEF Queued
  <2>. QED  BY <2>1, <1>1
<1>8. current' # 0 => wait'[current'] = "none"
  BY <1>2 DEF Queued, TimerTypes
<1>. QED  BY <1>4, <1>5, <1>6, <1>7, <1>8 DEF Queued

(***************************************************************************)
(* An order of expiry lists each timer of a set once.                      *)
(***************************************************************************)
LEMMA OrderLists ==
    ASSUME NEW D \in SUBSET Timer, NEW q \in InExpiryOrder(D)
    PROVE  /\ Cardinality(D) \in Nat
           /\ q \in [1..Cardinality(D) -> D]
           /\ \A i, j \in 1..Cardinality(D) : q[i] = q[j] => i = j
           /\ \A t \in D : \E i \in 1..Cardinality(D) : q[i] = t
<1>1. IsFiniteSet(D) /\ Cardinality(D) \in Nat
  BY Timers, FS_Subset, FS_CardinalityType
<1>2. PICK n \in Nat : n = Cardinality(D)
  BY <1>1
<1>3. q \in [1..n -> D] /\ \A i, j \in 1..n : i < j => q[i] # q[j]
  BY <1>2 DEF InExpiryOrder
<1>4. \A i, j \in 1..n : q[i] = q[j] => i = j
  BY <1>3
<1>5. q \in Injection(1..n, D)
  BY <1>3, <1>4 DEF Injection, IsInjective
<1>6. Cardinality(1..n) = n
  BY FS_Interval
<1>7. q \in Surjection(1..n, D)
  BY <1>1, <1>2, <1>5, <1>6, FS_Injection
<1>8. \A t \in D : \E i \in 1..n : q[i] = t
  BY <1>7 DEF Surjection
<1>. QED  BY <1>2, <1>3, <1>4, <1>8

(***************************************************************************)
(* All waits that are due are queued behind what is queued already.        *)
(***************************************************************************)
LEMMA PolledQueued ==
    ASSUME TimerTypes, Queued, Poll
    PROVE  /\ Queued'
           /\ queue' \in Seq(Completion)
           /\ Len(queue) \in Nat
           /\ \A i \in 1..Len(queue) : i \in 1..Len(queue') /\ queue'[i] = queue[i]
           /\ \A i \in 1..Len(queue') :
                 i \notin 1..Len(queue) => queue'[i].t \in Due /\ queue'[i].ok
<1>1. Due \in SUBSET Timer
  BY DEF Due
<1>2. PICK q \in InExpiryOrder(Due) :
         queue' = queue \o [i \in 1..Cardinality(Due) |-> [t |-> q[i], ok |-> TRUE]]
  BY DEF Poll
<1>3. PICK n \in Nat : n = Cardinality(Due)
  BY <1>1, <1>2, OrderLists
<1>4. /\ q \in [1..n -> Due]
      /\ \A i, j \in 1..n : q[i] = q[j] => i = j
      /\ \A t \in Due : \E i \in 1..n : q[i] = t
  BY <1>1, <1>2, <1>3, OrderLists
<1>5. PICK more : more = [i \in 1..n |-> [t |-> q[i], ok |-> TRUE]]
  OBVIOUS
<1>6. \A i \in 1..n : [t |-> q[i], ok |-> TRUE] \in Completion
  BY <1>1, <1>4 DEF Completion
<1>7. more \in Seq(Completion) /\ Len(more) = n
  BY <1>5, <1>6
<1>8. queue \in Seq(Completion) /\ Len(queue) \in Nat
  BY LenProperties DEF TimerTypes, Completion
<1>9. /\ queue' \in Seq(Completion)
      /\ Len(queue') = Len(queue) + n
      /\ \A i \in 1..Len(queue) + n :
            queue'[i] = IF i <= Len(queue) THEN queue[i] ELSE more[i - Len(queue)]
  BY <1>2, <1>3, <1>5, <1>7, <1>8, ConcatProperties
<1>10. \A i \in 1..Len(queue) : i \in 1..Len(queue') /\ queue'[i] = queue[i]
  BY <1>8, <1>9
<1>11. \A i \in 1..n : more[i].t = q[i] /\ more[i].ok
  BY <1>5
<1>12. ASSUME NEW i \in 1..Len(queue'), i \notin 1..Len(queue)
       PROVE  /\ i - Len(queue) \in 1..n
              /\ queue'[i].t = q[i - Len(queue)]
              /\ queue'[i].t \in Due /\ queue'[i].ok
  <2>1. i - Len(queue) \in 1..n /\ queue'[i] = more[i - Len(queue)]
    BY <1>8, <1>9, <1>12
  <2>. QED  BY <2>1, <1>4, <1>11
<1>13. \A i \in 1..Len(queue) : queue[i].t \in Timer /\ queue[i].t \notin Due
  <2>1. \A i \in 1..Len(queue) : queue[i] \in Completion
    BY <1>8, LenProperties
  <2>2. \A i \in 1..Len(queue) : queue[i].t \in Timer
    BY <2>1 DEF Completion
  <2>3. \A t \in Due : wait[t] # "queued"
    BY DEF Due
  <2>. QED  BY <2>2, <2>3 DEF Queued
<1>14. wait' = [t \in Timer |-> IF t \in Due THEN "queued" ELSE wait[t]]
  BY DEF Poll
<1>15. \A i \in 1..Len(queue') : wait'[queue'[i].t] = "queued"
  BY <1>1, <1>10, <1>12, <1>13, <1>14 DEF Queued
<1>16. ASSUME NEW t \in Timer, wait'[t] = "queued"
       PROVE  \E i \in 1..Len(queue') : queue'[i].t = t
  <2>1. CASE t \in Due
    <3>1. PICK i \in 1..n : q[i] = t
      BY <2>1, <1>4
    <3>2. PICK m \in Nat : m = Len(queue)
      BY <1>8
    <3>3. m + i \in 1..(m + n) /\ ~(m + i <= m) /\ (m + i) - m = i
      OBVIOUS
    <3>4. m + i \in 1..Len(queue') /\ queue'[m + i] = more[i]
      BY <1>9, <3>2, <3>3
    <3>. QED  BY <3>1, <3>4, <1>11
  <2>2. CASE t \notin Due
    <3>1. PICK i \in 1..Len(queue) : queue[i].t = t
      BY <2>2, <1>14, <1>16 DEF Queued
    <3>. QED  BY <3>1, <1>10
  <2>. QED  BY <2>1, <2>2
<1>17. ASSUME NEW i \in 1..Len(queue'), NEW j \in 1..Len(queue'),
              queue'[i].t = queue'[j].t
       PROVE  i = j
  <2>1. CASE i \in 1..Len(queue) /\ j \in 1..Len(queue)
    BY <2>1, <1>10, <1>17 DEF Queued
  <2>2. CASE i \notin 1..Len(queue) /\ j \notin 1..Len(queue)
    <3>1. i - Len(queue) = j - Len(queue)
      BY <2>2, <1>4, <1>12, <1>17
    <3>. QED  BY <3>1, <1>8, <1>9
  <2>3. CASE i \in 1..Len(queue) /\ j \notin 1..Len(queue)
    BY <2>3, <1>10, <1>12, <1>13, <1>17
  <2>4. CASE i \notin 1..Len(queue) /\ j \in 1..Len(queue)
    BY <2>4, <1>10, <1>12, <1>13, <1>17
  <2>. QED  BY <2>1, <2>2, <2>3, <2>4
<1>18. current' # 0 => wait'[current'] = "none"
  <2>1. current' = current
    BY DEF Poll
  <2>2. current # 0 => current \in Timer /\ current \notin Due /\ wait[current] = "none"
    BY DEF Queued, Due, TimerTypes
  <2>. QED  BY <2>1, <2>2, <1>14
<1>. QED  BY <1>8, <1>9, <1>10, <1>12, <1>15, <1>16, <1>17, <1>18 DEF Queued

(***************************************************************************)
(* What is in the queue belongs to timers that exist, and are not in their *)
(* callback.                                                               *)
(***************************************************************************)
LEMMA InQueue ==
    ASSUME IInv, NEW i \in 1..Len(queue)
    PROVE  /\ queue[i] \in Completion /\ queue[i].t \in exists /\ queue[i].t \in Timer
           /\ wait[queue[i].t] = "queued" /\ queue[i].t # current
<1>1. queue \in Seq(Completion)
  BY DEF IInv, TimerTypes, Completion
<1>2. queue[i] \in Completion
  BY <1>1, LenProperties
<1>3. queue[i].t \in Timer
  BY <1>2 DEF Completion
<1>4. wait[queue[i].t] = "queued"
  BY DEF IInv, Queued
<1>5. queue[i].t \in exists
  BY <1>3, <1>4 DEF IInv, Table
<1>6. queue[i].t # current
  BY <1>3, <1>4, Timers DEF IInv, Queued
<1>. QED  BY <1>2, <1>3, <1>4, <1>5, <1>6

\* start()'s handler up to the callback.  No other callback of a timer runs.
LEMMA FireKeeps == ASSUME IInv, current = 0, Fire PROVE IInv'
<1> DEFINE t == Head(queue).t
<1>0. TimerTypes /\ Table /\ Queued /\ Timing /\ Cancels /\ Goes
  BY DEF IInv
<1>1. /\ queue' \in Seq(Completion)
      /\ Len(queue) \in Nat \ {0} /\ Len(queue') = Len(queue) - 1
      /\ Head(queue) = queue[1]
      /\ \A i \in 1..Len(queue') : queue'[i] = queue[i + 1] /\ queue'[i] \in Completion
  BY <1>0, Taken DEF Fire
<1>2. 1 \in 1..Len(queue) /\ \A i \in 1..Len(queue') : i + 1 \in 1..Len(queue)
  BY <1>1
<1>3. /\ t \in exists /\ t \in Timer /\ t # 0 /\ wait[t] = "queued"
      /\ queue[1].ok /\ queue[1].t = t
  BY <1>1, <1>2, InQueue, Timers DEF Fire
<1>4. /\ script' = "callback" /\ current' = t
      /\ wait' = [wait EXCEPT ![t] = "none"]
      /\ fired' = [fired EXCEPT ![t] = @ + 1]
      /\ late' = [late EXCEPT ![t] = IF cancelled[t] = "no" THEN @ ELSE @ + 1]
      /\ UNCHANGED <<stopped, now, exists, id_, msTime_, bLoop_, expiry,
                     timerSet_, mapIdToTimer_, born, once, cancelled>>
  BY DEF Fire, tableVars
<1>5. Queued' /\ \A i \in 1..Len(queue') : queue'[i].t # t
  BY <1>0, <1>4, TakenQueued DEF Fire
<1>6. TimerTypes'
  <2>1. /\ wait \in [Timer -> Waits]
        /\ fired \in [Timer -> Nat]
        /\ late \in [Timer -> Nat]
    BY <1>0 DEF TimerTypes
  <2>2. fired[t] \in Nat /\ late[t] \in Nat
    BY <1>3, <2>1
  <2>3. /\ fired[t] + 1 \in Nat
        /\ (IF cancelled[t] = "no" THEN late[t] ELSE late[t] + 1) \in Nat
    BY <2>2
  <2>4. "none" \in Waits
    BY DEF Waits
  <2>5. wait' \in [Timer -> Waits]
    BY <1>4, <2>1, <2>4
  <2>6. fired' \in [Timer -> Nat]
    BY <1>4, <2>1, <2>3
  <2>7. late' \in [Timer -> Nat]
    BY <1>4, <2>1, <2>3
  <2>. QED  BY <1>0, <1>1, <1>3, <1>4, <2>5, <2>6, <2>7 DEF TimerTypes, Completion
<1>7. Table'
  BY <1>0, <1>3, <1>4 DEF Table, Retained, TimerTypes
<1>8. ASSUME NEW u \in exists PROVE OnTime(u)'
  <2>1. OnTime(u) /\ u \in Timer
    BY <1>0 DEF Timing, TimerTypes
  <2>2. CASE u = t
    <3>1. /\ wait'[u] = "none" /\ fired'[u] = fired[u] + 1
          /\ Deadline(u, fired[u] + 1) = expiry[u] /\ expiry[u] <= now
      BY <1>0, <1>2, <1>3, <1>4, <2>1, <2>2 DEF OnTime, Timing, QueuedInTime, TimerTypes
    <3>2. Deadline(u, fired[u])' = Deadline(u, fired[u] + 1)
      BY <1>4, <3>1 DEF Deadline
    <3>3. once[u] => fired[u] = 0
      BY <1>3, <2>1, <2>2 DEF OnTime
    <3>. QED  BY <1>4, <2>1, <2>2, <3>1, <3>2, <3>3 DEF OnTime
  <2>3. CASE u # t
    <3>1. wait'[u] = wait[u] /\ fired'[u] = fired[u]
      BY <1>0, <1>4, <2>1, <2>3 DEF TimerTypes
    <3>2. /\ Deadline(u, fired[u])' = Deadline(u, fired[u])
          /\ Deadline(u, fired[u] + 1)' = Deadline(u, fired[u] + 1)
      BY <1>4, <3>1 DEF Deadline
    <3>. QED  BY <1>4, <2>1, <2>3, <3>1, <3>2 DEF OnTime
  <2>. QED  BY <2>2, <2>3
<1>9. Timing'
  <2>1. QueuedInTime'
    BY <1>0, <1>1, <1>2, <1>4 DEF Timing, QueuedInTime
  <2>. QED  BY <1>4, <1>8, <2>1 DEF Timing
<1>10. ASSUME NEW u \in Timer PROVE Cancelling(u)'
  <2>1. Cancelling(u)
    BY <1>0 DEF Cancels
  <2>2. CASE u = t
    <3>1. WillNotCall(u)' /\ wait'[u] = "none"
      BY <1>0, <1>4, <1>5, <2>2 DEF WillNotCall, TimerTypes
    <3>2. ~WillNotCall(u)
      BY <1>2, <1>3, <2>2 DEF WillNotCall
    <3>3. /\ late[u] \in Nat /\ cancelled[u] \in Waits \cup {"no"}
          /\ late'[u] = IF cancelled[u] = "no" THEN late[u] ELSE late[u] + 1
      BY <1>0, <1>4, <2>2 DEF TimerTypes
    <3>. QED  BY <1>4, <2>1, <3>1, <3>2, <3>3 DEF Cancelling, Waits
  <2>3. CASE u # t
    <3>1. late'[u] = late[u] /\ wait'[u] = wait[u]
      BY <1>0, <1>4, <2>3 DEF TimerTypes
    <3>2. WillNotCall(u) => WillNotCall(u)'
      BY <1>1, <1>2 DEF WillNotCall
    <3>. QED  BY <1>4, <2>1, <3>1, <3>2 DEF Cancelling
  <2>. QED  BY <2>2, <2>3
<1>11. Cancels'
  BY <1>10 DEF Cancels
<1>12. ASSUME NEW u \in exists PROVE Going(u)'
  <2>1. Going(u) /\ OnTime(u) /\ u \in Timer
    BY <1>0 DEF Goes, Timing, TimerTypes
  <2>2. WillCall(u) => WillCall(u)'
    BY <1>1, <1>2 DEF WillCall
  <2>3. CASE u = t
    <3>1. wait'[u] = "none" /\ current' = u
      BY <1>0, <1>4, <2>3 DEF TimerTypes
    <3>2. once[u] => fired[u] = 0
      BY <1>3, <2>1, <2>3 DEF OnTime
    <3>3. once[u] => fired'[u] = 1
      BY <1>0, <1>4, <2>1, <2>3, <3>2 DEF TimerTypes
    <3>. QED  BY <1>4, <2>1, <2>2, <3>1, <3>3 DEF Going
  <2>4. CASE u # t
    <3>1. wait'[u] = wait[u] /\ fired'[u] = fired[u]
      BY <1>0, <1>4, <2>1, <2>4 DEF TimerTypes
    <3>2. current # u
      BY <2>1, Timers
    <3>. QED  BY <1>4, <2>1, <2>2, <3>1, <3>2 DEF Going
  <2>. QED  BY <2>3, <2>4
<1>13. Goes'
  BY <1>4, <1>12 DEF Goes
<1>. QED  BY <1>5, <1>6, <1>7, <1>9, <1>11, <1>13 DEF IInv

\* start()'s handler with an error.
LEMMA AbortedKeeps == ASSUME IInv, Aborted PROVE IInv'
<1> DEFINE t == Head(queue).t
<1>0. TimerTypes /\ Table /\ Queued /\ Timing /\ Cancels /\ Goes
  BY DEF IInv
<1>1. /\ queue' \in Seq(Completion)
      /\ Len(queue) \in Nat \ {0} /\ Len(queue') = Len(queue) - 1
      /\ Head(queue) = queue[1]
      /\ \A i \in 1..Len(queue') : queue'[i] = queue[i + 1] /\ queue'[i] \in Completion
  BY <1>0, Taken DEF Aborted
<1>2. 1 \in 1..Len(queue) /\ \A i \in 1..Len(queue') : i + 1 \in 1..Len(queue)
  BY <1>1
<1>3. t \in exists /\ t \in Timer /\ wait[t] = "queued" /\ t # current
  BY <1>1, <1>2, InQueue
<1>4. /\ wait' = [wait EXCEPT ![t] = "none"]
      /\ UNCHANGED <<script, current, stopped, now, exists, id_, msTime_, bLoop_, expiry,
                     timerSet_, mapIdToTimer_, born, once, fired, cancelled, late>>
  BY DEF Aborted, tableVars, historyVars
<1>5. Queued'
  BY <1>0, <1>4, TakenQueued DEF Aborted
<1>6. TimerTypes'
  <2>1. wait' \in [Timer -> Waits]
    BY <1>0, <1>4 DEF TimerTypes, Waits
  <2>. QED  BY <1>0, <1>1, <1>4, <2>1 DEF TimerTypes, Completion
<1>7. Table'
  BY <1>0, <1>3, <1>4 DEF Table, Retained, TimerTypes
<1>8. \A u \in Timer : wait'[u] = IF u = t THEN "none" ELSE wait[u]
  BY <1>0, <1>4 DEF TimerTypes
<1>9. ASSUME NEW u \in exists PROVE OnTime(u)'
  <2>1. OnTime(u) /\ u \in Timer
    BY <1>0 DEF Timing, TimerTypes
  <2>2. /\ Deadline(u, fired[u])' = Deadline(u, fired[u])
        /\ Deadline(u, fired[u] + 1)' = Deadline(u, fired[u] + 1)
    BY <1>4 DEF Deadline
  <2>3. wait'[u] # "none" => wait[u] # "none"
    BY <1>8, <2>1
  <2>. QED  BY <1>4, <2>1, <2>2, <2>3 DEF OnTime
<1>10. Timing'
  <2>1. QueuedInTime'
    BY <1>0, <1>1, <1>2, <1>4 DEF Timing, QueuedInTime
  <2>. QED  BY <1>4, <1>9, <2>1 DEF Timing
<1>11. Cancels'
  <2>1. \A u \in Timer : WillNotCall(u) => WillNotCall(u)'
    BY <1>1, <1>2 DEF WillNotCall
  <2>. QED  BY <1>0, <1>4, <1>8, <2>1 DEF Cancels, Cancelling
<1>12. ASSUME NEW u \in exists PROVE Going(u)'
  <2>1. Going(u) /\ Cancelling(u) /\ u \in Timer
    BY <1>0 DEF Goes, Cancels, TimerTypes
  <2>2. WillCall(u) => WillCall(u)'
    BY <1>1, <1>2 DEF WillCall
  <2>3. CASE u = t
    <3>1. ~WillCall(u)
      BY <1>1, <1>2, <2>3 DEF WillCall, Aborted
    <3>2. cancelled[u] # "no" /\ ~bLoop_[u]
      BY <2>1, <3>1 DEF Going, Cancelling
    <3>. QED  BY <1>4, <3>2 DEF Going
  <2>4. CASE u # t
    <3>1. wait'[u] = wait[u]
      BY <1>8, <2>1, <2>4
    <3>. QED  BY <1>4, <2>1, <2>2, <3>1 DEF Going
  <2>. QED  BY <2>3, <2>4
<1>13. Goes'
  BY <1>4, <1>12 DEF Goes
<1>. QED  BY <1>5, <1>6, <1>7, <1>10, <1>11, <1>13 DEF IInv

\* timer(): the new timer gets an id that is not in the table, so it is
\* retained and its wait is pending.
LEMMA CreateKeeps ==
    ASSUME IInv, NEW t \in Timer, NEW ms \in Interval, NEW loop \in BOOLEAN,
           Create(t, ms, loop)
    PROVE  IInv'
<1>0. TimerTypes /\ Table /\ Queued /\ Timing /\ Cancels /\ Goes
  BY DEF IInv
<1>1. PICK i \in Id : uuid(i) /\ mytimer(t, ms, loop, i) /\ retain(t, i)
         /\ IF i \in DOMAIN mapIdToTimer_
            THEN /\ wait' = [wait EXCEPT ![t] = "queued"]
                 /\ queue' = Append(queue, [t |-> t, ok |-> FALSE])
            ELSE /\ wait' = [wait EXCEPT ![t] = "pending"]
                 /\ UNCHANGED queue
  BY DEF Create
<1>2. i \notin DOMAIN mapIdToTimer_ /\ i \notin timerSet_
  BY <1>0, <1>1 DEF uuid, Table
<1>3. /\ wait' = [wait EXCEPT ![t] = "pending"]
      /\ exists' = exists \cup {t}
      /\ id_' = [id_ EXCEPT ![t] = i]
      /\ timerSet_' = timerSet_ \cup {i}
      /\ msTime_' = [msTime_ EXCEPT ![t] = ms]
      /\ bLoop_' = [bLoop_ EXCEPT ![t] = loop]
      /\ expiry' = [expiry EXCEPT ![t] = now + ms]
      /\ born' = [born EXCEPT ![t] = now]
      /\ once' = [once EXCEPT ![t] = ~loop]
      /\ UNCHANGED <<queue, script, current, stopped, now, fired, cancelled, late>>
  BY <1>1, <1>2 DEF mytimer, Create
<1>4. /\ DOMAIN mapIdToTimer_' = DOMAIN mapIdToTimer_ \cup {i}
      /\ mapIdToTimer_'[i] = t
      /\ \A x \in DOMAIN mapIdToTimer_ : mapIdToTimer_'[x] = mapIdToTimer_[x]
  BY <1>1, <1>2 DEF retain
<1>5. /\ t \notin exists /\ wait[t] = "none" /\ fired[t] = 0
      /\ cancelled[t] = "no" /\ late[t] = 0 /\ t # current
  BY <1>0, Timers DEF Create, Table
<1>6. ms \in Nat /\ now \in Nat /\ now <= MaxNow /\ MaxNow \in Nat
  BY <1>0, TimerAssumption DEF TimerTypes
<1>7. \A u \in Timer : u # t => /\ wait'[u] = wait[u] /\ id_'[u] = id_[u]
                                /\ msTime_'[u] = msTime_[u] /\ bLoop_'[u] = bLoop_[u]
                                /\ expiry'[u] = expiry[u] /\ born'[u] = born[u]
                                /\ once'[u] = once[u]
  BY <1>0, <1>3 DEF TimerTypes
<1>8. /\ wait'[t] = "pending" /\ id_'[t] = i /\ msTime_'[t] = ms /\ bLoop_'[t] = loop
      /\ expiry'[t] = now + ms /\ born'[t] = now /\ once'[t] = ~loop
  BY <1>0, <1>3 DEF TimerTypes
<1>9. TimerTypes'
  <2>1. /\ id_' \in [Timer -> Id \cup {0}] /\ msTime_' \in [Timer -> Interval \cup {0}]
        /\ bLoop_' \in [Timer -> BOOLEAN] /\ once' \in [Timer -> BOOLEAN]
        /\ wait' \in [Timer -> Waits] /\ born' \in [Timer -> 0..MaxNow]
    BY <1>0, <1>3 DEF TimerTypes, Waits
  <2>2. expiry' \in [Timer -> Nat]
    BY <1>0, <1>3, <1>6 DEF TimerTypes
  <2>3. ASSUME NEW u \in Timer PROVE expiry'[u] <= MaxNow + msTime_'[u]
    <3>1. CASE u = t
      BY <3>1, <1>6, <1>8
    <3>2. CASE u # t
      BY <3>2, <1>0, <1>7 DEF TimerTypes
    <3>. QED  BY <3>1, <3>2
  <2>4. /\ DOMAIN mapIdToTimer_' \subseteq Id
        /\ \A x \in DOMAIN mapIdToTimer_' : mapIdToTimer_'[x] \in Timer
    BY <1>0, <1>4 DEF TimerTypes
  <2>5. exists' \subseteq Timer /\ timerSet_' \subseteq Id
    BY <1>0, <1>3 DEF TimerTypes
  <2>. QED  BY <1>0, <1>3, <2>1, <2>2, <2>3, <2>4, <2>5 DEF TimerTypes
<1>10. Table'
  <2>1. \A u \in exists : u \in Timer /\ u # t
    BY <1>0, <1>5 DEF TimerTypes
  <2>2. Retained'
    BY <1>0, <1>3, <1>4, <1>7, <1>8, <2>1 DEF Table, Retained
  <2>. QED  BY <1>0, <1>3, <1>4, <1>7, <2>2 DEF Table
<1>11. \A j \in 1..Len(queue) : queue[j].t \in Timer /\ queue[j].t # t
  BY <1>5, InQueue
<1>12. Queued'
  <2>1. \A j \in 1..Len(queue) : wait'[queue[j].t] = "queued"
    BY <1>0, <1>7, <1>11 DEF Queued
  <2>2. \A u \in Timer : wait'[u] = "queued" => \E j \in 1..Len(queue) : queue[j].t = u
    BY <1>0, <1>7, <1>8 DEF Queued
  <2>3. current # 0 => wait'[current] = "none"
    BY <1>0, <1>5, <1>7 DEF Queued, TimerTypes
  <2>. QED  BY <1>0, <1>3, <2>1, <2>2, <2>3 DEF Queued
<1>13. ASSUME NEW u \in exists' PROVE OnTime(u)'
  <2>1. CASE u = t
    <3>1. Deadline(t, 0)' = now /\ Deadline(t, 1)' = now + ms
      BY <1>6, <1>8 DEF Deadline
    <3>2. Deadline(t, fired[t])' = now /\ Deadline(t, fired[t] + 1)' = now + ms
      BY <1>3, <1>5, <3>1
    <3>3. /\ fired'[t] = 0 /\ current' # t /\ now' = now
          /\ msTime_'[t] \in Interval /\ expiry'[t] = now + ms
      BY <1>3, <1>5, <1>8
    <3>4. once'[t] => ~bLoop_'[t]
      BY <1>8
    <3>. QED  BY <1>6, <2>1, <3>2, <3>3, <3>4 DEF OnTime
  <2>2. CASE u # t
    <3>1. u \in exists /\ u \in Timer /\ OnTime(u)
      BY <1>0, <1>3, <2>2 DEF Timing, TimerTypes
    <3>2. /\ Deadline(u, fired[u])' = Deadline(u, fired[u])
          /\ Deadline(u, fired[u] + 1)' = Deadline(u, fired[u] + 1)
      BY <1>3, <1>7, <2>2, <3>1 DEF Deadline
    <3>. QED  BY <1>3, <1>7, <2>2, <3>1, <3>2 DEF OnTime
  <2>. QED  BY <2>1, <2>2
<1>14. Timing'
  <2>1. QueuedInTime'
    BY <1>0, <1>3, <1>7, <1>11 DEF Timing, QueuedInTime
  <2>. QED  BY <1>13, <2>1 DEF Timing
<1>15. ASSUME NEW u \in Timer PROVE Cancelling(u)'
  <2>1. CASE u = t
    BY <1>3, <1>5, <2>1 DEF Cancelling
  <2>2. CASE u # t
    <3>1. WillNotCall(u) => WillNotCall(u)'
      BY <1>3 DEF WillNotCall
    <3>. QED  BY <1>0, <1>3, <1>7, <2>2, <3>1 DEF Cancels, Cancelling
  <2>. QED  BY <2>1, <2>2
<1>16. Cancels'
  BY <1>15 DEF Cancels
<1>17. ASSUME NEW u \in exists' PROVE Going(u)'
  <2>1. CASE u = t
    <3>1. WillCall(t)'
      BY <1>3, <1>11 DEF WillCall
    <3>2. wait'[t] # "none" /\ (bLoop_'[t] <=> ~once'[t])
      BY <1>8
    <3>. QED  BY <2>1, <3>1, <3>2 DEF Going
  <2>2. CASE u # t
    <3>1. u \in exists /\ u \in Timer /\ Going(u)
      BY <1>0, <1>3, <2>2 DEF Goes, TimerTypes
    <3>2. WillCall(u) => WillCall(u)'
      BY <1>3 DEF WillCall
    <3>. QED  BY <1>3, <1>7, <2>2, <3>1, <3>2 DEF Going
  <2>. QED  BY <2>1, <2>2
<1>18. Goes'
  BY <1>17 DEF Goes
<1>. QED  BY <1>9, <1>10, <1>12, <1>14, <1>16, <1>18 DEF IInv

\* timerCancel(), whatever the timer's wait is at that moment.
LEMMA CancelKeeps == ASSUME IInv, NEW i \in Id, cancelById(i) PROVE IInv'
<1>0. TimerTypes /\ Table /\ Queued /\ Timing /\ Cancels /\ Goes
  BY DEF IInv
<1>1. PICK t \in exists : t = mapIdToTimer_[i]
  BY <1>0 DEF cancelById, Table
<1>2. /\ t \in Timer
      /\ bLoop_' = [bLoop_ EXCEPT ![t] = FALSE]
      /\ CancelWait(t)
      /\ cancelled' = [cancelled EXCEPT ![t] = IF @ = "no" THEN wait[t] ELSE @]
      /\ UNCHANGED <<script, current, stopped, now, exists, id_, msTime_, expiry,
                     timerSet_, mapIdToTimer_, born, once, fired, late>>
  BY <1>0, <1>1 DEF cancelById, cancel, tableVars, TimerTypes
<1>3. /\ bLoop_' \in [Timer -> BOOLEAN] /\ bLoop_'[t] = FALSE
      /\ \A u \in Timer : u # t => bLoop_'[u] = bLoop_[u] /\ cancelled'[u] = cancelled[u]
      /\ cancelled' \in [Timer -> Waits \cup {"no"}]
      /\ cancelled'[t] = IF cancelled[t] = "no" THEN wait[t] ELSE cancelled[t]
      /\ wait[t] \in Waits
  BY <1>0, <1>2 DEF TimerTypes
<1>4. /\ wait' \in [Timer -> Waits]
      /\ \A u \in Timer : u # t => wait'[u] = wait[u]
      /\ wait'[t] = IF wait[t] = "pending" THEN "queued" ELSE wait[t]
  BY <1>0, <1>2 DEF CancelWait, TimerTypes, Waits
<1>5. /\ queue' \in Seq(Completion) /\ Queued' /\ Len(queue) \in Nat
      /\ \A j \in 1..Len(queue) : j \in 1..Len(queue') /\ queue'[j] = queue[j]
      /\ \A j \in 1..Len(queue') :
            j \notin 1..Len(queue) => queue'[j].t = t /\ ~queue'[j].ok
  <2> DEFINE e == [t |-> t, ok |-> FALSE]
  <2>1. CASE wait[t] = "pending"
    <3>1. wait' = [wait EXCEPT ![t] = "queued"] /\ queue' = Append(queue, e)
      BY <1>2, <2>1 DEF CancelWait
    <3>2. e \in Completion /\ e.t = t /\ ~e.ok
      BY <1>2 DEF Completion
    <3>3. current # t
      BY <1>0, <1>2, <2>1, Timers DEF Queued
    <3>4. Queued'
      BY <1>0, <1>2, <2>1, <3>1, <3>2, <3>3, PostedQueued
    <3>5. /\ queue' \in Seq(Completion)
          /\ Len(queue) \in Nat /\ Len(queue') = Len(queue) + 1
          /\ \A j \in 1..Len(queue) : queue'[j] = queue[j]
          /\ queue'[Len(queue) + 1] = e
      BY <1>0, <3>1, <3>2, Posted
    <3>6. \A j \in 1..Len(queue') : j \in 1..Len(queue) \/ j = Len(queue) + 1
      BY <3>5
    <3>7. \A j \in 1..Len(queue) : j \in 1..Len(queue')
      BY <3>5
    <3>. QED  BY <3>2, <3>4, <3>5, <3>6, <3>7
  <2>2. CASE wait[t] # "pending"
    <3>1. UNCHANGED <<wait, queue>>
      BY <1>2, <2>2 DEF CancelWait
    <3>2. queue \in Seq(Completion) /\ Len(queue) \in Nat
      BY <1>0, LenProperties DEF TimerTypes, Completion
    <3>. QED  BY <1>0, <1>2, <3>1, <3>2 DEF Queued
  <2>. QED  BY <2>1, <2>2
<1>6. TimerTypes'
  BY <1>0, <1>2, <1>3, <1>4, <1>5 DEF TimerTypes, Completion
<1>7. Table'
  BY <1>0, <1>1, <1>2, <1>3, <1>4 DEF Table, Retained
<1>8. ASSUME NEW u \in exists PROVE OnTime(u)'
  <2>1. OnTime(u) /\ u \in Timer
    BY <1>0 DEF Timing, TimerTypes
  <2>2. /\ Deadline(u, fired[u])' = Deadline(u, fired[u])
        /\ Deadline(u, fired[u] + 1)' = Deadline(u, fired[u] + 1)
    BY <1>2 DEF Deadline
  <2>3. wait'[u] # "none" => wait[u] # "none"
    BY <1>4, <2>1
  <2>4. once[u] => ~bLoop_'[u]
    BY <1>3, <2>1 DEF OnTime
  <2>. QED  BY <1>2, <2>1, <2>2, <2>3, <2>4 DEF OnTime
<1>9. Timing'
  <2>1. QueuedInTime'
    BY <1>0, <1>2, <1>5 DEF Timing, QueuedInTime
  <2>. QED  BY <1>2, <1>8, <2>1 DEF Timing
<1>10. \A u \in Timer : WillNotCall(u) => WillNotCall(u)'
  BY <1>5 DEF WillNotCall
<1>11. ASSUME NEW u \in Timer PROVE Cancelling(u)'
  <2>1. Cancelling(u)
    BY <1>0 DEF Cancels
  <2>2. CASE u # t
    BY <1>2, <1>3, <1>4, <1>10, <2>1, <2>2 DEF Cancelling
  <2>3. CASE u = t
    <3>1. ~bLoop_'[u] /\ wait'[u] # "pending" /\ cancelled'[u] # "no"
      BY <1>3, <1>4, <2>1, <2>3 DEF Cancelling, Waits
    <3>2. wait[u] # "queued" => WillNotCall(u)
      BY <1>0 DEF Queued, WillNotCall
    <3>3. CASE cancelled[u] = "no"
      BY <1>2, <1>3, <1>10, <2>1, <2>3, <3>1, <3>2, <3>3 DEF Cancelling
    <3>4. CASE cancelled[u] # "no"
      BY <1>2, <1>3, <1>10, <2>1, <2>3, <3>1, <3>4 DEF Cancelling
    <3>. QED  BY <3>3, <3>4
  <2>. QED  BY <2>2, <2>3
<1>12. Cancels'
  BY <1>11 DEF Cancels
<1>13. ASSUME NEW u \in exists PROVE Going(u)'
  <2>1. Going(u) /\ u \in Timer
    BY <1>0 DEF Goes, TimerTypes
  <2>2. CASE u = t
    <3>1. ~bLoop_'[u] /\ cancelled'[u] # "no"
      BY <1>3, <2>2 DEF Waits
    <3>. QED  BY <3>1 DEF Going
  <2>3. CASE u # t
    <3>1. WillCall(u) => WillCall(u)'
      BY <1>5, <2>3 DEF WillCall
    <3>. QED  BY <1>2, <1>3, <1>4, <2>1, <2>3, <3>1 DEF Going
  <2>. QED  BY <2>2, <2>3
<1>14. Goes'
  BY <1>2, <1>13 DEF Goes
<1>. QED  BY <1>5, <1>6, <1>7, <1>9, <1>12, <1>14 DEF IInv

\* The io_context polls the clock.
LEMMA PollKeeps == ASSUME IInv, Poll PROVE IInv'
<1>0. TimerTypes /\ Table /\ Queued /\ Timing /\ Cancels /\ Goes
  BY DEF IInv
<1>1. /\ Queued' /\ queue' \in Seq(Completion)
      /\ Len(queue) \in Nat
      /\ \A i \in 1..Len(queue) : i \in 1..Len(queue') /\ queue'[i] = queue[i]
      /\ \A i \in 1..Len(queue') :
            i \notin 1..Len(queue) => queue'[i].t \in Due /\ queue'[i].ok
  BY <1>0, PolledQueued
<1>2. /\ wait' = [t \in Timer |-> IF t \in Due THEN "queued" ELSE wait[t]]
      /\ UNCHANGED <<script, current, stopped, now, exists, id_, msTime_, bLoop_, expiry,
                     timerSet_, mapIdToTimer_, born, once, fired, cancelled, late>>
  BY DEF Poll, tableVars, historyVars
<1>3. \A t \in Due : t \in Timer /\ wait[t] = "pending" /\ expiry[t] <= now
  BY DEF Due
<1>4. /\ wait' \in [Timer -> Waits]
      /\ \A t \in Timer : wait'[t] = IF t \in Due THEN "queued" ELSE wait[t]
  BY <1>0, <1>2 DEF TimerTypes, Waits
<1>5. \A t \in Due : t \in exists
  BY <1>0, <1>3 DEF Table
<1>6. TimerTypes'
  BY <1>0, <1>1, <1>2, <1>4 DEF TimerTypes, Completion
<1>7. Table'
  BY <1>0, <1>2, <1>4, <1>5 DEF Table, Retained
<1>8. ASSUME NEW u \in exists PROVE OnTime(u)'
  <2>1. OnTime(u) /\ u \in Timer
    BY <1>0 DEF Timing, TimerTypes
  <2>2. /\ Deadline(u, fired[u])' = Deadline(u, fired[u])
        /\ Deadline(u, fired[u] + 1)' = Deadline(u, fired[u] + 1)
    BY <1>2 DEF Deadline
  <2>3. wait'[u] # "none" => wait[u] # "none"
    BY <1>3, <1>4, <2>1
  <2>. QED  BY <1>2, <2>1, <2>2, <2>3 DEF OnTime
<1>9. Timing'
  <2>1. QueuedInTime'
    BY <1>0, <1>1, <1>2, <1>3 DEF Timing, QueuedInTime
  <2>. QED  BY <1>2, <1>8, <2>1 DEF Timing
<1>10. ASSUME NEW u \in Timer PROVE Cancelling(u)'
  <2>1. Cancelling(u)
    BY <1>0 DEF Cancels
  <2>2. CASE cancelled[u] = "no"
    BY <1>2, <2>1, <2>2 DEF Cancelling
  <2>3. CASE cancelled[u] # "no"
    <3>1. u \notin Due
      BY <1>3, <2>1, <2>3 DEF Cancelling
    <3>2. WillNotCall(u) => WillNotCall(u)'
      BY <1>1, <3>1 DEF WillNotCall
    <3>. QED  BY <1>2, <1>4, <2>1, <2>3, <3>1, <3>2 DEF Cancelling
  <2>. QED  BY <2>2, <2>3
<1>11. Cancels'
  BY <1>10 DEF Cancels
<1>12. ASSUME NEW u \in exists PROVE Going(u)'
  <2>1. Going(u) /\ u \in Timer
    BY <1>0 DEF Goes, TimerTypes
  <2>2. wait'[u] = "none" <=> wait[u] = "none"
    BY <1>3, <1>4, <2>1
  <2>3. WillCall(u) => WillCall(u)'
    BY <1>1 DEF WillCall
  <2>. QED  BY <1>2, <2>1, <2>2, <2>3 DEF Going
<1>13. Goes'
  BY <1>2, <1>12 DEF Goes
<1>. QED  BY <1>1, <1>6, <1>7, <1>9, <1>11, <1>13 DEF IInv

\* What TimerTypes says of the numbers of a timer.
LEMMA Numbers ==
    ASSUME TimerTypes, NEW t \in Timer
    PROVE  /\ msTime_[t] \in Nat /\ fired[t] \in Nat /\ born[t] \in Nat /\ expiry[t] \in Nat
           /\ now \in Nat /\ now <= MaxNow /\ MaxNow \in Nat
<1>1. msTime_ \in [Timer -> Interval \cup {0}] /\ Interval \cup {0} \subseteq Nat
  BY TimerAssumption DEF TimerTypes
<1>2. fired \in [Timer -> Nat] /\ born \in [Timer -> 0..MaxNow] /\ expiry \in [Timer -> Nat]
  BY DEF TimerTypes
<1>3. now \in 0..MaxNow /\ MaxNow \in Nat
  BY TimerAssumption DEF TimerTypes
<1>4. msTime_[t] \in Interval \cup {0} /\ born[t] \in 0..MaxNow
  BY <1>1, <1>2
<1>5. fired[t] \in Nat /\ expiry[t] \in Nat
  BY <1>2
<1>. QED  BY <1>1, <1>3, <1>4, <1>5

\* func_ returns: a loop timer waits for its next deadline.
LEMMA FuncReturnKeeps == ASSUME IInv, FuncReturn PROVE IInv'
<1>0. TimerTypes /\ Table /\ Queued /\ Timing /\ Cancels /\ Goes
  BY DEF IInv
<1>1. PICK c \in exists : c = current
  BY <1>0 DEF FuncReturn, Table
<1>2. /\ c \in Timer /\ c # 0 /\ wait[c] = "none"
      /\ OnTime(c) /\ Cancelling(c)
      /\ \A i \in 1..Len(queue) : queue[i].t # c /\ queue[i].t \in Timer
  BY <1>0, <1>1, InQueue, Timers DEF Queued, Timing, Cancels, TimerTypes
<1>3. /\ script' = "run" /\ current' = 0
      /\ UNCHANGED <<stopped, now, queue, exists, id_, msTime_, bLoop_,
                     timerSet_, mapIdToTimer_, born, once, fired, cancelled, late>>
  BY DEF FuncReturn, tableVars, historyVars
<1>4. /\ wait' \in [Timer -> Waits]
      /\ \A u \in Timer : u # c => wait'[u] = wait[u] /\ expiry'[u] = expiry[u]
      /\ bLoop_[c] => wait'[c] = "pending" /\ expiry'[c] = expiry[c] + msTime_[c]
      /\ ~bLoop_[c] => wait'[c] = "none" /\ expiry'[c] = expiry[c]
  BY <1>0, <1>1, <1>2 DEF FuncReturn, StartsAgain, NextExpiry, TimerTypes, Waits
<1>5. /\ msTime_[c] \in Nat /\ fired[c] \in Nat /\ born[c] \in Nat /\ expiry[c] \in Nat
      /\ now \in Nat /\ now <= MaxNow /\ MaxNow \in Nat
  BY <1>0, <1>2, Numbers
<1>6. /\ expiry[c] = Deadline(c, fired[c]) /\ expiry[c] <= now
      /\ Deadline(c, fired[c] + 1) = expiry[c] + msTime_[c]
  <2>1. expiry[c] = Deadline(c, fired[c]) /\ Deadline(c, fired[c]) <= now
    BY <1>1, <1>2 DEF OnTime
  <2>2. /\ msTime_[c] * fired[c] \in Nat
        /\ msTime_[c] * (fired[c] + 1) = msTime_[c] * fired[c] + msTime_[c]
    BY <1>5, Product
  <2>. QED  BY <1>5, <2>1, <2>2 DEF Deadline
<1>7. TimerTypes'
  <2>1. expiry' \in [Timer -> Nat]
    <3>1. expiry \in [Timer -> Nat] /\ expiry[c] + msTime_[c] \in Nat
      BY <1>0, <1>5 DEF TimerTypes
    <3>2. expiry' = [expiry EXCEPT ![c] = expiry[c] + msTime_[c]] \/ expiry' = expiry
      BY <1>1 DEF FuncReturn, NextExpiry
    <3>. QED  BY <1>2, <3>1, <3>2
  <2>2. ASSUME NEW u \in Timer PROVE expiry'[u] <= MaxNow + msTime_[u]
    <3>1. CASE u = c
      BY <3>1, <1>4, <1>5, <1>6
    <3>2. CASE u # c
      BY <3>2, <1>0, <1>4 DEF TimerTypes
    <3>. QED  BY <3>1, <3>2
  <2>. QED  BY <1>0, <1>3, <1>4, <2>1, <2>2 DEF TimerTypes
<1>8. Table'
  <2>1. \A u \in Timer \ exists : wait'[u] = "none"
    BY <1>0, <1>1, <1>4 DEF Table
  <2>. QED  BY <1>0, <1>3, <2>1 DEF Table, Retained
<1>9. Queued'
  <2>1. \A i \in 1..Len(queue) : wait'[queue[i].t] = "queued"
    BY <1>0, <1>2, <1>4 DEF Queued
  <2>2. \A u \in Timer : wait'[u] = "queued" => \E i \in 1..Len(queue) : queue[i].t = u
    BY <1>0, <1>2, <1>4 DEF Queued
  <2>. QED  BY <1>0, <1>3, <2>1, <2>2 DEF Queued
<1>10. ASSUME NEW u \in exists PROVE OnTime(u)'
  <2>1. OnTime(u) /\ u \in Timer
    BY <1>0 DEF Timing, TimerTypes
  <2>2. /\ Deadline(u, fired[u])' = Deadline(u, fired[u])
        /\ Deadline(u, fired[u] + 1)' = Deadline(u, fired[u] + 1)
    BY <1>3 DEF Deadline
  <2>3. current' # u
    BY <1>3, <2>1, Timers
  <2>4. CASE u # c
    <3>1. wait'[u] = wait[u] /\ expiry'[u] = expiry[u]
      BY <1>4, <2>1, <2>4
    <3>. QED  BY <1>3, <2>1, <2>2, <2>3, <3>1 DEF OnTime
  <2>5. CASE u = c
    <3>1. wait'[u] # "none" => bLoop_[u] /\ expiry'[u] = Deadline(u, fired[u] + 1)
      BY <1>4, <1>6, <2>5
    <3>2. once[u] => wait'[u] = "none"
      BY <2>1, <3>1 DEF OnTime
    <3>. QED  BY <1>3, <2>1, <2>2, <2>3, <3>1, <3>2 DEF OnTime
  <2>. QED  BY <2>4, <2>5
<1>11. Timing'
  <2>1. QueuedInTime'
    BY <1>0, <1>2, <1>3, <1>4 DEF Timing, QueuedInTime
  <2>. QED  BY <1>3, <1>10, <2>1 DEF Timing
<1>12. ASSUME NEW u \in Timer PROVE Cancelling(u)'
  <2>1. Cancelling(u)
    BY <1>0 DEF Cancels
  <2>2. WillNotCall(u) => WillNotCall(u)'
    BY <1>3 DEF WillNotCall
  <2>3. cancelled[u] # "no" => wait'[u] # "pending"
    <3>1. CASE u = c
      BY <3>1, <1>4, <2>1 DEF Cancelling
    <3>2. CASE u # c
      BY <3>2, <1>4, <2>1 DEF Cancelling
    <3>. QED  BY <3>1, <3>2
  <2>. QED  BY <1>3, <2>1, <2>2, <2>3 DEF Cancelling
<1>13. Cancels'
  BY <1>12 DEF Cancels
<1>14. ASSUME NEW u \in exists PROVE Going(u)'
  <2>1. Going(u) /\ u \in Timer /\ (WillCall(u)' <=> WillCall(u))
    BY <1>0, <1>3 DEF Goes, TimerTypes, WillCall
  <2>2. CASE u = c
    BY <1>2, <1>3, <1>4, <2>1, <2>2 DEF Going
  <2>3. CASE u # c
    BY <1>1, <1>3, <1>4, <2>1, <2>3 DEF Going
  <2>. QED  BY <2>2, <2>3
<1>15. Goes'
  BY <1>3, <1>14 DEF Goes
<1>. QED  BY <1>7, <1>8, <1>9, <1>11, <1>13, <1>15 DEF IInv

\* Steps that leave the timers as they are, whatever becomes of the script.
LEMMA RestKeeps ==
    ASSUME IInv,
           UNCHANGED <<current, now, queue, timerVars, tableVars, historyVars>>
    PROVE  IInv'
<1>0. TimerTypes /\ Table /\ Queued /\ Timing /\ Cancels /\ Goes
  BY DEF IInv
<1>1. UNCHANGED <<current, now, queue, exists, id_, msTime_, bLoop_, expiry, wait,
                  timerSet_, mapIdToTimer_, born, once, fired, cancelled, late>>
  BY DEF timerVars, tableVars, historyVars
<1>2. TimerTypes'
  BY <1>0, <1>1 DEF TimerTypes
<1>3. Table' /\ Queued'
  BY <1>0, <1>1 DEF Table, Retained, Queued
<1>4. Timing'
  BY <1>0, <1>1 DEF Timing, OnTime, Deadline, QueuedInTime
<1>5. Cancels' /\ Goes'
  BY <1>0, <1>1 DEF Cancels, Cancelling, WillNotCall, Goes, Going, WillCall
<1>. QED  BY <1>2, <1>3, <1>4, <1>5 DEF IInv

\* Time passes.
LEMMA TickKeeps == ASSUME IInv, Tick PROVE IInv'
<1>0. TimerTypes /\ Table /\ Queued /\ Timing /\ Cancels /\ Goes
  BY DEF IInv
<1>1. UNCHANGED <<script, current, stopped, queue, exists, id_, msTime_, bLoop_, expiry,
                  wait, timerSet_, mapIdToTimer_, born, once, fired, cancelled, late>>
  BY DEF Tick, timerVars, tableVars, historyVars
<1>2. now' = now + 1 /\ now \in Nat /\ now < MaxNow /\ MaxNow \in Nat
  BY <1>0, TimerAssumption DEF Tick, TimerTypes
<1>3. TimerTypes'
  <2>1. now' \in 0..MaxNow
    BY <1>2
  <2>. QED  BY <1>0, <1>1, <2>1 DEF TimerTypes
<1>4. Table' /\ Queued'
  BY <1>0, <1>1 DEF Table, Retained, Queued
<1>5. ASSUME NEW u \in exists PROVE OnTime(u)'
  <2>1. OnTime(u) /\ u \in Timer
    BY <1>0 DEF Timing, TimerTypes
  <2>2. /\ Deadline(u, fired[u])' = Deadline(u, fired[u])
        /\ Deadline(u, fired[u] + 1)' = Deadline(u, fired[u] + 1)
    BY <1>1 DEF Deadline
  <2>3. Deadline(u, fired[u]) \in Nat
    <3>1. u \in Timer /\ msTime_[u] \in Nat /\ fired[u] \in Nat /\ born[u] \in Nat
      BY <1>0, <2>1, Numbers
    <3>2. msTime_[u] * fired[u] \in Nat
      BY <3>1, Product
    <3>. QED  BY <3>1, <3>2 DEF Deadline
  <2>4. Deadline(u, fired[u]) <= now'
    BY <1>2, <2>1, <2>3 DEF OnTime
  <2>. QED  BY <1>1, <2>1, <2>2, <2>4 DEF OnTime
<1>6. Timing'
  <2>1. ASSUME NEW j \in 1..Len(queue), queue[j].ok PROVE expiry[queue[j].t] <= now'
    <3>1. expiry[queue[j].t] \in Nat /\ expiry[queue[j].t] <= now
      BY <1>0, <2>1, InQueue DEF Timing, QueuedInTime, TimerTypes
    <3>. QED  BY <1>2, <3>1
  <2>2. QueuedInTime'
    BY <1>1, <2>1 DEF QueuedInTime
  <2>. QED  BY <1>1, <1>5, <2>2 DEF Timing
<1>7. Cancels' /\ Goes'
  BY <1>0, <1>1 DEF Cancels, Cancelling, WillNotCall, Goes, Going, WillCall
<1>. QED  BY <1>3, <1>4, <1>6, <1>7 DEF IInv

\* Every step keeps the invariant, if a handler begins when no callback runs.
LEMMA NextKeeps ==
    ASSUME IInv, script = "run" => current = 0, [Next]_vars
    PROVE  IInv'
<1>1. CASE \E t \in Timer, ms \in Interval, loop \in BOOLEAN : Create(t, ms, loop)
  BY <1>1, CreateKeeps
<1>2. CASE \E i \in Id : cancelById(i)
  BY <1>2, CancelKeeps
<1>3. CASE Run
  BY <1>3, RestKeeps DEF Run
<1>4. CASE Poll
  BY <1>4, PollKeeps
<1>5. CASE Fire
  BY <1>5, FireKeeps DEF Fire
<1>6. CASE Aborted
  BY <1>6, AbortedKeeps
<1>7. CASE FuncReturn
  BY <1>7, FuncReturnKeeps
<1>8. CASE RunReturns
  BY <1>8, RestKeeps DEF RunReturns
<1>9. CASE Tick
  BY <1>9, TickKeeps
<1>10. CASE UNCHANGED vars
  BY <1>10, RestKeeps DEF vars, ioVars
<1>11. CASE Raise
  BY <1>11, RestKeeps DEF Raise
<1>. QED
  BY <1>1, <1>2, <1>3, <1>4, <1>5, <1>6, <1>7, <1>8, <1>9, <1>10, <1>11 DEF Next

\* The script is in a callback as long as one of the timers' is running.
LEMMA ScriptTurns ==
    ASSUME IInv, ScriptTypes, [Next]_vars
    PROVE  ScriptTypes'
<1>1. CASE \/ \E t \in Timer, ms \in Interval, loop \in BOOLEAN : Create(t, ms, loop)
           \/ \E i \in Id : cancelById(i)
           \/ Poll \/ Aborted \/ Tick \/ UNCHANGED vars
  <2>1. UNCHANGED <<script, current, stopped>>
    BY <1>1 DEF Create, cancelById, Poll, Aborted, Tick, vars, ioVars
  <2>. QED  BY <2>1 DEF ScriptTypes
<1>2. CASE Run \/ RunReturns
  BY <1>2 DEF Run, RunReturns, ScriptTypes
<1>3. CASE Fire
  <2>1. /\ queue # <<>> /\ stopped' = stopped
        /\ script' = "callback" /\ current' = Head(queue).t
    BY <1>3 DEF Fire
  <2>2. Head(queue).t # 0
    <3>1. queue \in Seq(Completion) /\ TimerTypes
      BY DEF IInv, TimerTypes, Completion
    <3>2. Head(queue) \in Completion
      BY <2>1, <3>1, HeadTailProperties
    <3>. QED  BY <3>2, Timers DEF Completion
  <2>. QED  BY <2>1, <2>2 DEF ScriptTypes
<1>4. CASE FuncReturn
  BY <1>4 DEF FuncReturn, ScriptTypes
<1>5. CASE Raise
  BY <1>5 DEF Raise, InScript, ScriptTypes
<1>. QED  BY <1>1, <1>2, <1>3, <1>4, <1>5 DEF Next
-----------------------------------------------------------------------------
TInv == IInv /\ ScriptTypes

\* Every step of the timers' own script keeps both.
LEMMA NextTInv == TInv /\ [Next]_vars => TInv'
BY NextKeeps, ScriptTurns DEF TInv, ScriptTypes

LEMMA Invariant == Spec => []TInv
<1>1. Init => TInv
  BY InitIInv DEF Init, TInv, ScriptTypes
<1>. QED  BY <1>1, NextTInv, PTL DEF Spec

(***************************************************************************)
(* Type correctness.                                                       *)
(***************************************************************************)
THEOREM TypeCorrect == Spec => []TypeOK
<1>1. TInv => TypeOK
  BY DEF TInv, IInv, TypeOK
<1>. QED  BY Invariant, <1>1, PTL

(***************************************************************************)
(* The id that timer() returns stands for its timer for good, whatever     *)
(* other timers are created: retain() never loses one.                     *)
(***************************************************************************)
THEOREM IdsStand == Spec => []Retained
<1>1. TInv => Retained
  BY DEF TInv, IInv, Table
<1>. QED  BY Invariant, <1>1, PTL

\* The queue holds what the waits say.
LEMMA QueuedOnce == ASSUME IInv PROVE OneWaitEach
<1> SUFFICES ASSUME NEW t \in Timer
             PROVE  LET completions == {i \in 1..Len(queue) : queue[i].t = t}
                    IN  /\ wait[t] = "queued" => \E i \in completions : completions = {i}
                        /\ wait[t] # "queued" => completions = {}
                        /\ current = t => wait[t] = "none"
  BY DEF OneWaitEach
<1> DEFINE completions == {i \in 1..Len(queue) : queue[i].t = t}
<1>1. Queued /\ t # 0
  BY Timers DEF IInv
<1>2. wait[t] = "queued" => \E i \in completions : completions = {i}
  <2> SUFFICES ASSUME wait[t] = "queued"
               PROVE  \E i \in completions : completions = {i}
    OBVIOUS
  <2>1. PICK i \in 1..Len(queue) : queue[i].t = t
    BY <1>1 DEF Queued
  <2>2. \A j \in completions : j = i
    BY <1>1, <2>1 DEF Queued
  <2>. QED  BY <2>1, <2>2
<1>3. wait[t] # "queued" => completions = {}
  BY <1>1 DEF Queued
<1>4. current = t => wait[t] = "none"
  BY <1>1 DEF Queued
<1>. QED  BY <1>2, <1>3, <1>4

(***************************************************************************)
(* A timer has at most one wait, and none while its callback runs; each    *)
(* wait completes once.                                                    *)
(***************************************************************************)
THEOREM WaitsOnce == Spec => []OneWaitEach
<1>1. TInv => OneWaitEach
  BY QueuedOnce DEF TInv
<1>. QED  BY Invariant, <1>1, PTL

\* The deadlines are those of the schedule.
LEMMA Scheduled == ASSUME IInv PROVE OnSchedule
<1> SUFFICES ASSUME NEW t \in exists
             PROVE  LET starts == fired[t] + (IF wait[t] = "none" THEN 0 ELSE 1)
                    IN  /\ wait[t] # "none" => expiry[t] = born[t] + msTime_[t] * starts
                        /\ now >= born[t] + msTime_[t] * fired[t]
                        /\ once[t] => fired[t] <= 1
  BY DEF OnSchedule
<1>1. OnTime(t)
  BY DEF IInv, Timing
<1>2. wait[t] # "none" => expiry[t] = born[t] + msTime_[t] * (fired[t] + 1)
  BY <1>1 DEF OnTime, Deadline
<1>3. born[t] + msTime_[t] * fired[t] <= now
  BY <1>1 DEF OnTime, Deadline
<1>4. once[t] => fired[t] <= 1
  BY <1>1 DEF OnTime
<1>. QED  BY <1>2, <1>3, <1>4

(***************************************************************************)
(* expires_at() + ms: a loop timer does not drift, however late its        *)
(* callbacks run, and no call comes before its time.                       *)
(***************************************************************************)
THEOREM KeepsSchedule == Spec => []OnSchedule
<1>1. TInv => OnSchedule
  BY Scheduled DEF TInv
<1>. QED  BY Invariant, <1>1, PTL

\* A cancelled timer has at most the call left that was queued.
LEMMA CancelsEnd == ASSUME IInv PROVE CancelEndsCalls
<1> SUFFICES ASSUME NEW t \in Timer
             PROVE  late[t] <= IF cancelled[t] = "queued" THEN 1 ELSE 0
  BY DEF CancelEndsCalls
<1>1. Cancelling(t) /\ cancelled[t] \in Waits \cup {"no"}
  BY DEF IInv, Cancels, TimerTypes
<1>2. cancelled[t] # "pending" \/ late[t] = 0
  BY <1>1 DEF Cancelling
<1>. QED  BY <1>1, <1>2 DEF Cancelling, Waits

(***************************************************************************)
(* After timerCancel() the callback runs once at the most, and only if the *)
(* completion was already queued.                                          *)
(***************************************************************************)
THEOREM CancelEnds == Spec => []CancelEndsCalls
<1>1. TInv => CancelEndsCalls
  BY CancelsEnd DEF TInv
<1>. QED  BY Invariant, <1>1, PTL

\* Between callbacks and without a wait, nothing more is to come of a timer.
LEMMA IdleIsDone ==
    ASSUME IInv, current = 0, \A t \in Timer : wait[t] = "none"
    PROVE  \A t \in exists : Done(t)
<1> SUFFICES ASSUME NEW t \in exists PROVE Done(t)
  OBVIOUS
<1>1. Going(t) /\ t \in Timer /\ current # t
  BY Timers DEF IInv, Goes, TimerTypes
<1>2. wait[t] = "none" /\ ~bLoop_[t]
  BY <1>1 DEF Going
<1>. QED  BY <1>1, <1>2 DEF Going, Done

(***************************************************************************)
(* run() does not return before every timer that was created is done: it   *)
(* was cancelled, or it was to call once and has.                          *)
(***************************************************************************)
THEOREM OutlastsTimers == Spec => RunOutlasts
<1>1. TInv /\ [Next]_vars => (stopped' /\ ~stopped => \A t \in exists : Done(t))
  <2> SUFFICES ASSUME TInv, [Next]_vars, stopped', ~stopped
               PROVE  \A t \in exists : Done(t)
    OBVIOUS
  <2>1. RunReturns
    BY DEF Next, Create, cancelById, Raise, Run, Poll, Fire, Aborted, FuncReturn, Tick,
           vars, ioVars
  <2>2. current = 0 /\ \A t \in Timer : wait[t] = "none"
    BY <2>1 DEF RunReturns, TInv, ScriptTypes
  <2>. QED  BY <2>2, IdleIsDone DEF TInv
<1>. QED  BY <1>1, Invariant, PTL DEF Spec, RunOutlasts
-----------------------------------------------------------------------------
(***************************************************************************)
(* The refinement of Alarm.                                                *)
(***************************************************************************)
statuses == [t \in Timer |-> Status(t)]
DueOf(t) ==
    IF t \notin exists THEN 0
    ELSE born[t] + msTime_[t] * (IF once[t] THEN 1 ELSE fired[t] + 1)
dues == [t \in Timer |-> DueOf(t)]
EveryOf(t) == IF once[t] THEN 0 ELSE msTime_[t]
everys == [t \in Timer |-> EveryOf(t)]
alarms == <<now, statuses, dues, everys, fired>>

\* A call is queued if one of the completions is without an error.
LEMMA CallIn ==
    ASSUME NEW q \in Seq(Completion), NEW t \in Timer
    PROVE  [t |-> t, ok |-> TRUE] \in {q[i] : i \in 1..Len(q)}
               <=> \E i \in 1..Len(q) : q[i].t = t /\ q[i].ok
<1>1. \A i \in 1..Len(q) : q[i] \in Completion
  BY LenProperties
<1>2. ASSUME NEW i \in 1..Len(q), q[i].t = t, q[i].ok
      PROVE  q[i] = [t |-> t, ok |-> TRUE]
  <2>1. q[i] \in [t : Timer, ok : BOOLEAN]
    BY <1>1 DEF Completion
  <2>2. q[i] = [t |-> q[i].t, ok |-> q[i].ok] /\ q[i].ok \in BOOLEAN
    BY <2>1
  <2>3. q[i].ok = TRUE
    BY <1>2, <2>2
  <2>. QED  BY <1>2, <2>2, <2>3
<1>3. PICK e : e = [t |-> t, ok |-> TRUE]
  OBVIOUS
<1>4. e.t = t /\ e.ok
  BY <1>3
<1>5. \A i \in 1..Len(q) : q[i].t = t /\ q[i].ok <=> q[i] = e
  BY <1>2, <1>3, <1>4
<1>6. e \in {q[i] : i \in 1..Len(q)} <=> \E i \in 1..Len(q) : q[i] = e
  OBVIOUS
<1>. QED  BY <1>3, <1>5, <1>6

\* Status in the terms of the invariant, in a state ...
LEMMA StatusIs ==
    ASSUME IInv, NEW t \in Timer
    PROVE  Status(t) = IF t \notin exists THEN "unset"
                       ELSE IF cancelled[t] = "no"
                       THEN IF once[t] /\ fired[t] = 1 THEN "off" ELSE "set"
                       ELSE IF WillNotCall(t) THEN "off" ELSE "cancelled"
<1>1. queue \in Seq(Completion)
  BY DEF IInv, TimerTypes, Completion
<1>2. WillNotCall(t) <=> ~\E i \in 1..Len(queue) : queue[i].t = t /\ queue[i].ok
  BY DEF WillNotCall
<1>. QED  BY <1>1, <1>2, CallIn DEF Status

\* ... and in the next one.
LEMMA StatusWillBe ==
    ASSUME IInv', NEW t \in Timer
    PROVE  Status(t)' = IF t \notin exists' THEN "unset"
                        ELSE IF cancelled'[t] = "no"
                        THEN IF once'[t] /\ fired'[t] = 1 THEN "off" ELSE "set"
                        ELSE IF WillNotCall(t)' THEN "off" ELSE "cancelled"
<1>1. queue' \in Seq(Completion)
  BY DEF IInv, TimerTypes, Completion
<1>2. PICK q : q = queue'
  OBVIOUS
<1>3. WillNotCall(t)' <=> ~\E i \in 1..Len(q) : q[i].t = t /\ q[i].ok
  BY <1>2 DEF WillNotCall
<1>4. [t |-> t, ok |-> TRUE] \in {q[i] : i \in 1..Len(q)}
          <=> \E i \in 1..Len(q) : q[i].t = t /\ q[i].ok
  BY <1>1, <1>2, CallIn
<1>. QED  BY <1>2, <1>3, <1>4 DEF Status

\* Steps that Alarm does not see.
LEMMA AlarmStands ==
    ASSUME UNCHANGED <<now, exists, born, once, msTime_, fired>>,
           \A t \in Timer : Status(t)' = Status(t)
    PROVE  alarms' = alarms
BY DEF alarms, statuses, dues, DueOf, everys, EveryOf

\* A completion is taken: that of t, and no other.
LEMMA CallTaken ==
    ASSUME IInv, queue # <<>>, queue' = Tail(queue), NEW u \in Timer,
           u # Head(queue).t \/ ~Head(queue).ok
    PROVE  WillNotCall(u)' <=> WillNotCall(u)
<1>1. /\ Len(queue) \in Nat \ {0} /\ Len(queue') = Len(queue) - 1
      /\ Head(queue) = queue[1]
      /\ \A i \in 1..Len(queue') : queue'[i] = queue[i + 1]
  BY Taken DEF IInv
<1>2. PICK n \in Nat : n + 1 = Len(queue) /\ n = Len(queue')
  <2>1. PICK k \in Nat \ {0} : k = Len(queue)
    BY <1>1
  <2>2. k - 1 \in Nat /\ (k - 1) + 1 = k /\ Len(queue') = k - 1
    BY <1>1, <2>1
  <2>. QED  BY <2>1, <2>2
<1>3. \A i \in 1..(n + 1) : i = 1 \/ (i - 1 \in 1..n /\ (i - 1) + 1 = i)
  BY <1>2
<1>4. \A i \in 1..n : i + 1 \in 1..(n + 1)
  BY <1>2
<1>5. \A i \in 1..(n + 1) : i = 1 \/ queue[i] = queue'[i - 1]
  BY <1>1, <1>2, <1>3
<1>6. WillNotCall(u)' => WillNotCall(u)
  BY <1>1, <1>2, <1>3, <1>5 DEF WillNotCall
<1>7. WillNotCall(u) => WillNotCall(u)'
  BY <1>1, <1>2, <1>4 DEF WillNotCall
<1>. QED  BY <1>6, <1>7

\* A timer is created: an alarm is set.
LEMMA CreateSets ==
    ASSUME IInv, IInv', NEW t \in Timer, NEW ms \in Interval, NEW loop \in BOOLEAN,
           Create(t, ms, loop)
    PROVE  Alarms!Set(t)
<1>0. TimerTypes /\ Table
  BY DEF IInv
<1>1. /\ exists' = exists \cup {t} /\ t \notin exists
      /\ msTime_' = [msTime_ EXCEPT ![t] = ms]
      /\ born' = [born EXCEPT ![t] = now]
      /\ once' = [once EXCEPT ![t] = ~loop]
      /\ UNCHANGED <<now, fired, cancelled>>
  BY DEF Create, mytimer
<1>2. UNCHANGED queue
  BY <1>0 DEF Create, uuid, Table
<1>3. fired[t] = 0 /\ cancelled[t] = "no"
  BY <1>0, <1>1 DEF Table
<1>4. ms \in Nat \ {0} /\ now \in Nat
  BY <1>0, TimerAssumption, Numbers
<1>5. \A u \in Timer \ {t} : /\ exists'= exists \cup {t} /\ (u \in exists' <=> u \in exists)
                             /\ born'[u] = born[u] /\ once'[u] = once[u]
                             /\ msTime_'[u] = msTime_[u]
  BY <1>0, <1>1 DEF TimerTypes
<1>6. /\ t \in exists' /\ born'[t] = now /\ once'[t] = ~loop /\ msTime_'[t] = ms
  BY <1>0, <1>1 DEF TimerTypes
<1>7. statuses' = [statuses EXCEPT ![t] = "set"] /\ statuses[t] = "unset"
  <2>1. \A u \in Timer : WillNotCall(u)' <=> WillNotCall(u)
    BY <1>2 DEF WillNotCall
  <2>2. \A u \in Timer \ {t} : Status(u)' = Status(u)
    BY <1>1, <1>5, <2>1, StatusIs, StatusWillBe
  <2>3. Status(t) = "unset" /\ Status(t)' = "set"
    BY <1>1, <1>3, <1>6, StatusIs, StatusWillBe
  <2>. QED  BY <2>2, <2>3 DEF statuses
<1>8. dues' = [dues EXCEPT ![t] = now + ms]
  <2>1. \A u \in Timer \ {t} : DueOf(u)' = DueOf(u)
    BY <1>1, <1>5 DEF DueOf
  <2>2. ms * 1 = ms /\ ms * (0 + 1) = ms
    BY <1>4
  <2>3. DueOf(t)' = now + ms
    BY <1>1, <1>3, <1>6, <2>2 DEF DueOf
  <2>. QED  BY <2>1, <2>3 DEF dues
<1>9. \E repeats \in {0, ms} : everys' = [everys EXCEPT ![t] = repeats]
  <2>1. \A u \in Timer \ {t} : EveryOf(u)' = EveryOf(u)
    BY <1>1, <1>5 DEF EveryOf
  <2>2. EveryOf(t)' \in {0, ms}
    BY <1>6 DEF EveryOf
  <2>3. everys' = [everys EXCEPT ![t] = EveryOf(t)']
    BY <2>1 DEF everys
  <2>. QED  BY <2>2, <2>3
<1>. QED  BY <1>1, <1>7, <1>8, <1>9
          DEF Alarms!Set, statuses, dues, DueOf, everys, EveryOf

\* start()'s handler: the alarm calls.
LEMMA FireCalls == ASSUME IInv, IInv', Fire PROVE \E t \in Timer : Alarms!Call(t)
<1>1. PICK t : t = Head(queue).t
  OBVIOUS
<1>2. /\ queue # <<>> /\ queue' = Tail(queue) /\ Head(queue).ok
      /\ fired' = [fired EXCEPT ![t] = @ + 1]
      /\ UNCHANGED <<now, exists, msTime_, born, once, cancelled>>
  BY <1>1 DEF Fire
<1>3. /\ Len(queue) \in Nat \ {0} /\ Head(queue) = queue[1]
      /\ \A i \in 1..Len(queue') : queue'[i] = queue[i + 1]
      /\ Len(queue') = Len(queue) - 1
  BY <1>2, Taken DEF IInv
<1>4. 1 \in 1..Len(queue)
  BY <1>3
<1>5. /\ t \in Timer /\ t \in exists /\ wait[t] = "queued"
      /\ queue[1].ok /\ queue[1].t = t
  BY <1>1, <1>2, <1>3, <1>4, InQueue
<1>6. OnTime(t) /\ expiry[t] <= now
  BY <1>4, <1>5 DEF IInv, Timing, QueuedInTime
<1>7. /\ expiry[t] = born[t] + msTime_[t] * (fired[t] + 1)
      /\ once[t] => fired[t] = 0
      /\ msTime_[t] \in Interval
  BY <1>5, <1>6 DEF OnTime, Deadline
<1>8. /\ msTime_[t] \in Nat \ {0} /\ fired[t] \in Nat /\ born[t] \in Nat
      /\ fired \in [Timer -> Nat]
  BY <1>5, <1>7, TimerAssumption, Numbers DEF IInv, TimerTypes
<1>9. fired'[t] = fired[t] + 1 /\ \A u \in Timer \ {t} : fired'[u] = fired[u]
  BY <1>2, <1>5, <1>8
<1>10. ~WillNotCall(t) /\ WillNotCall(t)'
  <2>1. ~WillNotCall(t)
    BY <1>4, <1>5 DEF WillNotCall
  <2>2. ASSUME NEW i \in 1..Len(queue'), queue'[i].t = t PROVE FALSE
    <3>1. i + 1 \in 1..Len(queue) /\ i + 1 # 1 /\ queue[i + 1].t = t
      BY <1>3, <2>2
    <3>. QED  BY <1>4, <1>5, <3>1 DEF IInv, Queued
  <2>. QED  BY <2>1, <2>2 DEF WillNotCall
<1>11. /\ statuses[t] \in {"set", "cancelled"}
       /\ statuses' = [statuses EXCEPT ![t] =
                          IF @ = "set" /\ everys[t] # 0 THEN "set" ELSE "off"]
  <2>1. \A u \in Timer \ {t} : WillNotCall(u)' <=> WillNotCall(u)
    BY <1>1, <1>2, CallTaken
  <2>2. \A u \in Timer \ {t} : Status(u)' = Status(u)
    BY <1>2, <1>9, <2>1, StatusIs, StatusWillBe
  <2>3. Status(t) = IF cancelled[t] = "no" THEN "set" ELSE "cancelled"
    BY <1>5, <1>7, <1>10, StatusIs
  <2>4. Status(t)' = IF cancelled[t] = "no" /\ ~once[t] THEN "set" ELSE "off"
    <3>1. once[t] => fired'[t] = 1
      BY <1>7, <1>9
    <3>. QED  BY <1>2, <1>5, <1>10, <3>1, StatusWillBe
  <2>5. everys[t] # 0 <=> ~once[t]
    BY <1>5, <1>8 DEF everys, EveryOf
  <2>. QED  BY <1>5, <2>2, <2>3, <2>4, <2>5 DEF statuses
<1>12. dues[t] <= now /\ dues' = [dues EXCEPT ![t] = @ + everys[t]]
  <2>1. \A u \in Timer \ {t} : DueOf(u)' = DueOf(u)
    BY <1>2, <1>9 DEF DueOf
  <2>2. CASE once[t]
    <3>1. DueOf(t) = born[t] + msTime_[t] * 1 /\ EveryOf(t) = 0 /\ fired[t] + 1 = 1
      BY <1>5, <1>7, <2>2 DEF DueOf, EveryOf
    <3>2. DueOf(t) = expiry[t]
      BY <1>7, <3>1
    <3>3. DueOf(t)' = DueOf(t)
      BY <1>2, <1>5, <2>2 DEF DueOf
    <3>4. DueOf(t) \in Nat
      BY <1>8, <3>1
    <3>5. DueOf(t)' = DueOf(t) + EveryOf(t)
      BY <3>1, <3>3, <3>4
    <3>. QED  BY <1>5, <1>6, <2>1, <3>2, <3>5 DEF dues, everys
  <2>3. CASE ~once[t]
    <3>1. /\ DueOf(t) = born[t] + msTime_[t] * (fired[t] + 1)
          /\ EveryOf(t) = msTime_[t]
          /\ DueOf(t)' = born[t] + msTime_[t] * ((fired[t] + 1) + 1)
      BY <1>2, <1>5, <1>9, <2>3 DEF DueOf, EveryOf
    <3>2. PICK f \in Nat : f = fired[t] + 1
      BY <1>8
    <3>3. PICK p \in Nat : p = msTime_[t] * f
      BY <1>8, <3>2, Product
    <3>4. msTime_[t] * (f + 1) = p + msTime_[t]
      BY <1>8, <3>2, <3>3, Product
    <3>5. born[t] + (p + msTime_[t]) = (born[t] + p) + msTime_[t]
      BY <1>8, <3>3
    <3>6. DueOf(t)' = DueOf(t) + EveryOf(t)
      BY <3>1, <3>2, <3>3, <3>4, <3>5
    <3>7. DueOf(t) = expiry[t]
      BY <1>7, <3>1
    <3>. QED  BY <1>5, <1>6, <2>1, <3>6, <3>7 DEF dues, everys
  <2>. QED  BY <2>2, <2>3
<1>13. everys' = everys
  BY <1>2 DEF everys, EveryOf
<1>14. Alarms!Call(t)
  BY <1>2, <1>11, <1>12, <1>13 DEF Alarms!Call, statuses, dues, DueOf, everys, EveryOf
<1>. QED  BY <1>5, <1>14

\* timerCancel(): the alarm is cancelled, or silent, or was so before.
LEMMA CancelCancels ==
    ASSUME IInv, IInv', NEW i \in Id, cancelById(i)
    PROVE  (\E t \in Timer : Alarms!Cancel(t) \/ Alarms!Silence(t)) \/ alarms' = alarms
<1>0. TimerTypes /\ Table
  BY DEF IInv
<1>1. PICK t \in exists : t = mapIdToTimer_[i]
  BY <1>0 DEF cancelById, Table
<1>2. /\ t \in Timer /\ CancelWait(t)
      /\ cancelled' = [cancelled EXCEPT ![t] = IF @ = "no" THEN wait[t] ELSE @]
      /\ UNCHANGED <<now, exists, msTime_, born, once, fired>>
  BY <1>0, <1>1 DEF cancelById, cancel, TimerTypes
<1>3. /\ \A u \in Timer \ {t} : cancelled'[u] = cancelled[u]
      /\ cancelled'[t] = IF cancelled[t] = "no" THEN wait[t] ELSE cancelled[t]
      /\ cancelled'[t] # "no"
  BY <1>0, <1>2 DEF TimerTypes, Waits
<1>4. \A u \in Timer : WillNotCall(u)' <=> WillNotCall(u)
  <2>1. CASE UNCHANGED queue
    BY <2>1 DEF WillNotCall
  <2>2. CASE queue' = Append(queue, [t |-> t, ok |-> FALSE])
    <3>1. PICK e : e = [t |-> t, ok |-> FALSE]
      OBVIOUS
    <3>2. e \in Completion /\ ~e.ok
      BY <1>2, <3>1 DEF Completion
    <3>3. /\ Len(queue) \in Nat /\ Len(queue') = Len(queue) + 1
          /\ \A j \in 1..Len(queue) : queue'[j] = queue[j]
          /\ queue'[Len(queue) + 1] = e
      BY <1>0, <2>2, <3>1, <3>2, Posted
    <3>4. /\ \A j \in 1..Len(queue') : j \in 1..Len(queue) \/ j = Len(queue) + 1
          /\ \A j \in 1..Len(queue) : j \in 1..Len(queue')
      BY <3>3
    <3>. QED  BY <3>2, <3>3, <3>4 DEF WillNotCall
  <2>. QED  BY <1>2, <2>1, <2>2 DEF CancelWait
<1>5. \A u \in Timer \ {t} : Status(u)' = Status(u)
  BY <1>2, <1>3, <1>4, StatusIs, StatusWillBe
<1>6. dues' = dues /\ everys' = everys
  BY <1>2 DEF dues, DueOf, everys, EveryOf
<1>7. Status(t)' = IF WillNotCall(t) THEN "off" ELSE "cancelled"
  BY <1>1, <1>2, <1>3, <1>4, StatusWillBe
<1>8. CASE cancelled[t] # "no"
  <2>1. Status(t)' = Status(t)
    BY <1>1, <1>2, <1>7, <1>8, StatusIs
  <2>. QED  BY <1>2, <1>5, <2>1, AlarmStands
<1>9. CASE cancelled[t] = "no" /\ Status(t) = "set"
  <2>1. statuses[t] = "set" /\ statuses' = [statuses EXCEPT ![t] = Status(t)']
    BY <1>2, <1>5, <1>9 DEF statuses
  <2>2. CASE WillNotCall(t)
    BY <1>2, <1>6, <1>7, <2>1, <2>2
       DEF Alarms!Silence, statuses, dues, DueOf, everys, EveryOf
  <2>3. CASE ~WillNotCall(t)
    BY <1>2, <1>6, <1>7, <2>1, <2>3
       DEF Alarms!Cancel, statuses, dues, DueOf, everys, EveryOf
  <2>. QED  BY <1>2, <2>2, <2>3
<1>10. CASE cancelled[t] = "no" /\ Status(t) # "set"
  <2>1. once[t] /\ fired[t] = 1 /\ Status(t) = "off"
    BY <1>1, <1>2, <1>10, StatusIs
  <2>2. wait[t] = "none"
    BY <1>1, <2>1 DEF IInv, Timing, OnTime
  <2>3. WillNotCall(t)
    BY <1>2, <2>2 DEF IInv, Queued, WillNotCall
  <2>4. Status(t)' = Status(t)
    BY <1>7, <2>1, <2>3
  <2>. QED  BY <1>2, <1>5, <2>4, AlarmStands
<1>. QED  BY <1>8, <1>9, <1>10

\* A poll queues no call of a timer that was cancelled.
LEMMA PollStands == ASSUME IInv, IInv', Poll PROVE alarms' = alarms
<1>1. /\ Len(queue) \in Nat
      /\ \A i \in 1..Len(queue) : i \in 1..Len(queue') /\ queue'[i] = queue[i]
      /\ \A i \in 1..Len(queue') : i \notin 1..Len(queue) => queue'[i].t \in Due
  BY PolledQueued DEF IInv
<1>2. UNCHANGED <<now, exists, msTime_, born, once, fired, cancelled>>
  BY DEF Poll, historyVars
<1>3. ASSUME NEW u \in Timer PROVE Status(u)' = Status(u)
  <2>1. cancelled[u] # "no" => u \notin Due
    BY DEF IInv, Cancels, Cancelling, Due
  <2>2. cancelled[u] # "no" => (WillNotCall(u)' <=> WillNotCall(u))
    BY <1>1, <2>1 DEF WillNotCall
  <2>. QED  BY <1>2, <2>2, StatusIs, StatusWillBe
<1>. QED  BY <1>2, <1>3, AlarmStands

\* Each step is one of Alarm, or changes nothing there.
LEMMA AlarmStep ==
    ASSUME IInv, script = "run" => current = 0, [Next]_vars
    PROVE  Alarms!Next \/ alarms' = alarms
<1>0. IInv'
  BY NextKeeps
<1>1. ASSUME NEW t \in Timer, NEW ms \in Interval, NEW loop \in BOOLEAN,
             Create(t, ms, loop)
      PROVE  Alarms!Next
  <2>1. Alarms!Set(t)
    BY <1>0, <1>1, CreateSets
  <2>. QED  BY <2>1 DEF Alarms!Next
<1>2. ASSUME NEW i \in Id, cancelById(i) PROVE Alarms!Next \/ alarms' = alarms
  <2>1. (\E t \in Timer : Alarms!Cancel(t) \/ Alarms!Silence(t)) \/ alarms' = alarms
    BY <1>0, <1>2, CancelCancels
  <2>. QED  BY <2>1 DEF Alarms!Next
<1>3. CASE Fire
  BY <1>0, <1>3, FireCalls DEF Alarms!Next
<1>4. CASE Poll
  BY <1>0, <1>4, PollStands
<1>5. CASE Aborted
  <2>1. /\ queue # <<>> /\ queue' = Tail(queue) /\ ~Head(queue).ok
        /\ UNCHANGED <<now, exists, msTime_, born, once, fired, cancelled>>
    BY <1>5 DEF Aborted, historyVars
  <2>2. \A u \in Timer : WillNotCall(u)' <=> WillNotCall(u)
    BY <2>1, CallTaken
  <2>3. \A u \in Timer : Status(u)' = Status(u)
    BY <1>0, <2>1, <2>2, StatusIs, StatusWillBe
  <2>. QED  BY <2>1, <2>3, AlarmStands
<1>6. CASE Raise \/ Run \/ RunReturns \/ FuncReturn \/ UNCHANGED vars
  <2>1. UNCHANGED <<now, queue, exists, msTime_, born, once, fired, cancelled>>
    BY <1>6 DEF Raise, Run, RunReturns, FuncReturn, vars, ioVars, timerVars, historyVars
  <2>2. \A u \in Timer : Status(u)' = Status(u)
    BY <2>1 DEF Status
  <2>. QED  BY <2>1, <2>2, AlarmStands
<1>7. CASE Tick
  <2>1. /\ now' = now + 1
        /\ UNCHANGED <<queue, exists, msTime_, born, once, fired, cancelled>>
    BY <1>7 DEF Tick, timerVars, historyVars
  <2>2. statuses' = statuses /\ dues' = dues /\ everys' = everys
    BY <2>1 DEF statuses, Status, dues, DueOf, everys, EveryOf
  <2>3. Alarms!Tick
    BY <2>1, <2>2 DEF Alarms!Tick, statuses, dues, DueOf, everys, EveryOf
  <2>. QED  BY <2>3 DEF Alarms!Next
<1>. QED  BY <1>1, <1>2, <1>3, <1>4, <1>5, <1>6, <1>7 DEF Next

(***************************************************************************)
(* mytimer's waits, its queue of completions and its handlers do together  *)
(* what Alarm promises: a call at its time and not before, at the interval *)
(* it was set to, and one more at the most after timerCancel().            *)
(***************************************************************************)
THEOREM TimersAreAlarms == Spec => ImplementsAlarm
<1>1. Init => Alarms!Init
  BY DEF Init, Alarms!Init, Status
<1>2. TInv /\ [Next]_vars => [Alarms!Next]_alarms
  BY AlarmStep DEF TInv, ScriptTypes
<1>. QED
  BY <1>1, <1>2, Invariant, PTL
     DEF Spec, ImplementsAlarm, Alarms!Spec, Alarms!alarmVars,
         alarms, statuses, dues, DueOf, everys, EveryOf
=============================================================================
