---------------------------- MODULE DataBaseProofs ----------------------------
(***************************************************************************)
(* Proofs about DataBase, for every set of statements, all sizes of their  *)
(* results and any number of calls.                                        *)
(***************************************************************************)
EXTENDS DataBase, SequenceTheorems, TLAPS

\* fetch_row has come to the end of what it returned so far.
AtEnd == answers = <<>> \/ answers[Len(answers)].i = 0

\* It last returned a row of the result of statement k, and rest are left.
InResult(k, rest) ==
    /\ rest < Rows[ran[k]]
    /\ answers # <<>>
    /\ answers[Len(answers)] = Row(k, Rows[ran[k]] - rest)

\* Where res_, the connection and the last answer stand to each other.
Position ==
    /\ res_ # 0 => /\ conn \in {"rows", "destroyed"}
                   /\ ran[res_] \in Select
                   /\ InResult(res_, unread)
    /\ res_ = 0 => AtEnd

\* Every answer belongs to a statement that has been executed.
Ran == \A n \in 1..Len(answers) : answers[n].k \in 1..Len(ran)

IInv == TypeOK /\ Ran /\ Position /\ ReadThrough

\* Before the first call nothing has been answered.
LEMMA InitIInv == Init => IInv
BY DataBaseAssumption DEF Init, IInv, TypeOK, Connections, Ran, Position, AtEnd, ReadThrough

\* ReadThrough, for the answer at one place.
Follows(n) ==
    LET a == answers[n]
        first == n = 1 \/ answers[n - 1].i = 0
        rowsBefore == IF first THEN 0 ELSE answers[n - 1].i
    IN  /\ ~first => answers[n - 1].k = a.k
        /\ a.i # 0 => a.i = rowsBefore + 1
        /\ a.i = 0 => a.cut \/ rowsBefore = Rows[ran[a.k]]

\* ReadThrough, place by place.
LEMMA ReadThroughFollows == ReadThrough <=> \A n \in 1..Len(answers) : Follows(n)
BY DEF ReadThrough, Follows

(***************************************************************************)
(* Statements that are executed later leave the earlier ones where they    *)
(* are.                                                                    *)
(***************************************************************************)
Extended == 
    /\ ran' \in Seq(Statement)
    /\ Len(ran') \in Nat
    /\ Len(ran) <= Len(ran')
    /\ Len(ran') <= MaxStatements
    /\ \A k \in 1..Len(ran) : ran'[k] = ran[k]

\* A statement is executed.
LEMMA AppendExtended ==
    ASSUME TypeOK, NEW q \in Statement, Len(ran) < MaxStatements, ran' = Append(ran, q)
    PROVE  Extended /\ Len(ran') = Len(ran) + 1 /\ ran'[Len(ran')] = q
<1>1. ran \in Seq(Statement) /\ Len(ran) \in Nat
  BY LenProperties DEF TypeOK
<1>2. /\ ran' \in Seq(Statement)
      /\ Len(ran') = Len(ran) + 1
      /\ \A k \in 1..Len(ran) : ran'[k] = ran[k]
      /\ ran'[Len(ran) + 1] = q
  BY <1>1, AppendProperties
<1>. QED  BY <1>1, <1>2, DataBaseAssumption DEF Extended

\* None is executed.
LEMMA SameExtended == ASSUME TypeOK, ran' = ran PROVE Extended
BY LenProperties DEF TypeOK, Extended

(***************************************************************************)
(* One answer more, at the end of those there are.                         *)
(***************************************************************************)
LEMMA AnswersGrow ==
    ASSUME TypeOK, NEW a \in Answer, answers' = Append(answers, a)
    PROVE  /\ answers' \in Seq(Answer)
           /\ Len(answers) \in Nat
           /\ Len(answers') = Len(answers) + 1
           /\ answers' # <<>>
           /\ answers'[Len(answers')] = a
           /\ \A n \in 1..Len(answers) : answers'[n] = answers[n]
<1>1. answers \in Seq(Answer) /\ Len(answers) \in Nat
  BY LenProperties DEF TypeOK
<1>2. /\ answers' \in Seq(Answer)
      /\ Len(answers') = Len(answers) + 1
      /\ answers'[Len(answers) + 1] = a
      /\ \A n \in 1..Len(answers) : answers'[n] = answers[n]
  BY <1>1, AppendProperties
<1>3. answers' # <<>>
  BY <1>1, <1>2
<1>. QED  BY <1>1, <1>2, <1>3

\* An answer that follows its predecessor keeps ReadThrough.
LEMMA ReadThroughKept ==
    ASSUME IInv, Extended, NEW a \in Answer, answers' = Append(answers, a),
           a.k \in 1..Len(ran'), NEW m, m = Len(answers'), Follows(m)'
    PROVE  ReadThrough' /\ Ran'
<1>1. /\ Len(answers) \in Nat
      /\ Len(answers') = Len(answers) + 1
      /\ answers'[Len(answers')] = a
      /\ \A n \in 1..Len(answers) : answers'[n] = answers[n]
  BY AnswersGrow DEF IInv
<1>2. Len(ran) \in Nat /\ Len(ran') \in Nat /\ Len(ran) <= Len(ran')
  BY LenProperties DEF IInv, TypeOK, Extended
<1>3. ASSUME NEW n \in 1..Len(answers)
      PROVE  Follows(n)' /\ answers'[n].k \in 1..Len(ran')
  <2>1. answers[n].k \in 1..Len(ran)
    BY DEF IInv, Ran
  <2>2. ran'[answers[n].k] = ran[answers[n].k]
    BY <2>1 DEF Extended
  <2>3. Follows(n)
    BY <1>3, ReadThroughFollows DEF IInv
  <2>4. answers'[n] = answers[n] /\ (n # 1 => answers'[n - 1] = answers[n - 1])
    BY <1>1
  <2>5. Follows(n)'
    BY <2>2, <2>3, <2>4 DEF Follows
  <2>. QED  BY <2>1, <2>4, <2>5, <1>2
<1>4. ASSUME NEW n \in 1..Len(answers') PROVE Follows(n)' /\ answers'[n].k \in 1..Len(ran')
  <2>1. CASE n = Len(answers')
    <3>1. answers'[n].k \in 1..Len(ran')
      BY <2>1, <1>1
    <3>2. Follows(n)'
      BY <2>1
    <3>. QED  BY <3>1, <3>2
  <2>2. CASE n # Len(answers')
    BY <2>2, <1>1, <1>3
  <2>. QED  BY <2>1, <2>2
<1>5. Ran'
  BY <1>4 DEF Ran
<1>6. ReadThrough'
  BY <1>4 DEF ReadThrough, Follows
<1>. QED  BY <1>5, <1>6
-----------------------------------------------------------------------------
(***************************************************************************)
(* The second half of fetch_row, for the first row of a result and for     *)
(* the rows after it.                                                      *)
(***************************************************************************)
LEMMA FetchNextKeeps ==
    ASSUME IInv, Extended,
           NEW k \in 1..Len(ran'), ran'[k] \in Select,
           NEW rest \in 0..Rows[ran'[k]],
           \/ AtEnd /\ rest = Rows[ran'[k]]
           \/ /\ answers # <<>>
              /\ answers[Len(answers)] = Row(k, Rows[ran'[k]] - rest)
              /\ rest < Rows[ran'[k]],
           FetchNext(k, rest),
           NEW n, n = Len(answers')
    PROVE  IInv' /\ ResIsOpen'
<1> DEFINE rows == Rows[ran'[k]]
<1>0. /\ rows \in Nat /\ rest \in Nat /\ rest <= rows
      /\ k \in Nat /\ k # 0 /\ k \in 1..MaxStatements
      /\ Len(ran') \in Nat
  BY DataBaseAssumption DEF Extended
<1>1. CASE /\ GotRow(rest)
           /\ Keep(k, rest - 1)
           /\ answers' = Append(answers, Row(k, rows - rest + 1))
  <2> DEFINE a == Row(k, rows - rest + 1)
  <2>1. a \in Answer /\ a.k = k /\ a.i = rows - rest + 1 /\ a.i # 0
    BY <1>0 DEF Row, Answer
  <2>2. /\ answers' \in Seq(Answer)
        /\ Len(answers) \in Nat /\ n = Len(answers) + 1 /\ answers' # <<>>
        /\ answers'[n] = a
        /\ \A m \in 1..Len(answers) : answers'[m] = answers[m]
    BY <2>1, <1>1, AnswersGrow DEF IInv
  <2>3. Follows(n)'
    <3>1. CASE answers = <<>>
      BY <3>1, <2>1, <2>2, <1>0 DEF Follows, Row
    <3>2. CASE answers # <<>>
      <4>1. Len(answers) \in 1..Len(answers) /\ n - 1 = Len(answers) /\ n # 1
        BY <3>2, <2>2, EmptySeq DEF IInv, TypeOK
      <4>2. answers'[n - 1] = answers[Len(answers)]
        BY <4>1, <2>2
      <4>3. CASE AtEnd /\ rest = rows
        <5>1. a.i = 1
          BY <1>0, <2>1, <4>3
        <5>. QED  BY <4>1, <4>2, <4>3, <3>2, <2>1, <2>2, <5>1 DEF Follows, AtEnd
      <4>4. CASE /\ answers[Len(answers)] = Row(k, rows - rest)
                 /\ rest < rows
        BY <4>1, <4>2, <4>4, <2>1, <2>2, <1>0 DEF Follows, Row
      <4>. QED  BY <4>3, <4>4
    <3>. QED  BY <3>1, <3>2
  <2>4. ReadThrough' /\ Ran'
    BY <2>1, <2>3, <1>1, ReadThroughKept
  <2>5. /\ conn' = "rows" /\ res_' = k /\ unread' = rest - 1
        /\ rest - 1 \in Nat /\ rest - 1 < rows /\ rows - rest + 1 = rows - (rest - 1)
    BY <1>0, <1>1 DEF Keep, GotRow
  <2>6. TypeOK'
    BY <2>2, <2>5, <1>0 DEF TypeOK, Extended, Connections
  <2>7. Position'
    BY <2>2, <2>5, <1>0 DEF Position, InResult
  <2>8. ResIsOpen'
    BY <2>5, <1>0 DEF ResIsOpen
  <2>. QED  BY <2>4, <2>6, <2>7, <2>8 DEF IInv
<1>2. ASSUME NEW cut \in BOOLEAN,
             GotRow(rest) => cut,
             res_' = Freed(k), unread' = 0,
             conn' = "ready" \/ (cut /\ conn' = "closed"),
             answers' = Append(answers, NoRow(k, cut))
      PROVE  IInv' /\ ResIsOpen'
  <2> DEFINE a == NoRow(k, cut)
  <2>1. a \in Answer /\ a.k = k /\ a.i = 0 /\ a.cut = cut
    BY <1>0 DEF NoRow, Answer
  <2>2. /\ answers' \in Seq(Answer)
        /\ Len(answers) \in Nat /\ n = Len(answers) + 1 /\ answers' # <<>>
        /\ answers'[n] = a
        /\ \A m \in 1..Len(answers) : answers'[m] = answers[m]
    BY <2>1, <1>2, AnswersGrow DEF IInv
  <2>3. cut \/ rest = 0
    BY <1>0, <1>2 DEF GotRow
  <2>4. Follows(n)'
    <3>1. CASE answers = <<>>
      BY <3>1, <2>1, <2>2, <2>3, <1>0 DEF Follows
    <3>2. CASE answers # <<>>
      <4>1. Len(answers) \in 1..Len(answers) /\ n - 1 = Len(answers) /\ n # 1
        BY <3>2, <2>2, EmptySeq DEF IInv, TypeOK
      <4>2. answers'[n - 1] = answers[Len(answers)]
        BY <4>1, <2>2
      <4>3. CASE AtEnd /\ rest = rows
        BY <4>1, <4>2, <4>3, <3>2, <2>1, <2>2, <2>3, <1>0 DEF Follows, AtEnd
      <4>4. CASE /\ answers[Len(answers)] = Row(k, rows - rest)
                 /\ rest < rows
        BY <4>1, <4>2, <4>4, <2>1, <2>2, <2>3, <1>0 DEF Follows, Row
      <4>. QED  BY <4>3, <4>4
    <3>. QED  BY <3>1, <3>2
  <2>5. ReadThrough' /\ Ran'
    BY <2>1, <2>4, <1>2, ReadThroughKept
  <2>6. res_' = 0 /\ unread' = 0 /\ conn' \in {"ready", "closed"}
    BY <1>2 DEF Freed
  <2>7. TypeOK'
    BY <2>2, <2>6, <1>0 DEF TypeOK, Extended, Connections
  <2>8. Position'
    <3>1. res_' = 0 /\ answers'[Len(answers')].i = 0
      BY <2>1, <2>2, <2>6
    <3>. QED  BY <3>1 DEF Position, AtEnd
  <2>9. ResIsOpen'
    BY <2>6 DEF ResIsOpen
  <2>. QED  BY <2>5, <2>7, <2>8, <2>9 DEF IInv
<1>. QED  BY <1>1, <1>2 DEF FetchNext

\* Steps that return no row: statements may have been executed.
LEMMA NoAnswerKeeps ==
    ASSUME IInv, Extended, UNCHANGED <<res_, unread, answers>>,
           conn' \in Connections,
           res_ = 0 \/ conn' \in {conn, "destroyed"}
    PROVE  IInv'
<1>1. Len(ran) \in Nat /\ Len(ran') \in Nat /\ Len(ran) <= Len(ran')
  BY LenProperties DEF IInv, TypeOK, Extended
<1>2. TypeOK'
  BY <1>1 DEF IInv, TypeOK, Extended
<1>3. Position'
  <2>1. CASE res_ = 0
    BY <2>1 DEF IInv, Position, AtEnd
  <2>2. CASE res_ # 0
    <3>1. ran'[res_] = ran[res_] /\ conn' \in {conn, "destroyed"}
      BY <2>2, <1>1 DEF IInv, TypeOK, Extended
    <3>. QED  BY <2>2, <3>1 DEF IInv, Position, InResult
  <2>. QED  BY <2>1, <2>2
<1>4. Ran'
  BY <1>1 DEF IInv, Ran
<1>5. ASSUME NEW n \in 1..Len(answers) PROVE Follows(n)'
  <2>1. Follows(n)
    BY ReadThroughFollows DEF IInv
  <2>2. ran'[answers[n].k] = ran[answers[n].k]
    BY DEF IInv, Ran, Extended
  <2>. QED  BY <2>1, <2>2 DEF Follows
<1>6. ReadThrough'
  BY <1>5 DEF ReadThrough, Follows
<1>. QED  BY <1>2, <1>3, <1>4, <1>6 DEF IInv

\* A query is only made while there is no result.
LEMMA ReadyHasNoResult == ASSUME IInv, conn = "ready" PROVE res_ = 0
BY DEF IInv, Position

\* mysql_query finds that the server is gone.
LEMMA LosesServerKeeps ==
    ASSUME IInv, NEW q \in Statement, LosesServer(q)
    PROVE  IInv' /\ ResIsOpen'
<1>1. res_ = 0 /\ conn' = "closed" /\ UNCHANGED <<res_, unread, answers>>
  BY ReadyHasNoResult DEF LosesServer
<1>2. Extended
  BY AppendExtended, SameExtended DEF LosesServer, IInv
<1>. QED  BY <1>1, <1>2, NoAnswerKeeps DEF ResIsOpen, Connections

\* fetch_row, in each of its four cases.
LEMMA FetchRowKeeps ==
    ASSUME IInv, NEW q \in Statement, fetch_row(q)
    PROVE  IInv' /\ (ResIsOpen => ResIsOpen')
<1>1. CASE RunsStatement /\ LosesServer(q)
  BY <1>1, LosesServerKeeps
<1>2. CASE /\ RunsStatement /\ Executes(q) /\ q \notin Select
           /\ UNCHANGED <<conn, res_, unread, answers>>
  <2>1. Extended
    BY <1>2, AppendExtended DEF IInv, Executes
  <2>2. conn' \in Connections /\ conn' = conn
    BY <1>2 DEF IInv, TypeOK
  <2>. QED  BY <1>2, <2>1, <2>2, NoAnswerKeeps DEF ResIsOpen
<1>3. CASE /\ RunsStatement /\ Executes(q) /\ q \in Select
           /\ FetchNext(Len(ran'), Rows[q])
  <2>1. Extended /\ Len(ran') = Len(ran) + 1 /\ ran'[Len(ran')] = q /\ Len(ran) \in Nat
    BY <1>3, AppendExtended, LenProperties DEF IInv, TypeOK, Executes
  <2>2. AtEnd
    BY <1>3 DEF IInv, Position, RunsStatement
  <2>3. Rows[q] \in 0..Rows[q]
    BY <1>3, DataBaseAssumption
  <2>4. Len(ran') \in 1..Len(ran')
    BY <2>1
  <2>. QED  BY <1>3, <2>1, <2>2, <2>3, <2>4, FetchNextKeeps
<1>4. CASE ~RunsStatement /\ UNCHANGED ran /\ FetchNext(res_, unread)
  <2>1. Extended
    BY <1>4, SameExtended DEF IInv
  <2>2. /\ res_ \in 1..Len(ran') /\ ran'[res_] \in Select
        /\ unread < Rows[ran'[res_]] /\ unread \in Nat
        /\ answers # <<>>
        /\ answers[Len(answers)] = Row(res_, Rows[ran'[res_]] - unread)
    BY <1>4, LenProperties DEF IInv, TypeOK, Position, InResult, RunsStatement
  <2>3. unread \in 0..Rows[ran'[res_]]
    BY <2>2, DataBaseAssumption
  <2>. QED  BY <1>4, <2>1, <2>2, <2>3, FetchNextKeeps
<1>. QED  BY <1>1, <1>2, <1>3, <1>4 DEF fetch_row

\* query() called by db_query.
LEMMA QueryKeeps ==
    ASSUME IInv, NEW q \in Queried, query(q)
    PROVE  IInv' /\ (q \notin Select /\ ResIsOpen => ResIsOpen')
<1>0. q \in Statement
  BY DataBaseAssumption
<1>1. CASE LosesServer(q)
  BY <1>0, <1>1, LosesServerKeeps
<1>2. CASE /\ Executes(q)
           /\ conn' = IF q \in Select THEN "result" ELSE "ready"
           /\ UNCHANGED <<res_, unread, answers>>
  <2>1. Extended
    BY <1>0, <1>2, AppendExtended DEF IInv, Executes
  <2>2. res_ = 0
    BY <1>2, ReadyHasNoResult DEF Executes
  <2>3. IInv'
    BY <1>2, <2>1, <2>2, NoAnswerKeeps DEF Connections
  <2>. QED  BY <1>2, <2>2, <2>3 DEF ResIsOpen
<1>. QED  BY <1>1, <1>2 DEF query

\* connect() after a loss of the server, or the first one.
LEMMA ConnectKeeps == ASSUME IInv, connect PROVE IInv' /\ ResIsOpen'
<1>1. res_ = 0
  BY DEF IInv, Position, connect
<1>2. Extended
  BY SameExtended DEF IInv, connect
<1>. QED  BY <1>1, <1>2, NoAnswerKeeps DEF connect, ResIsOpen, Connections

\* The destructor leaves res_ and what was answered as they are.
LEMMA DestroyKeeps == ASSUME IInv, destroy PROVE IInv' /\ ResIsOpen'
<1>1. Extended
  BY SameExtended DEF IInv, destroy
<1>. QED  BY <1>1, NoAnswerKeeps DEF destroy, ResIsOpen, Connections

\* Every call keeps the invariant.
LEMMA NextIInv == IInv /\ [Next]_vars => IInv'
<1>1. ASSUME IInv, UNCHANGED vars PROVE IInv'
  <2>1. Extended
    BY <1>1, SameExtended DEF IInv, vars
  <2>. QED  BY <1>1, <2>1, NoAnswerKeeps DEF vars, IInv, TypeOK
<1>. QED  BY <1>1, ConnectKeeps, DestroyKeeps, QueryKeeps, FetchRowKeeps DEF Next

(***************************************************************************)
(* Type correctness of the connection and of what fetch_row returns.       *)
(***************************************************************************)
THEOREM TypeCorrect == Spec => []TypeOK
<1>1. IInv => TypeOK
  BY DEF IInv
<1>. QED  BY <1>1, InitIInv, NextIInv, PTL DEF Spec

(***************************************************************************)
(* fetch_row reads results one after the other, each from its first row to *)
(* its end, whatever the script asks for in between.                       *)
(***************************************************************************)
THEOREM ResultsReadThrough == Spec => []ReadThrough
<1>1. IInv => ReadThrough
  BY DEF IInv
<1>. QED  BY <1>1, InitIInv, NextIInv, PTL DEF Spec

(***************************************************************************)
(* As long as scripts give db_query only statements without a result set,  *)
(* res_ and the connection agree, also through errors and reconnects.      *)
(***************************************************************************)
THEOREM InSync == ASSUME Queried \cap Select = {} PROVE Spec => []ResIsOpen
<1> DEFINE Inv == IInv /\ ResIsOpen
<1>1. Init => Inv
  BY InitIInv DEF Init, ResIsOpen
<1>2. Inv /\ [Next]_vars => Inv'
  <2>1. ASSUME Inv, UNCHANGED vars PROVE ResIsOpen'
    BY <2>1 DEF vars, ResIsOpen
  <2>2. ASSUME Inv, Next PROVE ResIsOpen'
    BY <2>2, ConnectKeeps, DestroyKeeps, QueryKeeps, FetchRowKeeps DEF Next
  <2>. QED  BY <2>1, <2>2, NextIInv
<1>3. Inv => ResIsOpen
  OBVIOUS
<1>. QED  BY <1>1, <1>2, <1>3, PTL DEF Spec
=============================================================================
