------------------------------- MODULE DataBase -------------------------------
(***************************************************************************)
(* libsocket/database.hpp: one MySQL connection with at most one result,   *)
(* res_, whose rows the server hands out one by one (mysql_use_result).    *)
(* A statement is what it does to the connection: some have a result set,  *)
(* of so many rows, and the others have none.                              *)
(*                                                                         *)
(* A call that throws without having reached the server changes nothing    *)
(* and is not an action: a statement the server rejects, a query while     *)
(* rows are unread ("commands out of sync"), a second connect.             *)
(***************************************************************************)
EXTENDS Integers, Sequences

CONSTANTS
    Statement,      \* what scripts give to db_fetch_row
    Queried,        \* those of them that scripts also give to db_query
    Select,         \* those with a result set
    Rows,           \* how many rows each of these has
    MaxStatements   \* bound: statements the server executes

ASSUME DataBaseAssumption ==
    /\ Queried \subseteq Statement
    /\ Select \subseteq Statement
    /\ Rows \in [Select -> Nat]
    /\ MaxStatements \in Nat

VARIABLES
    conn,           \* "closed", or the status of connection_: "ready" for a
                    \* query, with a "result" not yet in use, or unread "rows";
                    \* "destroyed" after the end of the Lua state
    res_,           \* the statement the result set belongs to, 0 for nullptr
    unread,         \* rows of it that have not been fetched
    \* history, for the properties
    ran,            \* the statements the server executed
    answers         \* what fetch_row returned: row i of the result of
                    \* statement k, or its end, and if rows were cut off

vars == <<conn, res_, unread, ran, answers>>

Answer == [k : 1..MaxStatements, i : Nat, cut : BOOLEAN]
Row(k, i) == [k |-> k, i |-> i, cut |-> FALSE]
NoRow(k, cut) == [k |-> k, i |-> 0, cut |-> cut]

Init ==
    /\ conn = "closed"
    /\ res_ = 0
    /\ unread = 0
    /\ ran = <<>>
    /\ answers = <<>>

\* connect().  On a connection that is open the client library refuses.
connect ==
    /\ conn = "closed"
    /\ conn' = "ready"
    /\ UNCHANGED <<res_, unread, ran, answers>>

\* The destructor closes the connection, and with it a result that has not
\* been read to its end, which is not freed.
destroy ==
    /\ conn # "destroyed"
    /\ conn' = "destroyed"
    /\ UNCHANGED <<res_, unread, ran, answers>>
-----------------------------------------------------------------------------
\* mysql_query: the server executes the statement.
Executes(q) ==
    /\ conn = "ready"
    /\ Len(ran) < MaxStatements
    /\ ran' = Append(ran, q)

\* mysql_query fails as the server is gone, before or after it executed the
\* statement.
LosesServer(q) ==
    /\ conn = "ready"
    /\ conn' = "closed"
    /\ \/ UNCHANGED ran
       \/ Len(ran) < MaxStatements /\ ran' = Append(ran, q)
    /\ UNCHANGED <<res_, unread, answers>>

\* query() from db_query.  Nobody asks for the result.
query(q) ==
    \/ LosesServer(q)
    \/ /\ Executes(q)
       /\ conn' = IF q \in Select THEN "result" ELSE "ready"
       /\ UNCHANGED <<res_, unread, answers>>

\* Mutant: what mysql_fetch_row returns is not compared with nullptr.
GotRowAlways(rest) == TRUE

GotRow(rest) == rest > 0

\* Mutant: res_ is not cleared after mysql_free_result.
FreedKept(k) == k

\* res_ after mysql_free_result.
Freed(k) == 0

\* Mutant: the result is freed after each row, which discards the others.
KeepOne(k, rest) == res_' = 0 /\ unread' = 0 /\ conn' = "ready"

\* fetch_row keeps res_ for its next call.
Keep(k, rest) == res_' = k /\ unread' = rest /\ conn' = "rows"

\* The second half of fetch_row: one row of the result of statement k, of
\* which rest are unread.  An error of mysql_fetch_row looks like the end:
\* the server is lost, or it gave up the statement.
FetchNext(k, rest) ==
    \/ /\ GotRow(rest)
       /\ Keep(k, rest - 1)
       /\ answers' = Append(answers, Row(k, Rows[ran'[k]] - rest + 1))
    \/ \E cut \in BOOLEAN :
          /\ GotRow(rest) => cut
          /\ res_' = Freed(k)
          /\ unread' = 0
          /\ conn' = "ready" \/ (cut /\ conn' = "closed")
          /\ answers' = Append(answers, NoRow(k, cut))

\* Mutant: fetch_row runs its statement in any case.
RunsAlways == TRUE

RunsStatement == res_ = 0

\* fetch_row().  A statement without a result set has been executed when it
\* throws.  While there is a result, que is ignored.
fetch_row(q) ==
    \/ /\ RunsStatement
       /\ LosesServer(q)
    \/ /\ RunsStatement
       /\ Executes(q)
       /\ q \notin Select
       /\ UNCHANGED <<conn, res_, unread, answers>>
    \/ /\ RunsStatement
       /\ Executes(q)
       /\ q \in Select
       /\ FetchNext(Len(ran'), Rows[q])
    \/ /\ ~RunsStatement
       /\ conn # "destroyed"
       /\ UNCHANGED ran
       /\ FetchNext(res_, unread)

Next ==
    \/ connect
    \/ destroy
    \/ \E q \in Queried : query(q)
    \/ \E q \in Statement : fetch_row(q)

Spec == Init /\ [][Next]_vars

\* The script goes on fetching.
Fetching == \E q \in Statement : fetch_row(q)
FairSpec == Spec /\ WF_vars(Fetching)
-----------------------------------------------------------------------------
Connections == {"closed", "ready", "result", "rows", "destroyed"}

\* The type invariant: the connection, res_ and what fetch_row returned.
TypeOK ==
    /\ conn \in Connections
    /\ res_ \in 0..Len(ran)
    /\ unread \in Nat
    /\ ran \in Seq(Statement)
    /\ Len(ran) <= MaxStatements
    /\ answers \in Seq(Answer)

(***************************************************************************)
(* database.hpp, at query and fetch_row: a general query, and the current  *)
(* res_.  The connection has an unread result exactly while res_ stands    *)
(* for it.  Otherwise every further query would fail, or a row would be    *)
(* fetched from a result that is gone.                                     *)
(***************************************************************************)
ResIsOpen == conn # "destroyed" => (res_ # 0 <=> conn \in {"result", "rows"})

(***************************************************************************)
(* Over any number of calls, fetch_row returns the rows of one result in   *)
(* order, all of them unless an error cuts them off, then nullptr once,    *)
(* and only then the first row of another result.                          *)
(***************************************************************************)
ReadThrough ==
    \A n \in 1..Len(answers) :
        LET a == answers[n]
            first == n = 1 \/ answers[n - 1].i = 0
            rowsBefore == IF first THEN 0 ELSE answers[n - 1].i
        IN  /\ ~first => answers[n - 1].k = a.k
            /\ a.i # 0 => a.i = rowsBefore + 1
            /\ a.i = 0 => a.cut \/ rowsBefore = Rows[ran[a.k]]

(***************************************************************************)
(* A script that goes on fetching comes to the end of every result, with   *)
(* whatever statements it calls fetch_row, if the Lua state lives on.      *)
(***************************************************************************)
ResultEnds == res_ # 0 ~> res_ = 0 \/ conn = "destroyed"
=============================================================================
