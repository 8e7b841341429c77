------------------------------- MODULE Channel -------------------------------
(***************************************************************************)
(* What a connection between two Sessions promises to the scripts: each    *)
(* direction hands over the messages of the other end whole, in the order  *)
(* they were written, none twice and none skipped.  A connection may break *)
(* at any time, so nothing is said about how many messages arrive.         *)
(***************************************************************************)
EXTENDS Naturals, Sequences

CONSTANTS
    End,            \* the ends of the connections
    Peer,           \* the other end of the connection
    Content         \* what a message can say

VARIABLES
    written,        \* the messages each end has written
    received        \* the messages each end has received

vars == <<written, received>>

Init ==
    /\ written = [e \in End |-> <<>>]
    /\ received = [e \in End |-> <<>>]

Write(e) ==
    /\ \E m \in Content : written' = [written EXCEPT ![e] = Append(@, m)]
    /\ UNCHANGED received

Receive(e) ==
    /\ Len(received[e]) < Len(written[Peer[e]])
    /\ received' =
          [received EXCEPT ![e] = Append(@, written[Peer[e]][Len(@) + 1])]
    /\ UNCHANGED written

Next == \E e \in End : Write(e) \/ Receive(e)

Spec == Init /\ [][Next]_vars
=============================================================================
