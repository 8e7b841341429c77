----------------------------- MODULE SessionLife -----------------------------
(***************************************************************************)
(* What the library promises a script about each Session: the script is    *)
(* introduced to it by one "accept" or "connect" callback, may then get    *)
(* "read" callbacks, one at a time, and hears nothing of it any more once  *)
(* it is over.  Nothing tells the script that it is over.                  *)
(***************************************************************************)
CONSTANT Sessions

VARIABLE phase

Init == phase = [s \in Sessions |-> "new"]

Goes(s, from, to) == phase[s] \in from /\ phase' = [phase EXCEPT ![s] = to]

Introduce(s) == Goes(s, {"new"}, "callback")
Return(s) == Goes(s, {"callback"}, "quiet")
Message(s) == Goes(s, {"quiet"}, "callback")

\* An error, the end of the peer, or of this process.
Finish(s) == Goes(s, {"new", "callback", "quiet"}, "over")

Next == \E s \in Sessions : Introduce(s) \/ Return(s) \/ Message(s) \/ Finish(s)

Spec == Init /\ [][Next]_phase
=============================================================================
