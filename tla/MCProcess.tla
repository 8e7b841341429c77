------------------------------ MODULE MCProcess ------------------------------
(***************************************************************************)
(* A process with one client, one connection of its own and a timer.       *)
(***************************************************************************)
EXTENDS Process

CONSTANTS c, r

\* The script begins by registering its callbacks.
Registers ==
    /\ \E name \in Names \ cbs_ : setCallBack(name)
    /\ UNCHANGED timersOnly

MCNext == Registers \/ (cbs_ = Names /\ ProcessNext)

MCSpec ==
    ProcessInit /\ [][MCNext]_processVars /\ ProcessFairness /\ WF_processVars(Registers)
=============================================================================
