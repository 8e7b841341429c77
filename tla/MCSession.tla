------------------------------ MODULE MCSession ------------------------------
(***************************************************************************)
(* One connection between two Sessions: the server a and its client b.     *)
(***************************************************************************)
EXTENDS Session, TLC

CONSTANTS a, b

MCPeer == (a :> b) @@ (b :> a)
MCOneWay == (a :> 2) @@ (b :> 0)
MCBothWays == (a :> 2) @@ (b :> 1)
=============================================================================
