------------------------------- MODULE MCSocket -------------------------------
(***************************************************************************)
(* A process that serves two clients and connects to a third process.      *)
(***************************************************************************)
EXTENDS Socket

CONSTANTS c1, c2, r
=============================================================================
