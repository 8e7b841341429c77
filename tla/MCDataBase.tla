----------------------------- MODULE MCDataBase -----------------------------
(***************************************************************************)
(* Results of no, one and two rows, and a statement without a result set.  *)
(***************************************************************************)
EXTENDS DataBase, TLC

CONSTANTS empty, one, two, update

MCRows == (empty :> 0) @@ (one :> 1) @@ (two :> 2)
=============================================================================
