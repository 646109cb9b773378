---------------------------- MODULE MCDbConnection ----------------------------
(* DbConnection on a small instance. *)
EXTENDS DbConnection

CONSTANTS n1, n2, c1, c2, t1
=============================================================================
