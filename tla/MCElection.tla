----------------------------- MODULE MCElection -----------------------------
(* Election on a small instance.                                             *)
EXTENDS Election, TLC

CONSTANTS p1, p2, p3
=============================================================================
