------------------------------ MODULE MCSession ------------------------------
(* Session on a small instance. *)
EXTENDS Session, TLC

CONSTANTS u1, u2, h1, h2, a1, a2

\* Handlers and addresses are interchangeable.
Symmetry == Permutations(Handler) \cup Permutations(IP)
=============================================================================
