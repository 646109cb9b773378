----------------------------- MODULE MCBrokerConn -----------------------------
(* BrokerConn on a small instance. *)
EXTENDS BrokerConn, TLC

CONSTANTS g1, g2, s1, s2

\* Subscribers are interchangeable, and so are reconnect goroutines.
Symmetry == Permutations(Sub) \cup Permutations(Loop)
=============================================================================
