---------------------------- MODULE MCSessionStore ----------------------------
(* SessionStore for TLC: a few handlers of each kind, interchangeable.       *)
EXTENDS SessionStore, TLC

CONSTANTS u1, d1, d2, g1, p1, w1, w2

HandlerSymmetry == Permutations(Deletes) \cup Permutations(Sockets)
=============================================================================
