------------------------------- MODULE MCEngine -------------------------------
(* Engine for TLC: a start request and a poll, or two of a kind, of sizes that *)
(* come in one read or several, with and without Content-Length, and one that *)
(* is longer than a connection reads.                                         *)
EXTENDS Engine

CONSTANTS c1, c2

Start == [starts |-> TRUE, head |-> 1, body |-> 2, declared |-> TRUE]
MCRequests ==
    {Start, [Start EXCEPT !.declared = FALSE], [Start EXCEPT !.body = 4],
     [Start EXCEPT !.starts = FALSE, !.body = 0, !.declared = FALSE]}
=============================================================================
