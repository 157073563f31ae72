----------------------------- MODULE MCRequests -----------------------------
(* A small instance of Requests.                                             *)
EXTENDS Requests, TLC

CONSTANTS c1, c2, c3

\* One tick doubled, at most two.
Delays == [n \in 1..MaxAttempts |-> IF n = 1 THEN 1 ELSE 2]

Symmetry == Permutations(Callers)
=============================================================================
