----------------------------- MODULE MCPoolView -----------------------------
(* An instance of PoolView for TLC: an account with two tickets, and       *)
(* another one beside it of which SPX lists none.                          *)
EXTENDS PoolView

CONSTANTS a1, a2, t1, t2

AllFirst == [a \in Accounts |-> IF a = a1 THEN Tickets ELSE {}]
=============================================================================
