-------------------------- MODULE MCRetentionCycle --------------------------
(* Instances of RetentionCycle for TLC: one table, or two tables the       *)
(* second of which holds one row.                                          *)
EXTENDS RetentionCycle, TLC

CONSTANTS r0, bookings, notifications

OneTable  == <<bookings>>
TwoTables == <<bookings, notifications>>

AllBookings == [r \in Rows |-> bookings]
OneNotice   == [r \in Rows |-> IF r = r0 THEN notifications ELSE bookings]

\* The rows of one table are interchangeable.
RowSymmetry == Permutations(Rows \ {r0})
=============================================================================
