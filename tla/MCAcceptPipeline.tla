-------------------------- MODULE MCAcceptPipeline --------------------------
(* Model checking of AcceptPipeline: tickets and requests are model values. *)
EXTENDS AcceptPipeline, TLC

\* Neither tickets nor requests are ordered or chosen by name.
Symmetry == Permutations(Tickets) \cup Permutations(Requests)
=============================================================================
