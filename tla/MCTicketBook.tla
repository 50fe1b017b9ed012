---------------------------- MODULE MCTicketBook ----------------------------
(* An instance of TicketBook for TLC: ticket s is listed to two accounts,  *)
(* ticket t to one; pages of one row.                                      *)
EXTENDS TicketBook, TLC

CONSTANTS a, b, s, t

MCRows  == {<<a, s>>, <<b, s>>, <<a, t>>}
MCFacts == s :> [deadline |-> 5, spx_id |-> <<"%", "a", "_">>]
        @@ t :> [deadline |-> None, spx_id |-> <<Back, "%", "a">>]

NoFilter == [status |-> None, prefix |-> <<>>, equal |-> <<>>, least |-> <<>>,
             most |-> <<>>, sort |-> "newest"]

MCFilters == {
    NoFilter,
    [NoFilter EXCEPT !.sort = "deadline"],
    [NoFilter EXCEPT !.equal = [accept_reason |-> "taken_by_other"],
                     !.least = [deadline |-> 3], !.most = [deadline |-> 5]]}

\* Handlers are neither ordered nor chosen by name.
Symmetry == Permutations(Desks)

MCTokens == {Sign(s, TRUE, 0), Sign(t, TRUE, 1), Sign(t, FALSE, 1)}

MCTerms == {<<"%">>, <<"_">>, <<Back, "%">>}
=============================================================================
