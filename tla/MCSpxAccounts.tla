--------------------------- MODULE MCSpxAccounts ---------------------------
(* Credentials with two rows and one account, and tests of one label, for  *)
(* TLC.  To interleave the parts would show nothing: part says which of    *)
(* them a behaviour is of, the other stays as it was at first.             *)
EXTENDS Credentials, TLC

CONSTANTS a1, l1, l2, n1, blank

\* The test is of the row of the table that has one row.
SpxInit ==
    /\ part \in {"accounts", "test"}
    /\ Init /\ Test!Init
    /\ part = "test" => table[l2] = None

SpxNext ==
    /\ part' = part
    /\ \/ part = "accounts" /\ Next /\ UNCHANGED testing
       \/ part = "test" /\ Test!Next /\ UNCHANGED vars

SpxSpec == SpxInit /\ [][SpxNext]_<<part, vars, testing>> /\ Fairness

OneName == (n1 :> a1) @@ (blank :> None)

Row(account, readable, right) == [account |-> account, readable |-> readable, right |-> right]

\* Two rows of one account; a row of another key before a good one; a blank
\* name.
SomeTables ==
    {(l1 :> Row(a1, TRUE, TRUE)) @@ (l2 :> Row(a1, TRUE, FALSE)),
     (l1 :> Row(a1, FALSE, TRUE)) @@ (l2 :> Row(a1, TRUE, TRUE)),
     (l1 :> Row(None, TRUE, TRUE)) @@ (l2 :> None)}
=============================================================================
