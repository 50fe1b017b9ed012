----------------------------- MODULE Credentials -----------------------------
(* SpxAccounts, and beside it ConnectivityTest, the tests of the stored    *)
(* credentials.  They share no state: what a test does to a session at SPX *)
(* is SessionEnds of SpxAccounts.                                          *)
EXTENDS SpxAccounts

CONSTANTS TestLabels, Tests, ClaimTtl, TestCooldown

VARIABLES part, lock, test, slow

Test == INSTANCE ConnectivityTest WITH Labels <- TestLabels

testing == <<lock, test, slow>>

\* As long as no test outlives its key, two tests of one label never log in
\* at once (routes/spx_login.rs).
TestsTakeTurns == Test!TestsTakeTurns
=============================================================================
