-------------------------- MODULE ConnectivityTest --------------------------
(***************************************************************************)
(* POST /auth/spx-login/:label (api-gateway/src/routes/spx_login.rs): a    *)
(* test of a stored credential logs in to SPX for real, behind a Redis key *)
(* per label that is set for CLAIM_TTL_SECS before the login and set again *)
(* for TEST_COOLDOWN_SECS after it.  The clock ticks in steps of the       *)
(* client's request timeout, ten seconds.                                  *)
(***************************************************************************)
EXTENDS SpxLogin, FiniteSets

CONSTANTS
    Labels,
    Tests,          \* the callers
    ClaimTtl,       \* CLAIM_TTL_SECS, in ticks
    TestCooldown,   \* TEST_COOLDOWN_SECS, in ticks
    None

VARIABLES
    lock,   \* label -> ticks left of its Redis key, 0 if absent
    test,   \* caller -> its request
    slow    \* history: labels a test of which took ClaimTtl ticks

vars == <<lock, test, slow>>

\* waited: the request under way has seen a tick; ticks: how many have
\* passed since the claim.
NoTest == [pc |-> "idle", label |-> None, login |-> Fresh("api"),
           waited |-> FALSE, ticks |-> 0]

Init ==
    /\ lock = [l \in Labels |-> 0]
    /\ test = [t \in Tests |-> NoTest]
    /\ slow = {}

\* The session, the row and its password have been checked.
Arrive(t) ==
    /\ test[t].pc = "idle"
    /\ \E l \in Labels : test' = [test EXCEPT ![t] = [@ EXCEPT !.pc = "claim", !.label = l]]
    /\ UNCHANGED <<lock, slow>>

\* Variant: the key is set for the cooldown from the start.
ClaimForCooldown(t) ==
    LET l == test[t].label
    IN  /\ test[t].pc = "claim" /\ lock[l] = 0
        /\ lock' = [lock EXCEPT ![l] = TestCooldown]
        /\ test' = [test EXCEPT ![t].pc = "login"]
        /\ UNCHANGED slow

\* SET NX EX.
Claim(t) ==
    LET l == test[t].label
    IN  /\ test[t].pc = "claim" /\ lock[l] = 0
        /\ lock' = [lock EXCEPT ![l] = ClaimTtl]
        /\ test' = [test EXCEPT ![t].pc = "login"]
        /\ UNCHANGED slow

\* The key is there (429), Redis fails (500), or the caller goes away and
\* the handler ends where it stands.
Leave(t) ==
    /\ test[t].pc # "idle"
    /\ test' = [test EXCEPT ![t] = NoTest]
    /\ UNCHANGED <<lock, slow>>

\* run_login: the API tier, then the form, nothing kept of the session.
Answer(t, answer) ==
    LET next == After(test[t].login, answer)
    IN  /\ test[t].pc = "login"
        /\ answer.skey => TakesPassword(test[t].login)
        /\ test' = [test EXCEPT ![t] =
               IF Ended(next)
               THEN [@ EXCEPT !.pc = "refresh", !.login = Fresh("api"), !.waited = FALSE]
               ELSE [@ EXCEPT !.login = next, !.waited = FALSE]]
        /\ UNCHANGED <<lock, slow>>

\* SET EX, whoever has claimed the key since; an error is ignored (Leave).
Refresh(t) ==
    /\ test[t].pc = "refresh"
    /\ lock' = [lock EXCEPT ![test[t].label] = TestCooldown]
    /\ test' = [test EXCEPT ![t] = NoTest]
    /\ UNCHANGED slow

Running(t) == test[t].pc = "login"

Holding(t) == test[t].pc \in {"login", "refresh"}

\* Ten seconds: no request, to SPX or to Redis, lives through two ticks.
Tick ==
    /\ \E l \in Labels : lock[l] > 0
    /\ \A t \in Tests : Holding(t) => ~test[t].waited
    /\ lock' = [l \in Labels |-> IF lock[l] = 0 THEN 0 ELSE lock[l] - 1]
    /\ test' = [t \in Tests |->
           IF Holding(t) THEN [test[t] EXCEPT !.waited = TRUE, !.ticks = @ + 1]
           ELSE test[t]]
    /\ slow' = slow \cup
           {test[t].label : t \in {u \in Tests : Holding(u) /\ test'[u].ticks >= ClaimTtl}}

Next ==
    \/ Tick
    \/ \E t \in Tests :
           \/ Arrive(t) \/ Claim(t) \/ Leave(t) \/ Refresh(t)
           \/ \E answer \in Answers : Answer(t, answer)

Spec == Init /\ [][Next]_vars

-----------------------------------------------------------------------------
(* Properties *)

\* The keys and the requests hold values of the code's types.
TypeOK ==
    /\ \A l \in Labels : lock[l] \in 0..ClaimTtl \cup 0..TestCooldown
    /\ \A t \in Tests :
           /\ test[t].pc \in {"idle", "claim", "login", "refresh"}
           /\ test[t].login \in Logins
           /\ test[t].ticks \in 0..(MostRequests + 1)
    /\ slow \subseteq Labels

\* As long as no test of a label has taken CLAIM_TTL_SECS from its claim to
\* its refresh, no two tests of it log in at once.
TestsTakeTurns ==
    \A t, u \in Tests :
        t # u /\ Running(t) /\ Running(u) /\ test[t].label = test[u].label
        => test[t].label \in slow

\* The key is there for as long as a login runs (spx_login.rs: "so the lock
\* never lapses WHILE a slow login is still running").
LockOutlastsLogin == \A t \in Tests : Running(t) => lock[test[t].label] > 0
=============================================================================
