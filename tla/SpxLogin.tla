------------------------------ MODULE SpxLogin ------------------------------
(***************************************************************************)
(* One login to SPX, request by request (poller/src/login.rs,              *)
(* spx-client/src/login.rs): the browser tier through the sidecar, the     *)
(* variants of the API login, the three requests of the login form, and,   *)
(* once a session key is in the jar, the pages that may set spx_cid.       *)
(* Of the eleven cookies the jar keeps the two the flow depends on.        *)
(***************************************************************************)
EXTENDS Naturals

CONSTANTS
    ApiVariants,    \* endpoint and body variants of api_login
    CidPages        \* requests of fetch_spx_cid

ASSUME LoginAssumption == {ApiVariants, CidPages} \subseteq Nat \ {0}

\* A login before its request number step of a tier, and the jar.
At(tier, step, skey, cid) ==
    [tier |-> tier, step |-> step, skey |-> skey, cid |-> cid]

Fresh(tier) == At(tier, 1, FALSE, FALSE)

\* What a request brings: nothing (an error or the time limit), or an
\* answer that sets cookies and may redirect.
Lost == [reply |-> FALSE, skey |-> FALSE, cid |-> FALSE, redirect |-> FALSE]
Answers == {Lost} \cup [reply : {TRUE}, skey : BOOLEAN, cid : BOOLEAN, redirect : BOOLEAN]

\* A tier that has the session key ends in fetch_spx_cid.
Enrich(cid) == IF cid THEN At("done", 1, TRUE, TRUE) ELSE At("cid", 1, TRUE, FALSE)

\* The browser returns all cookies or none; the next tier follows.
AfterBrowser(a) == IF a.skey THEN Enrich(a.cid) ELSE Fresh("api")

\* Variant: one variant past the last.
AfterApiOneMore(l, a) ==
    IF a.skey THEN Enrich(a.cid)
    ELSE IF l.step <= ApiVariants THEN At("api", l.step + 1, FALSE, FALSE)
    ELSE Fresh("form")

\* Every variant starts from an empty jar.
AfterApi(l, a) ==
    IF a.skey THEN Enrich(a.cid)
    ELSE IF l.step < ApiVariants THEN At("api", l.step + 1, FALSE, FALSE)
    ELSE Fresh("form")

\* GET the form, POST it, follow one redirect, all with one jar; only the
\* redirect may fail.
AfterForm(l, a) ==
    LET skey == l.skey \/ a.skey
        cid == l.cid \/ a.cid
    IN  IF ~a.reply /\ l.step < 3 THEN At("failed", 1, FALSE, FALSE)
        ELSE IF l.step = 1 \/ (l.step = 2 /\ a.redirect)
             THEN At("form", l.step + 1, skey, cid)
        ELSE IF skey THEN Enrich(cid)
        ELSE At("failed", 1, FALSE, FALSE)

\* A login does not fail for want of spx_cid.
AfterCid(l, a) ==
    IF a.cid \/ l.step = CidPages THEN At("done", 1, TRUE, a.cid)
    ELSE At("cid", l.step + 1, TRUE, FALSE)

After(l, a) ==
    CASE l.tier = "browser" -> AfterBrowser(a)
      [] l.tier = "api"     -> AfterApi(l, a)
      [] l.tier = "form"    -> AfterForm(l, a)
      [] l.tier = "cid"     -> AfterCid(l, a)

Ended(l) == l.tier \in {"done", "failed"}

\* The requests that carry the password, or the form's answer to it.
TakesPassword(l) == l.tier \in {"browser", "api"} \/ (l.tier = "form" /\ l.step > 1)

\* The most requests a login that starts at the API tier makes.
MostRequests == ApiVariants + 3 + CidPages

Logins ==
    [tier : {"browser", "done", "failed"}, step : {1}, skey : BOOLEAN, cid : BOOLEAN]
    \cup [tier : {"api"}, step : 1..ApiVariants, skey : {FALSE}, cid : {FALSE}]
    \cup [tier : {"form"}, step : 1..3, skey : BOOLEAN, cid : BOOLEAN]
    \cup [tier : {"cid"}, step : 1..CidPages, skey : {TRUE}, cid : {FALSE}]
=============================================================================
