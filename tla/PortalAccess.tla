---------------------------- MODULE PortalAccess ----------------------------
(***************************************************************************)
(* Who may do what in the portal: users and their sessions (routes/auth.rs,*)
(* auth/middleware.rs, routes/portal_users.rs) and the one-time code that  *)
(* arms automatic acceptance (otp.rs, routes/otp.rs).  Every statement to  *)
(* Postgres that writes, and every command to Redis, is a step of its own; *)
(* a handler ends where it stands when its caller goes away or a call      *)
(* fails.  What a proof is good for is in module RuleSettings.             *)
(***************************************************************************)
EXTENDS Naturals, FiniteSets

CONSTANTS
    Users, Tokens, Handlers,
    Armers,                 \* the users who ask for codes
    FirstMains, FirstSubs,  \* the users there are at first
    MaxAttempts,            \* MAX_ATTEMPTS of otp.rs
    MaxCodes,               \* bound: codes issued
    None

ASSUME PortalAssumption ==
    /\ FirstMains \subseteq Users /\ FirstSubs \subseteq Users \ FirstMains
    /\ FirstMains # {} /\ Armers \subseteq Users
    /\ MaxAttempts \in Nat \ {0} /\ MaxCodes \in Nat
    /\ None \notin Users \cup Tokens
    /\ {"unborn", "deleted"} \cap Users = {}

VARIABLES
    users,      \* portal_users: id -> "main", "sub", "unborn" or "deleted"
    session,    \* portal_sessions: token -> its user, "unborn" or "deleted"
    otp,        \* Redis: user -> the keys of its code
    handler,    \* the requests being served
    issued,     \* codes generated so far; a code is its number
    seen,       \* user -> what became of its last code, for the properties
    crossed     \* two main accounts deleted each other at the same time

vars == <<users, session, otp, handler, issued, seen, crossed>>

\* attempts 0 is the absent key; window: the key has its time limit, older:
\* that was set before the code was.
NoKeys == [cooldown |-> FALSE, code |-> 0, attempts |-> 0, window |-> FALSE,
           older |-> FALSE]

NoHandler == [pc |-> "idle", token |-> None, user |-> None, target |-> None,
              code |-> 0]

\* sent: the code left for its user; alone: no two handlers were at its keys
\* at once since it was stored.
NothingSeen == [tries |-> 0, proofs |-> 0, sent |-> FALSE, alone |-> FALSE]

Init ==
    /\ users = [u \in Users |-> IF u \in FirstMains THEN "main"
                                ELSE IF u \in FirstSubs THEN "sub" ELSE "unborn"]
    /\ session = [t \in Tokens |-> "unborn"]
    /\ otp = [u \in Users |-> NoKeys]
    /\ handler = [h \in Handlers |-> NoHandler]
    /\ issued = 0
    /\ seen = [u \in Users |-> NothingSeen]
    /\ crossed = FALSE

Lives(u) == users[u] \in {"main", "sub"}

Done(h) == handler' = [handler EXCEPT ![h] = NoHandler]
Goto(h, pc) == handler' = [handler EXCEPT ![h].pc = pc]

-----------------------------------------------------------------------------
(* Login, and the middleware before every other route *)

\* portal_login: the user is looked for and the password compared.
FindByName(h) ==
    /\ handler[h].pc = "idle"
    /\ \E u \in Users :
          /\ Lives(u)
          /\ handler' = [handler EXCEPT ![h].pc = "insert", ![h].user = u]
    /\ UNCHANGED <<users, session, otp, issued, seen, crossed>>

\* Variant: portal_sessions without its foreign key.
InsertOrphan(h) ==
    /\ handler[h].pc = "insert"
    /\ \E t \in Tokens :
          /\ session[t] = "unborn"
          /\ session' = [session EXCEPT ![t] = handler[h].user]
    /\ Done(h)
    /\ UNCHANGED <<users, otp, issued, seen, crossed>>

\* A row whose user is gone by now is refused by its foreign key.
InsertSession(h) ==
    /\ handler[h].pc = "insert"
    /\ \E t \in Tokens :
          /\ session[t] = "unborn"
          /\ session' = [session EXCEPT ![t] = IF Lives(handler[h].user)
                                               THEN handler[h].user ELSE @]
    /\ Done(h)
    /\ UNCHANGED <<users, otp, issued, seen, crossed>>

\* The steps of the two OTP routes, from the first key to the last.
OtpSteps == {"request", "store", "reset", "verify", "window", "compare", "burn",
             "clear", "prove"}

\* Another handler is between two commands on the keys of u.
Busy(h, u) ==
    \E g \in Handlers \ {h} : handler[g].user = u /\ handler[g].pc \in OtpSteps

\* find_valid_by_hash, find_by_id and require_permission: all but the logout
\* is for main accounts.  One step: a session ends with its user, and a
\* user's role never changes.
Authorize(h) ==
    /\ handler[h].pc = "idle"
    /\ \E t \in Tokens, what \in {"logout", "create", "delete", "request", "verify"},
          target \in Users \cup {None}, code \in 0..issued :
          LET u == session[t]
          IN  /\ u \in Users /\ Lives(u)
              /\ users[u] = "main" \/ what = "logout"
              /\ what \in {"request", "verify"} => u \in Armers
              /\ what = "delete" <=> target # None
              /\ what # "verify" => code = 0
              /\ handler' = [handler EXCEPT ![h] =
                     [pc |-> what, token |-> IF what = "logout" THEN t ELSE None,
                      user |-> u, target |-> target, code |-> code]]
              /\ seen' = IF what \in OtpSteps /\ Busy(h, u)
                         THEN [seen EXCEPT ![u] = NothingSeen] ELSE seen
    /\ UNCHANGED <<users, session, otp, issued, crossed>>

Logout(h) ==
    /\ handler[h].pc = "logout"
    /\ session' = [session EXCEPT ![handler[h].token] = "deleted"]
    /\ Done(h)
    /\ UNCHANGED <<users, otp, issued, seen, crossed>>

SessionExpires(t) ==
    /\ session[t] \in Users
    /\ session' = [session EXCEPT ![t] = "deleted"]
    /\ UNCHANGED <<users, otp, handler, issued, seen, crossed>>

-----------------------------------------------------------------------------
(* /auth/portal-users *)

Create(h) ==
    /\ handler[h].pc = "create"
    /\ \E u \in Users, role \in {"main", "sub"} :
          /\ users[u] = "unborn"
          /\ users' = [users EXCEPT ![u] = role]
    /\ Done(h)
    /\ UNCHANGED <<session, otp, issued, seen, crossed>>

\* Sessions go with their user (ON DELETE CASCADE).  The deletions cross
\* when the one deleted is about to delete, too.
Deleting(h) ==
    LET k == handler[h]
    IN  /\ Lives(k.target)
        /\ users' = [users EXCEPT ![k.target] = "deleted"]
        /\ session' = [t \in Tokens |-> IF session[t] = k.target THEN "deleted"
                                        ELSE session[t]]
        /\ crossed' = (crossed \/
               \E g \in Handlers \ {h} : handler[g].pc = "delete" /\ handler[g].user = k.target)

\* Variant: one's own row may go.
DeleteAny(h) ==
    /\ handler[h].pc = "delete"
    /\ Deleting(h) \/ UNCHANGED <<users, session, crossed>>
    /\ Done(h)
    /\ UNCHANGED <<otp, issued, seen>>

\* One's own row is refused (400), a row that is not there is 404.
Delete(h) ==
    /\ handler[h].pc = "delete"
    /\ \/ handler[h].target # handler[h].user /\ Deleting(h)
       \/ /\ handler[h].target = handler[h].user \/ ~Lives(handler[h].target)
          /\ UNCHANGED <<users, session, crossed>>
    /\ Done(h)
    /\ UNCHANGED <<otp, issued, seen>>

-----------------------------------------------------------------------------
(* otp::request *)

\* SET NX EX of the cooldown.
Cooldown(h) ==
    LET u == handler[h].user
    IN  /\ handler[h].pc = "request"
        /\ \/ /\ ~otp[u].cooldown
              /\ otp' = [otp EXCEPT ![u].cooldown = TRUE]
              /\ Goto(h, "store")
           \/ /\ otp[u].cooldown
              /\ Done(h) /\ UNCHANGED otp
        /\ UNCHANGED <<users, session, issued, seen, crossed>>

Store(h) ==
    LET u == handler[h].user
    IN  /\ handler[h].pc = "store"
        /\ issued < MaxCodes
        /\ issued' = issued + 1
        /\ otp' = [otp EXCEPT ![u].code = issued + 1, ![u].older = otp[u].window]
        /\ seen' = [seen EXCEPT ![u] = [NothingSeen EXCEPT !.alone = ~Busy(h, u)]]
        /\ Goto(h, "reset")
        /\ UNCHANGED <<users, session, crossed>>

NoAttempts(u) == [otp EXCEPT ![u].attempts = 0, ![u].window = FALSE, ![u].older = FALSE]

\* The code is sent after this.
Reset(h) ==
    /\ handler[h].pc = "reset"
    /\ otp' = NoAttempts(handler[h].user)
    /\ seen' = [seen EXCEPT ![handler[h].user].sent = seen[handler[h].user].alone]
    /\ Done(h)
    /\ UNCHANGED <<users, session, issued, crossed>>

-----------------------------------------------------------------------------
(* otp::verify *)

Counted(u) == seen[u].alone /\ seen[u].sent

\* INCR; past MaxAttempts the counter is kept where it is.
Count(h) ==
    LET u == handler[h].user
        n == otp[u].attempts + 1
    IN  /\ handler[h].pc = "verify"
        /\ otp' = [otp EXCEPT ![u].attempts = IF n > MaxAttempts THEN MaxAttempts + 1 ELSE n]
        /\ \/ n = 1 /\ Goto(h, "window")
           \/ n \in 2..MaxAttempts /\ Goto(h, "compare")
           \/ n > MaxAttempts /\ n > 1 /\ Done(h)
        /\ UNCHANGED <<users, session, issued, seen, crossed>>

\* Variant: the counter is written again with its time limit.
WindowAnyway(h) ==
    LET u == handler[h].user
    IN  /\ handler[h].pc = "window"
        /\ otp' = [otp EXCEPT ![u].window = TRUE, ![u].older = FALSE]
        /\ Goto(h, "compare")
        /\ UNCHANGED <<users, session, issued, seen, crossed>>

\* EXPIRE, which does nothing to a key that is gone.
Window(h) ==
    LET u == handler[h].user
    IN  /\ handler[h].pc = "window"
        /\ otp' = [otp EXCEPT ![u].window = otp[u].attempts > 0, ![u].older = FALSE]
        /\ Goto(h, "compare")
        /\ UNCHANGED <<users, session, issued, seen, crossed>>

Compare(h) ==
    LET k == handler[h]
        code == otp[k.user].code
    IN  /\ k.pc = "compare"
        /\ seen' = IF code # 0 /\ Counted(k.user) /\ seen[k.user].tries <= MaxAttempts
                   THEN [seen EXCEPT ![k.user].tries = @ + 1] ELSE seen
        /\ IF code # 0 /\ code = k.code THEN Goto(h, "burn") ELSE Done(h)
        /\ UNCHANGED <<users, session, otp, issued, crossed>>

\* Variant: the code stays until it expires.
BurnNothing(h) ==
    /\ handler[h].pc = "burn"
    /\ Goto(h, "clear")
    /\ UNCHANGED <<users, session, otp, issued, seen, crossed>>

Burn(h) ==
    /\ handler[h].pc = "burn"
    /\ otp' = [otp EXCEPT ![handler[h].user].code = 0]
    /\ Goto(h, "clear")
    /\ UNCHANGED <<users, session, issued, seen, crossed>>

Clear(h) ==
    /\ handler[h].pc = "clear"
    /\ otp' = NoAttempts(handler[h].user)
    /\ Goto(h, "prove")
    /\ UNCHANGED <<users, session, issued, seen, crossed>>

\* The proof is what put_settings looks for (Prove of RuleSettings).
Prove(h) ==
    LET k == handler[h]
    IN  /\ k.pc = "prove"
        /\ seen' = IF Counted(k.user) /\ seen[k.user].proofs < 2
                   THEN [seen EXCEPT ![k.user].proofs = @ + 1] ELSE seen
        /\ Done(h)
        /\ UNCHANGED <<users, session, otp, issued, crossed>>

-----------------------------------------------------------------------------
(* Time limits of the keys *)

\* The cooldown is the shortest, and set before the code.
CooldownExpires(u) ==
    /\ otp[u].cooldown
    /\ otp' = [otp EXCEPT ![u].cooldown = FALSE]
    /\ UNCHANGED <<users, session, handler, issued, seen, crossed>>

CodeExpires(u) ==
    /\ otp[u].code # 0 /\ ~otp[u].cooldown
    /\ otp' = [otp EXCEPT ![u].code = 0]
    /\ UNCHANGED <<users, session, handler, issued, seen, crossed>>

\* Variant: the attempts live shorter than the code.
ShortWindow(u) ==
    /\ otp[u].window
    /\ otp' = NoAttempts(u)
    /\ UNCHANGED <<users, session, handler, issued, seen, crossed>>

\* The attempts live as long as the code: a window set after the code ends
\* after it.
WindowExpires(u) ==
    /\ otp[u].window
    /\ otp[u].code = 0 \/ otp[u].older
    /\ otp' = NoAttempts(u)
    /\ UNCHANGED <<users, session, handler, issued, seen, crossed>>

\* The caller goes away, a call fails, the process ends.
Leave(h) ==
    /\ handler[h].pc # "idle"
    /\ Done(h)
    /\ UNCHANGED <<users, session, otp, issued, seen, crossed>>

-----------------------------------------------------------------------------

HandlerStep(h) ==
    \/ FindByName(h) \/ InsertSession(h)
    \/ Authorize(h) \/ Logout(h)
    \/ Create(h) \/ Delete(h)
    \/ Cooldown(h) \/ Store(h) \/ Reset(h)
    \/ Count(h) \/ Window(h) \/ Compare(h) \/ Burn(h) \/ Clear(h) \/ Prove(h)
    \/ Leave(h)

Next ==
    \/ \E h \in Handlers : HandlerStep(h)
    \/ \E t \in Tokens : SessionExpires(t)
    \/ \E u \in Users : CooldownExpires(u) \/ CodeExpires(u) \/ WindowExpires(u)

Spec == Init /\ [][Next]_vars

-----------------------------------------------------------------------------
(* Properties *)

\* Rows, keys and handlers hold values of the code's types; a time limit is
\* one of a counter there is, and a stored code one that was generated.
TypeOK ==
    /\ users \in [Users -> {"main", "sub", "unborn", "deleted"}]
    /\ session \in [Tokens -> Users \cup {"unborn", "deleted"}]
    /\ otp \in [Users -> [cooldown : BOOLEAN, code : 0..MaxCodes,
                          attempts : 0..(MaxAttempts + 1), window : BOOLEAN,
                          older : BOOLEAN]]
    /\ issued \in 0..MaxCodes
    /\ \A u \in Users : /\ otp[u].code <= issued
                        /\ otp[u].window => otp[u].attempts > 0
                        /\ otp[u].older => otp[u].window
    /\ \A h \in Handlers :
           /\ handler[h].pc \in OtpSteps \cup {"idle", "insert", "logout", "create", "delete"}
           /\ handler[h].user \in Users \cup {None}
           /\ handler[h].code \in 0..MaxCodes

\* A session names a user there is, however login and deletion interleave.
SessionsHaveUsers == \A t \in Tokens : session[t] \in Users => Lives(session[t])

\* The tenant keeps a main account, unless two of them deleted each other at
\* the same time (portal_users.rs refuses one's own row for that reason).
MainAccountRemains ==
    crossed \/ \E u \in Users : users[u] = "main"

\* What is left to a tenant whose users come, go and delete each other.
AccountsStand == SessionsHaveUsers /\ MainAccountRemains

\* A code that was sent, and that no two handlers were at work on at once, is
\* compared with at most MAX_ATTEMPTS inputs and yields one proof, wherever
\* handlers stop and keys expire (otp.rs: "max 5 total, ever, per code",
\* "single-use").
CodesAreLimited ==
    \A u \in Users : seen[u].tries <= MaxAttempts /\ seen[u].proofs <= 1

\* The tenant keeps a main account (portal_users.rs: the guard is there as
\* otherwise "the tenant with no way to manage sub-users").
LastMainAccountStays == \E u \in Users : users[u] = "main"
=============================================================================
