---------------------------- MODULE SpxAccounts ----------------------------
(***************************************************************************)
(* The SPX accounts of the tenant: the rows of agency_credentials, the     *)
(* boot that starts a poll loop per account (build_state), how a loop      *)
(* keeps its session (the relogin of poll_once), and the routes that edit  *)
(* the rows.  SPX keeps one session per account: a login ends the session  *)
(* before it, and so does the login of a person or of a connectivity test  *)
(* (module ConnectivityTest).                                              *)
(*                                                                         *)
(* A cycle of a loop is reduced to what its session does: AcceptPipeline   *)
(* and PoolView are the detail.                                            *)
(***************************************************************************)
EXTENDS SpxLogin, FiniteSets

CONSTANTS
    Labels, Accounts, Names,
    AccountOf,      \* name -> its lower-cased, trimmed form, None if blank
    None,
    Puts,           \* requests: edits of the rows
    Tables,         \* the contents the table may start with
    AgencyId,       \* the agency_id build_state gives every account
    MaxCrashes      \* bound

ASSUME AccountsAssumption ==
    /\ AccountOf \in [Names -> Accounts \cup {None}]
    /\ None \notin Accounts \cup Labels
    /\ {AgencyId, MaxCrashes} \subseteq Nat

\* A row: its account, whether the master key opens it, whether SPX takes
\* the password in it.
Rows == [account : Accounts \cup {None}, readable : BOOLEAN, right : BOOLEAN]

ASSUME TablesAssumption == Tables \subseteq [Labels -> Rows \cup {None}]

VARIABLES
    table,      \* agency_credentials: label -> row, None if absent
    proc,       \* "down", "boot" or "up"
    listed,     \* the rows the boot read
    todo,       \* the labels it has still to bootstrap
    loop,       \* label -> the loop spawned for its row
    accounts,   \* PollerShared.accounts: account -> label of its handle
    session,    \* SPX: account -> label of the loop that holds its session
    put,        \* the requests
    crashes     \* counter of the bound

vars == <<table, proc, listed, todo, loop, accounts, session, put, crashes>>

NoLoop == [pc |-> "none", row |-> None, unauthorized |-> 0, due |-> FALSE,
           today |-> FALSE, login |-> Fresh("browser")]

Spawned(row) == [NoLoop EXCEPT !.pc = "poll", !.row = row, !.due = TRUE]

NoPut == [pc |-> "idle", label |-> None, row |-> None, exists |-> FALSE]

Init ==
    /\ table \in Tables
    /\ proc = "down" /\ todo = {}
    /\ listed = [l \in Labels |-> None]
    /\ loop = [l \in Labels |-> NoLoop]
    /\ accounts = [a \in Accounts |-> None]
    /\ session = [a \in Accounts |-> None]
    /\ put = [p \in Puts |-> NoPut]
    /\ crashes = 0

-----------------------------------------------------------------------------
(* Boot *)

\* list_all, with no order.
ListAll ==
    /\ proc = "down"
    /\ proc' = "boot"
    /\ listed' = table
    /\ todo' = {l \in Labels : table[l] # None}
    /\ UNCHANGED <<table, loop, accounts, session, put, crashes>>

\* Variant: without the contains_key check.
BootstrapEvery(l) ==
    /\ proc = "boot" /\ l \in todo
    /\ todo' = todo \ {l}
    /\ LET row == listed[l]
           a == row.account
       IN  IF row.readable /\ a # None
           THEN /\ loop' = [loop EXCEPT ![l] = Spawned(row)]
                /\ accounts' = [accounts EXCEPT ![a] = l]
           ELSE UNCHANGED <<loop, accounts>>
    /\ UNCHANGED <<table, proc, listed, session, put, crashes>>

\* One row: a row that cannot be opened, a blank name and an account that
\* has its loop are passed over; the others get a loop.
Bootstrap(l) ==
    /\ proc = "boot" /\ l \in todo
    /\ todo' = todo \ {l}
    /\ LET row == listed[l]
           a == row.account
       IN  IF row.readable /\ a # None /\ accounts[a] = None
           THEN /\ loop' = [loop EXCEPT ![l] = Spawned(row)]
                /\ accounts' = [accounts EXCEPT ![a] = l]
           ELSE UNCHANGED <<loop, accounts>>
    /\ UNCHANGED <<table, proc, listed, session, put, crashes>>

\* The routes are served once build_state has returned.
Serve ==
    /\ proc = "boot" /\ todo = {}
    /\ proc' = "up"
    /\ UNCHANGED <<table, listed, todo, loop, accounts, session, put, crashes>>

\* A crash takes the loops, their cookies and the requests.
Crash ==
    /\ proc # "down" /\ crashes < MaxCrashes
    /\ crashes' = crashes + 1
    /\ proc' = "down" /\ todo' = {}
    /\ listed' = [l \in Labels |-> None]
    /\ loop' = [l \in Labels |-> NoLoop]
    /\ accounts' = [a \in Accounts |-> None]
    /\ session' = [a \in Accounts |-> None]
    /\ put' = [p \in Puts |-> IF put[p].pc = "idle" THEN NoPut
                              ELSE [NoPut EXCEPT !.pc = "end"]]
    /\ UNCHANGED table

-----------------------------------------------------------------------------
(* SPX *)

\* A login SPX grants ends the session before it, even when its answer is
\* lost; cookies of a login that is not granted set no session key.
Grant(account, right, login, answer, who) ==
    /\ answer.skey => right /\ TakesPassword(login)
    /\ \/ /\ answer.skey
          /\ session' = [session EXCEPT ![account] = who]
       \/ /\ ~answer.skey
          /\ UNCHANGED session
       \/ /\ answer = Lost /\ right /\ TakesPassword(login)
          /\ session' = [session EXCEPT ![account] = None]

\* A session expires, or a person logs in elsewhere.
SessionEnds(a) ==
    /\ session[a] # None
    /\ session' = [session EXCEPT ![a] = None]
    /\ UNCHANGED <<table, proc, listed, todo, loop, accounts, put, crashes>>

-----------------------------------------------------------------------------
(* A loop *)

Holds(l) == session[loop[l].row.account] = l

\* Without a session every page fails, and nothing is dispatched.
Poll(l) ==
    /\ loop[l].pc = "poll"
    /\ loop' = [loop EXCEPT ![l].pc = IF Holds(l) THEN "dispatch" ELSE "relogin"]
    /\ UNCHANGED <<table, proc, listed, todo, accounts, session, put, crashes>>

\* An accept is refused as Auth by SPX when the session ended after the
\* pages were read, and by accept_booking itself when agency_id is 0; that
\* counts as three answers 401.
Dispatch(l) ==
    /\ loop[l].pc = "dispatch"
    /\ \E auth \in BOOLEAN :
          /\ auth => AgencyId = 0 \/ ~Holds(l)
          /\ loop' = [loop EXCEPT ![l] =
                 [@ EXCEPT !.pc = "relogin",
                           !.unauthorized = IF auth THEN 3 ELSE loop[l].unauthorized]]
    /\ UNCHANGED <<table, proc, listed, todo, accounts, session, put, crashes>>

\* Variant: no relogin for a new day.
CalledForByRefusals(k) == k.unauthorized >= 3

\* should_reactive_relogin, should_daily_relogin.
CalledFor(k) == k.unauthorized >= 3 \/ k.due

\* The day is read before the login.
CheckRelogin(l) ==
    /\ loop[l].pc = "relogin"
    /\ loop' = [loop EXCEPT ![l] =
           IF CalledFor(@) THEN [@ EXCEPT !.pc = "login", !.login = Fresh("browser"),
                                          !.today = TRUE]
           ELSE [@ EXCEPT !.pc = "poll"]]
    /\ UNCHANGED <<table, proc, listed, todo, accounts, session, put, crashes>>

\* A request of auto_login is answered.  A login that failed leaves the
\* cookies, the counter and the day as they were.
Login(l, answer) ==
    LET k == loop[l]
        next == After(k.login, answer)
    IN  /\ k.pc = "login"
        /\ Grant(k.row.account, k.row.right, k.login, answer, l)
        /\ loop' = [loop EXCEPT ![l] =
               IF ~Ended(next) THEN [@ EXCEPT !.login = next]
               ELSE IF ~next.skey THEN [@ EXCEPT !.pc = "poll", !.login = Fresh("browser"),
                                                 !.today = FALSE]
               ELSE [@ EXCEPT !.pc = "poll", !.login = Fresh("browser"), !.today = FALSE,
                              !.unauthorized = 0, !.due = ~k.today]]
        /\ UNCHANGED <<table, proc, listed, todo, accounts, put, crashes>>

\* The WIB day changes.
NextDay ==
    /\ loop' = [l \in Labels |->
           IF loop[l].pc = "none" THEN loop[l]
           ELSE [loop[l] EXCEPT !.due = TRUE, !.today = FALSE]]
    /\ UNCHANGED <<table, proc, listed, todo, accounts, session, put, crashes>>

-----------------------------------------------------------------------------
(* PUT and DELETE /auth/spx-credentials/:label *)

\* The row is looked for in a transaction of its own; a blank name is
\* refused before.
FindForPut(p) ==
    /\ proc = "up" /\ put[p].pc = "idle"
    /\ \E l \in Labels, name \in Names, right \in BOOLEAN :
          /\ AccountOf[name] # None
          /\ put' = [put EXCEPT ![p] =
                 [pc |-> "write", label |-> l, exists |-> table[l] # None,
                  row |-> [account |-> AccountOf[name], readable |-> TRUE,
                           right |-> right]]]
    /\ UNCHANGED <<table, proc, listed, todo, loop, accounts, session, crashes>>

\* update of a row that is gone is 404, create beside a row is 409.
WritePut(p) ==
    LET q == put[p]
    IN  /\ q.pc = "write"
        /\ put' = [put EXCEPT ![p] = [NoPut EXCEPT !.pc = "end"]]
        /\ table' = [table EXCEPT ![q.label] =
               IF q.exists = (@ # None) THEN q.row ELSE @]
        /\ UNCHANGED <<proc, listed, todo, loop, accounts, session, crashes>>

Remove(p) ==
    /\ proc = "up" /\ put[p].pc = "idle"
    /\ put' = [put EXCEPT ![p].pc = "end"]
    /\ \E l \in Labels : table' = [table EXCEPT ![l] = None]
    /\ UNCHANGED <<proc, listed, todo, loop, accounts, session, crashes>>

-----------------------------------------------------------------------------
(* The whole *)

LoopStep(l) ==
    \/ Poll(l) \/ Dispatch(l) \/ CheckRelogin(l)
    \/ \E answer \in Answers : Login(l, answer)

PutStep(p) == FindForPut(p) \/ WritePut(p) \/ Remove(p)

BootStep == ListAll \/ Serve \/ \E l \in Labels : Bootstrap(l)

Next ==
    \/ BootStep \/ Crash \/ NextDay
    \/ \E p \in Puts : PutStep(p)
    \/ \E a \in Accounts : SessionEnds(a)
    \/ \E l \in Labels : LoopStep(l)

\* Every await of a loop returns (the sidecar's by its own limits: its
\* client has none), the days pass, and a login tried for ever with the
\* right password is granted some time.
Fairness ==
    /\ WF_vars(BootStep) /\ WF_vars(NextDay)
    /\ \A l \in Labels :
           /\ WF_vars(LoopStep(l))
           /\ SF_vars(\E answer \in {a \in Answers : a.skey} : Login(l, answer))

Spec == Init /\ [][Next]_vars /\ Fairness

-----------------------------------------------------------------------------
(* Properties *)

\* The rows, the loops, the requests and the keys hold values of the code's
\* types.
TypeOK ==
    /\ table \in [Labels -> Rows \cup {None}]
    /\ proc \in {"down", "boot", "up"} /\ todo \subseteq Labels
    /\ \A l \in Labels :
           /\ loop[l].pc \in {"none", "poll", "dispatch", "relogin", "login"}
           /\ loop[l].pc # "none" => loop[l].row \in Rows
           /\ loop[l].unauthorized \in 0..3 /\ loop[l].login \in Logins
    /\ accounts \in [Accounts -> Labels \cup {None}]
    /\ session \in [Accounts -> Labels \cup {None}]

\* Once the boot is over every account of which some row could be opened is
\* polled by exactly one loop, the one its handle names, whatever the order
\* of the rows and however many of them share a name or cannot be opened;
\* no loop runs without a handle (the two comments of build_state's loop).
OneLoopPerAccount ==
    proc = "up" =>
        \A a \in Accounts :
            LET open == {l \in Labels : listed[l] # None /\ listed[l].readable
                                        /\ listed[l].account = a}
                running == {l \in Labels : loop[l].pc # "none" /\ loop[l].row.account = a}
            IN  IF open = {} THEN running = {} /\ accounts[a] = None
                ELSE running = {accounts[a]} /\ accounts[a] \in open

\* A loop whose password SPX takes gets its session back, again and again,
\* whether it expired, or a person, a connectivity test or a login whose
\* answer was lost ended it.
SessionsComeBack ==
    \A l \in Labels :
        []<>(loop[l].pc = "none" \/ ~loop[l].row.right \/ Holds(l))
=============================================================================
