-------------------------- MODULE SpxAccountsProofs --------------------------
(* Proofs about SpxAccounts, for any rows, accounts, names, requests and     *)
(* numbers of crashes, and about ConnectivityTest, for any labels, callers   *)
(* and cooldown, and any time to live of the claim that is not 0.  They need *)
(* no fairness.                                                              *)
EXTENDS Credentials, TLAPS

(***************************************************************************)
(* Typing.  A loop that logs in is before some request of its login.       *)
(***************************************************************************)
TablesOK ==
    /\ table \in [Labels -> Rows \cup {None}] /\ listed \in [Labels -> Rows \cup {None}]
    /\ proc \in {"down", "boot", "up"} /\ todo \subseteq Labels
    /\ \A l \in todo : listed[l] \in Rows \ {None}

LoopsOK ==
    /\ loop \in [Labels -> [pc : {"none", "poll", "dispatch", "relogin", "login"},
                            row : Rows \cup {None}, unauthorized : 0..3, due : BOOLEAN,
                            today : BOOLEAN, login : Logins]]
    /\ \A l \in Labels : /\ loop[l].pc # "none" => loop[l].row \in Rows
                         /\ ~Ended(loop[l].login)

PutsOK ==
    /\ put \in [Puts -> [pc : {"idle", "write", "end"}, label : Labels \cup {None},
                         row : Rows \cup {None}, exists : BOOLEAN]]
    /\ \A p \in Puts : put[p].pc = "write" => put[p].label \in Labels /\ put[p].row \in Rows

HandlesOK ==
    /\ accounts \in [Accounts -> Labels \cup {None}]
    /\ session \in [Accounts -> Labels \cup {None}]

Types == TablesOK /\ LoopsOK /\ PutsOK /\ HandlesOK

(***************************************************************************)
(* The boot.  Handles and loops belong together from the first row on, and *)
(* every row that is done with has left its account a handle.              *)
(***************************************************************************)
Opens(l, a) == listed[l] # None /\ listed[l].readable /\ listed[l].account = a

NothingRuns ==
    proc = "down" => /\ todo = {}
                     /\ \A l \in Labels : loop[l].pc = "none"
                     /\ \A a \in Accounts : accounts[a] = None

HandlesHaveLoops ==
    \A a \in Accounts : accounts[a] # None =>
        Opens(accounts[a], a) /\ loop[accounts[a]].pc # "none" /\ accounts[a] \notin todo

LoopsHaveHandles ==
    \A l \in Labels : loop[l].pc # "none" =>
        /\ loop[l].row = listed[l] /\ listed[l].account \in Accounts
        /\ accounts[listed[l].account] = l

RowsAreServed ==
    proc # "down" =>
        \A l \in Labels \ todo, a \in Accounts : Opens(l, a) => accounts[a] # None

Boot ==
    /\ NothingRuns /\ HandlesHaveLoops /\ LoopsHaveHandles /\ RowsAreServed
    /\ proc = "up" => todo = {}

-----------------------------------------------------------------------------
(* The login *)

\* Every answer takes a login that goes on to a login.
LEMMA AfterIsLogin ==
    ASSUME NEW l \in Logins, ~Ended(l), NEW a \in Answers
    PROVE  After(l, a) \in Logins
<1> USE LoginAssumption
<1>a. a.skey \in BOOLEAN /\ a.cid \in BOOLEAN
  <2>1. CASE a = Lost
    BY <2>1 DEF Lost
  <2>2. CASE a # Lost
    BY <2>2 DEF Answers
  <2>. QED
    BY <2>1, <2>2
<1>b. ASSUME NEW cid \in BOOLEAN PROVE Enrich(cid) \in Logins
  BY DEF Enrich, At, Logins
<1>c. Fresh("api") \in Logins /\ Fresh("form") \in Logins
  BY DEF Fresh, At, Logins
<1>d. At("failed", 1, FALSE, FALSE) \in Logins
  BY DEF At, Logins
<1>1. CASE l.tier = "browser"
  <2>1. After(l, a) = AfterBrowser(a)
    BY <1>1 DEF After
  <2>. QED
    BY <1>a, <1>b, <1>c, <2>1 DEF AfterBrowser
<1>2. CASE l.tier = "api"
  <2>1. l.step \in 1..ApiVariants
    BY <1>2 DEF Logins
  <2>2. l.step < ApiVariants => At("api", l.step + 1, FALSE, FALSE) \in Logins
    BY <2>1 DEF At, Logins
  <2>3. After(l, a) = AfterApi(l, a)
    BY <1>2 DEF After
  <2>. QED
    BY <1>a, <1>b, <1>c, <2>2, <2>3 DEF AfterApi
<1>3. CASE l.tier = "form"
  <2>1. l.step \in 1..3 /\ l.skey \in BOOLEAN /\ l.cid \in BOOLEAN
    BY <1>3 DEF Logins
  <2>2. ASSUME NEW skey \in BOOLEAN, NEW cid \in BOOLEAN, l.step # 3
        PROVE  At("form", l.step + 1, skey, cid) \in Logins
    BY <2>1, <2>2 DEF At, Logins
  <2>3. After(l, a) = AfterForm(l, a)
    BY <1>3 DEF After
  <2>. DEFINE skey == l.skey \/ a.skey
              cid == l.cid \/ a.cid
  <2>4. skey \in BOOLEAN /\ cid \in BOOLEAN
    OBVIOUS
  <2>5. skey = (l.skey \/ a.skey) /\ cid = (l.cid \/ a.cid)
    OBVIOUS
  <2>. HIDE DEF skey, cid
  <2>6. CASE ~a.reply /\ l.step < 3
    BY <1>d, <2>3, <2>6 DEF AfterForm
  <2>7. CASE ~(~a.reply /\ l.step < 3) /\ (l.step = 1 \/ (l.step = 2 /\ a.redirect))
    <3>1. After(l, a) = At("form", l.step + 1, skey, cid)
      BY <2>3, <2>5, <2>7 DEF AfterForm
    <3>. QED
      BY <2>2, <2>4, <2>7, <3>1
  <2>8. CASE ~(~a.reply /\ l.step < 3) /\ ~(l.step = 1 \/ (l.step = 2 /\ a.redirect))
    <3>1. After(l, a) = IF skey THEN Enrich(cid) ELSE At("failed", 1, FALSE, FALSE)
      BY <2>3, <2>5, <2>8 DEF AfterForm
    <3>. QED
      BY <1>b, <1>d, <2>4, <3>1
  <2>. QED
    BY <2>6, <2>7, <2>8
<1>4. CASE l.tier = "cid"
  <2>1. l.step \in 1..CidPages
    BY <1>4 DEF Logins
  <2>2. l.step # CidPages => At("cid", l.step + 1, TRUE, FALSE) \in Logins
    BY <2>1 DEF At, Logins
  <2>3. At("done", 1, TRUE, a.cid) \in Logins
    BY <1>a DEF At, Logins
  <2>4. After(l, a) = AfterCid(l, a)
    BY <1>4 DEF After
  <2>. QED
    BY <2>2, <2>3, <2>4 DEF AfterCid
<1>. QED
  BY <1>1, <1>2, <1>3, <1>4 DEF Logins, Ended

LEMMA FreshBrowser == Fresh("browser") \in Logins /\ ~Ended(Fresh("browser"))
BY DEF Fresh, At, Logins, Ended

-----------------------------------------------------------------------------
(* Typing *)

LoopRecord == [pc : {"none", "poll", "dispatch", "relogin", "login"},
               row : Rows \cup {None}, unauthorized : 0..3, due : BOOLEAN,
               today : BOOLEAN, login : Logins]

LEMMA NoLoopIsLoop == NoLoop \in LoopRecord /\ NoLoop.pc = "none" /\ ~Ended(NoLoop.login)
BY FreshBrowser DEF NoLoop, LoopRecord

LEMMA TypesInit == Init => Types
<1> SUFFICES ASSUME Init PROVE Types
  OBVIOUS
<1> USE DEF Init
<1>1. TablesOK
  BY TablesAssumption DEF TablesOK
<1>2. LoopsOK
  BY NoLoopIsLoop DEF LoopsOK, LoopRecord
<1>3. PutsOK
  BY DEF PutsOK, NoPut
<1>4. HandlesOK
  BY DEF HandlesOK
<1>. QED
  BY <1>1, <1>2, <1>3, <1>4 DEF Types

LEMMA TablesNext == ASSUME Types, [Next]_vars PROVE TablesOK'
<1> USE DEF Types, TablesOK
<1>1. CASE UNCHANGED <<table, proc, listed, todo>>
  BY <1>1
<1>2. CASE ListAll
  BY <1>2 DEF ListAll
<1>3. CASE Serve
  BY <1>3 DEF Serve
<1>4. ASSUME NEW l \in Labels, Bootstrap(l) PROVE TablesOK'
  BY <1>4 DEF Bootstrap
<1>5. CASE Crash
  BY <1>5 DEF Crash
<1>6. ASSUME NEW p \in Puts, WritePut(p) PROVE TablesOK'
  BY <1>6 DEF WritePut, PutsOK
<1>7. ASSUME NEW p \in Puts, Remove(p) PROVE TablesOK'
  BY <1>7 DEF Remove
<1>. QED
  BY <1>1, <1>2, <1>3, <1>4, <1>5, <1>6, <1>7, ZenonT(40)
     DEF Next, vars, BootStep, PutStep, LoopStep, NextDay, FindForPut, SessionEnds, Poll,
         Dispatch, CheckRelogin, Login

LEMMA PutsNext == ASSUME Types, [Next]_vars PROVE PutsOK'
<1> USE DEF Types, PutsOK
<1>1. CASE UNCHANGED put
  BY <1>1
<1>2. CASE Crash
  BY <1>2 DEF Crash, NoPut
<1>3. ASSUME NEW p \in Puts, FindForPut(p) PROVE PutsOK'
  <2>1. PICK l \in Labels, name \in Names, right \in BOOLEAN :
          /\ AccountOf[name] # None
          /\ put' = [put EXCEPT ![p] =
                 [pc |-> "write", label |-> l, exists |-> table[l] # None,
                  row |-> [account |-> AccountOf[name], readable |-> TRUE,
                           right |-> right]]]
    BY <1>3 DEF FindForPut
  <2>. DEFINE found == table[l] # None
              row == [account |-> AccountOf[name], readable |-> TRUE, right |-> right]
  <2>2. row \in Rows
    BY AccountsAssumption DEF Rows
  <2>3. found \in BOOLEAN
    OBVIOUS
  <2>4. put' = [put EXCEPT ![p] = [pc |-> "write", label |-> l, exists |-> found,
                                   row |-> row]]
    BY <2>1
  <2>. HIDE DEF found, row
  <2>. DEFINE next == [pc |-> "write", label |-> l, exists |-> found, row |-> row]
  <2>5. /\ next \in [pc : {"idle", "write", "end"}, label : Labels \cup {None},
                    row : Rows \cup {None}, exists : BOOLEAN]
        /\ next.label \in Labels /\ next.row \in Rows
    BY <2>2, <2>3
  <2>. HIDE DEF next
  <2>. QED
    BY <2>4, <2>5 DEF next
<1>4. ASSUME NEW p \in Puts, WritePut(p) PROVE PutsOK'
  BY <1>4 DEF WritePut, NoPut
<1>5. ASSUME NEW p \in Puts, Remove(p) PROVE PutsOK'
  BY <1>5 DEF Remove
<1>. QED
  BY <1>1, <1>2, <1>3, <1>4, <1>5, ZenonT(40)
     DEF Next, vars, BootStep, PutStep, LoopStep, ListAll, Serve, Bootstrap, NextDay,
         SessionEnds, Poll, Dispatch, CheckRelogin, Login

\* One loop changes to another record of a loop.
LEMMA LoopChanges ==
    ASSUME LoopsOK, NEW l \in Labels, NEW k \in LoopRecord, loop' = [loop EXCEPT ![l] = k],
           ~Ended(k.login), k.pc # "none" => k.row \in Rows
    PROVE  LoopsOK'
BY DEF LoopsOK, LoopRecord

\* A step of a loop leaves its row as it is.
LEMMA LoopStepRecord ==
    ASSUME LoopsOK, NEW l \in Labels, LoopStep(l)
    PROVE  /\ loop[l].pc # "none"
           /\ \E k \in LoopRecord : /\ loop' = [loop EXCEPT ![l] = k]
                                  /\ k.pc # "none" /\ k.row = loop[l].row
                                  /\ ~Ended(k.login)
<1>1. loop[l] \in LoopRecord /\ ~Ended(loop[l].login)
  BY DEF LoopsOK, LoopRecord
<1>2. CASE Poll(l)
  <2>1. PICK pc \in {"dispatch", "relogin"} : loop' = [loop EXCEPT ![l].pc = pc]
    BY <1>2 DEF Poll
  <2>. DEFINE k == [loop[l] EXCEPT !.pc = pc]
  <2>2. /\ k \in LoopRecord /\ k.pc = pc /\ k.row = loop[l].row
        /\ k.login = loop[l].login
    BY <1>1 DEF LoopRecord
  <2>3. loop' = [loop EXCEPT ![l] = k]
    BY <2>1
  <2>. QED
    BY <1>1, <1>2, <2>2, <2>3 DEF Poll
<1>3. CASE Dispatch(l)
  <2>1. PICK auth \in BOOLEAN :
          /\ auth => AgencyId = 0 \/ ~Holds(l)
          /\ loop' = [loop EXCEPT ![l] =
                 [@ EXCEPT !.pc = "relogin",
                           !.unauthorized = IF auth THEN 3 ELSE loop[l].unauthorized]]
    BY <1>3 DEF Dispatch
  <2>. DEFINE n == IF auth THEN 3 ELSE loop[l].unauthorized
              k == [loop[l] EXCEPT !.pc = "relogin", !.unauthorized = n]
  <2>2. n \in 0..3
    BY <1>1 DEF LoopRecord
  <2>3. loop' = [loop EXCEPT ![l] = k]
    BY <2>1
  <2>. HIDE DEF n
  <2>4. /\ k \in LoopRecord /\ k.pc = "relogin" /\ k.row = loop[l].row
        /\ k.login = loop[l].login
    BY <1>1, <2>2 DEF LoopRecord
  <2>. QED
    BY <1>1, <1>3, <2>3, <2>4 DEF Dispatch
<1>4. CASE CheckRelogin(l)
  <2>. DEFINE j == [loop[l] EXCEPT !.pc = "login", !.login = Fresh("browser"), !.today = TRUE]
              k == [loop[l] EXCEPT !.pc = "poll"]
  <2>1. loop' = [loop EXCEPT ![l] = j] \/ loop' = [loop EXCEPT ![l] = k]
    BY <1>4 DEF CheckRelogin
  <2>2. /\ j \in LoopRecord /\ j.pc = "login" /\ j.row = loop[l].row
        /\ j.login = Fresh("browser")
    BY <1>1, FreshBrowser DEF LoopRecord
  <2>3. /\ k \in LoopRecord /\ k.pc = "poll" /\ k.row = loop[l].row
        /\ k.login = loop[l].login
    BY <1>1 DEF LoopRecord
  <2>. QED
    BY <1>1, <1>4, <2>1, <2>2, <2>3, FreshBrowser DEF CheckRelogin
<1>5. ASSUME NEW answer \in Answers, Login(l, answer)
      PROVE  /\ loop[l].pc # "none"
             /\ \E k \in LoopRecord : /\ loop' = [loop EXCEPT ![l] = k]
                                    /\ k.pc # "none" /\ k.row = loop[l].row
                                    /\ ~Ended(k.login)
  <2>. DEFINE next == After(loop[l].login, answer)
              due == ~loop[l].today
              i == [loop[l] EXCEPT !.login = next]
              j == [loop[l] EXCEPT !.pc = "poll", !.login = Fresh("browser"), !.today = FALSE]
              k == [loop[l] EXCEPT !.pc = "poll", !.login = Fresh("browser"), !.today = FALSE,
                                   !.unauthorized = 0, !.due = due]
  <2>1. next \in Logins
    BY <1>1, AfterIsLogin DEF LoopRecord
  <2>2. \/ ~Ended(next) /\ loop' = [loop EXCEPT ![l] = i]
        \/ loop' = [loop EXCEPT ![l] = j]
        \/ loop' = [loop EXCEPT ![l] = k]
    <3>1. CASE ~Ended(next)
      BY <1>5, <3>1, Zenon DEF Login
    <3>2. CASE Ended(next) /\ ~next.skey
      BY <1>5, <3>2, Zenon DEF Login
    <3>3. CASE Ended(next) /\ next.skey
      BY <1>5, <3>3, Zenon DEF Login
    <3>. QED
      BY <3>1, <3>2, <3>3
  <2>3. due \in BOOLEAN
    OBVIOUS
  <2>. HIDE DEF next, due
  <2>4. i \in LoopRecord /\ i.pc = loop[l].pc /\ i.row = loop[l].row /\ i.login = next
    BY <1>1, <2>1 DEF LoopRecord
  <2>5. /\ j \in LoopRecord /\ j.pc = "poll" /\ j.row = loop[l].row
        /\ j.login = Fresh("browser")
    BY <1>1, FreshBrowser DEF LoopRecord
  <2>6. /\ k \in LoopRecord /\ k.pc = "poll" /\ k.row = loop[l].row
        /\ k.login = Fresh("browser")
    <3>1. k = [j EXCEPT !.unauthorized = 0, !.due = due]
      BY <1>1 DEF LoopRecord
    <3>. HIDE DEF j, k
    <3>2. k.pc = j.pc /\ k.row = j.row /\ k.login = j.login
      BY <2>5, <3>1 DEF LoopRecord
    <3>3. [j EXCEPT !.unauthorized = 0] \in LoopRecord
      BY <2>5 DEF LoopRecord
    <3>4. k = [[j EXCEPT !.unauthorized = 0] EXCEPT !.due = due]
      BY <2>5, <3>1 DEF LoopRecord
    <3>5. k \in LoopRecord
      BY <2>3, <3>3, <3>4 DEF LoopRecord
    <3>. QED
      BY <2>5, <3>2, <3>5
  <2>7. loop[l].pc = "login"
    BY <1>5 DEF Login
  <2>. HIDE DEF i, j, k
  <2>. QED
    BY <2>2, <2>4, <2>5, <2>6, <2>7, FreshBrowser
<1>. QED
  BY <1>2, <1>3, <1>4, <1>5 DEF LoopStep

LEMMA LoopStepEffect ==
    ASSUME LoopsOK, NEW l \in Labels, LoopStep(l)
    PROVE  /\ LoopsOK'
           /\ loop[l].pc # "none" /\ loop'[l].pc # "none" /\ loop'[l].row = loop[l].row
           /\ \A m \in Labels : m # l => loop'[m] = loop[m]
<1>1. PICK k \in LoopRecord : /\ loop' = [loop EXCEPT ![l] = k]
                             /\ k.pc # "none" /\ k.row = loop[l].row /\ ~Ended(k.login)
  BY LoopStepRecord
<1>2. loop[l].pc # "none"
  BY LoopStepRecord
<1>3. /\ loop'[l] = k
      /\ \A m \in Labels : m # l => loop'[m] = loop[m]
  BY <1>1 DEF LoopsOK
<1>4. k.row \in Rows
  BY <1>1, <1>2 DEF LoopsOK
<1>5. LoopsOK'
  BY <1>1, <1>4, LoopChanges
<1>. QED
  BY <1>1, <1>2, <1>3, <1>5

LEMMA LoopsNext == ASSUME Types, [Next]_vars PROVE LoopsOK'
<1>. USE DEF Types
<1>1. CASE UNCHANGED loop
  BY <1>1 DEF LoopsOK
<1>2. ASSUME NEW l \in Labels, Bootstrap(l) PROVE LoopsOK'
  <2>1. CASE listed[l].readable /\ listed[l].account # None /\ accounts[listed[l].account] = None
    <3>1. loop' = [loop EXCEPT ![l] = Spawned(listed[l])]
      BY <1>2, <2>1 DEF Bootstrap
    <3>2. listed[l] \in Rows
      BY <1>2 DEF TablesOK, Bootstrap
    <3>3. /\ Spawned(listed[l]) \in LoopRecord /\ Spawned(listed[l]).row = listed[l]
          /\ ~Ended(Spawned(listed[l]).login)
      BY <3>2, NoLoopIsLoop DEF Spawned, LoopRecord
    <3>. QED
      BY <3>1, <3>2, <3>3, LoopChanges
  <2>2. CASE ~(listed[l].readable /\ listed[l].account # None
               /\ accounts[listed[l].account] = None)
    BY <1>1, <1>2, <2>2 DEF Bootstrap
  <2>. QED
    BY <2>1, <2>2
<1>3. CASE Crash
  <2>1. loop' = [l \in Labels |-> NoLoop]
    BY <1>3 DEF Crash
  <2>. QED
    BY <2>1, NoLoopIsLoop DEF LoopsOK, LoopRecord
<1>4. CASE NextDay
  BY <1>4, ZenonT(40) DEF NextDay, LoopsOK
<1>5. ASSUME NEW l \in Labels, LoopStep(l) PROVE LoopsOK'
  BY <1>5, LoopStepEffect
<1>. QED
  BY <1>1, <1>2, <1>3, <1>4, <1>5, ZenonT(40)
     DEF Next, vars, BootStep, PutStep, ListAll, Serve, FindForPut, WritePut, Remove,
         SessionEnds

LEMMA HandlesNext == ASSUME Types, [Next]_vars PROVE HandlesOK'
<1>. USE DEF Types, HandlesOK
<1>1. CASE UNCHANGED <<accounts, session>>
  BY <1>1
<1>2. ASSUME NEW l \in Labels, Bootstrap(l) PROVE HandlesOK'
  BY <1>2 DEF Bootstrap
<1>3. CASE Crash
  BY <1>3 DEF Crash
<1>4. ASSUME NEW a \in Accounts, SessionEnds(a) PROVE HandlesOK'
  BY <1>4 DEF SessionEnds
<1>5. ASSUME NEW l \in Labels, NEW answer \in Answers, Login(l, answer) PROVE HandlesOK'
  <2>1. UNCHANGED accounts /\ Grant(loop[l].row.account, loop[l].row.right, loop[l].login,
                                    answer, l)
    BY <1>5, Zenon DEF Login
  <2>. QED
    BY <2>1 DEF Grant
<1>. QED
  BY <1>1, <1>2, <1>3, <1>4, <1>5, ZenonT(40)
     DEF Next, vars, BootStep, PutStep, LoopStep, ListAll, Serve, NextDay, FindForPut,
         WritePut, Remove, Poll, Dispatch, CheckRelogin

\* The rows, the loops, the requests and the keys hold values of the code's
\* types, from whatever rows the boot starts and whatever the sidecar, SPX
\* and the requests answer.
THEOREM AccountTypes == Spec => []TypeOK
<1>1. Types /\ [Next]_vars => Types'
  BY TablesNext, LoopsNext, PutsNext, HandlesNext DEF Types
<1>2. Types => TypeOK
  BY DEF Types, TypeOK, TablesOK, LoopsOK, HandlesOK
<1>. QED
  BY TypesInit, <1>1, <1>2, PTL DEF Spec

-----------------------------------------------------------------------------
(* The boot *)

LEMMA BootInit == Init => Boot
<1>. SUFFICES ASSUME Init PROVE Boot
  OBVIOUS
<1>1. /\ proc = "down" /\ todo = {}
      /\ \A l \in Labels : loop[l].pc = "none"
      /\ \A a \in Accounts : accounts[a] = None
  BY NoLoopIsLoop DEF Init
<1>2. NothingRuns
  BY <1>1 DEF NothingRuns
<1>3. HandlesHaveLoops /\ LoopsHaveHandles
  BY <1>1 DEF HandlesHaveLoops, LoopsHaveHandles
<1>4. RowsAreServed
  BY <1>1 DEF RowsAreServed
<1>. QED
  BY <1>1, <1>2, <1>3, <1>4 DEF Boot

\* What leaves the rows of the loops, the handles and the boot as they are.
LEMMA BootStays ==
    ASSUME Types, Boot, UNCHANGED <<proc, listed, todo, accounts>>,
           \A l \in Labels : /\ (loop'[l].pc = "none") <=> (loop[l].pc = "none")
                             /\ loop'[l].row = loop[l].row
    PROVE  Boot'
BY DEF Types, HandlesOK, Boot, NothingRuns, HandlesHaveLoops, LoopsHaveHandles, RowsAreServed, Opens

LEMMA BootstrapKeepsBoot ==
    ASSUME Types, Boot, NEW l \in Labels, Bootstrap(l) PROVE Boot'
<1>. DEFINE row == listed[l]
            a == row.account
            gets == row.readable /\ a # None /\ accounts[a] = None
<1>0. /\ proc = "boot" /\ l \in todo /\ todo' = todo \ {l}
      /\ UNCHANGED <<proc, listed>> /\ row \in Rows \ {None}
  BY DEF Bootstrap, Types, TablesOK
<1>1. CASE gets
  <2>1. /\ loop' = [loop EXCEPT ![l] = Spawned(row)]
        /\ accounts' = [accounts EXCEPT ![a] = l]
    BY <1>1 DEF Bootstrap
  <2>2. Spawned(row).pc = "poll" /\ Spawned(row).row = row
    BY DEF Spawned, NoLoop
  <2>3. a \in Accounts
    BY <1>0, <1>1 DEF Rows
  <2>4. /\ loop'[l].pc = "poll" /\ loop'[l].row = row
        /\ \A m \in Labels \ {l} : loop'[m] = loop[m]
    BY <2>1, <2>2 DEF Types, LoopsOK
  <2>5. accounts'[a] = l /\ \A b \in Accounts \ {a} : accounts'[b] = accounts[b]
    BY <2>1, <2>3 DEF Types, HandlesOK
  <2>6. l # None /\ listed[l] # None
    BY <1>0, AccountsAssumption
  <2>7. HandlesHaveLoops'
    BY <1>0, <1>1, <2>4, <2>5, <2>6 DEF Boot, HandlesHaveLoops, Opens, Types, TablesOK, HandlesOK
  <2>8. LoopsHaveHandles'
    BY <1>0, <1>1, <2>3, <2>4, <2>5, AccountsAssumption DEF Boot, LoopsHaveHandles
  <2>9. RowsAreServed'
    BY <1>0, <2>5, <2>6 DEF Boot, RowsAreServed, Opens
  <2>. QED
    BY <1>0, <2>7, <2>8, <2>9 DEF Boot, NothingRuns
<1>2. CASE ~gets
  <2>1. UNCHANGED <<loop, accounts>>
    BY <1>2 DEF Bootstrap
  <2>2. HandlesHaveLoops' /\ LoopsHaveHandles'
    BY <1>0, <2>1 DEF Boot, HandlesHaveLoops, LoopsHaveHandles, Opens
  <2>3. RowsAreServed'
    BY <1>0, <1>2, <2>1, AccountsAssumption DEF Boot, RowsAreServed, Opens
  <2>. QED
    BY <1>0, <2>2, <2>3 DEF Boot, NothingRuns
<1>. QED
  BY <1>1, <1>2

LEMMA BootNext == ASSUME Types, Boot, [Next]_vars PROVE Boot'
<1>1. CASE UNCHANGED <<proc, listed, todo, accounts, loop>>
  BY <1>1, BootStays
<1>2. CASE ListAll
  BY <1>2 DEF ListAll, Boot, NothingRuns, HandlesHaveLoops, LoopsHaveHandles, RowsAreServed,
     Opens
<1>3. CASE Serve
  BY <1>3 DEF Serve, Boot, NothingRuns, HandlesHaveLoops, LoopsHaveHandles, RowsAreServed,
     Opens
<1>4. ASSUME NEW l \in Labels, Bootstrap(l) PROVE Boot'
  BY <1>4, BootstrapKeepsBoot
<1>5. CASE Crash
  BY <1>5, NoLoopIsLoop DEF Crash, Boot, NothingRuns, HandlesHaveLoops, LoopsHaveHandles,
     RowsAreServed
<1>6. CASE NextDay
  <2>1. /\ UNCHANGED <<proc, listed, todo, accounts>>
        /\ loop' = [l \in Labels |->
                       IF loop[l].pc = "none" THEN loop[l]
                       ELSE [loop[l] EXCEPT !.due = TRUE, !.today = FALSE]]
    BY <1>6 DEF NextDay
  <2>2. \A l \in Labels : /\ (loop'[l].pc = "none") <=> (loop[l].pc = "none")
                          /\ loop'[l].row = loop[l].row
    BY <2>1 DEF Types, LoopsOK
  <2>. QED
    BY <2>1, <2>2, BootStays
<1>7. ASSUME NEW l \in Labels, LoopStep(l) PROVE Boot'
  <2>1. UNCHANGED <<proc, listed, todo, accounts>>
    BY <1>7 DEF LoopStep, Poll, Dispatch, CheckRelogin, Login
  <2>2. \A m \in Labels : /\ (loop'[m].pc = "none") <=> (loop[m].pc = "none")
                          /\ loop'[m].row = loop[m].row
    BY <1>7, LoopStepEffect DEF Types
  <2>. QED
    BY <2>1, <2>2, BootStays
<1>. QED
  BY <1>1, <1>2, <1>3, <1>4, <1>5, <1>6, <1>7, ZenonT(40)
     DEF Next, vars, BootStep, PutStep, FindForPut, WritePut, Remove, SessionEnds

\* Once the boot is over every account of which some row could be opened is
\* polled by exactly one loop, the one its handle names, whatever the order
\* of the rows and however many of them share a name or cannot be opened;
\* no loop runs without a handle.
THEOREM AccountsGetOneLoop == Spec => []OneLoopPerAccount
<1>1. Types /\ [Next]_vars => Types'
  BY TablesNext, LoopsNext, PutsNext, HandlesNext DEF Types
<1>2. Types /\ Boot => OneLoopPerAccount
  <2>. SUFFICES ASSUME Types, Boot, proc = "up", NEW a \in Accounts
                PROVE  LET open == {l \in Labels : Opens(l, a)}
                           running == {l \in Labels : loop[l].pc # "none"
                                                      /\ loop[l].row.account = a}
                       IN  IF open = {} THEN running = {} /\ accounts[a] = None
                           ELSE running = {accounts[a]} /\ accounts[a] \in open
    BY DEF OneLoopPerAccount, Opens
  <2>. DEFINE open == {l \in Labels : Opens(l, a)}
              running == {l \in Labels : loop[l].pc # "none" /\ loop[l].row.account = a}
  <2>1. accounts[a] \in Labels \cup {None}
    BY DEF Types, HandlesOK
  <2>2. ASSUME NEW l \in running PROVE l = accounts[a]
    BY DEF Boot, LoopsHaveHandles
  <2>3. accounts[a] # None => accounts[a] \in open /\ accounts[a] \in running
    BY <2>1 DEF Boot, HandlesHaveLoops, LoopsHaveHandles, Opens
  <2>4. open # {} => accounts[a] # None
    BY DEF Boot, RowsAreServed
  <2>5. running # {} => accounts[a] # None
    BY <2>2, AccountsAssumption
  <2>. QED
    BY <2>2, <2>3, <2>4, <2>5
<1>. QED
  BY TypesInit, BootInit, BootNext, <1>1, <1>2, PTL DEF Spec

-----------------------------------------------------------------------------
(* The tests of the stored credentials *)

(***************************************************************************)
(* Turns.  Until a test of a label takes ClaimTtl ticks, the label has at  *)
(* most one test between its claim and its refresh, and the ticks left of  *)
(* the label's key and the ticks since the claim make up at least ClaimTtl.*)
(* That the second half needs the first is the point: a refresh sets the   *)
(* key to TestCooldown whoever has claimed it since.                       *)
(***************************************************************************)
KeysOK == lock \in [TestLabels -> Nat] /\ slow \subseteq TestLabels

Requests == [pc : {"idle", "claim", "login", "refresh"}, label : TestLabels \cup {None},
             login : Test!Logins, waited : BOOLEAN, ticks : Nat]

RequestsOK ==
    /\ test \in [Tests -> Requests]
    /\ \A t \in Tests : /\ test[t].pc # "idle" => test[t].label \in TestLabels
                        /\ ~Test!Holding(t) => test[t].ticks = 0 /\ ~test[t].waited

KeyCoversTest(t) ==
    Test!Holding(t) /\ test[t].label \notin slow =>
        /\ test[t].ticks < ClaimTtl
        /\ lock[test[t].label] + test[t].ticks >= ClaimTtl

HoldersTakeTurns ==
    \A t, u \in Tests :
        t # u /\ Test!Holding(t) /\ Test!Holding(u) /\ test[t].label = test[u].label
        => test[t].label \in slow

Turns == HoldersTakeTurns /\ \A t \in Tests : KeyCoversTest(t)

(***************************************************************************)
(* The length of a test.  Made counts the requests a login has had         *)
(* answered at most; a request sees one tick.                              *)
(***************************************************************************)
Made(l) ==
    CASE l.tier = "api"  -> l.step - 1
      [] l.tier = "form" -> ApiVariants + l.step - 1
      [] l.tier = "cid"  -> ApiVariants + 3 + l.step - 1
      [] OTHER           -> Test!MostRequests

LoginsOK ==
    \A t \in Tests :
        LET q == test[t]
        IN  /\ q.pc = "login" => /\ q.login.tier \in {"api", "form", "cid"}
                                 /\ q.ticks <= Made(q.login) + (IF q.waited THEN 1 ELSE 0)
            /\ q.pc = "refresh" => q.ticks <= Test!MostRequests + (IF q.waited THEN 1 ELSE 0)
            /\ q.pc # "login" => q.login = Test!Fresh("api")

KeysLast == \A l \in TestLabels : lock[l] \in 0..ClaimTtl \cup 0..TestCooldown

TestsTyped == KeysOK /\ RequestsOK

-----------------------------------------------------------------------------
(* The login *)

\* A login of a test goes on to a login that has made a request more, or
\* ends.
LEMMA AfterMakesOne ==
    ASSUME NEW l \in Test!Logins, l.tier \in {"api", "form", "cid"}, NEW a \in Test!Answers
    PROVE  /\ Made(l) \in Nat /\ Made(l) < Test!MostRequests
           /\ Test!After(l, a) \in Test!Logins
           /\ ~Test!Ended(Test!After(l, a)) => /\ Test!After(l, a).tier \in {"api", "form", "cid"}
                                              /\ Made(Test!After(l, a)) \in Nat
                                              /\ Made(Test!After(l, a)) > Made(l)
<1>0. ApiVariants \in Nat \ {0} /\ CidPages \in Nat \ {0}
  BY LoginAssumption
<1>1. a.skey \in BOOLEAN /\ a.cid \in BOOLEAN
  <2>1. CASE a = Test!Lost
    BY <2>1 DEF Test!Lost
  <2>2. CASE a # Test!Lost
    BY <2>2 DEF Test!Answers
  <2>. QED
    BY <2>1, <2>2
<1>2. Test!At("failed", 1, FALSE, FALSE) \in Test!Logins /\ Test!Ended(Test!At("failed", 1, FALSE, FALSE))
  BY DEF Test!At, Test!Logins, Test!Ended
<1>3. ASSUME NEW cid \in BOOLEAN
      PROVE  /\ Test!At("done", 1, TRUE, cid) \in Test!Logins /\ Test!Ended(Test!At("done", 1, TRUE, cid))
  BY DEF Test!At, Test!Logins, Test!Ended
<1>4. ASSUME NEW n \in 1..CidPages
      PROVE  /\ Test!At("cid", n, TRUE, FALSE) \in Test!Logins
             /\ Test!At("cid", n, TRUE, FALSE).tier = "cid"
             /\ Made(Test!At("cid", n, TRUE, FALSE)) = ApiVariants + 3 + n - 1
  BY DEF Test!At, Test!Logins, Made
<1>5. ASSUME NEW cid \in BOOLEAN
      PROVE  /\ Test!Enrich(cid) \in Test!Logins
             /\ ~Test!Ended(Test!Enrich(cid)) => /\ Test!Enrich(cid).tier = "cid"
                                                /\ Made(Test!Enrich(cid)) = ApiVariants + 3
  <2>1. 1 \in 1..CidPages
    BY <1>0
  <2>2. CASE cid
    <3>1. Test!Enrich(cid) = Test!At("done", 1, TRUE, TRUE)
      BY <2>2 DEF Test!Enrich
    <3>2. Test!At("done", 1, TRUE, TRUE) \in Test!Logins
      BY DEF Test!At, Test!Logins
    <3>3. Test!Ended(Test!At("done", 1, TRUE, TRUE))
      BY DEF Test!At, Test!Ended
    <3>. QED
      BY <3>1, <3>2, <3>3
  <2>3. CASE ~cid
    <3>1. Test!Enrich(cid) = Test!At("cid", 1, TRUE, FALSE)
      BY <2>3 DEF Test!Enrich
    <3>2. Test!At("cid", 1, TRUE, FALSE) \in Test!Logins
      BY <1>4, <2>1
    <3>3. Test!At("cid", 1, TRUE, FALSE).tier = "cid"
      BY <1>4, <2>1
    <3>4. Made(Test!At("cid", 1, TRUE, FALSE)) = ApiVariants + 3 + 1 - 1
      BY <1>4, <2>1
    <3>5. ApiVariants + 3 + 1 - 1 = ApiVariants + 3
      BY <1>0
    <3>. QED
      BY <3>1, <3>2, <3>3, <3>4, <3>5
  <2>. QED
    BY <2>2, <2>3
<1>10. ASSUME NEW cid \in BOOLEAN, Made(l) \in Nat, Made(l) < ApiVariants + 3
       PROVE  /\ Test!Enrich(cid) \in Test!Logins
              /\ ~Test!Ended(Test!Enrich(cid)) => /\ Test!Enrich(cid).tier \in {"api", "form", "cid"}
                                                 /\ Made(Test!Enrich(cid)) \in Nat
                                                 /\ Made(Test!Enrich(cid)) > Made(l)
  BY <1>0, <1>5, <1>10
<1>6. ASSUME NEW n \in 1..3, NEW skey \in BOOLEAN, NEW cid \in BOOLEAN
      PROVE  /\ Test!At("form", n, skey, cid) \in Test!Logins
             /\ Test!At("form", n, skey, cid).tier = "form"
             /\ Made(Test!At("form", n, skey, cid)) = ApiVariants + n - 1
  BY DEF Test!At, Test!Logins, Made
<1>7. CASE l.tier = "api"
  <2>. DEFINE n == l.step
  <2>1. n \in 1..ApiVariants /\ Made(l) = n - 1
    BY <1>7 DEF Test!Logins, Made
  <2>2. Test!After(l, a) = IF a.skey THEN Test!Enrich(a.cid)
                           ELSE IF n < ApiVariants THEN Test!At("api", n + 1, FALSE, FALSE)
                           ELSE Test!At("form", 1, FALSE, FALSE)
    BY <1>7 DEF Test!After, Test!AfterApi, Test!Fresh
  <2>. HIDE DEF n
  <2>3. ASSUME NEW m \in 1..ApiVariants
        PROVE  /\ Test!At("api", m, FALSE, FALSE) \in Test!Logins
               /\ Test!At("api", m, FALSE, FALSE).tier = "api"
               /\ Made(Test!At("api", m, FALSE, FALSE)) = m - 1
    BY DEF Test!At, Test!Logins, Made
  <2>7. Made(l) \in Nat /\ Made(l) < Test!MostRequests /\ Made(l) < ApiVariants + 3
        /\ Made(l) < ApiVariants
    BY <1>0, <2>1 DEF Test!MostRequests
  <2>4. CASE Test!After(l, a) = Test!Enrich(a.cid)
    BY <1>1, <1>10, <2>4, <2>7
  <2>5. CASE n < ApiVariants /\ Test!After(l, a) = Test!At("api", n + 1, FALSE, FALSE)
    <3>. DEFINE m == n + 1
    <3>1. m \in 1..ApiVariants /\ m - 1 \in Nat /\ m - 1 > Made(l)
      BY <1>0, <2>1, <2>5
    <3>2. Test!After(l, a) = Test!At("api", m, FALSE, FALSE)
      BY <2>5
    <3>. HIDE DEF m
    <3>. QED
      BY <2>3, <2>7, <3>1, <3>2
  <2>6. CASE Test!After(l, a) = Test!At("form", 1, FALSE, FALSE)
    <3>1. /\ Test!At("form", 1, FALSE, FALSE) \in Test!Logins
          /\ Test!At("form", 1, FALSE, FALSE).tier = "form"
      BY DEF Test!At, Test!Logins
    <3>2. Made(Test!At("form", 1, FALSE, FALSE)) = ApiVariants
      BY <1>0 DEF Test!At, Made
    <3>. QED
      BY <1>0, <2>6, <2>7, <3>1, <3>2
  <2>. QED
    BY <2>2, <2>4, <2>5, <2>6
<1>8. CASE l.tier = "form"
  <2>. DEFINE skey == l.skey \/ a.skey
              cid == l.cid \/ a.cid
              n == l.step
  <2>1. n \in 1..3 /\ Made(l) = ApiVariants + n - 1
    BY <1>8 DEF Test!Logins, Made
  <2>2. Test!After(l, a) = IF ~a.reply /\ n < 3 THEN Test!At("failed", 1, FALSE, FALSE)
                           ELSE IF n = 1 \/ (n = 2 /\ a.redirect)
                                THEN Test!At("form", n + 1, skey, cid)
                           ELSE IF skey THEN Test!Enrich(cid)
                           ELSE Test!At("failed", 1, FALSE, FALSE)
    BY <1>8 DEF Test!After, Test!AfterForm
  <2>3. skey \in BOOLEAN /\ cid \in BOOLEAN
    BY <1>1, <1>8 DEF Test!Logins
  <2>. HIDE DEF skey, cid, n
  <2>7. Made(l) \in Nat /\ Made(l) < Test!MostRequests /\ Made(l) < ApiVariants + 3
    BY <1>0, <2>1 DEF Test!MostRequests
  <2>4. CASE Test!After(l, a) = Test!At("failed", 1, FALSE, FALSE)
    BY <1>2, <2>4, <2>7
  <2>5. CASE n \in 1..2 /\ Test!After(l, a) = Test!At("form", n + 1, skey, cid)
    <3>. DEFINE m == n + 1
    <3>1. m \in 1..3 /\ ApiVariants + m - 1 \in Nat /\ ApiVariants + m - 1 > Made(l)
      BY <1>0, <2>1, <2>5
    <3>2. Test!After(l, a) = Test!At("form", m, skey, cid)
      BY <2>5
    <3>. HIDE DEF m
    <3>. QED
      BY <1>6, <2>3, <2>7, <3>1, <3>2
  <2>6. CASE Test!After(l, a) = Test!Enrich(cid)
    BY <1>10, <2>3, <2>6, <2>7
  <2>8. \/ Test!After(l, a) = Test!At("failed", 1, FALSE, FALSE)
        \/ n \in 1..2 /\ Test!After(l, a) = Test!At("form", n + 1, skey, cid)
        \/ Test!After(l, a) = Test!Enrich(cid)
    <3>1. n = 1 \/ n = 2 => n \in 1..2
      OBVIOUS
    <3>. QED
      BY <2>2, <3>1, Zenon
  <2>. QED
    BY <2>4, <2>5, <2>6, <2>8
<1>9. CASE l.tier = "cid"
  <2>. DEFINE n == l.step
  <2>1. n \in 1..CidPages /\ Made(l) = ApiVariants + 3 + n - 1
    BY <1>9 DEF Test!Logins, Made
  <2>2. Test!After(l, a) = IF a.cid \/ n = CidPages THEN Test!At("done", 1, TRUE, a.cid)
                           ELSE Test!At("cid", n + 1, TRUE, FALSE)
    BY <1>9 DEF Test!After, Test!AfterCid
  <2>. HIDE DEF n
  <2>5. Made(l) \in Nat /\ Made(l) < Test!MostRequests
    BY <1>0, <2>1 DEF Test!MostRequests
  <2>3. CASE Test!After(l, a) = Test!At("done", 1, TRUE, a.cid)
    BY <1>1, <1>3, <2>3, <2>5
  <2>4. CASE n # CidPages /\ Test!After(l, a) = Test!At("cid", n + 1, TRUE, FALSE)
    <3>. DEFINE m == n + 1
    <3>1. /\ m \in 1..CidPages
          /\ ApiVariants + 3 + m - 1 \in Nat /\ ApiVariants + 3 + m - 1 > Made(l)
      BY <1>0, <2>1, <2>4
    <3>2. Test!After(l, a) = Test!At("cid", m, TRUE, FALSE)
      BY <2>4
    <3>. HIDE DEF m
    <3>. QED
      BY <1>4, <2>5, <3>1, <3>2
  <2>. QED
    BY <2>2, <2>3, <2>4
<1>. QED
  BY <1>7, <1>8, <1>9

LEMMA FreshApi ==
    /\ Test!Fresh("api") \in Test!Logins /\ Test!Fresh("api").tier = "api" /\ Made(Test!Fresh("api")) = 0
BY LoginAssumption DEF Test!Fresh, Test!At, Test!Logins, Made

LEMMA NoTestIsRequest ==
    Test!NoTest \in Requests /\ Test!NoTest.pc = "idle" /\ Test!NoTest.ticks = 0 /\ ~Test!NoTest.waited
BY FreshApi DEF Test!NoTest, Requests

-----------------------------------------------------------------------------
(* Typing *)

LEMMA TestsTypedInit == Test!Init => TestsTyped
BY NoTestIsRequest DEF Test!Init, TestsTyped, KeysOK, RequestsOK, Test!Holding

\* What a test becomes with an answer.
AfterAnswer(k, next) ==
    IF Test!Ended(next) THEN [k EXCEPT !.pc = "refresh", !.login = Test!Fresh("api"), !.waited = FALSE]
    ELSE [k EXCEPT !.login = next, !.waited = FALSE]

LEMMA AnswerMoves ==
    ASSUME NEW k \in Requests, NEW next \in Test!Logins
    PROVE  /\ AfterAnswer(k, next) \in Requests
           /\ AfterAnswer(k, next).pc \in {k.pc, "refresh"}
           /\ AfterAnswer(k, next).label = k.label /\ AfterAnswer(k, next).ticks = k.ticks
           /\ ~AfterAnswer(k, next).waited
           /\ Test!Ended(next) => /\ AfterAnswer(k, next).pc = "refresh"
                                 /\ AfterAnswer(k, next).login = Test!Fresh("api")
           /\ ~Test!Ended(next) => /\ AfterAnswer(k, next).pc = k.pc
                                  /\ AfterAnswer(k, next).login = next
<1>1. CASE Test!Ended(next)
  BY <1>1, FreshApi DEF AfterAnswer, Requests
<1>2. CASE ~Test!Ended(next)
  BY <1>2 DEF AfterAnswer, Requests
<1>. QED
  BY <1>1, <1>2

\* What a tick makes of a test.
AfterTick(k) == [k EXCEPT !.waited = TRUE, !.ticks = @ + 1]

LEMMA TickMoves ==
    ASSUME NEW k \in Requests
    PROVE  /\ AfterTick(k) \in Requests /\ AfterTick(k).pc = k.pc
           /\ AfterTick(k).label = k.label /\ AfterTick(k).login = k.login
           /\ AfterTick(k).waited /\ AfterTick(k).ticks = k.ticks + 1
<1>. DEFINE n == k.ticks + 1
<1>1. n \in Nat
  BY DEF Requests
<1>2. AfterTick(k) = [k EXCEPT !.waited = TRUE, !.ticks = n]
  BY DEF AfterTick, Requests
<1>. HIDE DEF n
<1>3. /\ AfterTick(k) \in Requests /\ AfterTick(k).pc = k.pc
      /\ AfterTick(k).label = k.label /\ AfterTick(k).login = k.login
      /\ AfterTick(k).waited /\ AfterTick(k).ticks = n
  BY <1>1, <1>2 DEF Requests
<1>. QED
  BY <1>3 DEF n

\* The steps that change the record of one test, and what they leave.
Becomes(t, k) == k \in Requests /\ test' = [test EXCEPT ![t] = k] /\ UNCHANGED slow

LEMMA TestTypes ==
    ASSUME TestsTyped, NEW t \in Tests
    PROVE  /\ test[t] \in Requests /\ test \in [Tests -> Requests]
           /\ test[t].pc # "idle" => test[t].label \in TestLabels
           /\ ~Test!Holding(t) => test[t].ticks = 0 /\ ~test[t].waited
BY DEF TestsTyped, RequestsOK

LEMMA ArriveStep ==
    ASSUME TestsTyped, NEW t \in Tests, Test!Arrive(t)
    PROVE  \E k : /\ Becomes(t, k) /\ UNCHANGED lock
                 /\ test[t].pc = "idle" /\ k.pc = "claim" /\ k.label \in TestLabels
                 /\ k.login = test[t].login /\ k.ticks = 0 /\ ~k.waited
<1>1. PICK l \in TestLabels : test' = [test EXCEPT ![t] = [@ EXCEPT !.pc = "claim", !.label = l]]
  BY DEF Test!Arrive
<1>. DEFINE k == [test[t] EXCEPT !.pc = "claim", !.label = l]
<1>2. /\ k \in Requests /\ k.pc = "claim" /\ k.label \in TestLabels
      /\ k.login = test[t].login /\ k.ticks = test[t].ticks /\ k.waited = test[t].waited
  BY TestTypes DEF Requests
<1>3. /\ test' = [test EXCEPT ![t] = k] /\ UNCHANGED <<lock, slow>>
      /\ test[t].pc = "idle" /\ ~Test!Holding(t)
  BY <1>1 DEF Test!Arrive, Test!Holding
<1>. HIDE DEF k
<1>. QED
  BY <1>2, <1>3, TestTypes DEF Becomes

LEMMA ClaimStep ==
    ASSUME TestsTyped, NEW t \in Tests, Test!Claim(t)
    PROVE  \E k : /\ Becomes(t, k)
                 /\ test[t].pc = "claim" /\ k.pc = "login" /\ k.label = test[t].label
                 /\ k.login = test[t].login /\ k.ticks = 0 /\ ~k.waited
                 /\ lock[k.label] = 0 /\ lock' = [lock EXCEPT ![k.label] = ClaimTtl]
<1>. DEFINE k == [test[t] EXCEPT !.pc = "login"]
<1>1. /\ test' = [test EXCEPT ![t] = k] /\ UNCHANGED slow /\ test[t].pc = "claim"
      /\ lock[test[t].label] = 0 /\ lock' = [lock EXCEPT ![test[t].label] = ClaimTtl]
      /\ ~Test!Holding(t)
  BY TestTypes DEF Test!Claim, Test!Holding
<1>2. /\ k \in Requests /\ k.pc = "login" /\ k.label = test[t].label
      /\ k.login = test[t].login /\ k.ticks = test[t].ticks /\ k.waited = test[t].waited
  BY TestTypes DEF Requests
<1>. HIDE DEF k
<1>. QED
  BY <1>1, <1>2, TestTypes DEF Becomes

LEMMA AnswerStep ==
    ASSUME TestsTyped, LoginsOK, NEW t \in Tests, NEW answer \in Test!Answers, Test!Answer(t, answer)
    PROVE  \E k : /\ Becomes(t, k) /\ UNCHANGED lock
                 /\ test[t].pc = "login" /\ k.label = test[t].label
                 /\ k.ticks = test[t].ticks /\ ~k.waited
                 /\ Made(test[t].login) \in Nat /\ Made(test[t].login) < Test!MostRequests
                 /\ \/ k.pc = "refresh" /\ k.login = Test!Fresh("api")
                    \/ /\ k.pc = "login" /\ k.login.tier \in {"api", "form", "cid"}
                       /\ Made(k.login) \in Nat /\ Made(k.login) > Made(test[t].login)
<1>. DEFINE next == Test!After(test[t].login, answer)
            k == AfterAnswer(test[t], next)
<1>1. /\ test[t].pc = "login" /\ UNCHANGED <<lock, slow>>
      /\ test' = [test EXCEPT ![t] = k]
  BY Zenon DEF Test!Answer, AfterAnswer
<1>2. test[t].login \in Test!Logins /\ test[t].login.tier \in {"api", "form", "cid"}
  BY TestTypes, <1>1 DEF Requests, LoginsOK
<1>3. /\ next \in Test!Logins
      /\ Made(test[t].login) \in Nat /\ Made(test[t].login) < Test!MostRequests
      /\ ~Test!Ended(next) => /\ next.tier \in {"api", "form", "cid"}
                             /\ Made(next) \in Nat /\ Made(next) > Made(test[t].login)
  BY <1>2, AfterMakesOne
<1>. HIDE DEF next
<1>4. /\ k \in Requests /\ k.label = test[t].label /\ k.ticks = test[t].ticks /\ ~k.waited
      /\ Test!Ended(next) => k.pc = "refresh" /\ k.login = Test!Fresh("api")
      /\ ~Test!Ended(next) => k.pc = "login" /\ k.login = next
  BY TestTypes, <1>1, <1>3, AnswerMoves
<1>. HIDE DEF k
<1>. QED
  BY <1>1, <1>3, <1>4 DEF Becomes

\* A tick makes every test between its claim and its refresh wait.
LEMMA TickStep ==
    ASSUME TestsTyped, Test!Tick
    PROVE  /\ \A l \in TestLabels : lock'[l] = IF lock[l] = 0 THEN 0 ELSE lock[l] - 1
           /\ \A t \in Tests :
                 IF Test!Holding(t)
                 THEN /\ ~test[t].waited /\ test'[t].waited
                      /\ test'[t] \in Requests /\ test'[t].pc = test[t].pc
                      /\ test'[t].label = test[t].label /\ test'[t].login = test[t].login
                      /\ test'[t].ticks = test[t].ticks + 1
                      /\ test'[t].ticks >= ClaimTtl => test'[t].label \in slow'
                 ELSE test'[t] = test[t]
           /\ slow \subseteq slow' /\ slow' \subseteq TestLabels
<1>1. /\ \A t \in Tests : Test!Holding(t) => ~test[t].waited
      /\ lock' = [l \in TestLabels |-> IF lock[l] = 0 THEN 0 ELSE lock[l] - 1]
      /\ test' = [t \in Tests |-> IF Test!Holding(t) THEN AfterTick(test[t]) ELSE test[t]]
      /\ slow' = slow \cup
           {test[t].label : t \in {u \in Tests : Test!Holding(u) /\ test'[u].ticks >= ClaimTtl}}
  BY DEF Test!Tick, AfterTick
<1>2. ASSUME NEW t \in Tests, Test!Holding(t)
      PROVE  /\ test'[t] = AfterTick(test[t]) /\ test[t] \in Requests
             /\ test[t].label \in TestLabels
             /\ test'[t].ticks >= ClaimTtl => test[t].label \in slow'
  BY <1>1, <1>2, TestTypes DEF Test!Holding
<1>3. ASSUME NEW t \in Tests, Test!Holding(t)
      PROVE  /\ test'[t].waited /\ test'[t] \in Requests /\ test'[t].pc = test[t].pc
             /\ test'[t].label = test[t].label /\ test'[t].login = test[t].login
             /\ test'[t].ticks = test[t].ticks + 1
  BY <1>2, <1>3, TickMoves
<1>4. slow \subseteq slow' /\ slow' \subseteq TestLabels
  BY <1>1, <1>2 DEF TestsTyped, KeysOK
<1>5. \A t \in Tests : ~Test!Holding(t) => test'[t] = test[t]
  BY <1>1
<1>. QED
  BY <1>1, <1>2, <1>3, <1>4, <1>5

LEMMA StepCases ==
    ASSUME [Test!Next]_Test!vars
    PROVE  \/ UNCHANGED Test!vars \/ Test!Tick
           \/ \E t \in Tests :
                 \/ Test!Arrive(t) \/ Test!Claim(t) \/ Test!Leave(t) \/ Test!Refresh(t)
                 \/ \E answer \in Test!Answers : Test!Answer(t, answer)
BY DEF Test!Next

\* What the record of one test becomes is all that RequestsOK asks of a step.
LEMMA BecomesKeepsRequests ==
    ASSUME TestsTyped, NEW t \in Tests, NEW k, Becomes(t, k),
           k.pc # "idle" => k.label \in TestLabels,
           k.pc \notin {"login", "refresh"} => k.ticks = 0 /\ ~k.waited
    PROVE  RequestsOK'
BY DEF Becomes, TestsTyped, RequestsOK, Test!Holding

LEMMA TestsTypedNext ==
    ASSUME ClaimTtl \in Nat \ {0}, TestCooldown \in Nat, TestsTyped, LoginsOK, [Test!Next]_Test!vars
    PROVE  TestsTyped'
<1>1. CASE UNCHANGED Test!vars
  BY <1>1 DEF Test!vars, TestsTyped, KeysOK, RequestsOK, Test!Holding
<1>2. CASE Test!Tick
  <2>1. KeysOK'
    <3>1. lock' \in [TestLabels -> Nat]
      <4>1. \A l \in TestLabels : lock'[l] \in Nat
        BY <1>2, TickStep DEF TestsTyped, KeysOK
      <4>2. lock' = [l \in TestLabels |-> lock'[l]]
        BY <1>2 DEF Test!Tick
      <4>. QED
        BY <4>1, <4>2
    <3>. QED
      BY <1>2, <3>1, TickStep DEF KeysOK
  <2>2. test' \in [Tests -> Requests]
    <3>1. \A t \in Tests : test'[t] \in Requests
      BY <1>2, TickStep, TestTypes
    <3>2. test' = [t \in Tests |-> test'[t]]
      BY <1>2 DEF Test!Tick
    <3>. QED
      BY <3>1, <3>2
  <2>3. ASSUME NEW t \in Tests
        PROVE  /\ test'[t].pc # "idle" => test'[t].label \in TestLabels
               /\ ~Test!Holding(t)' => test'[t].ticks = 0 /\ ~test'[t].waited
    BY <1>2, TickStep, TestTypes DEF Test!Holding
  <2>. QED
    BY <2>1, <2>2, <2>3 DEF TestsTyped, RequestsOK
<1>3. ASSUME NEW t \in Tests, Test!Arrive(t) PROVE TestsTyped'
  <2>1. PICK k : /\ Becomes(t, k) /\ UNCHANGED lock
                 /\ test[t].pc = "idle" /\ k.pc = "claim" /\ k.label \in TestLabels
                 /\ k.login = test[t].login /\ k.ticks = 0 /\ ~k.waited
    BY <1>3, ArriveStep
  <2>. QED
    BY <2>1, BecomesKeepsRequests DEF Becomes, TestsTyped, KeysOK
<1>4. ASSUME NEW t \in Tests, Test!Claim(t) PROVE TestsTyped'
  <2>1. PICK k : /\ Becomes(t, k)
                 /\ test[t].pc = "claim" /\ k.pc = "login" /\ k.label = test[t].label
                 /\ k.login = test[t].login /\ k.ticks = 0 /\ ~k.waited
                 /\ lock[k.label] = 0 /\ lock' = [lock EXCEPT ![k.label] = ClaimTtl]
    BY <1>4, ClaimStep
  <2>2. k.label \in TestLabels
    BY <2>1, TestTypes
  <2>3. RequestsOK'
    BY <2>1, <2>2, BecomesKeepsRequests
  <2>. QED
    BY <2>1, <2>3 DEF Becomes, TestsTyped, KeysOK
<1>5. ASSUME NEW t \in Tests, Test!Leave(t) PROVE TestsTyped'
  <2>1. Becomes(t, Test!NoTest) /\ UNCHANGED lock
    BY <1>5, NoTestIsRequest DEF Test!Leave, Becomes
  <2>. QED
    BY <2>1, NoTestIsRequest, BecomesKeepsRequests DEF Becomes, TestsTyped, KeysOK
<1>6. ASSUME NEW t \in Tests, Test!Refresh(t) PROVE TestsTyped'
  <2>1. Becomes(t, Test!NoTest) /\ lock' = [lock EXCEPT ![test[t].label] = TestCooldown]
    BY <1>6, NoTestIsRequest DEF Test!Refresh, Becomes
  <2>. QED
    BY <2>1, NoTestIsRequest, BecomesKeepsRequests DEF Becomes, TestsTyped, KeysOK
<1>7. ASSUME NEW t \in Tests, NEW answer \in Test!Answers, Test!Answer(t, answer) PROVE TestsTyped'
  <2>1. PICK k : /\ Becomes(t, k) /\ UNCHANGED lock
                 /\ test[t].pc = "login" /\ k.label = test[t].label
                 /\ k.ticks = test[t].ticks /\ ~k.waited
                 /\ Made(test[t].login) \in Nat /\ Made(test[t].login) < Test!MostRequests
                 /\ \/ k.pc = "refresh" /\ k.login = Test!Fresh("api")
                    \/ /\ k.pc = "login" /\ k.login.tier \in {"api", "form", "cid"}
                       /\ Made(k.login) \in Nat /\ Made(k.login) > Made(test[t].login)
    BY <1>7, AnswerStep
  <2>2. k.label \in TestLabels /\ k.pc \in {"login", "refresh"}
    BY <2>1, TestTypes
  <2>. QED
    BY <2>1, <2>2, BecomesKeepsRequests DEF Becomes, TestsTyped, KeysOK
<1>. QED
  BY <1>1, <1>2, <1>3, <1>4, <1>5, <1>6, <1>7, StepCases

-----------------------------------------------------------------------------
(* The length of a test *)

LEMMA LoginsNext == ASSUME TestsTyped, LoginsOK, [Test!Next]_Test!vars PROVE LoginsOK'
<1>. DEFINE Extra(q) == IF q.waited THEN 1 ELSE 0
            LoginOK(q) ==
                /\ q.pc = "login" => /\ q.login.tier \in {"api", "form", "cid"}
                                     /\ q.ticks <= Made(q.login) + Extra(q)
                /\ q.pc = "refresh" => q.ticks <= Test!MostRequests + Extra(q)
                /\ q.pc # "login" => q.login = Test!Fresh("api")
<1>0. LoginsOK <=> \A t \in Tests : LoginOK(test[t])
  BY DEF LoginsOK
<1>a. LoginsOK' <=> \A t \in Tests : LoginOK(test'[t])
  BY DEF LoginsOK
<1>b. ASSUME NEW t \in Tests, NEW k, Becomes(t, k), LoginOK(k) PROVE LoginsOK'
  <2>. HIDE DEF LoginOK
  <2>. QED
    BY <1>b, <1>0, <1>a DEF Becomes, TestsTyped, RequestsOK
<1>1. CASE UNCHANGED Test!vars
  BY <1>1 DEF Test!vars, LoginsOK
<1>2. CASE Test!Tick
  <2>1. ASSUME NEW t \in Tests PROVE LoginOK(test'[t])
    <3>1. CASE ~Test!Holding(t)
      <4>. HIDE DEF LoginOK
      <4>. QED
        BY <1>2, <1>0, <3>1, TickStep
    <3>2. CASE Test!Holding(t)
      <4>1. /\ ~test[t].waited /\ test'[t].waited
            /\ test'[t].pc = test[t].pc /\ test'[t].login = test[t].login
            /\ test'[t].ticks = test[t].ticks + 1
        BY <1>2, <3>2, TickStep
      <4>2. test[t].ticks \in Nat /\ test[t].login \in Test!Logins
        BY TestTypes DEF Requests
      <4>3. Test!Lost \in Test!Answers
        BY DEF Test!Answers
      <4>4. test[t].pc = "login" => Made(test[t].login) \in Nat
        BY <1>0, <4>2, <4>3, AfterMakesOne
      <4>5. Test!MostRequests \in Nat
        BY LoginAssumption DEF Test!MostRequests
      <4>6. LoginOK(test[t])
        BY <1>0
      <4>7. test[t].pc = "login" =>
              /\ test'[t].login.tier \in {"api", "form", "cid"}
              /\ test'[t].ticks <= Made(test'[t].login) + 1
        BY <4>1, <4>2, <4>4, <4>6
      <4>8. test[t].pc = "refresh" => test'[t].ticks <= Test!MostRequests + 1
        BY <4>1, <4>2, <4>5, <4>6
      <4>. QED
        BY <4>1, <4>6, <4>7, <4>8
    <3>. QED
      BY <3>1, <3>2
  <2>. QED
    BY <2>1, <1>a
<1>3. ASSUME NEW t \in Tests, Test!Arrive(t) PROVE LoginsOK'
  <2>1. PICK k : /\ Becomes(t, k) /\ UNCHANGED lock
                 /\ test[t].pc = "idle" /\ k.pc = "claim" /\ k.label \in TestLabels
                 /\ k.login = test[t].login /\ k.ticks = 0 /\ ~k.waited
    BY <1>3, ArriveStep
  <2>2. LoginOK(k)
    BY <1>0, <2>1
  <2>. QED
    BY <1>b, <2>1, <2>2
<1>4. ASSUME NEW t \in Tests, Test!Claim(t) PROVE LoginsOK'
  <2>1. PICK k : /\ Becomes(t, k)
                 /\ test[t].pc = "claim" /\ k.pc = "login" /\ k.label = test[t].label
                 /\ k.login = test[t].login /\ k.ticks = 0 /\ ~k.waited
                 /\ lock[k.label] = 0 /\ lock' = [lock EXCEPT ![k.label] = ClaimTtl]
    BY <1>4, ClaimStep
  <2>2. LoginOK(k)
    BY <1>0, <2>1, FreshApi
  <2>. QED
    BY <1>b, <2>1, <2>2
<1>5. ASSUME NEW t \in Tests, Test!Leave(t) \/ Test!Refresh(t) PROVE LoginsOK'
  <2>1. Becomes(t, Test!NoTest)
    BY <1>5, NoTestIsRequest DEF Test!Leave, Test!Refresh, Becomes
  <2>2. LoginOK(Test!NoTest)
    BY DEF Test!NoTest
  <2>. QED
    BY <1>b, <2>1, <2>2
<1>7. ASSUME NEW t \in Tests, NEW answer \in Test!Answers, Test!Answer(t, answer) PROVE LoginsOK'
  <2>1. PICK k : /\ Becomes(t, k) /\ UNCHANGED lock
                 /\ test[t].pc = "login" /\ k.label = test[t].label
                 /\ k.ticks = test[t].ticks /\ ~k.waited
                 /\ Made(test[t].login) \in Nat /\ Made(test[t].login) < Test!MostRequests
                 /\ \/ k.pc = "refresh" /\ k.login = Test!Fresh("api")
                    \/ /\ k.pc = "login" /\ k.login.tier \in {"api", "form", "cid"}
                       /\ Made(k.login) \in Nat /\ Made(k.login) > Made(test[t].login)
    BY <1>7, AnswerStep
  <2>2. /\ test[t].ticks \in Nat /\ test[t].ticks <= Made(test[t].login) + 1
        /\ Test!MostRequests \in Nat
    <3>1. test[t].ticks \in Nat
      BY TestTypes DEF Requests
    <3>2. test[t].ticks <= Made(test[t].login) + Extra(test[t])
      BY <1>0, <2>1
    <3>3. Test!MostRequests \in Nat
      BY LoginAssumption DEF Test!MostRequests
    <3>. QED
      BY <2>1, <3>1, <3>2, <3>3
  <2>3. CASE k.pc = "refresh" /\ k.login = Test!Fresh("api")
    <3>1. k.ticks <= Test!MostRequests
      BY <2>1, <2>2
    <3>. QED
      BY <1>b, <2>1, <2>2, <2>3, <3>1
  <2>4. CASE k.pc = "login" /\ Made(k.login) \in Nat /\ Made(k.login) > Made(test[t].login)
    <3>1. k.ticks <= Made(k.login)
      BY <2>1, <2>2, <2>4, SMTT(30)
    <3>. QED
      BY <1>b, <2>1, <2>4, <3>1
  <2>. QED
    BY <2>1, <2>3, <2>4
<1>. QED
  BY <1>1, <1>2, <1>3, <1>4, <1>5, <1>7, StepCases

-----------------------------------------------------------------------------
(* Turns *)

LEMMA KeysLastNext ==
    ASSUME ClaimTtl \in Nat \ {0}, TestCooldown \in Nat, TestsTyped, KeysLast, [Test!Next]_Test!vars
    PROVE  KeysLast'
<1>1. CASE UNCHANGED lock
  BY <1>1 DEF KeysLast
<1>2. CASE Test!Tick
  <2>. SUFFICES ASSUME NEW l \in TestLabels
                PROVE  lock'[l] \in 0..ClaimTtl \cup 0..TestCooldown
    BY DEF KeysLast
  <2>1. lock'[l] = IF lock[l] = 0 THEN 0 ELSE lock[l] - 1
    BY <1>2, TickStep
  <2>. QED
    BY <2>1 DEF KeysLast
<1>3. ASSUME NEW t \in Tests, Test!Claim(t) PROVE KeysLast'
  BY <1>3 DEF Test!Claim, KeysLast, TestsTyped, KeysOK
<1>4. ASSUME NEW t \in Tests, Test!Refresh(t) PROVE KeysLast'
  BY <1>4 DEF Test!Refresh, KeysLast, TestsTyped, KeysOK
<1>. QED
  BY <1>1, <1>2, <1>3, <1>4, StepCases DEF Test!vars, Test!Arrive, Test!Leave, Test!Answer

LEMMA TurnsInit == Test!Init => Turns
BY NoTestIsRequest DEF Test!Init, Turns, HoldersTakeTurns, KeyCoversTest, Test!Holding

\* A step after which fewer tests, or the same, are between their claim and
\* their refresh, with the keys as they are.
LEMMA HoldsNoMore ==
    ASSUME TestsTyped, Turns, NEW t \in Tests, NEW k, Becomes(t, k), UNCHANGED lock,
           k.pc \in {"login", "refresh"} => /\ Test!Holding(t) /\ k.label = test[t].label
                                           /\ k.ticks = test[t].ticks
    PROVE  Turns'
<1>1. /\ test'[t] = k /\ \A u \in Tests : u # t => test'[u] = test[u]
      /\ UNCHANGED slow
  BY DEF Becomes, TestsTyped, RequestsOK
<1>2. ASSUME NEW u \in Tests, Test!Holding(u)'
      PROVE  /\ Test!Holding(u) /\ test'[u].label = test[u].label
             /\ test'[u].ticks = test[u].ticks
  BY <1>1, <1>2 DEF Test!Holding
<1>3. HoldersTakeTurns'
  BY <1>1, <1>2 DEF Turns, HoldersTakeTurns
<1>4. ASSUME NEW u \in Tests PROVE KeyCoversTest(u)'
  BY <1>1, <1>2 DEF Turns, KeyCoversTest
<1>. QED
  BY <1>3, <1>4 DEF Turns

LEMMA TurnsNext ==
    ASSUME ClaimTtl \in Nat \ {0}, TestCooldown \in Nat, TestsTyped, LoginsOK, Turns, [Test!Next]_Test!vars
    PROVE  Turns'
<1>1. CASE UNCHANGED Test!vars
  BY <1>1 DEF Test!vars, Turns, HoldersTakeTurns, KeyCoversTest, Test!Holding
<1>2. CASE Test!Tick
  <2>1. ASSUME NEW u \in Tests
        PROVE  /\ Test!Holding(u)' <=> Test!Holding(u)
               /\ Test!Holding(u) => /\ test'[u].label = test[u].label
                                     /\ test'[u].ticks = test[u].ticks + 1
                                     /\ test[u].label \in TestLabels /\ test[u].ticks \in Nat
                                     /\ test'[u].ticks >= ClaimTtl => test[u].label \in slow'
    <3>1. CASE Test!Holding(u)
      BY <1>2, <3>1, TickStep, TestTypes DEF Test!Holding, Requests
    <3>2. CASE ~Test!Holding(u)
      BY <1>2, <3>2, TickStep DEF Test!Holding
    <3>. QED
      BY <3>1, <3>2
  <2>2. slow \subseteq slow'
    BY <1>2, TickStep
  <2>3. HoldersTakeTurns'
    BY <2>1, <2>2 DEF Turns, HoldersTakeTurns
  <2>4. ASSUME NEW u \in Tests, Test!Holding(u), test[u].label \notin slow'
        PROVE  /\ test'[u].ticks < ClaimTtl
               /\ lock'[test[u].label] + test'[u].ticks >= ClaimTtl
    <3>1. test'[u].ticks < ClaimTtl
      BY <2>1, <2>4
    <3>2. lock[test[u].label] + test[u].ticks >= ClaimTtl
      BY <2>2, <2>4 DEF Turns, KeyCoversTest
    <3>3. /\ lock[test[u].label] \in Nat
          /\ lock'[test[u].label] =
                IF lock[test[u].label] = 0 THEN 0 ELSE lock[test[u].label] - 1
      BY <1>2, <2>1, <2>4, TickStep DEF TestsTyped, KeysOK
    <3>. QED
      BY <2>1, <2>4, <3>1, <3>2, <3>3
  <2>5. ASSUME NEW u \in Tests PROVE KeyCoversTest(u)'
    BY <2>1, <2>4 DEF KeyCoversTest
  <2>. QED
    BY <2>3, <2>5 DEF Turns
<1>3. ASSUME NEW t \in Tests, Test!Arrive(t) PROVE Turns'
  <2>1. PICK k : /\ Becomes(t, k) /\ UNCHANGED lock
                 /\ test[t].pc = "idle" /\ k.pc = "claim" /\ k.label \in TestLabels
                 /\ k.login = test[t].login /\ k.ticks = 0 /\ ~k.waited
    BY <1>3, ArriveStep
  <2>. QED
    BY <2>1, HoldsNoMore
<1>4. ASSUME NEW t \in Tests, Test!Claim(t) PROVE Turns'
  <2>1. PICK k : /\ Becomes(t, k)
                 /\ test[t].pc = "claim" /\ k.pc = "login" /\ k.label = test[t].label
                 /\ k.login = test[t].login /\ k.ticks = 0 /\ ~k.waited
                 /\ lock[k.label] = 0 /\ lock' = [lock EXCEPT ![k.label] = ClaimTtl]
    BY <1>4, ClaimStep
  <2>2. /\ test'[t] = k /\ \A u \in Tests : u # t => test'[u] = test[u]
        /\ UNCHANGED slow
    BY <2>1 DEF Becomes, TestsTyped, RequestsOK
  <2>3. k.label \in TestLabels
    BY <2>1, TestTypes
  <2>4. /\ lock'[k.label] = ClaimTtl
        /\ \A l \in TestLabels : l # k.label => lock'[l] = lock[l]
    BY <2>1, <2>3 DEF TestsTyped, KeysOK
  <2>5. ASSUME NEW u \in Tests, Test!Holding(u), test[u].label = k.label PROVE k.label \in slow
    <3>1. test[u].ticks \in Nat
      BY TestTypes DEF Requests
    <3>. QED
      BY <2>1, <2>5, <3>1 DEF Turns, KeyCoversTest
  <2>6. HoldersTakeTurns'
    BY <2>2, <2>5 DEF Turns, HoldersTakeTurns, Test!Holding
  <2>7. KeyCoversTest(t)'
    BY <2>1, <2>2, <2>4 DEF KeyCoversTest
  <2>8. ASSUME NEW u \in Tests, u # t PROVE KeyCoversTest(u)'
    BY <2>2, <2>4, <2>5, <2>8, TestTypes DEF Turns, KeyCoversTest, Test!Holding
  <2>. QED
    BY <2>6, <2>7, <2>8 DEF Turns
<1>5. ASSUME NEW t \in Tests, Test!Leave(t) PROVE Turns'
  <2>1. Becomes(t, Test!NoTest) /\ UNCHANGED lock
    BY <1>5, NoTestIsRequest DEF Test!Leave, Becomes
  <2>. QED
    BY <2>1, NoTestIsRequest, HoldsNoMore
<1>6. ASSUME NEW t \in Tests, Test!Refresh(t) PROVE Turns'
  <2>1. /\ Becomes(t, Test!NoTest) /\ test[t].pc = "refresh"
        /\ lock' = [lock EXCEPT ![test[t].label] = TestCooldown]
    BY <1>6, NoTestIsRequest DEF Test!Refresh, Becomes
  <2>2. /\ test'[t] = Test!NoTest /\ \A u \in Tests : u # t => test'[u] = test[u]
        /\ UNCHANGED slow
    BY <2>1 DEF Becomes, TestsTyped, RequestsOK
  <2>3. \A l \in TestLabels : l # test[t].label => lock'[l] = lock[l]
    BY <2>1 DEF TestsTyped, KeysOK
  <2>4. ASSUME NEW u \in Tests, u # t, Test!Holding(u), test[u].label = test[t].label
        PROVE  test[u].label \in slow
    BY <2>1, <2>4 DEF Turns, HoldersTakeTurns, Test!Holding
  <2>5. HoldersTakeTurns'
    BY <2>2, NoTestIsRequest DEF Turns, HoldersTakeTurns, Test!Holding
  <2>6. ASSUME NEW u \in Tests PROVE KeyCoversTest(u)'
    BY <2>2, <2>3, <2>4, NoTestIsRequest, TestTypes DEF Turns, KeyCoversTest, Test!Holding
  <2>. QED
    BY <2>5, <2>6 DEF Turns
<1>7. ASSUME NEW t \in Tests, NEW answer \in Test!Answers, Test!Answer(t, answer) PROVE Turns'
  <2>1. PICK k : /\ Becomes(t, k) /\ UNCHANGED lock
                 /\ test[t].pc = "login" /\ k.label = test[t].label
                 /\ k.ticks = test[t].ticks /\ ~k.waited
                 /\ Made(test[t].login) \in Nat /\ Made(test[t].login) < Test!MostRequests
                 /\ \/ k.pc = "refresh" /\ k.login = Test!Fresh("api")
                    \/ /\ k.pc = "login" /\ k.login.tier \in {"api", "form", "cid"}
                       /\ Made(k.login) \in Nat /\ Made(k.login) > Made(test[t].login)
    BY <1>7, AnswerStep
  <2>. QED
    BY <2>1, HoldsNoMore DEF Test!Holding
<1>. QED
  BY <1>1, <1>2, <1>3, <1>4, <1>5, <1>6, <1>7, StepCases

-----------------------------------------------------------------------------
(* Theorems *)

\* The keys and the requests hold values of the code's types, and no test
\* lasts longer than its requests do: it ends within one tick, ten seconds,
\* for each of the requests run_login makes and one for its refresh.
THEOREM TestTypesHold ==
    ASSUME ClaimTtl \in Nat \ {0}, TestCooldown \in Nat
    PROVE  Test!Spec => []Test!TypeOK
<1>1. Test!Init => TestsTyped /\ LoginsOK /\ KeysLast
  <2>1. Test!Init => LoginsOK
    BY DEF Test!Init, LoginsOK, Test!NoTest
  <2>2. Test!Init => KeysLast
    BY DEF Test!Init, KeysLast
  <2>. QED
    BY TestsTypedInit, <2>1, <2>2
<1>2. TestsTyped /\ LoginsOK /\ KeysLast /\ [Test!Next]_Test!vars => (TestsTyped /\ LoginsOK /\ KeysLast)'
  BY TestsTypedNext, LoginsNext, KeysLastNext
<1>3. TestsTyped /\ LoginsOK /\ KeysLast => Test!TypeOK
  <2>. SUFFICES ASSUME TestsTyped, LoginsOK, KeysLast, NEW t \in Tests
                PROVE  test[t].ticks \in 0..(Test!MostRequests + 1)
    BY TestTypes DEF Test!TypeOK, KeysLast, TestsTyped, KeysOK, Requests
  <2>1. /\ test[t].ticks \in Nat /\ Test!MostRequests \in Nat
        /\ test[t].pc \in {"idle", "claim", "login", "refresh"}
        /\ test[t].pc \in {"idle", "claim"} => test[t].ticks = 0
    BY TestTypes, LoginAssumption DEF Requests, Test!MostRequests, Test!Holding
  <2>2. CASE test[t].pc = "login"
    <3>1. Made(test[t].login) \in Nat /\ Made(test[t].login) < Test!MostRequests
      BY <2>2, TestTypes, AfterMakesOne DEF LoginsOK, Requests, Test!Answers
    <3>2. test[t].ticks <= Made(test[t].login) + 1
      BY <2>1, <2>2, <3>1 DEF LoginsOK
    <3>. QED
      BY <2>1, <3>1, <3>2
  <2>3. CASE test[t].pc = "refresh"
    BY <2>1, <2>3 DEF LoginsOK
  <2>. QED
    BY <2>1, <2>2, <2>3
<1>. QED
  BY <1>1, <1>2, <1>3, PTL DEF Test!Spec

\* As long as no test of a label has taken CLAIM_TTL_SECS from its claim to
\* its refresh, no two tests of it log in at once, whatever the cooldown is:
\* a refresh overwrites the key, but never the key of another test, because
\* there is none.
THEOREM TestsNeverMeet ==
    ASSUME ClaimTtl \in Nat \ {0}, TestCooldown \in Nat
    PROVE  Test!Spec => []TestsTakeTurns
<1>1. Test!Init => TestsTyped /\ LoginsOK /\ Turns
  BY TestsTypedInit, TurnsInit DEF Test!Init, LoginsOK, Test!NoTest
<1>2. TestsTyped /\ LoginsOK /\ Turns /\ [Test!Next]_Test!vars => (TestsTyped /\ LoginsOK /\ Turns)'
  BY TestsTypedNext, LoginsNext, TurnsNext
<1>3. Turns => TestsTakeTurns
  BY DEF Turns, HoldersTakeTurns, TestsTakeTurns, Test!TestsTakeTurns, Test!Running, Test!Holding
<1>. QED
  BY <1>1, <1>2, <1>3, PTL DEF Test!Spec
=============================================================================
