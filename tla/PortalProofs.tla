----------------------------- MODULE PortalProofs -----------------------------
(* Proofs about PortalAccess, TenantSettings and LiveFeed, for any users,   *)
(* sessions, requests, settings, sockets and messages.  They share no     *)
(* state: each has its own invariant.                                       *)
EXTENDS Portal, FiniteSetTheorems, SequenceTheorems, TLAPS

(***************************************************************************)
(* Typing.  A request under way has its user, and a route its argument.    *)
(***************************************************************************)
Steps == OtpSteps \cup {"idle", "insert", "logout", "create", "delete"}

HandlersOK ==
    /\ handler \in [Handlers -> [pc : Steps, token : Tokens \cup {None},
                                 user : Users \cup {None},
                                 target : Users \cup {None}, code : 0..MaxCodes]]
    /\ \A h \in Handlers :
           /\ handler[h].pc # "idle" => handler[h].user \in Users
           /\ handler[h].pc = "logout" => handler[h].token \in Tokens
           /\ handler[h].pc = "delete" => handler[h].target \in Users

SeenOK ==
    /\ seen \in [Users -> [tries : Nat, proofs : Nat, sent : BOOLEAN, alone : BOOLEAN]]
    /\ crossed \in BOOLEAN

RowsOK ==
    /\ users \in [Users -> {"main", "sub", "unborn", "deleted"}]
    /\ session \in [Tokens -> Users \cup {"unborn", "deleted"}]

KeysOK ==
    /\ otp \in [Users -> [cooldown : BOOLEAN, code : 0..MaxCodes,
                          attempts : 0..(MaxAttempts + 1), window : BOOLEAN,
                          older : BOOLEAN]]
    /\ issued \in 0..MaxCodes
    /\ \A u \in Users : /\ otp[u].code <= issued
                        /\ otp[u].window => otp[u].attempts > 0
                        /\ otp[u].older => otp[u].window

Types == RowsOK /\ KeysOK /\ HandlersOK /\ SeenOK

(***************************************************************************)
(* Accounts.  A request to delete is of a main account that is still there,*)
(* or of one that was deleted under it.                                    *)
(***************************************************************************)
DeletersAreMain ==
    \A h \in Handlers : handler[h].pc = "delete" =>
        \/ users[handler[h].user] = "main"
        \/ crossed

Accounts == AccountsStand /\ DeletersAreMain

(***************************************************************************)
(* Codes.  What is true of the keys of a user while its code is out: no    *)
(* two handlers are at them, every comparison was counted before, the      *)
(* counter is not forgotten before the code is, and a proof follows the    *)
(* end of its code.                                                        *)
(***************************************************************************)
At(h, u, pcs) == handler[h].user = u /\ handler[h].pc \in pcs

OneAtTheKeys(u) ==
    seen[u].alone =>
        \A g, h \in Handlers : At(g, u, OtpSteps) /\ At(h, u, OtpSteps) => g = h

SentOnce(u) ==
    /\ seen[u].sent => seen[u].alone /\ \A h \in Handlers : ~At(h, u, {"reset"})
    /\ ~seen[u].sent => seen[u].tries = 0 /\ seen[u].proofs = 0

TriesAreCounted(u) ==
    /\ seen[u].tries <= MaxAttempts
    /\ seen[u].sent /\ otp[u].code # 0 =>
           /\ ~otp[u].older
           /\ seen[u].tries <= otp[u].attempts
           /\ \A h \in Handlers : At(h, u, {"window", "compare"}) =>
                  /\ seen[u].tries < otp[u].attempts
                  /\ otp[u].attempts <= MaxAttempts

ProofEndsCode(u) ==
    /\ seen[u].proofs <= 1
    /\ seen[u].sent =>
           /\ otp[u].code # 0 => seen[u].proofs = 0
           /\ \A h \in Handlers :
                  /\ At(h, u, {"burn", "clear", "prove"}) => seen[u].proofs = 0
                  /\ At(h, u, {"clear", "prove"}) => otp[u].code = 0

CodeInv(u) ==
    OneAtTheKeys(u) /\ SentOnce(u) /\ TriesAreCounted(u) /\ ProofEndsCode(u)

Codes == \A u \in Users : CodeInv(u)

\* What Goto and Done do to the requests.
LEMMA GotoEffect ==
    ASSUME HandlersOK, NEW h \in Handlers, NEW pc \in OtpSteps, Goto(h, pc),
           handler[h].user \in Users
    PROVE  /\ HandlersOK'
           /\ handler'[h].pc = pc /\ handler'[h].user = handler[h].user
           /\ \A g \in Handlers : g # h => handler'[g] = handler[g]
<1>1. {"idle", "logout", "delete"} \cap OtpSteps = {}
  BY DEF OtpSteps
<1>2. /\ handler'[h].pc = pc /\ handler'[h].user = handler[h].user
      /\ \A g \in Handlers : g # h => handler'[g] = handler[g]
  BY DEF HandlersOK, Goto
<1>3. HandlersOK'
  BY <1>1 DEF HandlersOK, Goto, Steps
<1>. QED
  BY <1>2, <1>3

LEMMA DoneEffect ==
    ASSUME HandlersOK, NEW h \in Handlers, Done(h)
    PROVE  /\ HandlersOK'
           /\ handler'[h].pc = "idle"
           /\ \A g \in Handlers : g # h => handler'[g] = handler[g]
<1>1. /\ handler'[h] = NoHandler
      /\ \A g \in Handlers : g # h => handler'[g] = handler[g]
  BY DEF HandlersOK, Done
<1>2. HandlersOK'
  BY PortalAssumption DEF HandlersOK, Done, Steps, NoHandler
<1>. QED
  BY <1>1, <1>2 DEF NoHandler

LEMMA TypesInit == Init => Types
<1> SUFFICES ASSUME Init PROVE Types
  OBVIOUS
<1>1. HandlersOK
  <2>1. NoHandler \in [pc : Steps, token : Tokens \cup {None}, user : Users \cup {None},
                       target : Users \cup {None}, code : 0..MaxCodes]
    BY PortalAssumption DEF NoHandler, Steps
  <2>2. NoHandler.pc = "idle" /\ \A h \in Handlers : handler[h] = NoHandler
    BY DEF Init, NoHandler
  <2>. QED
    BY <2>1, <2>2 DEF Init, HandlersOK
<1>2. SeenOK
  BY DEF Init, SeenOK, NothingSeen
<1>3. RowsOK
  BY PortalAssumption DEF Init, RowsOK
<1>4. KeysOK
  BY PortalAssumption DEF Init, KeysOK, NoKeys
<1>. QED
  BY <1>1, <1>2, <1>3, <1>4 DEF Types

LEMMA HandlersNext == ASSUME HandlersOK, RowsOK, KeysOK, [Next]_vars PROVE HandlersOK'
<1> DEFINE Record == [pc : Steps, token : Tokens \cup {None}, user : Users \cup {None},
                      target : Users \cup {None}, code : 0..MaxCodes]
<1>1. CASE UNCHANGED handler
  BY <1>1 DEF HandlersOK
<1>2. ASSUME NEW h \in Handlers, FindByName(h) PROVE HandlersOK'
  <2>1. PICK u \in Users : handler' = [handler EXCEPT ![h].pc = "insert", ![h].user = u]
    BY <1>2 DEF FindByName
  <2>. DEFINE f == [handler EXCEPT ![h].pc = "insert"]
  <2>2. /\ f \in [Handlers -> Record] /\ f[h].pc = "insert"
        /\ \A g \in Handlers : g # h => f[g] = handler[g]
    BY DEF HandlersOK, Steps
  <2>3. handler' = [f EXCEPT ![h].user = u]
    BY <2>1
  <2>. HIDE DEF f
  <2>4. /\ handler' \in [Handlers -> Record]
        /\ handler'[h].pc = "insert" /\ handler'[h].user = u
        /\ \A g \in Handlers : g # h => handler'[g] = handler[g]
    BY <2>2, <2>3
  <2>. QED
    BY <2>4 DEF HandlersOK
<1>3. ASSUME NEW h \in Handlers, Authorize(h) PROVE HandlersOK'
  <2>1. PICK t \in Tokens, what \in {"logout", "create", "delete", "request", "verify"},
               target \in Users \cup {None}, code \in 0..issued :
          LET w == session[t]
          IN  /\ w \in Users /\ Lives(w)
              /\ users[w] = "main" \/ what = "logout"
              /\ what \in {"request", "verify"} => w \in Armers
              /\ what = "delete" <=> target # None
              /\ what # "verify" => code = 0
              /\ handler' = [handler EXCEPT ![h] =
                     [pc |-> what, token |-> IF what = "logout" THEN t ELSE None,
                      user |-> w, target |-> target, code |-> code]]
              /\ seen' = IF what \in OtpSteps /\ Busy(h, w)
                         THEN [seen EXCEPT ![w] = NothingSeen] ELSE seen
    BY <1>3 DEF Authorize
  <2>2. what \in Steps
    BY <2>1 DEF Steps, OtpSteps
  <2>3. code \in 0..MaxCodes
    BY <2>1, PortalAssumption DEF KeysOK
  <2>6. handler'[h] \in Record
    BY <2>1, <2>2, <2>3 DEF HandlersOK
  <2>4. /\ handler' \in [Handlers -> Record]
        /\ \A g \in Handlers : g # h => handler'[g] = handler[g]
    BY <2>1, <2>6 DEF HandlersOK
  <2>5. /\ handler'[h].user \in Users
        /\ handler'[h].pc = "logout" => handler'[h].token \in Tokens
        /\ handler'[h].pc = "delete" => handler'[h].target \in Users
    BY <2>1 DEF HandlersOK
  <2>. QED
    BY <2>4, <2>5 DEF HandlersOK
<1>4. ASSUME NEW h \in Handlers, Done(h) PROVE HandlersOK'
  BY <1>4, DoneEffect
<1>5. ASSUME NEW h \in Handlers, NEW pc \in OtpSteps, handler[h].pc # "idle", Goto(h, pc)
      PROVE  HandlersOK'
  BY <1>5, GotoEffect DEF HandlersOK
<1>6. {"store", "reset", "window", "compare", "burn", "clear", "prove"} \subseteq OtpSteps
  BY DEF OtpSteps
<1>. QED
  BY <1>1, <1>2, <1>3, <1>4, <1>5, <1>6, ZenonT(40)
     DEF Next, HandlerStep, vars, InsertSession, Logout, Create, Delete, Cooldown, Store,
         Reset, Count, Window, Compare, Burn, Clear, Prove, Leave, SessionExpires,
         CooldownExpires, CodeExpires, WindowExpires

LEMMA RowsNext == ASSUME HandlersOK, RowsOK, [Next]_vars PROVE RowsOK'
<1> USE PortalAssumption DEF HandlersOK, RowsOK
<1>1. CASE UNCHANGED <<users, session>>
  BY <1>1
<1>2. ASSUME NEW h \in Handlers, InsertSession(h) PROVE RowsOK'
  BY <1>2 DEF InsertSession, Lives
<1>3. ASSUME NEW h \in Handlers, Logout(h) PROVE RowsOK'
  BY <1>3 DEF Logout
<1>4. ASSUME NEW t \in Tokens, SessionExpires(t) PROVE RowsOK'
  BY <1>4 DEF SessionExpires
<1>5. ASSUME NEW h \in Handlers, Create(h) PROVE RowsOK'
  BY <1>5 DEF Create
<1>6. ASSUME NEW h \in Handlers, Delete(h) PROVE RowsOK'
  BY <1>6 DEF Delete, Deleting
<1>. QED
  BY <1>1, <1>2, <1>3, <1>4, <1>5, <1>6, ZenonT(40) DEF Next, HandlerStep, vars,
     FindByName, Authorize, Cooldown, Store, Reset, Count, Window, Compare,
     Burn, Clear, Prove, Leave, CooldownExpires, CodeExpires, WindowExpires

\* The two time limits, whose fields are truth values.
LEMMA CooldownEffect ==
    ASSUME KeysOK, NEW u \in Users, NEW limit \in BOOLEAN,
           otp' = [otp EXCEPT ![u].cooldown = limit], issued' = issued
    PROVE  KeysOK'
<1>1. otp' \in [Users -> [cooldown : BOOLEAN, code : 0..MaxCodes,
                        attempts : 0..(MaxAttempts + 1), window : BOOLEAN,
                        older : BOOLEAN]]
  BY DEF KeysOK
<1>2. \A v \in Users : /\ otp'[v].code = otp[v].code
                     /\ otp'[v].attempts = otp[v].attempts
                     /\ otp'[v].window = otp[v].window
                     /\ otp'[v].older = otp[v].older
  BY DEF KeysOK
<1>. QED
  BY <1>1, <1>2 DEF KeysOK

LEMMA NoAttemptsEffect ==
    ASSUME KeysOK, NEW u \in Users, otp' = NoAttempts(u), issued' = issued
    PROVE  KeysOK'
<1> DEFINE Keys == [cooldown : BOOLEAN, code : 0..MaxCodes,
                    attempts : 0..(MaxAttempts + 1), window : BOOLEAN, older : BOOLEAN]
           f == [otp EXCEPT ![u].attempts = 0]
           g == [f EXCEPT ![u].window = FALSE]
<1>1. /\ f \in [Users -> Keys] /\ f[u].code = otp[u].code
      /\ \A v \in Users : v # u => f[v] = otp[v]
  BY PortalAssumption DEF KeysOK
<1>2. otp' = [g EXCEPT ![u].older = FALSE]
  BY DEF NoAttempts
<1> HIDE DEF f
<1>3. /\ g \in [Users -> Keys] /\ g[u].code = f[u].code /\ ~g[u].window
      /\ \A v \in Users : v # u => g[v] = f[v]
  BY <1>1
<1> HIDE DEF g
<1>4. /\ otp' \in [Users -> Keys] /\ otp'[u].code = g[u].code
      /\ ~otp'[u].window /\ ~otp'[u].older
      /\ \A v \in Users : v # u => otp'[v] = g[v]
  BY <1>2, <1>3
<1>5. ASSUME NEW v \in Users
      PROVE  /\ otp'[v].code <= issued'
             /\ otp'[v].window => otp'[v].attempts > 0
             /\ otp'[v].older => otp'[v].window
  BY <1>1, <1>3, <1>4 DEF KeysOK
<1>. QED
  BY <1>4, <1>5, PortalAssumption DEF KeysOK

LEMMA WindowStep ==
    ASSUME KeysOK, HandlersOK, NEW h \in Handlers, Window(h)
    PROVE  LET u == handler[h].user
           IN  /\ KeysOK'
               /\ ~otp'[u].older /\ otp'[u].code = otp[u].code
               /\ otp'[u].attempts = otp[u].attempts
<1>. DEFINE u == handler[h].user
            limit == otp[u].attempts > 0
<1>1. /\ u \in Users /\ issued' = issued
      /\ limit \in BOOLEAN /\ (limit => otp[u].attempts > 0)
  BY DEF Window, HandlersOK
<1>2. otp' = [otp EXCEPT ![u].window = limit, ![u].older = FALSE]
  BY DEF Window
<1>. HIDE DEF u, limit
<1>3. otp' \in [Users -> [cooldown : BOOLEAN, code : 0..MaxCodes,
                        attempts : 0..(MaxAttempts + 1), window : BOOLEAN,
                        older : BOOLEAN]]
  BY <1>1, <1>2 DEF KeysOK
<1>4. /\ ~otp'[u].older /\ (otp'[u].window => limit)
      /\ otp'[u].code = otp[u].code /\ otp'[u].attempts = otp[u].attempts
      /\ \A v \in Users : v # u => otp'[v] = otp[v]
  BY <1>1, <1>2 DEF KeysOK
<1>5. ASSUME NEW v \in Users
      PROVE  /\ otp'[v].code <= issued'
             /\ otp'[v].window => otp'[v].attempts > 0
             /\ otp'[v].older => otp'[v].window
  BY <1>1, <1>3, <1>4 DEF KeysOK
<1>6. KeysOK'
  BY <1>1, <1>3, <1>5 DEF KeysOK
<1>. QED
  BY <1>4, <1>6 DEF u

LEMMA KeysNext == ASSUME HandlersOK, KeysOK, [Next]_vars PROVE KeysOK'
<1> USE PortalAssumption DEF HandlersOK, KeysOK
<1>1. CASE UNCHANGED <<otp, issued>>
  BY <1>1
<1>2. ASSUME NEW h \in Handlers, Cooldown(h) PROVE KeysOK'
  <2>1. CASE UNCHANGED <<otp, issued>>
    BY <2>1, <1>1
  <2>2. CASE otp' = [otp EXCEPT ![handler[h].user].cooldown = TRUE]
    BY <2>2, <1>2, CooldownEffect DEF Cooldown
  <2>. QED
    BY <2>1, <2>2, <1>2 DEF Cooldown
<1>3. ASSUME NEW h \in Handlers, Store(h) PROVE KeysOK'
  BY <1>3 DEF Store
<1>4. ASSUME NEW h \in Handlers, Reset(h) PROVE KeysOK'
  BY <1>4, NoAttemptsEffect DEF Reset
<1>5. ASSUME NEW h \in Handlers, Count(h) PROVE KeysOK'
  BY <1>5 DEF Count
<1>6. ASSUME NEW h \in Handlers, Window(h) PROVE KeysOK'
  BY <1>6, WindowStep
<1>7. ASSUME NEW h \in Handlers, Burn(h) PROVE KeysOK'
  BY <1>7 DEF Burn
<1>8. ASSUME NEW h \in Handlers, Clear(h) PROVE KeysOK'
  BY <1>8, NoAttemptsEffect DEF Clear
<1>9. ASSUME NEW u \in Users, CooldownExpires(u) PROVE KeysOK'
  BY <1>9, CooldownEffect DEF CooldownExpires
<1>10. ASSUME NEW u \in Users, CodeExpires(u) PROVE KeysOK'
  BY <1>10 DEF CodeExpires
<1>11. ASSUME NEW u \in Users, WindowExpires(u) PROVE KeysOK'
  BY <1>11, NoAttemptsEffect, SMTT(30) DEF WindowExpires
<1>. QED
  BY <1>1, <1>2, <1>3, <1>4, <1>5, <1>6, <1>7, <1>8, <1>9, <1>10, <1>11, ZenonT(40) DEF
     Next, HandlerStep, vars, FindByName, InsertSession, Authorize, Logout,
     Create, Delete, Compare, Prove, Leave, SessionExpires

LEMMA SeenNext == ASSUME HandlersOK, SeenOK, [Next]_vars PROVE SeenOK'
<1> USE PortalAssumption DEF HandlersOK, SeenOK, NothingSeen
<1>1. CASE UNCHANGED <<seen, crossed>>
  BY <1>1
<1>2. ASSUME NEW h \in Handlers, Authorize(h) PROVE SeenOK'
  BY <1>2 DEF Authorize
<1>3. ASSUME NEW h \in Handlers, Delete(h) PROVE SeenOK'
  BY <1>3 DEF Delete, Deleting
<1>4. ASSUME NEW h \in Handlers, Store(h) PROVE SeenOK'
  BY <1>4 DEF Store
<1>5. ASSUME NEW h \in Handlers, Reset(h) PROVE SeenOK'
  BY <1>5 DEF Reset
<1>6. ASSUME NEW h \in Handlers, Compare(h) PROVE SeenOK'
  BY <1>6 DEF Compare
<1>7. ASSUME NEW h \in Handlers, Prove(h) PROVE SeenOK'
  BY <1>7 DEF Prove
<1>. QED
  BY <1>1, <1>2, <1>3, <1>4, <1>5, <1>6, <1>7 DEF Next, HandlerStep, vars,
     FindByName, InsertSession, Logout, Create, Cooldown, Count, Window, Burn,
     Clear, Leave, SessionExpires, CooldownExpires, CodeExpires, WindowExpires

LEMMA TypesNext == ASSUME Types, [Next]_vars PROVE Types'
BY HandlersNext, RowsNext, KeysNext, SeenNext DEF Types

\* The rows, keys and requests keep their types, whatever the requests do.
THEOREM PortalTypes == Spec => []TypeOK
<1>1. Types => TypeOK
  BY DEF Types, RowsOK, KeysOK, HandlersOK, TypeOK, Steps
<1>. QED
  BY <1>1, TypesInit, TypesNext, PTL DEF Spec

-----------------------------------------------------------------------------
(* Accounts *)

LEMMA AccountsInit == Init => Accounts
BY PortalAssumption
   DEF Init, Accounts, AccountsStand, SessionsHaveUsers, MainAccountRemains,
       DeletersAreMain, NoHandler

\* Sessions end with their user, a user that is gone does not come back, and
\* the one who deletes another stays, unless he is deleted first.
LEMMA AccountsNext == ASSUME Types, Accounts, [Next]_vars PROVE Accounts'
<1> USE PortalAssumption DEF Types, RowsOK, HandlersOK, SeenOK, Accounts, AccountsStand,
        SessionsHaveUsers, MainAccountRemains, DeletersAreMain, Lives
<1>1. CASE UNCHANGED <<users, session, handler, crossed>>
  BY <1>1
<1>2. ASSUME NEW h \in Handlers, UNCHANGED <<users, session, crossed>>,
             NEW pc \in OtpSteps, Goto(h, pc), handler[h].pc # "idle"
      PROVE  Accounts'
  <2>1. pc # "delete"
    BY DEF OtpSteps
  <2>. QED
    BY <1>2, <2>1, GotoEffect
<1>3. ASSUME NEW h \in Handlers, UNCHANGED <<users, session, crossed>>, Done(h)
      PROVE  Accounts'
  BY <1>3, DoneEffect
<1>4. ASSUME NEW h \in Handlers, FindByName(h) PROVE Accounts'
  <2>1. /\ \A g \in Handlers : g # h => handler'[g] = handler[g]
        /\ handler'[h].pc = "insert"
    BY <1>4 DEF FindByName
  <2>. QED
    BY <1>4, <2>1 DEF FindByName
<1>5. ASSUME NEW h \in Handlers, Authorize(h) PROVE Accounts'
  <2>1. \A g \in Handlers : g # h => handler'[g] = handler[g]
    BY <1>5 DEF Authorize
  <2>2. handler'[h].pc = "delete" => users[handler'[h].user] = "main"
    BY <1>5 DEF Authorize
  <2>. QED
    BY <1>5, <2>1, <2>2 DEF Authorize
<1>6. ASSUME NEW h \in Handlers, InsertSession(h) PROVE Accounts'
  <2>1. PICK t \in Tokens :
          session' = [session EXCEPT ![t] = IF Lives(handler[h].user)
                                            THEN handler[h].user ELSE @]
    BY <1>6 DEF InsertSession
  <2>2. SessionsHaveUsers'
    BY <1>6, <2>1 DEF InsertSession
  <2>3. /\ \A g \in Handlers : g # h => handler'[g] = handler[g]
        /\ handler'[h].pc = "idle" /\ users' = users /\ crossed' = crossed
    BY <1>6, DoneEffect DEF InsertSession
  <2>. QED
    BY <2>2, <2>3
<1>7. ASSUME NEW h \in Handlers, Logout(h) PROVE Accounts'
  <2>1. /\ \A g \in Handlers : g # h => handler'[g] = handler[g]
        /\ handler'[h].pc = "idle" /\ users' = users /\ crossed' = crossed
    BY <1>7, DoneEffect DEF Logout
  <2>2. SessionsHaveUsers'
    BY <1>7, <2>1 DEF Logout
  <2>. QED
    BY <2>1, <2>2
<1>8. ASSUME NEW h \in Handlers, Create(h) PROVE Accounts'
  <2>1. PICK u \in Users, role \in {"main", "sub"} :
          users[u] = "unborn" /\ users' = [users EXCEPT ![u] = role]
    BY <1>8 DEF Create
  <2>2. \A v \in Users : Lives(v) => users'[v] = users[v]
    BY <2>1
  <2>3. /\ \A g \in Handlers : g # h => handler'[g] = handler[g]
        /\ handler'[h].pc = "idle" /\ session' = session /\ crossed' = crossed
    BY <1>8, DoneEffect DEF Create
  <2>4. SessionsHaveUsers'
    BY <2>2, <2>3
  <2>5. MainAccountRemains'
    BY <2>2, <2>3
  <2>6. DeletersAreMain'
    BY <2>2, <2>3
  <2>. QED
    BY <2>4, <2>5, <2>6
<1>9. ASSUME NEW h \in Handlers, Delete(h) PROVE Accounts'
  <2>1. CASE UNCHANGED <<users, session, crossed>>
    BY <1>9, <2>1, <1>3 DEF Delete
  <2>2. CASE handler[h].target # handler[h].user /\ Deleting(h)
    <3>. DEFINE gone == handler[h].target
    <3>1. /\ gone \in Users /\ users' = [users EXCEPT ![gone] = "deleted"]
          /\ \A t \in Tokens : session'[t] = IF session[t] = gone THEN "deleted"
                                             ELSE session[t]
      BY <1>9, <2>2 DEF Delete, Deleting
    <3>2. SessionsHaveUsers'
      BY <3>1
    <3>3. /\ \A g \in Handlers : g # h => handler'[g] = handler[g]
          /\ handler'[h].pc = "idle"
      BY <1>9, DoneEffect DEF Delete
    <3>4. crossed => crossed'
      BY <2>2 DEF Deleting
    <3>5. DeletersAreMain'
      <4>. SUFFICES ASSUME NEW g \in Handlers, handler'[g].pc = "delete", ~crossed'
                    PROVE  users'[handler'[g].user] = "main"
        OBVIOUS
      <4>1. g # h /\ handler[g].pc = "delete" /\ handler[g].user # gone
        BY <2>2, <3>3 DEF Deleting
      <4>. QED
        BY <4>1, <3>1, <3>3, <3>4
    <3>6. MainAccountRemains'
      BY <1>9, <2>2, <3>1, <3>4 DEF Delete
    <3>. QED
      BY <3>2, <3>5, <3>6
  <2>. QED
    BY <1>9, <2>1, <2>2 DEF Delete
<1>10. ASSUME NEW t \in Tokens, SessionExpires(t) PROVE Accounts'
  BY <1>10 DEF SessionExpires
<1>11. {"store", "reset", "window", "compare", "burn", "clear", "prove"} \subseteq OtpSteps
  BY DEF OtpSteps
<1>12. ASSUME NEW h \in Handlers, handler[h].pc # "idle",
              UNCHANGED <<users, session, crossed>>,
              Done(h) \/ \E pc \in OtpSteps : Goto(h, pc)
       PROVE  Accounts'
  BY <1>2, <1>3, <1>12, Zenon
<1>13. ASSUME NEW h \in Handlers, HandlerStep(h) PROVE Accounts'
  BY <1>4, <1>5, <1>6, <1>7, <1>8, <1>9, <1>11, <1>12, <1>13
     DEF HandlerStep, Cooldown, Store, Reset, Count, Window, Compare, Burn, Clear, Prove,
         Leave
<1>. QED
  BY <1>1, <1>10, <1>13 DEF Next, vars, CooldownExpires, CodeExpires, WindowExpires

\* A session always names a user there is, and the tenant keeps a main account
\* unless two of them deleted each other at the same time.
THEOREM AccountsAlwaysStand == Spec => []AccountsStand
<1>1. Accounts => AccountsStand
  BY DEF Accounts
<1>. QED
  BY <1>1, TypesInit, TypesNext, AccountsInit, AccountsNext, PTL DEF Spec

-----------------------------------------------------------------------------
(* Codes *)

LEMMA CodesInit == Init => Codes
BY PortalAssumption
   DEF Init, Codes, CodeInv, OneAtTheKeys, SentOnce, TriesAreCounted, ProofEndsCode,
       NothingSeen

\* A step that leaves the keys of a user alone, and after which no other
\* request is at them, keeps what is true of his code.
LEMMA Untouched ==
    ASSUME NEW u \in Users, CodeInv(u), otp'[u] = otp[u], seen'[u] = seen[u],
           \A g \in Handlers : \/ handler'[g] = handler[g]
                             \/ handler'[g].user # u
                             \/ handler'[g].pc \notin OtpSteps
    PROVE  CodeInv(u)'
<1>1. ASSUME NEW g \in Handlers, NEW pcs \in SUBSET OtpSteps, At(g, u, pcs)'
      PROVE  At(g, u, pcs)
  BY <1>1 DEF At
<1>2. {"reset", "window", "compare", "burn", "clear", "prove"} \subseteq OtpSteps
  BY DEF OtpSteps
<1>3. OneAtTheKeys(u)' /\ SentOnce(u)'
  BY <1>1, <1>2 DEF CodeInv, OneAtTheKeys, SentOnce
<1>4. TriesAreCounted(u)'
  BY <1>1, <1>2 DEF CodeInv, TriesAreCounted
<1>5. ProofEndsCode(u)'
  BY <1>1, <1>2 DEF CodeInv, ProofEndsCode
<1>. QED
  BY <1>3, <1>4, <1>5 DEF CodeInv

\* What the steps of the two routes do to the keys they work on, field by
\* field; and what the code's invariants need of the types.
LEMMA CodeTypes ==
    ASSUME Types, NEW u \in Users
    PROVE  /\ otp[u].code \in Nat /\ otp[u].attempts \in Nat
           /\ otp[u].older \in BOOLEAN
           /\ seen[u] \in [tries : Nat, proofs : Nat, sent : BOOLEAN, alone : BOOLEAN]
           /\ issued \in Nat /\ MaxAttempts \in Nat
BY PortalAssumption DEF Types, KeysOK, SeenOK

\* Another request that comes to the keys ends what is claimed of the code.
LEMMA CodesArrive ==
    ASSUME Types, NEW u \in Users, CodeInv(u), NEW h \in Handlers, Authorize(h)
    PROVE  CodeInv(u)'
<1>a. PICK t \in Tokens, what \in {"logout", "create", "delete", "request", "verify"},
           target \in Users \cup {None}, code \in 0..issued :
        LET w == session[t]
        IN  /\ w \in Users /\ Lives(w)
            /\ users[w] = "main" \/ what = "logout"
            /\ what \in {"request", "verify"} => w \in Armers
            /\ what = "delete" <=> target # None
            /\ what # "verify" => code = 0
            /\ handler' = [handler EXCEPT ![h] =
                   [pc |-> what, token |-> IF what = "logout" THEN t ELSE None,
                    user |-> w, target |-> target, code |-> code]]
            /\ seen' = IF what \in OtpSteps /\ Busy(h, w)
                       THEN [seen EXCEPT ![w] = NothingSeen] ELSE seen
  BY DEF Authorize
<1> DEFINE v == session[t]
<1>1. /\ v \in Users
      /\ handler'[h].pc = what /\ handler'[h].user = v
      /\ seen' = IF what \in OtpSteps /\ Busy(h, v)
                 THEN [seen EXCEPT ![v] = NothingSeen] ELSE seen
  BY <1>a DEF Types, HandlersOK
<1> HIDE DEF v
<1>2. /\ otp' = otp
      /\ \A g \in Handlers : g # h => handler'[g] = handler[g]
  BY DEF Authorize, Types, HandlersOK
<1>3. CASE what \notin OtpSteps \/ v # u
  <2>1. seen'[u] = seen[u]
    BY <1>1, <1>3 DEF Types, SeenOK
  <2>. QED
    BY <1>1, <1>2, <1>3, <2>1, Untouched
<1>4. CASE what \in {"request", "verify"} /\ v = u /\ Busy(h, u)
  <2>1. seen'[u] = NothingSeen
    BY <1>1, <1>4 DEF Types, SeenOK, OtpSteps
  <2>. QED
    BY <2>1, PortalAssumption
       DEF NothingSeen, CodeInv, OneAtTheKeys, SentOnce, TriesAreCounted, ProofEndsCode
<1>5. CASE what \in {"request", "verify"} /\ v = u /\ ~Busy(h, u)
  <2>1. seen'[u] = seen[u]
    BY <1>1, <1>5
  <2>2. \A g \in Handlers : At(g, u, OtpSteps)' => g = h
    BY <1>2, <1>5 DEF Busy, At
  <2>3. \A g \in Handlers : ~At(g, u, {"reset", "window", "compare", "burn", "clear", "prove"})'
    BY <1>1, <1>5, <2>2 DEF At, OtpSteps
  <2>4. OneAtTheKeys(u)' /\ SentOnce(u)'
    BY <1>2, <2>1, <2>2, <2>3 DEF CodeInv, OneAtTheKeys, SentOnce, At
  <2>5. TriesAreCounted(u)'
    BY <1>2, <2>1, <2>3 DEF CodeInv, TriesAreCounted, At
  <2>6. ProofEndsCode(u)'
    BY <1>2, <2>1, <2>3 DEF CodeInv, ProofEndsCode, At
  <2>. QED
    BY <2>4, <2>5, <2>6 DEF CodeInv
<1>. QED
  BY <1>1, <1>3, <1>4, <1>5 DEF OtpSteps

\* The steps of otp::request at the keys of u.
LEMMA CodesRequest ==
    ASSUME Types, NEW u \in Users, CodeInv(u), NEW h \in Handlers, handler[h].user = u,
           Cooldown(h) \/ Store(h) \/ Reset(h)
    PROVE  CodeInv(u)'
<1> USE CodeTypes DEF Types, CodeInv, OneAtTheKeys, SentOnce, TriesAreCounted,
                      ProofEndsCode, At
<1>o. {"request", "store", "reset", "window", "compare", "burn", "clear", "prove"}
         \subseteq OtpSteps /\ "idle" \notin OtpSteps
  BY DEF OtpSteps
<1>1. CASE Cooldown(h) /\ Goto(h, "store")
  <2>1. /\ seen'[u] = seen[u] /\ otp'[u].code = otp[u].code
        /\ otp'[u].attempts = otp[u].attempts /\ otp'[u].older = otp[u].older
    BY <1>1 DEF Cooldown, KeysOK, Goto
  <2>2. /\ handler'[h].pc = "store" /\ handler'[h].user = u
        /\ \A g \in Handlers : g # h => handler'[g] = handler[g]
    BY <1>1, <1>o, GotoEffect
  <2>. QED
    BY <1>1, <1>o, <2>1, <2>2 DEF Cooldown
<1>2. CASE Cooldown(h) /\ Done(h) /\ UNCHANGED otp
  <2>1. handler'[h].pc = "idle" /\ \A g \in Handlers : g # h => handler'[g] = handler[g]
    BY <1>2, DoneEffect
  <2>. QED
    BY <1>2, <1>o, <2>1, Untouched DEF Cooldown
<1>3. CASE Store(h)
  <2>. DEFINE alone == ~Busy(h, u)
  <2>a. seen' = [seen EXCEPT ![u] = [NothingSeen EXCEPT !.alone = alone]]
    BY <1>3 DEF Store
  <2>b. alone \in BOOLEAN /\ (alone => ~Busy(h, u))
    OBVIOUS
  <2>. HIDE DEF alone
  <2>1. /\ seen'[u].tries = 0 /\ seen'[u].proofs = 0 /\ ~seen'[u].sent
        /\ seen'[u].alone => alone
    BY <2>a, <2>b DEF SeenOK, NothingSeen
  <2>2. /\ handler'[h].pc = "reset" /\ handler'[h].user = u
        /\ \A g \in Handlers : g # h => handler'[g] = handler[g]
    BY <1>3, <1>o, GotoEffect DEF Store
  <2>3. ~Busy(h, u) => \A g \in Handlers : At(g, u, OtpSteps)' => g = h
    BY <2>2 DEF Busy
  <2>4. OneAtTheKeys(u)'
    BY <2>1, <2>3, <2>b
  <2>5. SentOnce(u)' /\ TriesAreCounted(u)' /\ ProofEndsCode(u)'
    BY <2>1
  <2>. QED
    BY <2>4, <2>5
<1>4. CASE Reset(h)
  <2>1. /\ seen'[u].tries = seen[u].tries /\ seen'[u].proofs = seen[u].proofs
        /\ seen'[u].alone = seen[u].alone /\ seen'[u].sent = seen[u].alone
        /\ otp'[u].attempts = 0 /\ otp'[u].older = FALSE /\ otp'[u].code = otp[u].code
    BY <1>4 DEF Reset, NoAttempts, KeysOK, SeenOK
  <2>2. handler'[h].pc = "idle" /\ \A g \in Handlers : g # h => handler'[g] = handler[g]
    BY <1>4, DoneEffect DEF Reset
  <2>3. ~seen[u].sent /\ seen[u].tries = 0 /\ seen[u].proofs = 0
    BY <1>4 DEF Reset
  <2>4. seen[u].alone => \A g \in Handlers : ~At(g, u, OtpSteps)'
    BY <1>4, <1>o, <2>2 DEF Reset
  <2>. QED
    BY <1>o, <2>1, <2>3, <2>4
<1>. QED
  BY <1>1, <1>2, <1>3, <1>4 DEF Cooldown

\* The steps of otp::verify at the keys of u.
LEMMA CodesVerify ==
    ASSUME Types, NEW u \in Users, CodeInv(u), NEW h \in Handlers, handler[h].user = u,
           Count(h) \/ Window(h) \/ Compare(h) \/ Burn(h) \/ Clear(h) \/ Prove(h)
    PROVE  CodeInv(u)'
<1> USE CodeTypes DEF Types, CodeInv, OneAtTheKeys, SentOnce, TriesAreCounted,
                      ProofEndsCode, At
<1>o. {"verify", "window", "compare", "burn", "clear", "prove"} \subseteq OtpSteps
      /\ "idle" \notin OtpSteps
  BY DEF OtpSteps
<1>a. ASSUME NEW pc \in OtpSteps, Goto(h, pc)
      PROVE  /\ handler'[h].pc = pc /\ handler'[h].user = u
             /\ \A g \in Handlers : g # h => handler'[g] = handler[g]
  BY <1>a, GotoEffect
<1>b. ASSUME Done(h)
      PROVE  /\ handler'[h].pc = "idle"
             /\ \A g \in Handlers : g # h => handler'[g] = handler[g]
  BY <1>b, DoneEffect
<1>1. CASE Count(h)
  <2>. DEFINE n == otp[u].attempts + 1
  <2>1. /\ seen' = seen /\ otp'[u].code = otp[u].code /\ otp'[u].older = otp[u].older
        /\ otp'[u].attempts = IF n > MaxAttempts THEN MaxAttempts + 1 ELSE n
    BY <1>1 DEF Count, KeysOK
  <2>2. CASE n <= MaxAttempts /\ \E pc \in {"window", "compare"} : Goto(h, pc)
    <3>1. PICK pc \in {"window", "compare"} : Goto(h, pc)
      BY <2>2
    <3>. QED
      BY <1>1, <1>a, <1>o, <2>1, <2>2, <3>1 DEF Count
  <2>3. CASE n > MaxAttempts /\ Done(h)
    BY <1>1, <1>b, <1>o, <2>1, <2>3 DEF Count
  <2>. QED
    BY <1>1, <2>2, <2>3, PortalAssumption DEF Count
<1>2. CASE Window(h)
  <2>1. /\ ~otp'[u].older /\ otp'[u].code = otp[u].code
        /\ otp'[u].attempts = otp[u].attempts
    BY <1>2, WindowStep
  <2>2. /\ handler'[h].pc = "compare" /\ handler'[h].user = u /\ seen' = seen
        /\ \A g \in Handlers : g # h => handler'[g] = handler[g]
    BY <1>2, <1>a, <1>o DEF Window
  <2>3. OneAtTheKeys(u)' /\ SentOnce(u)' /\ ProofEndsCode(u)'
    BY <1>2, <1>o, <2>1, <2>2 DEF Window
  <2>4. TriesAreCounted(u)'
    BY <1>2, <1>o, <2>1, <2>2 DEF Window
  <2>. QED
    BY <2>3, <2>4
<1>3. CASE Compare(h)
  <2>1. /\ otp' = otp
        /\ seen'[u].sent = seen[u].sent /\ seen'[u].alone = seen[u].alone
        /\ seen'[u].proofs = seen[u].proofs
        /\ \/ seen'[u].tries = seen[u].tries
           \/ /\ seen[u].sent /\ otp[u].code # 0
              /\ seen'[u].tries = seen[u].tries + 1
    BY <1>3 DEF Compare, SeenOK, Counted
  <2>a. /\ seen'[u].tries <= MaxAttempts
        /\ seen[u].sent /\ otp[u].code # 0 => seen'[u].tries <= otp[u].attempts
    BY <1>3, <2>1 DEF Compare
  <2>b. seen[u].sent => \A g \in Handlers : At(g, u, OtpSteps) => g = h
    BY <1>3, <1>o DEF Compare
  <2>c. ~seen[u].sent => seen'[u].tries = 0 /\ seen'[u].proofs = 0
    BY <2>1
  <2>2. CASE otp[u].code # 0 /\ Goto(h, "burn")
    <3>1. OneAtTheKeys(u)'
      BY <1>3, <1>a, <1>o, <2>1, <2>2 DEF Compare
    <3>2. SentOnce(u)'
      BY <1>a, <1>o, <2>1, <2>2, <2>c
    <3>3. TriesAreCounted(u)'
      BY <1>a, <1>o, <2>1, <2>2, <2>a, <2>b
    <3>4. ProofEndsCode(u)'
      BY <1>a, <1>o, <2>1, <2>2, <2>b
    <3>. QED
      BY <3>1, <3>2, <3>3, <3>4
  <2>3. CASE Done(h)
    <3>1. OneAtTheKeys(u)' /\ SentOnce(u)'
      BY <1>b, <1>o, <2>1, <2>3, <2>c
    <3>2. TriesAreCounted(u)'
      BY <1>b, <1>o, <2>1, <2>3, <2>a, <2>b
    <3>3. ProofEndsCode(u)'
      BY <1>b, <1>o, <2>1, <2>3, <2>b
    <3>. QED
      BY <3>1, <3>2, <3>3
  <2>. QED
    BY <1>3, <2>2, <2>3 DEF Compare
<1>4. CASE Burn(h)
  <2>1. seen' = seen /\ otp'[u].code = 0
    BY <1>4 DEF Burn, KeysOK
  <2>. QED
    BY <1>4, <1>a, <1>o, <2>1 DEF Burn
<1>5. CASE Clear(h)
  <2>1. seen' = seen /\ otp'[u].code = otp[u].code
    BY <1>5 DEF Clear, NoAttempts, KeysOK
  <2>. QED
    BY <1>5, <1>a, <1>o, <2>1 DEF Clear
<1>6. CASE Prove(h)
  <2>1. /\ otp' = otp
        /\ seen'[u].sent = seen[u].sent /\ seen'[u].alone = seen[u].alone
        /\ seen'[u].tries = seen[u].tries
        /\ \/ seen'[u].proofs = seen[u].proofs
           \/ /\ seen[u].sent
              /\ seen'[u].proofs = seen[u].proofs + 1
    BY <1>6 DEF Prove, SeenOK, Counted
  <2>. QED
    BY <1>6, <1>b, <1>o, <2>1 DEF Prove
<1>. QED
  BY <1>1, <1>2, <1>3, <1>4, <1>5, <1>6

LEMMA CodesNext == ASSUME Types, Codes, [Next]_vars PROVE Codes'
<1> SUFFICES ASSUME NEW u \in Users PROVE CodeInv(u)'
  BY DEF Codes
<1>i. CodeInv(u)
  BY DEF Codes
<1>1. CASE UNCHANGED <<otp, seen, handler>>
  BY <1>1, <1>i, Untouched
<1>2. ASSUME NEW h \in Handlers, Done(h), UNCHANGED <<otp, seen>> PROVE CodeInv(u)'
  BY <1>2, <1>i, Untouched, DoneEffect DEF Types, OtpSteps
<1>3. ASSUME NEW h \in Handlers, FindByName(h) PROVE CodeInv(u)'
  <2>1. /\ \A g \in Handlers : g # h => handler'[g] = handler[g]
        /\ handler'[h].pc = "insert" /\ otp' = otp /\ seen' = seen
    BY <1>3 DEF FindByName, Types, HandlersOK
  <2>. QED
    BY <1>i, <2>1, Untouched DEF OtpSteps
<1>4. ASSUME NEW h \in Handlers, Authorize(h) PROVE CodeInv(u)'
  BY <1>4, <1>i, CodesArrive
<1>5. ASSUME NEW h \in Handlers, handler[h].user # u,
             \/ Cooldown(h) \/ Store(h) \/ Reset(h)
             \/ Count(h) \/ Window(h) \/ Compare(h) \/ Burn(h) \/ Clear(h) \/ Prove(h)
      PROVE  CodeInv(u)'
  <2>1. otp'[u] = otp[u] /\ seen'[u] = seen[u]
    BY <1>5, ZenonT(40) DEF Types, KeysOK, SeenOK, Cooldown, Store, Reset, Count, Window,
                Compare, Burn, Clear, Prove, NoAttempts
  <2>2. Done(h) \/ \E pc \in OtpSteps : Goto(h, pc)
    BY <1>5 DEF OtpSteps, Cooldown, Store, Reset, Count, Window, Compare, Burn, Clear, Prove
  <2>3. handler[h].user \in Users
    BY <1>5 DEF Types, HandlersOK, Cooldown, Store, Reset, Count, Window, Compare, Burn,
                Clear, Prove
  <2>4. \A g \in Handlers : \/ handler'[g] = handler[g]
                            \/ handler'[g].user # u
                            \/ handler'[g].pc \notin OtpSteps
    <3>1. CASE Done(h)
      BY <3>1, DoneEffect DEF Types, OtpSteps
    <3>2. ASSUME NEW pc \in OtpSteps, Goto(h, pc)
          PROVE  handler'[h].user # u /\ \A g \in Handlers : g # h => handler'[g] = handler[g]
      BY <3>2, <2>3, <1>5, GotoEffect DEF Types
    <3>. QED
      BY <2>2, <3>1, <3>2
  <2>. QED
    BY <1>i, <2>1, <2>4, Untouched, ZenonT(40)
<1>6. ASSUME NEW h \in Handlers, HandlerStep(h) PROVE CodeInv(u)'
  <2>1. CASE Cooldown(h) \/ Store(h) \/ Reset(h)
    BY <1>i, <1>5, <2>1, CodesRequest
  <2>2. CASE Count(h) \/ Window(h) \/ Compare(h) \/ Burn(h) \/ Clear(h) \/ Prove(h)
    BY <1>i, <1>5, <2>2, CodesVerify
  <2>3. CASE InsertSession(h) \/ Logout(h) \/ Create(h) \/ Delete(h) \/ Leave(h)
    BY <1>2, <2>3 DEF InsertSession, Logout, Create, Delete, Leave
  <2>. QED
    BY <1>3, <1>4, <1>6, <2>1, <2>2, <2>3 DEF HandlerStep
<1>7. ASSUME NEW v \in Users, CooldownExpires(v) \/ CodeExpires(v) \/ WindowExpires(v)
      PROVE  CodeInv(u)'
  <2>1. seen' = seen /\ handler' = handler
    BY <1>7 DEF CooldownExpires, CodeExpires, WindowExpires
  <2>2. \/ otp'[u].code = 0
        \/ /\ otp'[u].code = otp[u].code /\ otp'[u].attempts = otp[u].attempts
           /\ otp'[u].older = otp[u].older
        \/ otp'[u].code = otp[u].code /\ otp[u].older
    BY <1>7 DEF CooldownExpires, CodeExpires, WindowExpires, NoAttempts, Types, KeysOK
  <2>. QED
    BY <1>i, <2>1, <2>2
       DEF CodeInv, OneAtTheKeys, SentOnce, TriesAreCounted, ProofEndsCode, At
<1>. QED
  BY <1>1, <1>6, <1>7 DEF Next, vars, SessionExpires

\* A code that was sent, and that no two requests were at work on at once, is
\* compared with at most MaxAttempts inputs and yields one proof, wherever
\* requests stop and whichever keys expire.
THEOREM CodesStayLimited == Spec => []CodesAreLimited
<1>1. Codes => CodesAreLimited
  BY DEF Codes, CodeInv, TriesAreCounted, ProofEndsCode, CodesAreLimited
<1>. QED
  BY <1>1, TypesInit, TypesNext, CodesInit, CodesNext, PTL DEF Spec


(***************************************************************************)
(* The settings of the bot.  The row, and each row a request has read      *)
(* before it stores its own, is of one piece: whatever was read may be     *)
(* stored again with another's plain fields.                               *)
(***************************************************************************)
Addresses == [blank : BOOLEAN, http : BOOLEAN, userinfo : BOOLEAN, public : BOOLEAN]

BotRows ==
    [url : Addresses, number : {b.number : b \in Bodies \cup Seeds}, on : BOOLEAN,
     portal_label : {r.portal_label : r \in Seeds} \cup {""},
     key : [purpose : {r.key.purpose : r \in Seeds} \cup {Tenant!WahaKey},
            text : {r.key.text : r \in Seeds} \cup {b.key : b \in Bodies}]]

\* An operator leaves a row whose address may be called and whose key opens;
\* nobody's key is the word for one that does not.
BotGiven ==
    /\ \A b \in Bodies : b.url \in Addresses /\ b.on \in BOOLEAN
    /\ \A b \in Bodies : b.key # Tenant!Unreadable
    /\ Seeds \subseteq BotRows /\ None \notin BotRows
    /\ \A r \in Seeds : /\ Tenant!IsSafeOutboundUrl(r.url)
                        /\ Tenant!DecryptApiKey(r) \notin {"", Tenant!Unreadable}

KeysGiven ==
    ({b.key : b \in Bodies} \cup {Tenant!DecryptApiKey(r) : r \in Seeds})
        \ {"", Tenant!Unreadable}

Whole(r) ==
    /\ r \in BotRows
    /\ Tenant!IsSafeOutboundUrl(r.url)
    /\ r.portal_label = past.label
    /\ Tenant!DecryptApiKey(r) \in KeysGiven
    /\ \E b \in Bodies \cup Seeds : r.url = b.url /\ r.number = b.number /\ r.on = b.on

Stored ==
    [pc : {"idle"}] \cup [pc : {"store"}, body : Bodies, seen : BotRows \cup {None}]

BotInv ==
    /\ IF row = None THEN past.label = "" ELSE Whole(row)
    /\ row # None /\ ~past.writtenBack => Tenant!DecryptApiKey(row) = past.key
    /\ desk \in [Desks -> Stored]
    /\ \A d \in Desks : desk[d].pc = "store" =>
           /\ Tenant!IsSafeOutboundUrl(desk[d].body.url)
           /\ IF desk[d].seen = None THEN past.label = "" /\ ~Tenant!BlankKey(desk[d].body)
              ELSE row # None /\ Whole(desk[d].seen)

LEMMA StoredIsWhole ==
    ASSUME BotGiven, NEW body \in Bodies, NEW seen0 \in BotRows \cup {None},
           Tenant!IsSafeOutboundUrl(body.url),
           IF seen0 = None THEN past.label = "" /\ ~Tenant!BlankKey(body) ELSE Whole(seen0)
    PROVE  /\ Whole(Tenant!NewSettings(body, seen0))
           /\ Tenant!NewSettings(body, seen0).key =
                  IF Tenant!BlankKey(body) THEN seen0.key
                  ELSE [purpose |-> Tenant!WahaKey, text |-> body.key]
<1> DEFINE base == IF Tenant!BlankKey(body) THEN seen0
                   ELSE Tenant!EncryptNew(body, IF seen0 = None THEN "" ELSE seen0.portal_label)
           new == [base EXCEPT !.url = body.url, !.number = body.number, !.on = body.on]
<1> DEFINE Numbers == {b.number : b \in Bodies \cup Seeds}
           Labels == {r.portal_label : r \in Seeds} \cup {""}
           Secrets == [purpose : {r.key.purpose : r \in Seeds} \cup {Tenant!WahaKey},
                       text : {r.key.text : r \in Seeds} \cup {b.key : b \in Bodies}]
<1>1. /\ body.url \in Addresses /\ body.number \in Numbers /\ body.on \in BOOLEAN
      /\ body.key # Tenant!Unreadable
  BY DEF BotGiven
<1>2. /\ base \in BotRows /\ base.portal_label = past.label
      /\ Tenant!DecryptApiKey(base) \in KeysGiven
      /\ base.key = IF Tenant!BlankKey(body) THEN seen0.key
                    ELSE [purpose |-> Tenant!WahaKey, text |-> body.key]
  <2>1. CASE Tenant!BlankKey(body)
    BY <2>1 DEF Whole
  <2>2. CASE ~Tenant!BlankKey(body)
    <3> DEFINE lab == IF seen0 = None THEN "" ELSE seen0.portal_label
    <3>1. lab = past.label /\ lab \in Labels
      BY DEF Whole, BotRows
    <3> DEFINE secret == [purpose |-> Tenant!WahaKey, text |-> body.key]
    <3>2. base = [url |-> body.url, number |-> body.number, on |-> FALSE, portal_label |-> lab,
                  key |-> secret]
      BY <2>2, Zenon DEF Tenant!EncryptNew, Tenant!Encrypt
    <3>3. secret \in Secrets /\ secret.purpose = Tenant!WahaKey /\ secret.text = body.key
      OBVIOUS
    <3>b. BotRows = [url : Addresses, number : Numbers, on : BOOLEAN, portal_label : Labels,
                     key : Secrets]
      BY DEF BotRows
    <3> HIDE DEF base, lab, Labels, Numbers, Secrets, secret
    <3>4. base \in BotRows /\ base.portal_label = lab /\ base.key = secret
      BY <1>1, <3>1, <3>2, <3>3, <3>b
    <3>5. Tenant!DecryptApiKey(base) = body.key
      BY <3>3, <3>4 DEF Tenant!DecryptApiKey, Tenant!Decrypt
    <3>6. body.key \in KeysGiven
      BY <1>1, <2>2 DEF KeysGiven, Tenant!BlankKey
    <3>. QED
      BY <2>2, <3>1, <3>4, <3>5, <3>6 DEF secret
  <2>. QED
    BY <2>1, <2>2
<1> HIDE DEF base
<1>3. /\ new \in BotRows /\ new.portal_label = base.portal_label /\ new.key = base.key
      /\ new.url = body.url /\ new.number = body.number /\ new.on = body.on
  BY <1>1, <1>2 DEF BotRows
<1>4. Tenant!DecryptApiKey(new) = Tenant!DecryptApiKey(base)
  BY <1>3 DEF Tenant!DecryptApiKey
<1>5. new = Tenant!NewSettings(body, seen0)
  BY DEF Tenant!NewSettings, base
<1> HIDE DEF new
<1>6. Whole(new)
  BY <1>2, <1>3, <1>4 DEF Whole
<1>. QED
  BY <1>2, <1>3, <1>5, <1>6

LEMMA BotNext ==
    ASSUME BotGiven, BotInv, [Tenant!Next]_Tenant!vars
    PROVE  BotInv'
<1> USE DEF BotInv
<1>w. UNCHANGED past.label => \A r : Whole(r)' <=> Whole(r)
  BY DEF Whole, Tenant!IsSafeOutboundUrl, Tenant!DecryptApiKey, Tenant!Decrypt, KeysGiven
<1>q. UNCHANGED <<row, desk, past>> => BotInv'
  BY DEF Whole
<1>1. ASSUME NEW d \in Desks, Tenant!ReadSettings(d) PROVE BotInv'
  <2>1. PICK body \in Bodies :
          /\ Tenant!IsSafeOutboundUrl(body.url)
          /\ Tenant!BlankKey(body) => row # None
          /\ desk' = [desk EXCEPT ![d] = [pc |-> "store", body |-> body, seen |-> row]]
    BY <1>1 DEF Tenant!ReadSettings
  <2>2. UNCHANGED <<row, past>>
    BY <1>1 DEF Tenant!ReadSettings
  <2> DEFINE place == [pc |-> "store", body |-> body, seen |-> row]
  <2>3. /\ place \in Stored /\ place.body = body /\ place.seen = row
        /\ desk' = [desk EXCEPT ![d] = place]
    BY <2>1 DEF Stored, Whole
  <2> HIDE DEF place
  <2>4. desk' \in [Desks -> Stored] /\ desk'[d] = place
        /\ \A e \in Desks : e # d => desk'[e] = desk[e]
    BY <2>3
  <2>5. IF row' = None THEN past'.label = "" ELSE Whole(row)'
    BY <2>2 DEF Whole
  <2>6. ASSUME NEW e \in Desks, desk'[e].pc = "store"
        PROVE  /\ Tenant!IsSafeOutboundUrl(desk'[e].body.url)
               /\ IF desk'[e].seen = None THEN past'.label = "" /\ ~Tenant!BlankKey(desk'[e].body)
                  ELSE row' # None /\ Whole(desk[e].seen)'
    <3>1. CASE e = d
      BY <2>1, <2>2, <2>3, <2>4, <3>1 DEF Whole
    <3>2. CASE e # d
      <4>1. desk'[e] = desk[e] /\ past' = past
        BY <2>2, <2>4, <3>2, Zenon
      <4>2. desk[e].pc = "store"
        BY <2>6, <4>1, Zenon
      <4>3. Tenant!IsSafeOutboundUrl(desk[e].body.url)
        BY <4>2, Zenon
      <4>4. CASE desk[e].seen = None
        BY <4>1, <4>2, <4>3, <4>4, Zenon
      <4>5. CASE desk[e].seen # None
        <5>1. row' # None /\ Whole(desk[e].seen)
          BY <2>2, <4>2, <4>5, Zenon
        <5>. QED
          BY <4>1, <4>3, <4>5, <5>1, Zenon DEF Whole
      <4>. QED
        BY <4>4, <4>5
    <3>. QED
      BY <3>1, <3>2
  <2>7. row' # None /\ ~past'.writtenBack => Tenant!DecryptApiKey(row)' = past'.key
    BY <2>2 DEF Tenant!DecryptApiKey, Tenant!Decrypt
  <2>. QED
    BY <2>4, <2>5, <2>6, <2>7
<1>2. ASSUME NEW d \in Desks, Tenant!StoreSettings(d) PROVE BotInv'
  <2> DEFINE kept == Tenant!BlankKey(desk[d].body)
             body == desk[d].body
             seen0 == desk[d].seen
  <2>1. /\ desk[d].pc = "store"
        /\ row' = Tenant!NewSettings(body, seen0)
        /\ desk' = [desk EXCEPT ![d] = [pc |-> "idle"]]
        /\ past' = [label |-> past.label, key |-> IF kept THEN past.key ELSE body.key,
                    writtenBack |-> kept /\ (past.writtenBack \/ seen0.key # row.key)]
    BY <1>2 DEF Tenant!StoreSettings
  <2>p. past'.label = past.label
    BY <2>1
  <2>2. desk[d].body \in Bodies /\ desk[d].seen \in BotRows \cup {None}
    BY <2>1 DEF Stored
  <2>3. /\ Whole(Tenant!NewSettings(body, seen0))
        /\ Tenant!NewSettings(body, seen0).key =
               IF kept THEN seen0.key ELSE [purpose |-> Tenant!WahaKey, text |-> body.key]
    BY <2>1, <2>2, StoredIsWhole
  <2>4. Whole(row)' /\ row' # None
    BY <1>w, <2>1, <2>3, <2>p DEF Whole, BotGiven
  <2>6. ~past'.writtenBack => Tenant!DecryptApiKey(row)' = past'.key
    <3>1. CASE ~kept
      <4>1. past'.key = body.key
        BY <2>1, <3>1
      <4>0. Tenant!NewSettings(body, seen0).key = [purpose |-> Tenant!WahaKey, text |-> body.key]
        BY <2>3, <3>1, Zenon
      <4>2. row'.key = [purpose |-> Tenant!WahaKey, text |-> body.key]
        BY <2>1, <4>0, Zenon
      <4> DEFINE secret == [purpose |-> Tenant!WahaKey, text |-> body.key]
      <4>3. secret.purpose = Tenant!WahaKey /\ secret.text = body.key
        OBVIOUS
      <4> HIDE DEF secret
      <4>4. row'.key = secret
        BY <4>2, Zenon DEF secret
      <4>. QED
        BY <4>1, <4>3, <4>4, Zenon DEF Tenant!DecryptApiKey, Tenant!Decrypt
    <3>2. ASSUME kept, ~past'.writtenBack PROVE Tenant!DecryptApiKey(row)' = past'.key
      <4>1. past'.key = past.key /\ ~past.writtenBack /\ seen0.key = row.key
        BY <2>1, <3>2
      <4>2. seen0 # None /\ seen0 \in BotRows
        BY <2>1, <2>2, <3>2
      <4>3. row'.key = row.key
        BY <2>1, <2>3, <3>2, <4>1
      <4>4. row # None
        BY <2>1, <4>2
      <4>. QED
        BY <4>1, <4>3, <4>4 DEF Tenant!DecryptApiKey, Tenant!Decrypt
    <3>. QED
      BY <3>1, <3>2
  <2>5. [pc |-> "idle"] \in Stored /\ [pc |-> "idle"].pc # "store"
    BY DEF Stored
  <2>. QED
    BY <1>w, <2>1, <2>4, <2>5, <2>6, <2>p DEF Whole
<1>3. ASSUME NEW d \in Desks, Tenant!DropPut(d) PROVE BotInv'
  <2>1. UNCHANGED <<row, past>> /\ desk' = [desk EXCEPT ![d] = [pc |-> "idle"]]
    BY <1>3 DEF Tenant!DropPut
  <2>5. [pc |-> "idle"] \in Stored /\ [pc |-> "idle"].pc # "store"
    BY DEF Stored
  <2>. QED
    BY <2>1, <2>5 DEF Whole
<1>4. CASE UNCHANGED Tenant!vars
  BY <1>4, <1>q DEF Tenant!vars, Tenant!bot
<1>5. ASSUME NEW r \in Recorders,
             \/ Tenant!BeginRecord(r) \/ Tenant!Push(r) \/ Tenant!PushFails(r) \/ Tenant!Trim(r)
      PROVE  BotInv'
  BY <1>5, <1>q DEF Tenant!BeginRecord, Tenant!Push, Tenant!PushFails, Tenant!Trim, Tenant!bot
<1>6. ASSUME \/ Tenant!ClearLog \/ Tenant!UpdateMissing \/ Tenant!CreateLocation
             \/ Tenant!DeleteLocation \/ Tenant!PutBranding
             \/ \E id \in PriceIds : Tenant!PutPrice(id) \/ Tenant!DeletePrice(id)
      PROVE  BotInv'
  BY <1>6, <1>q DEF Tenant!ClearLog, Tenant!UpdateMissing, Tenant!CreateLocation,
     Tenant!DeleteLocation, Tenant!PutBranding, Tenant!PutPrice, Tenant!DeletePrice, Tenant!bot
<1>. QED
  BY <1>1, <1>2, <1>3, <1>4, <1>5, <1>6 DEF Tenant!Next

\* However saves of the settings overlap and whoever goes away in between, the
\* row is of one piece and its key opens; and it is the key given last, unless
\* a save without one has since written back a key it had read before
\* (routes/bot.rs:49-52, 206-220).
THEOREM SettingsStayWhole ==
    ASSUME BotGiven
    PROVE  Tenant!Spec => []SettingsHold
<1>1. Tenant!Init => BotInv
  <2> SUFFICES ASSUME Tenant!Init PROVE BotInv
    OBVIOUS
  <2>1. desk \in [Desks -> Stored] /\ \A d \in Desks : desk[d].pc # "store"
    BY DEF Tenant!Init, Stored
  <2>2. row # None => /\ row \in Seeds /\ row \in BotRows /\ past.label = row.portal_label
                      /\ past.key = Tenant!DecryptApiKey(row)
    BY DEF Tenant!Init, BotGiven
  <2>3. row # None => Whole(row)
    BY <2>2 DEF Whole, BotGiven, KeysGiven
  <2>4. row = None => past.label = ""
    BY DEF Tenant!Init
  <2>. QED
    BY <2>1, <2>2, <2>3, <2>4 DEF BotInv
<1>2. BotInv /\ [Tenant!Next]_Tenant!vars => BotInv'
  BY BotNext
<1>3. BotInv => SettingsHold
  BY DEF BotInv, Whole, KeysGiven, SettingsHold, Tenant!SettingsHold, Tenant!LoadBotSettings
<1>. QED
  BY <1>1, <1>2, <1>3, PTL DEF Tenant!Spec

(***************************************************************************)
(* The log of the bot.  Redis holds the newest entries of those since the  *)
(* log was cleared, all of them or at least LogCap; what it holds beyond   *)
(* LogCap is owed to writers between their two commands, or was left by a  *)
(* failed LTRIM.                                                           *)
(***************************************************************************)
LogGiven == LogCap \in Nat /\ IsFiniteSet(Recorders)

LogPlaces == [pc : {"idle", "push", "trim"}, entry : Nat]

Trimming == {r \in Recorders : recorder[r].pc = "trim"}

LogInv ==
    /\ log \in Seq(Nat) /\ since \in Seq(Nat) /\ changes \in Nat /\ faults \in Nat
    /\ recorder \in [Recorders -> LogPlaces]
    /\ Len(log) <= Len(since)
    /\ \A i \in 1..Len(log) : log[i] = since[i]
    /\ Len(log) < LogCap => Len(log) = Len(since)
    /\ Len(log) <= LogCap + faults + Cardinality(Trimming)

\* Keep(s, n) is the first n elements of s, or s.
LEMMA KeepIsPrefix ==
    ASSUME NEW q \in Seq(Nat), NEW n \in Nat
    PROVE  /\ Tenant!Keep(q, n) \in Seq(Nat)
           /\ Len(Tenant!Keep(q, n)) = IF Len(q) < n THEN Len(q) ELSE n
           /\ \A i \in 1..Len(Tenant!Keep(q, n)) : Tenant!Keep(q, n)[i] = q[i]
<1> DEFINE last == IF Len(q) < n THEN Len(q) ELSE n
<1>1. last \in Nat /\ last <= Len(q)
  OBVIOUS
<1>2. Tenant!Keep(q, n) = SubSeq(q, 1, last)
  BY DEF Tenant!Keep
<1> HIDE DEF last
<1>3. \A i \in 1..last : q[i] \in Nat
  BY <1>1
<1>4. /\ SubSeq(q, 1, last) \in Seq(Nat)
      /\ Len(SubSeq(q, 1, last)) = IF 1 <= last THEN last - 1 + 1 ELSE 0
      /\ \A i \in 1..(last - 1 + 1) : SubSeq(q, 1, last)[i] = q[1 + i - 1]
  BY <1>1, <1>3, SubSeqProperties
<1>5. /\ Tenant!Keep(q, n) \in Seq(Nat) /\ Len(Tenant!Keep(q, n)) = last
      /\ \A i \in 1..last : Tenant!Keep(q, n)[i] = q[i]
  BY <1>1, <1>2, <1>4
<1>. QED
  BY <1>5 DEF last

Owed(p) == IF p.pc = "trim" THEN 1 ELSE 0

(* The writers between their commands, when one of them goes on. *)
LEMMA TrimmingMoves ==
    ASSUME LogGiven, LogInv, NEW r \in Recorders,
           NEW place \in LogPlaces,
           recorder' = [recorder EXCEPT ![r] = place]
    PROVE  /\ recorder' \in [Recorders -> LogPlaces]
           /\ Cardinality(Trimming) \in Nat /\ Cardinality(Trimming') \in Nat
           /\ Cardinality(Trimming') = Cardinality(Trimming)
                + Owed(place) - Owed(recorder[r])
<1>1. /\ recorder' \in [Recorders -> LogPlaces]
      /\ recorder'[r] = place /\ \A w \in Recorders : w # r => recorder'[w] = recorder[w]
  BY DEF LogInv
<1>2. /\ IsFiniteSet(Trimming) /\ IsFiniteSet(Trimming')
      /\ Cardinality(Trimming) \in Nat /\ Cardinality(Trimming') \in Nat
  BY FS_Subset, FS_CardinalityType DEF Trimming, LogGiven
<1>3. CASE place.pc = "trim" /\ recorder[r].pc # "trim"
  <2>1. Trimming' = Trimming \cup {r} /\ r \notin Trimming
    BY <1>1, <1>3 DEF Trimming
  <2>. QED
    BY <1>1, <1>2, <1>3, <2>1, FS_AddElement DEF Owed
<1>4. CASE place.pc # "trim" /\ recorder[r].pc = "trim"
  <2>1. Trimming' = Trimming \ {r} /\ r \in Trimming
    BY <1>1, <1>4 DEF Trimming
  <2>2. Cardinality(Trimming \ {r}) = Cardinality(Trimming) - 1
    BY <1>2, <2>1, FS_RemoveElement
  <2>. QED
    BY <1>1, <1>2, <1>4, <2>1, <2>2 DEF Owed
<1>5. CASE (place.pc = "trim") = (recorder[r].pc = "trim")
  <2>1. Trimming' = Trimming
    BY <1>1, <1>5 DEF Trimming
  <2>. QED
    BY <1>1, <1>2, <1>5, <2>1 DEF Owed
<1>. QED
  BY <1>3, <1>4, <1>5

LEMMA LogNext ==
    ASSUME LogGiven, LogInv, [Tenant!Next]_Tenant!vars
    PROVE  LogInv'
<1> DEFINE Prefix == /\ log' \in Seq(Nat) /\ since' \in Seq(Nat)
                     /\ Len(log') <= Len(since')
                     /\ \A i \in 1..Len(log') : log'[i] = since'[i]
                     /\ Len(log') < LogCap => Len(log') = Len(since')
<1>n. /\ LogCap \in Nat /\ faults \in Nat /\ Len(log) \in Nat /\ Len(since) \in Nat
      /\ Cardinality(Trimming) \in Nat
      /\ Len(log) <= LogCap + faults + Cardinality(Trimming)
      /\ Tenant!AtWork => changes' \in Nat /\ changes' = changes + 1
  <2>1. Cardinality(Trimming) \in Nat
    BY FS_Subset, FS_CardinalityType DEF Trimming, LogGiven
  <2>. QED
    BY <2>1 DEF LogGiven, LogInv, Tenant!AtWork
<1>s. UNCHANGED <<log, since>> => Prefix
  BY DEF LogInv
<1>q. ASSUME UNCHANGED <<log, since, recorder, faults>>, changes' \in Nat PROVE LogInv'
  <2>1. Trimming' = Trimming
    BY <1>q DEF Trimming
  <2>. QED
    BY <1>q, <2>1 DEF LogInv
<1>1. ASSUME NEW r \in Recorders, Tenant!BeginRecord(r) PROVE LogInv'
  <2> DEFINE place == [pc |-> "push", entry |-> changes']
  <2>1. /\ place \in LogPlaces /\ place.pc = "push" /\ changes' \in Nat
        /\ recorder' = [recorder EXCEPT ![r] = place] /\ recorder[r].pc = "idle"
        /\ UNCHANGED <<log, since, faults>>
    BY <1>1, <1>n DEF Tenant!BeginRecord, LogPlaces
  <2> HIDE DEF place
  <2>2. recorder' \in [Recorders -> LogPlaces] /\ Cardinality(Trimming') = Cardinality(Trimming)
    <3>1. /\ recorder' \in [Recorders -> LogPlaces]
          /\ Cardinality(Trimming) \in Nat /\ Cardinality(Trimming') \in Nat
          /\ Cardinality(Trimming')
               = Cardinality(Trimming) + Owed(place) - Owed(recorder[r])
      BY <2>1, TrimmingMoves, Zenon
    <3>2. Owed(place) = (IF place.pc = "trim" THEN 1 ELSE 0)
          /\ Owed(recorder[r]) = (IF recorder[r].pc = "trim" THEN 1 ELSE 0)
      BY DEF Owed
    <3>. QED
      BY <2>1, <3>1, <3>2
  <2>. QED
    BY <2>1, <2>2, <1>n, <1>s DEF LogInv
<1>2. ASSUME NEW r \in Recorders, Tenant!Push(r) PROVE LogInv'
  <2> DEFINE place == [pc |-> "trim", entry |-> 0]  x == recorder[r].entry
  <2>1. /\ place \in LogPlaces /\ place.pc = "trim" /\ recorder[r].pc = "push"
        /\ recorder' = [recorder EXCEPT ![r] = place]
        /\ UNCHANGED <<changes, faults>>
        /\ log' = <<x>> \o log /\ since' = <<x>> \o since /\ x \in Nat
    BY <1>2 DEF Tenant!Push, LogInv, LogPlaces
  <2> HIDE DEF place, x
  <2>2. /\ recorder' \in [Recorders -> LogPlaces]
        /\ Cardinality(Trimming') = Cardinality(Trimming) + 1
    <3>1. /\ recorder' \in [Recorders -> LogPlaces]
          /\ Cardinality(Trimming) \in Nat /\ Cardinality(Trimming') \in Nat
          /\ Cardinality(Trimming')
               = Cardinality(Trimming) + Owed(place) - Owed(recorder[r])
      BY <2>1, TrimmingMoves, Zenon
    <3>2. Owed(place) = (IF place.pc = "trim" THEN 1 ELSE 0)
          /\ Owed(recorder[r]) = (IF recorder[r].pc = "trim" THEN 1 ELSE 0)
      BY DEF Owed
    <3>. QED
      BY <2>1, <3>1, <3>2
  <2>3. \A q \in Seq(Nat) : /\ <<x>> \o q \in Seq(Nat) /\ Len(<<x>> \o q) = Len(q) + 1
                            /\ \A i \in 1..(Len(q) + 1) :
                                 (<<x>> \o q)[i] = IF i = 1 THEN x ELSE q[i - 1]
    BY <2>1
  <2>4. Prefix /\ Len(log') = Len(log) + 1
    <3>1. /\ log \in Seq(Nat) /\ since \in Seq(Nat) /\ Len(log) <= Len(since)
          /\ \A i \in 1..Len(log) : log[i] = since[i]
          /\ Len(log) < LogCap => Len(log) = Len(since)
      BY DEF LogInv
    <3>2. /\ log' \in Seq(Nat) /\ since' \in Seq(Nat)
          /\ Len(log') = Len(log) + 1 /\ Len(since') = Len(since) + 1
          /\ \A i \in 1..(Len(log) + 1) : log'[i] = IF i = 1 THEN x ELSE log[i - 1]
          /\ \A i \in 1..(Len(since) + 1) : since'[i] = IF i = 1 THEN x ELSE since[i - 1]
      BY <2>1, <2>3, <3>1
    <3>3. ASSUME NEW i \in 1..(Len(log) + 1) PROVE log'[i] = since'[i]
      <4>1. /\ i \in 1..(Len(since) + 1)
            /\ i = 1 \/ (i # 1 /\ i - 1 \in 1..Len(log))
        BY <3>1, <1>n
      <4>2. /\ log'[i] = IF i = 1 THEN x ELSE log[i - 1]
            /\ since'[i] = IF i = 1 THEN x ELSE since[i - 1]
        BY <3>2, <4>1
      <4>. QED
        BY <3>1, <4>1, <4>2
    <3>4. /\ Len(log') <= Len(since')
          /\ Len(log') < LogCap => Len(log') = Len(since')
      BY <3>1, <3>2, <1>n
    <3>. QED
      BY <3>2, <3>3, <3>4
  <2>. QED
    BY <2>1, <2>2, <2>4, <1>n, SMTT(20) DEF LogInv
<1>3. ASSUME NEW r \in Recorders, Tenant!PushFails(r) PROVE LogInv'
  <2> DEFINE place == [pc |-> "trim", entry |-> 0]
  <2>1. /\ place \in LogPlaces /\ place.pc = "trim" /\ recorder[r].pc = "push"
        /\ recorder' = [recorder EXCEPT ![r] = place]
        /\ UNCHANGED <<changes, log, since>> /\ faults' = faults + 1
    BY <1>3 DEF Tenant!PushFails, LogPlaces
  <2> HIDE DEF place
  <2>2. /\ recorder' \in [Recorders -> LogPlaces]
        /\ Cardinality(Trimming') = Cardinality(Trimming) + 1
    <3>1. /\ recorder' \in [Recorders -> LogPlaces]
          /\ Cardinality(Trimming) \in Nat /\ Cardinality(Trimming') \in Nat
          /\ Cardinality(Trimming')
               = Cardinality(Trimming) + Owed(place) - Owed(recorder[r])
      BY <2>1, TrimmingMoves, Zenon
    <3>2. Owed(place) = (IF place.pc = "trim" THEN 1 ELSE 0)
          /\ Owed(recorder[r]) = (IF recorder[r].pc = "trim" THEN 1 ELSE 0)
      BY DEF Owed
    <3>. QED
      BY <2>1, <3>1, <3>2
  <2>. QED
    BY <2>1, <2>2, <1>n, <1>s DEF LogInv
<1>4. ASSUME NEW r \in Recorders, Tenant!Trim(r) PROVE LogInv'
  <2> DEFINE place == [recorder[r] EXCEPT !.pc = "idle"]
  <2>1. /\ place \in LogPlaces /\ place.pc = "idle" /\ recorder[r].pc = "trim"
        /\ recorder' = [recorder EXCEPT ![r] = place]
        /\ UNCHANGED <<changes, since>>
        /\ (log' = Tenant!Keep(log, LogCap) /\ faults' = faults)
             \/ (faults' = faults + 1 /\ log' = log)
    BY <1>4 DEF Tenant!Trim, LogInv, LogPlaces
  <2> HIDE DEF place
  <2>2. /\ recorder' \in [Recorders -> LogPlaces] /\ Cardinality(Trimming') \in Nat
        /\ Cardinality(Trimming') = Cardinality(Trimming) - 1
    <3>1. /\ recorder' \in [Recorders -> LogPlaces]
          /\ Cardinality(Trimming) \in Nat /\ Cardinality(Trimming') \in Nat
          /\ Cardinality(Trimming')
               = Cardinality(Trimming) + Owed(place) - Owed(recorder[r])
      BY <2>1, TrimmingMoves, Zenon
    <3>2. Owed(place) = (IF place.pc = "trim" THEN 1 ELSE 0)
          /\ Owed(recorder[r]) = (IF recorder[r].pc = "trim" THEN 1 ELSE 0)
      BY DEF Owed
    <3>. QED
      BY <2>1, <3>1, <3>2
  <2>3. CASE log' = Tenant!Keep(log, LogCap) /\ faults' = faults
    <3>1. /\ log' \in Seq(Nat) /\ Len(log') = (IF Len(log) < LogCap THEN Len(log) ELSE LogCap)
          /\ \A i \in 1..Len(log') : log'[i] = log[i]
      BY <2>3, <1>n, KeepIsPrefix DEF LogInv
    <3>2. Prefix
      BY <2>1, <3>1, <1>n DEF LogInv
    <3>. QED
      BY <2>1, <2>2, <2>3, <3>1, <3>2, <1>n DEF LogInv
  <2>4. CASE faults' = faults + 1 /\ log' = log
    BY <2>1, <2>2, <2>4, <1>n, <1>s DEF LogInv
  <2>. QED
    BY <2>1, <2>3, <2>4
<1>f. ASSUME UNCHANGED <<log, since, recorder>>, faults' = faults + 1, changes' \in Nat
      PROVE  LogInv'
  <2>1. Trimming' = Trimming
    BY <1>f DEF Trimming
  <2>. QED
    BY <1>f, <1>n, <2>1 DEF LogInv
<1>5. CASE Tenant!ClearLog
  <2>1. /\ UNCHANGED recorder /\ changes' \in Nat
        /\ \/ log' = <<>> /\ since' = <<>> /\ UNCHANGED faults
           \/ faults' = faults + 1 /\ UNCHANGED <<log, since>>
    BY <1>5, <1>n DEF Tenant!ClearLog
  <2>2. Trimming' = Trimming
    BY <2>1 DEF Trimming
  <2>3. CASE log' = <<>> /\ since' = <<>> /\ UNCHANGED faults
    BY <2>1, <2>2, <2>3, <1>n DEF LogInv
  <2>. QED
    BY <2>1, <2>3, <1>f
<1>6. ASSUME NEW d \in Desks,
             Tenant!ReadSettings(d) \/ Tenant!StoreSettings(d) \/ Tenant!DropPut(d)
      PROVE  LogInv'
  <2>1. UNCHANGED <<log, since, recorder, faults>> /\ changes' \in Nat
    BY <1>6, <1>n DEF Tenant!ReadSettings, Tenant!StoreSettings, Tenant!DropPut, Tenant!logs, LogInv
  <2>. QED
    BY <2>1, <1>q
<1>7. ASSUME \/ Tenant!UpdateMissing \/ Tenant!CreateLocation
             \/ Tenant!DeleteLocation \/ Tenant!PutBranding
             \/ \E id \in PriceIds : Tenant!PutPrice(id) \/ Tenant!DeletePrice(id)
      PROVE  LogInv'
  <2>1. UNCHANGED <<log, since, recorder>> /\ changes' \in Nat
    BY <1>7, <1>n, Zenon DEF Tenant!UpdateMissing, Tenant!CreateLocation,
       Tenant!DeleteLocation, Tenant!PutBranding, Tenant!PutPrice, Tenant!DeletePrice, Tenant!logs
  <2>2. faults' = faults \/ faults' = faults + 1
    BY <1>7, Zenon DEF Tenant!UpdateMissing, Tenant!CreateLocation, Tenant!DeleteLocation,
       Tenant!PutBranding, Tenant!PutPrice, Tenant!WritePrice, Tenant!DeletePrice,
       Tenant!TransactionFails
  <2>. QED
    BY <2>1, <2>2, <1>f, <1>q
<1>8. CASE UNCHANGED Tenant!vars
  <2>1. UNCHANGED <<log, since, recorder, faults>> /\ changes' \in Nat
    BY <1>8, <1>n DEF Tenant!vars, Tenant!logs, LogInv
  <2>. QED
    BY <2>1, <1>q
<1>. QED
  BY <1>1, <1>2, <1>3, <1>4, <1>5, <1>6, <1>7, <1>8 DEF Tenant!Next

\* Whatever writers interleave and whichever commands fail, the log that is
\* shown is that of the newest entries since it was really cleared, or nothing
\* if the reading command fails; and it grows by what is owed only
\* (bot_log.rs:36-67).
THEOREM NewestEntriesAreShown ==
    ASSUME LogGiven
    PROVE  Tenant!Spec => []LogShowsNewest
<1>1. Tenant!Init => LogInv
  <2> SUFFICES ASSUME Tenant!Init PROVE LogInv
    OBVIOUS
  <2>1. Trimming = {}
    BY DEF Tenant!Init, Trimming
  <2>2. Cardinality(Trimming) = 0
    BY <2>1, FS_EmptySet
  <2>3. /\ log \in Seq(Nat) /\ since \in Seq(Nat) /\ Len(log) = 0 /\ Len(since) = 0
        /\ changes \in Nat /\ faults = 0 /\ recorder \in [Recorders -> LogPlaces]
    BY EmptySeq DEF Tenant!Init, LogPlaces
  <2>. QED
    BY <2>2, <2>3 DEF LogInv, LogGiven
<1>2. LogInv /\ [Tenant!Next]_Tenant!vars => LogInv'
  BY LogNext
<1>3. LogInv => LogShowsNewest
  <2> SUFFICES ASSUME LogInv PROVE Tenant!LogShowsNewest
    BY DEF LogShowsNewest
  <2> DEFINE shown == Tenant!Keep(log, LogCap)  newest == Tenant!Keep(since, LogCap)
  <2>1. /\ shown \in Seq(Nat) /\ Len(shown) = (IF Len(log) < LogCap THEN Len(log) ELSE LogCap)
        /\ \A i \in 1..Len(shown) : shown[i] = log[i]
        /\ newest \in Seq(Nat)
        /\ Len(newest) = (IF Len(since) < LogCap THEN Len(since) ELSE LogCap)
        /\ \A i \in 1..Len(newest) : newest[i] = since[i]
    BY KeepIsPrefix DEF LogInv, LogGiven
  <2> HIDE DEF shown, newest
  <2>i. /\ LogCap \in Nat /\ Len(log) \in Nat /\ Len(since) \in Nat /\ Len(log) <= Len(since)
        /\ \A i \in 1..Len(log) : log[i] = since[i]
        /\ Len(log) < LogCap => Len(log) = Len(since)
    BY DEF LogInv, LogGiven
  <2>2. /\ Len(shown) = Len(newest)
        /\ \A i \in 1..Len(shown) : shown[i] = newest[i]
    <3>1. Len(shown) = Len(newest) /\ Len(shown) <= Len(log)
      BY <2>1, <2>i
    <3>. QED
      BY <2>1, <2>i, <3>1
  <2>3. shown = newest
    BY <2>1, <2>2, SeqEqual
  <2>4. \A entries \in Tenant!ListLog :
            \/ entries = Tenant!Keep(since, LogCap)
            \/ entries = <<>> /\ faults < MaxFaults
    BY <2>3 DEF shown, newest, Tenant!ListLog
  <2>5. Len(log) <= LogCap + faults + Cardinality({r \in Recorders : recorder[r].pc = "trim"})
    BY DEF LogInv, Trimming
  <2>6. Tenant!Cardinality({r \in Recorders : recorder[r].pc = "trim"})
          = Cardinality({r \in Recorders : recorder[r].pc = "trim"})
    BY Zenon DEF Tenant!Cardinality, Cardinality, Tenant!IsFiniteSet, IsFiniteSet
  <2>. QED
    BY <2>4, <2>5, <2>6 DEF Tenant!LogShowsNewest
<1>. QED
  BY <1>1, <1>2, <1>3, PTL DEF Tenant!Spec

(***************************************************************************)
(* The public price page.  What is stored was trimmed, so that trimming it *)
(* again changes nothing and the unique columns compare what visitors      *)
(* read; and the checks of the requests are as strict as the table's.      *)
(***************************************************************************)
PostedCodes ==
    [code : {in.code.code : in \in PriceInputs} \cup {n.name.code : n \in PlaceInputs},
     padded : BOOLEAN]
Images == [kind : {"none"} \cup {look.logo.kind : look \in Looks}, length : Nat, pads : Nat]
PriceRows == [code : PostedCodes, array : BOOLEAN, count : {in.count : in \in PriceInputs}]
LookRows == [title : Nat, name : Nat, logo : Images, storable : BOOLEAN]

\* The requests have the form the routes deserialise; no column is NULL.
PageGiven ==
    /\ \A in \in PriceInputs : in.code \in PostedCodes /\ in.array \in BOOLEAN
    /\ \A n \in PlaceInputs : n.name \in PostedCodes
    /\ Looks \subseteq LookRows
    /\ {TitleMax, ImageMax, DefaultName} \subseteq Nat
    /\ None \notin PriceRows \cup LookRows

Trimmed(c) == c \in PostedCodes /\ c.padded = FALSE

PageInv ==
    /\ answer.code = 500 => answer.database
    /\ prices \in [PriceIds -> PriceRows \cup {None}]
    /\ \A i \in PriceIds : prices[i] # None => Trimmed(prices[i].code)
    /\ \A i, j \in PriceIds :
          prices[i] # None /\ prices[j] # None /\ i # j => prices[i].code # prices[j].code
    /\ \A n \in places : Trimmed(n)
    /\ page # None => /\ page \in LookRows /\ page.storable
                      /\ Tenant!ValidLook(page) /\ Tenant!Normalized(page) = page

LEMMA TrimmingOnce ==
    ASSUME NEW c \in PostedCodes
    PROVE  /\ Trimmed(Tenant!TrimCode(c))
           /\ c.padded = FALSE => Tenant!TrimCode(c) = c
<1>1. [c EXCEPT !.padded = FALSE] \in PostedCodes /\ [c EXCEPT !.padded = FALSE].padded = FALSE
  BY DEF PostedCodes
<1>2. c.padded = FALSE => [c EXCEPT !.padded = FALSE] = c
  BY DEF PostedCodes
<1>. QED
  BY <1>1, <1>2 DEF Trimmed, Tenant!TrimCode

LEMMA NormalOnce ==
    ASSUME PageGiven, NEW look \in LookRows, Tenant!ValidLook(look)
    PROVE  /\ Tenant!Normalized(look) \in LookRows
           /\ Tenant!ValidLook(Tenant!Normalized(look))
           /\ Tenant!Normalized(look).storable = look.storable
           /\ Tenant!Normalized(Tenant!Normalized(look)) = Tenant!Normalized(look)
<1> DEFINE name == IF look.name = 0 THEN DefaultName ELSE look.name
           new == [look EXCEPT !.name = name]
<1>1. name \in Nat /\ (IF name = 0 THEN DefaultName ELSE name) = name
  BY DEF PageGiven, LookRows
<1>2. new = Tenant!Normalized(look)
  BY DEF Tenant!Normalized
<1> HIDE DEF name
<1>3. new \in LookRows /\ new.name = name /\ new.title = look.title /\ new.logo = look.logo
      /\ new.storable = look.storable
  BY <1>1 DEF LookRows
<1> HIDE DEF new
<1>4. [new EXCEPT !.name = name] = new
  BY <1>3 DEF LookRows
<1>5. Tenant!Normalized(new) = new
  BY <1>1, <1>3, <1>4 DEF Tenant!Normalized
<1>6. Tenant!ValidLook(new)
  BY <1>2, <1>3, <1>5 DEF Tenant!ValidLook
<1>. QED
  BY <1>2, <1>3, <1>5, <1>6

(* What the payload of an image may decode to. *)
LEMMA ImageIsSmall ==
    ASSUME PageGiven, NEW i \in Images, Tenant!ValidDataUri(i)
    PROVE  (6 * (i.length - i.pads)) \div 8 <= ImageMax + 2
<1> DEFINE q == i.length \div 4  r == i.length % 4
<1>1. /\ i.length \in Nat /\ i.pads \in Nat /\ ImageMax \in Nat
      /\ q * 3 - (IF i.pads < 2 THEN i.pads ELSE 2) <= ImageMax
  BY DEF Images, PageGiven, Tenant!ValidDataUri, Tenant!DecodedLength
<1>2. q \in Nat /\ r \in 0..3 /\ i.length = 4 * q + r
  BY <1>1
<1> HIDE DEF q, r
<1>. QED
  BY <1>1, <1>2

LEMMA PageNext ==
    ASSUME PageGiven, PageInv, [Tenant!Next]_Tenant!vars
    PROVE  PageInv'
<1>p. /\ answer.code = 500 => answer.database
      /\ prices \in [PriceIds -> PriceRows \cup {None}]
      /\ \A i \in PriceIds : prices[i] # None => Trimmed(prices[i].code)
      /\ \A i, j \in PriceIds :
            prices[i] # None /\ prices[j] # None /\ i # j => prices[i].code # prices[j].code
      /\ \A n \in places : Trimmed(n)
  BY DEF PageInv
<1> DEFINE PricesOK == /\ prices' \in [PriceIds -> PriceRows \cup {None}]
                       /\ \A i \in PriceIds : prices'[i] # None => Trimmed(prices'[i].code)
                       /\ \A i, j \in PriceIds :
                             prices'[i] # None /\ prices'[j] # None /\ i # j
                                 => prices'[i].code # prices'[j].code
           PlacesOK == \A n \in places' : Trimmed(n)
           LookOK == page' # None => /\ page' \in LookRows /\ page'.storable
                                     /\ Tenant!ValidLook(page') /\ Tenant!Normalized(page') = page'
           AnswerOK == answer'.code = 500 => answer'.database
<1>a. /\ \A c \in {0, 200, 204, 400, 404, 409} : answer' = Tenant!Status(c) => AnswerOK
      /\ answer' = Tenant!TextRefused => AnswerOK
      /\ Tenant!TransactionFails => AnswerOK
  BY DEF Tenant!Status, Tenant!TextRefused, Tenant!TransactionFails
<1>e. ASSUME AnswerOK, PricesOK, PlacesOK, LookOK PROVE PageInv'
  <2>1. page' # None => Tenant!ValidLook(page)' /\ Tenant!Normalized(page)' = page'
    BY <1>e DEF Tenant!ValidLook, Tenant!Normalized
  <2>. QED
    BY <1>e, <2>1 DEF PageInv
<1>1. UNCHANGED prices => PricesOK
  BY <1>p
<1>2. UNCHANGED places => PlacesOK
  BY <1>p
<1>3. UNCHANGED page => LookOK
  BY DEF PageInv
<1>q. UNCHANGED Tenant!public => PageInv'
  BY <1>p, <1>1, <1>2, <1>3, <1>e DEF Tenant!public
<1>4. ASSUME NEW id \in PriceIds, Tenant!PutPrice(id) PROVE PageInv'
  <2>1. UNCHANGED <<places, page>>
    BY <1>4 DEF Tenant!PutPrice
  <2>2. PICK in \in PriceInputs :
          IF Tenant!ValidDestinations(in)
          THEN Tenant!WritePrice(id, Tenant!ToNewRoutePrice(in), in.storable)
          ELSE answer' = Tenant!Status(400) /\ UNCHANGED <<prices, faults>>
    BY <1>4 DEF Tenant!PutPrice
  <2>3. CASE ~Tenant!ValidDestinations(in)
    BY <2>1, <2>2, <2>3, <1>a, <1>1, <1>2, <1>3, <1>e
  <2>4. CASE Tenant!ValidDestinations(in)
    <3> DEFINE p == Tenant!ToNewRoutePrice(in)  code == Tenant!TrimCode(in.code)
               storable == in.storable
    <3>1. /\ in.code \in PostedCodes /\ in.array \in BOOLEAN
          /\ in.count \in {x.count : x \in PriceInputs}
      BY DEF PageGiven
    <3>2. Trimmed(code) /\ code \in PostedCodes
      BY <3>1, TrimmingOnce DEF Trimmed
    <3> HIDE DEF code
    <3>3. /\ p \in PriceRows /\ p.code = code /\ p.array = in.array /\ p.count = in.count
      BY <3>1, <3>2 DEF Tenant!ToNewRoutePrice, PriceRows, code
    <3>4. Tenant!WritePrice(id, p, storable)
      BY <2>2, <2>4
    <3> HIDE DEF p, storable
    <3>5. Tenant!FitsCheck(p)
      BY <2>4, <3>3 DEF Tenant!ValidDestinations, Tenant!FitsCheck
    <3> DEFINE fits == storable /\ Tenant!FitsCheck(p) /\ Tenant!FitsUnique(p, id)
               written == IF fits THEN [prices EXCEPT ![id] = p] ELSE prices
    <3>6. /\ AnswerOK
          /\ prices' = prices \/ (fits /\ prices' = [prices EXCEPT ![id] = p])
      <4>1. CASE Tenant!TransactionFails /\ prices' \in {prices, written}
        BY <4>1, <1>a
      <4>2. CASE /\ answer' = CASE fits                             -> Tenant!Status(200)
                               [] ~storable                        -> Tenant!TextRefused
                               [] storable /\ ~Tenant!FitsCheck(p) -> Tenant!Status(500)
                               [] OTHER                            -> Tenant!Status(409)
                 /\ prices' = written
        <5>1. CASE fits
          <6>1. ~~storable /\ ~(storable /\ ~Tenant!FitsCheck(p))
            BY <3>5, <5>1
          <6> HIDE DEF fits, AnswerOK
          <6>2. answer' = Tenant!Status(200)
            BY <4>2, <5>1, <6>1
          <6>. QED
            BY <4>2, <5>1, <6>2, <1>a
        <5>2. CASE ~fits
          <6>1. storable => ~(storable /\ ~Tenant!FitsCheck(p))
            BY <3>5
          <6> HIDE DEF fits, AnswerOK
          <6>2. answer' = Tenant!TextRefused \/ answer' = Tenant!Status(409)
            BY <4>2, <5>2, <6>1
          <6>. QED
            BY <4>2, <5>2, <6>2, <1>a
        <5>. QED
          BY <5>1, <5>2
      <4>. QED
        BY <3>4, <4>1, <4>2, Zenon DEF Tenant!WritePrice
    <3>7. CASE fits /\ prices' = [prices EXCEPT ![id] = p]
      <4>1. /\ prices' = [prices EXCEPT ![id] = p]
            /\ \A o \in PriceIds \ {id} : prices[o] # None => prices[o].code # p.code
        BY <3>7 DEF Tenant!FitsUnique
      <4>2. /\ prices' \in [PriceIds -> PriceRows \cup {None}]
            /\ prices'[id] = p /\ \A o \in PriceIds \ {id} : prices'[o] = prices[o]
        BY <1>p, <3>3, <4>1
      <4>3. PricesOK
        BY <1>p, <3>2, <3>3, <4>1, <4>2
      <4>. QED
        BY <2>1, <3>6, <4>3, <1>2, <1>3, <1>e
    <3>8. CASE prices' = prices
      BY <2>1, <3>6, <3>8, <1>1, <1>2, <1>3, <1>e
    <3>. QED
      BY <3>6, <3>7, <3>8
  <2>. QED
    BY <2>3, <2>4
<1>5. ASSUME NEW id \in PriceIds, Tenant!DeletePrice(id) PROVE PageInv'
  <2> DEFINE without == [prices EXCEPT ![id] = None]
  <2>1. /\ UNCHANGED <<places, page>>
        /\ answer' = Tenant!Status(204) \/ Tenant!TransactionFails
        /\ prices' = prices \/ prices' = without
    BY <1>5 DEF Tenant!DeletePrice
  <2>2. PricesOK
    BY <1>p, <2>1
  <2>3. AnswerOK
    BY <2>1, <1>a
  <2>. QED
    BY <2>1, <2>2, <2>3, <1>2, <1>3, <1>e
<1>6. CASE Tenant!UpdateMissing
  BY <1>6, <1>a, <1>1, <1>2, <1>3, <1>e DEF Tenant!UpdateMissing
<1>7. CASE Tenant!CreateLocation
  <2>1. /\ UNCHANGED <<prices, page>>
        /\ \E n \in PlaceInputs :
             LET name  == Tenant!TrimCode(n.name)
                 blank == name.code = ""
                 fits  == n.storable /\ name \notin places
                 with  == IF fits THEN places \cup {name} ELSE places
             IN  \/ blank /\ answer' = Tenant!Status(400) /\ UNCHANGED <<places, faults>>
                 \/ /\ ~blank
                    /\ answer' = CASE fits        -> Tenant!Status(200)
                                  [] ~n.storable -> Tenant!TextRefused
                                  [] OTHER       -> Tenant!Status(409)
                    /\ places' = with /\ UNCHANGED faults
                 \/ ~blank /\ Tenant!TransactionFails /\ places' \in {places, with}
    BY <1>7, Zenon DEF Tenant!CreateLocation
  <2>2. PICK n \in PlaceInputs :
          LET name  == Tenant!TrimCode(n.name)
              fits  == n.storable /\ name \notin places
              with  == IF fits THEN places \cup {name} ELSE places
          IN  \/ answer' = Tenant!Status(400) /\ places' = places
              \/ /\ answer' = CASE fits        -> Tenant!Status(200)
                               [] ~n.storable -> Tenant!TextRefused
                               [] OTHER       -> Tenant!Status(409)
                 /\ places' = with
              \/ Tenant!TransactionFails /\ places' \in {places, with}
    BY <2>1, Zenon
  <2> DEFINE name  == Tenant!TrimCode(n.name)
             storable == n.storable
             fits  == storable /\ name \notin places
             more  == places \cup {name}
             with  == IF fits THEN more ELSE places
  <2>3. Trimmed(name)
    BY TrimmingOnce DEF PageGiven
  <2>4. \A m \in more : Trimmed(m)
    BY <1>p, <2>3
  <2>5. \/ answer' = Tenant!Status(400) /\ places' = places
        \/ /\ answer' = CASE fits      -> Tenant!Status(200)
                         [] ~storable -> Tenant!TextRefused
                         [] OTHER     -> Tenant!Status(409)
           /\ places' = with
        \/ Tenant!TransactionFails /\ places' \in {places, with}
    BY <2>2
  <2>6. fits => ~~storable
    OBVIOUS
  <2> HIDE DEF name, more, storable, fits
  <2>7. \A m \in with : Trimmed(m)
    BY <1>p, <2>4
  <2> HIDE DEF with
  <2>8. /\ places' = places \/ places' = with
        /\ \/ answer' = Tenant!Status(400) \/ answer' = Tenant!Status(200)
           \/ answer' = Tenant!Status(409) \/ answer' = Tenant!TextRefused
           \/ Tenant!TransactionFails
    <3>1. CASE fits
      BY <2>5, <2>6, <3>1
    <3>2. CASE ~fits /\ storable
      BY <2>5, <3>2
    <3>3. CASE ~fits /\ ~storable
      BY <2>5, <3>3
    <3>. QED
      BY <3>1, <3>2, <3>3
  <2>9. PlacesOK
    BY <1>p, <2>7, <2>8
  <2>10. AnswerOK
    <3> HIDE DEF AnswerOK
    <3>. QED
      BY <2>8, <1>a
  <2>. QED
    BY <2>1, <2>9, <2>10, <1>1, <1>3, <1>e
<1>8. CASE Tenant!DeleteLocation
  <2>1. /\ UNCHANGED <<prices, page>> /\ places' \subseteq places
        /\ answer' = Tenant!Status(204) \/ Tenant!TransactionFails
    BY <1>8 DEF Tenant!DeleteLocation
  <2>2. PlacesOK
    BY <2>1, <1>p
  <2>3. AnswerOK
    BY <2>1, <1>a
  <2>. QED
    BY <2>1, <2>2, <2>3, <1>1, <1>3, <1>e
<1>9. CASE Tenant!PutBranding
  <2>0. UNCHANGED <<prices, places>>
    BY <1>9 DEF Tenant!PutBranding
  <2>1. PICK look \in Looks :
          LET saved == IF look.storable THEN Tenant!Normalized(look) ELSE page
          IN  \/ answer' = Tenant!Status(400) /\ page' = page
              \/ /\ Tenant!ValidLook(look)
                 /\ answer' = IF look.storable THEN Tenant!Status(200) ELSE Tenant!TextRefused
                 /\ page' = saved
              \/ /\ Tenant!ValidLook(look) /\ Tenant!TransactionFails
                 /\ page' \in {page, saved}
    BY <1>9 DEF Tenant!PutBranding
  <2> DEFINE storable == look.storable
             new == Tenant!Normalized(look)
  <2>2. /\ page' = page \/ (storable /\ Tenant!ValidLook(look) /\ page' = new)
        /\ \/ answer' = Tenant!Status(400) \/ answer' = Tenant!Status(200)
           \/ answer' = Tenant!TextRefused \/ Tenant!TransactionFails
    BY <2>1
  <2>3. LookOK
    <3>1. look \in LookRows
      BY DEF PageGiven
    <3>2. CASE storable /\ Tenant!ValidLook(look) /\ page' = new
      <4>1. /\ new \in LookRows /\ Tenant!ValidLook(new) /\ Tenant!Normalized(new) = new
            /\ new.storable = look.storable
        BY <3>1, <3>2, NormalOnce
      <4>. QED
        BY <3>2, <4>1
    <3>3. CASE page' = page
      BY <3>3, <1>3
    <3>. QED
      BY <2>2, <3>2, <3>3
  <2>4. AnswerOK
    <3> HIDE DEF AnswerOK
    <3>. QED
      BY <2>2, <1>a
  <2>. QED
    BY <2>0, <2>3, <2>4, <1>1, <1>2, <1>e
<1>10. CASE UNCHANGED Tenant!vars
  BY <1>10, <1>q DEF Tenant!vars
<1>11. ASSUME \/ Tenant!ClearLog
              \/ \E d \in Desks : Tenant!ReadSettings(d) \/ Tenant!StoreSettings(d) \/ Tenant!DropPut(d)
              \/ \E r \in Recorders :
                    \/ Tenant!BeginRecord(r) \/ Tenant!Push(r) \/ Tenant!PushFails(r) \/ Tenant!Trim(r)
       PROVE  PageInv'
  BY <1>11, <1>q, Zenon DEF Tenant!ClearLog, Tenant!ReadSettings, Tenant!StoreSettings,
     Tenant!DropPut, Tenant!BeginRecord, Tenant!Push, Tenant!PushFails, Tenant!Trim
<1>. QED
  BY <1>4, <1>5, <1>6, <1>7, <1>8, <1>9, <1>10, <1>11 DEF Tenant!Next

\* A request of an editor ends in an internal error only if the database fails
\* at it or cannot hold its text, visitors see one price per code and each
\* place once, and the page is one its editor would save again unchanged, with
\* an image that is no larger than allowed (routes/prices.rs:56-61, error.rs,
\* routes/locations.rs:49, branding.rs).
THEOREM PublicPageStaysSound ==
    ASSUME PageGiven
    PROVE  Tenant!Spec => []PublicPageIsSound
<1>1. Tenant!Init => PageInv
  <2> SUFFICES ASSUME Tenant!Init PROVE PageInv
    OBVIOUS
  <2>1. /\ prices = [id \in PriceIds |-> None] /\ places = {} /\ page = None
        /\ answer.code = 0
    BY DEF Tenant!Init, Tenant!Status
  <2>. QED
    BY <2>1 DEF PageInv
<1>2. PageInv /\ [Tenant!Next]_Tenant!vars => PageInv'
  BY PageNext
<1>3. PageInv => PublicPageIsSound
  <2> SUFFICES ASSUME PageInv PROVE Tenant!PublicPageIsSound
    BY DEF PublicPageIsSound
  <2>1. \A i \in PriceIds : prices[i] # None => Tenant!TrimCode(prices[i].code) = prices[i].code
    BY TrimmingOnce DEF PageInv, Trimmed
  <2>2. \A n \in places : Tenant!TrimCode(n) = n
    BY TrimmingOnce DEF PageInv, Trimmed
  <2>3. page # None /\ page.logo # Tenant!NoImage =>
          (6 * (page.logo.length - page.logo.pads)) \div 8 <= ImageMax + 2
    <3> SUFFICES ASSUME page # None, page.logo # Tenant!NoImage
                 PROVE  (6 * (page.logo.length - page.logo.pads)) \div 8 <= ImageMax + 2
      OBVIOUS
    <3>1. page.logo \in Images /\ Tenant!ValidDataUri(page.logo)
      BY DEF PageInv, LookRows, Tenant!ValidLook
    <3>. QED
      BY <3>1, ImageIsSmall
  <2>. QED
    BY <2>1, <2>2, <2>3 DEF PageInv, Tenant!PublicPageIsSound
<1>. QED
  BY <1>1, <1>2, <1>3, PTL DEF Tenant!Spec

(***************************************************************************)
(* The live feed: who is registered.  A socket is in the sets of the       *)
(* channels it has come by and in no other; and a set that is empty is     *)
(* about to be taken out of the map by the socket that emptied it.         *)
(***************************************************************************)
FeedGiven ==
    \A s \in Sockets : ChannelsOf[s] \in Seq(Channels) /\ Len(ChannelsOf[s]) >= 1

Spots == [pc : {"away", "join", "greet", "open", "leave", "reclaim", "gone"},
          at : Nat \ {0}, empty : BOOLEAN]

Member(s, c) == c \in DOMAIN clients /\ s \in clients[c]

SpotsOK ==
    /\ socket \in [Sockets -> Spots]
    /\ \A s \in Sockets : /\ socket[s].at <= Len(ChannelsOf[s])
                          /\ socket[s].pc \in {"away", "greet", "open"} => socket[s].at = 1

Placed(s) ==
    \A i \in 1..Len(ChannelsOf[s]) :
        /\ socket[s].pc = "join" /\ i < socket[s].at => Member(s, ChannelsOf[s][i])
        /\ socket[s].pc \in {"greet", "open"} => Member(s, ChannelsOf[s][i])
        /\ socket[s].pc = "leave" /\ i < socket[s].at => ~Member(s, ChannelsOf[s][i])
        /\ socket[s].pc = "reclaim" /\ i <= socket[s].at => ~Member(s, ChannelsOf[s][i])
        /\ socket[s].pc \in {"away", "gone"} => ~Member(s, ChannelsOf[s][i])

OnlyMembers ==
    \A c \in DOMAIN clients : \A s \in clients[c] : s \in Sockets /\ c \in Feed!Chan(s)

EmptyIsLeft ==
    \A c \in DOMAIN clients : clients[c] = {} =>
        \E s \in Sockets : socket[s].pc = "reclaim" /\ socket[s].empty /\ Feed!Here(s) = c

Registered == SpotsOK /\ (\A s \in Sockets : Placed(s)) /\ OnlyMembers /\ EmptyIsLeft

LEMMA HereIsMine ==
    ASSUME FeedGiven, SpotsOK, NEW s \in Sockets
    PROVE  /\ socket[s].at \in 1..Len(ChannelsOf[s]) /\ Len(ChannelsOf[s]) \in Nat
           /\ Feed!Here(s) = ChannelsOf[s][socket[s].at]
           /\ Feed!Here(s) \in Feed!Chan(s)
           /\ Feed!Chan(s) = {ChannelsOf[s][i] : i \in 1..Len(ChannelsOf[s])}
<1>1. socket[s].at \in 1..Len(ChannelsOf[s]) /\ Len(ChannelsOf[s]) \in Nat
  BY DEF FeedGiven, SpotsOK, Spots
<1>2. DOMAIN ChannelsOf[s] = 1..Len(ChannelsOf[s])
  BY DEF FeedGiven
<1>. QED
  BY <1>1, <1>2 DEF Feed!Here, Feed!Chan

(* Where a step from channel to channel leads. *)
LEMMA StepsOn ==
    ASSUME FeedGiven, SpotsOK, NEW s \in Sockets,
           NEW pc \in {"join", "leave"}, NEW end \in {"greet", "gone"},
           Feed!Step(s, pc, end)
    PROVE  /\ SpotsOK'
           /\ \A t \in Sockets : t # s => socket'[t] = socket[t]
           /\ ~socket'[s].empty
           /\ \/ /\ socket[s].at = Len(ChannelsOf[s]) /\ socket'[s].pc = end
              \/ /\ socket[s].at # Len(ChannelsOf[s]) /\ socket'[s].pc = pc
                 /\ socket'[s].at = socket[s].at + 1
<1>1. socket[s].at \in 1..Len(ChannelsOf[s]) /\ Len(ChannelsOf[s]) \in Nat
  BY HereIsMine
<1> DEFINE next == IF Feed!Last(s) THEN [pc |-> end, at |-> 1, empty |-> FALSE]
                   ELSE [pc |-> pc, at |-> socket[s].at + 1, empty |-> FALSE]
<1>2. socket' = [socket EXCEPT ![s] = next]
  BY DEF Feed!Step
<1>3. /\ next \in Spots /\ ~next.empty /\ next.at <= Len(ChannelsOf[s])
      /\ \/ /\ socket[s].at = Len(ChannelsOf[s]) /\ next.pc = end /\ next.at = 1
         \/ /\ socket[s].at # Len(ChannelsOf[s]) /\ next.pc = pc
            /\ next.at = socket[s].at + 1
  <2>1. CASE Feed!Last(s)
    <3>1. next = [pc |-> end, at |-> 1, empty |-> FALSE]
      BY <2>1
    <3>. QED
      BY <1>1, <2>1, <3>1 DEF Spots, Feed!Last
  <2>2. CASE ~Feed!Last(s)
    <3>1. next = [pc |-> pc, at |-> socket[s].at + 1, empty |-> FALSE]
      BY <2>2
    <3>. QED
      BY <1>1, <2>2, <3>1 DEF Spots, Feed!Last
  <2>. QED
    BY <2>1, <2>2
<1> HIDE DEF next
<1>4. /\ socket' \in [Sockets -> Spots] /\ socket'[s] = next
      /\ \A t \in Sockets : t # s => socket'[t] = socket[t]
  BY <1>2, <1>3 DEF SpotsOK
<1>. QED
  BY <1>3, <1>4 DEF SpotsOK

(* The others, whose membership a step of s does not change. *)
LEMMA OthersStay ==
    ASSUME \A r \in Sockets : Placed(r), NEW s \in Sockets,
           \A r \in Sockets : r # s => socket'[r] = socket[r],
           \A r, c : r # s => (Member(r, c)' <=> Member(r, c))
    PROVE  \A r \in Sockets : r # s => Placed(r)'
BY DEF Placed

(* What a step does to the membership of every channel. *)
LEMMA Joins ==
    ASSUME NEW s \in Sockets, NEW c,
           clients' = Feed!With(c, {s} \cup (IF c \in DOMAIN clients THEN clients[c] ELSE {}))
    PROVE  \A r, d : Member(r, d)' <=> Member(r, d) \/ (r = s /\ d = c)
<1> DEFINE S == {s} \cup (IF c \in DOMAIN clients THEN clients[c] ELSE {})
<1>1. \A r : r \in S <=> r = s \/ Member(r, c)
  BY DEF Member
<1> HIDE DEF S
<1>2. /\ DOMAIN clients' = DOMAIN clients \cup {c} /\ clients'[c] = S
      /\ \A d \in DOMAIN clients : d # c => clients'[d] = clients[d]
  BY DEF S, Feed!With
<1>. QED
  BY <1>1, <1>2 DEF Member

LEMMA Parts ==
    ASSUME NEW s \in Sockets, NEW c,
           clients' = IF c \in DOMAIN clients THEN Feed!With(c, clients[c] \ {s}) ELSE clients
    PROVE  /\ \A r, d : Member(r, d)' <=> Member(r, d) /\ ~(r = s /\ d = c)
           /\ DOMAIN clients' = DOMAIN clients
           /\ \A d \in DOMAIN clients : d # c => clients'[d] = clients[d]
<1>1. CASE c \in DOMAIN clients
  <2> DEFINE S == clients[c] \ {s}
  <2>1. \A r : r \in S <=> r # s /\ Member(r, c)
    BY <1>1 DEF Member
  <2> HIDE DEF S
  <2>2. /\ DOMAIN clients' = DOMAIN clients \cup {c} /\ clients'[c] = S
        /\ \A d \in DOMAIN clients : d # c => clients'[d] = clients[d]
    BY <1>1 DEF S, Feed!With
  <2>. QED
    BY <1>1, <2>1, <2>2 DEF Member
<1>2. CASE c \notin DOMAIN clients
  BY <1>2 DEF Member
<1>. QED
  BY <1>1, <1>2

LEMMA Forgets ==
    ASSUME NEW c, c \in DOMAIN clients, clients[c] = {}, clients' = Feed!Without(c)
    PROVE  /\ \A r, d : Member(r, d)' <=> Member(r, d)
           /\ DOMAIN clients' = DOMAIN clients \ {c}
           /\ \A d \in DOMAIN clients' : clients'[d] = clients[d]
<1>1. /\ DOMAIN clients' = DOMAIN clients \ {c}
      /\ \A d \in DOMAIN clients : d # c => clients'[d] = clients[d]
  BY DEF Feed!Without
<1>. QED
  BY <1>1 DEF Member

LEMMA MembersOnly ==
    OnlyMembers <=> \A r, d : Member(r, d) => r \in Sockets /\ d \in Feed!Chan(r)
BY DEF OnlyMembers, Member

LEMMA RegisteredInit ==
    ASSUME FeedGiven, Feed!Init PROVE Registered
<1> DEFINE first == [pc |-> "away", at |-> 1, empty |-> FALSE]
<1>1. /\ first \in Spots /\ first.pc = "away" /\ first.at = 1
  BY DEF Spots
<1> HIDE DEF first
<1>2. socket = [s \in Sockets |-> first]
  BY DEF Feed!Init, first
<1>3. SpotsOK
  BY <1>1, <1>2 DEF SpotsOK, FeedGiven
<1>4. DOMAIN clients = {}
  BY DEF Feed!Init
<1>5. \A s \in Sockets : Placed(s)
  BY <1>1, <1>2, <1>4 DEF Placed, Member
<1>. QED
  BY <1>3, <1>4, <1>5 DEF Registered, OnlyMembers, EmptyIsLeft

LEMMA RegisterKeeps ==
    ASSUME FeedGiven, Registered, NEW s \in Sockets, Feed!Register(s)
    PROVE  Registered'
<1> DEFINE c == Feed!Here(s)
           S == {s} \cup (IF c \in DOMAIN clients THEN clients[c] ELSE {})
<1>. SpotsOK /\ (\A r \in Sockets : Placed(r)) /\ OnlyMembers /\ EmptyIsLeft
  BY DEF Registered
<1>a. socket[s].pc \in {"away", "join"} /\ Feed!Step(s, "join", "greet")
      /\ clients' = Feed!With(c, S)
  BY DEF Feed!Register
<1>1. /\ SpotsOK' /\ (\A t \in Sockets : t # s => socket'[t] = socket[t])
      /\ \/ /\ socket[s].at = Len(ChannelsOf[s]) /\ socket'[s].pc = "greet"
         \/ /\ socket[s].at # Len(ChannelsOf[s]) /\ socket'[s].pc = "join"
            /\ socket'[s].at = socket[s].at + 1
  BY <1>a, StepsOn, Zenon
<1>2. \A r, d : Member(r, d)' <=> Member(r, d) \/ (r = s /\ d = c)
  BY <1>a, Joins, Zenon
<1>3. /\ DOMAIN clients' = DOMAIN clients \cup {c} /\ clients'[c] = S
      /\ \A d \in DOMAIN clients : d # c => clients'[d] = clients[d]
  BY <1>a DEF Feed!With
<1>4. S # {}
  OBVIOUS
<1>5. /\ socket[s].at \in 1..Len(ChannelsOf[s]) /\ Len(ChannelsOf[s]) \in Nat
      /\ c = ChannelsOf[s][socket[s].at] /\ c \in Feed!Chan(s)
  BY HereIsMine, Zenon
<1>6. \A i \in 1..Len(ChannelsOf[s]) : i < socket[s].at => Member(s, ChannelsOf[s][i])
  BY <1>a, <1>5 DEF Placed, SpotsOK, Spots
<1> HIDE DEF c, S
<1>7. \A i \in 1..Len(ChannelsOf[s]) : i <= socket[s].at => Member(s, ChannelsOf[s][i])'
  <2>. SUFFICES ASSUME NEW i \in 1..Len(ChannelsOf[s]), i <= socket[s].at
       PROVE Member(s, ChannelsOf[s][i])'
    OBVIOUS
  <2>1. CASE i = socket[s].at
    BY <2>1, <1>2, <1>5
  <2>2. CASE i < socket[s].at
    BY <2>2, <1>2, <1>6
  <2>. QED
    BY <2>1, <2>2, <1>5
<1>8. Placed(s)'
  BY <1>1, <1>5, <1>7 DEF Placed
<1>9. \A r, d : r # s => (Member(r, d)' <=> Member(r, d))
  BY <1>2, Zenon
<1>10. \A r \in Sockets : Placed(r)'
  BY <1>1, <1>8, <1>9, OthersStay, Zenon
<1>11. OnlyMembers'
  <2>1. \A r, d : Member(r, d)' => r \in Sockets /\ d \in Feed!Chan(r)
    BY <1>2, <1>5, MembersOnly, Zenon
  <2>. QED
    BY <2>1 DEF OnlyMembers, Member
<1>12. EmptyIsLeft'
  <2>. SUFFICES ASSUME NEW d \in DOMAIN clients', clients'[d] = {}
       PROVE \E r \in Sockets : socket'[r].pc = "reclaim" /\ socket'[r].empty
                                /\ Feed!Here(r)' = d
    BY DEF EmptyIsLeft
  <2>1. d # c /\ d \in DOMAIN clients /\ clients[d] = {}
    BY <1>3, <1>4
  <2>2. PICK r \in Sockets : socket[r].pc = "reclaim" /\ socket[r].empty /\ Feed!Here(r) = d
    BY <2>1 DEF EmptyIsLeft
  <2>3. r # s
    BY <2>2, <1>a
  <2>. QED
    BY <2>2, <2>3, <1>1 DEF Feed!Here
<1>. QED
  BY <1>1, <1>10, <1>11, <1>12 DEF Registered

LEMMA UnregisterKeeps ==
    ASSUME FeedGiven, Registered, NEW s \in Sockets, Feed!Unregister(s)
    PROVE  Registered'
<1> DEFINE c == Feed!Here(s)
           left == c \in DOMAIN clients /\ clients'[c] = {}
<1>. SpotsOK /\ (\A r \in Sockets : Placed(r)) /\ OnlyMembers /\ EmptyIsLeft
  BY DEF Registered
<1>a. /\ socket[s].pc = "leave"
      /\ clients' = IF c \in DOMAIN clients THEN Feed!With(c, clients[c] \ {s}) ELSE clients
      /\ socket' = [socket EXCEPT ![s].pc = "reclaim", ![s].empty = left]
  BY DEF Feed!Unregister, Feed!At
<1>0. left \in BOOLEAN
  OBVIOUS
<1>1. /\ \A r, d : Member(r, d)' <=> Member(r, d) /\ ~(r = s /\ d = c)
      /\ DOMAIN clients' = DOMAIN clients
      /\ \A d \in DOMAIN clients : d # c => clients'[d] = clients[d]
  BY <1>a, Parts, Zenon
<1>2. /\ socket[s].at \in 1..Len(ChannelsOf[s]) /\ Len(ChannelsOf[s]) \in Nat
      /\ c = ChannelsOf[s][socket[s].at]
  BY HereIsMine, Zenon
<1>3. left <=> c \in DOMAIN clients' /\ clients'[c] = {}
  BY <1>1, Zenon
<1> HIDE DEF c, left
<1> DEFINE next == [socket[s] EXCEPT !.pc = "reclaim", !.empty = left]
<1>4. /\ socket' \in [Sockets -> Spots]
      /\ \A t \in Sockets : t # s => socket'[t] = socket[t]
      /\ socket'[s].pc = "reclaim" /\ socket'[s].at = socket[s].at
      /\ socket'[s].empty = left
  <2>1. /\ next \in Spots /\ next.pc = "reclaim" /\ next.at = socket[s].at
        /\ next.empty = left
    BY <1>0 DEF SpotsOK, Spots
  <2>2. socket' = [socket EXCEPT ![s] = next]
    BY <1>a
  <2> HIDE DEF next
  <2>. QED
    BY <2>1, <2>2 DEF SpotsOK
<1>6. SpotsOK'
  BY <1>4 DEF SpotsOK
<1>7. Placed(s)'
  <2>1. \A i \in 1..Len(ChannelsOf[s]) : i < socket[s].at => ~Member(s, ChannelsOf[s][i])
    BY <1>a DEF Placed
  <2>2. \A i \in 1..Len(ChannelsOf[s]) : i <= socket[s].at => ~Member(s, ChannelsOf[s][i])'
    <3>. SUFFICES ASSUME NEW i \in 1..Len(ChannelsOf[s]), i <= socket[s].at
         PROVE ~Member(s, ChannelsOf[s][i])'
      OBVIOUS
    <3>1. CASE i = socket[s].at
      BY <3>1, <1>1, <1>2
    <3>2. CASE i < socket[s].at
      BY <3>2, <1>1, <2>1
    <3>. QED
      BY <3>1, <3>2, <1>2
  <2>. QED
    BY <1>4, <2>2 DEF Placed
<1>8. \A r, d : r # s => (Member(r, d)' <=> Member(r, d))
  BY <1>1, Zenon
<1>9. \A r \in Sockets : Placed(r)'
  BY <1>4, <1>7, <1>8, OthersStay, Zenon
<1>10. OnlyMembers'
  <2>1. \A r, d : Member(r, d)' => r \in Sockets /\ d \in Feed!Chan(r)
    BY <1>1, MembersOnly, Zenon
  <2>. QED
    BY <2>1 DEF OnlyMembers, Member
<1>11. EmptyIsLeft'
  <2>. SUFFICES ASSUME NEW d \in DOMAIN clients', clients'[d] = {}
       PROVE \E r \in Sockets : socket'[r].pc = "reclaim" /\ socket'[r].empty
                                /\ Feed!Here(r)' = d
    BY DEF EmptyIsLeft
  <2>1. CASE d = c
    BY <2>1, <1>3, <1>4 DEF Feed!Here, c
  <2>2. CASE d # c
    <3>1. PICK r \in Sockets : socket[r].pc = "reclaim" /\ socket[r].empty /\ Feed!Here(r) = d
      BY <2>2, <1>1 DEF EmptyIsLeft
    <3>2. r # s
      BY <3>1, <1>a
    <3>. QED
      BY <3>1, <3>2, <1>4 DEF Feed!Here
  <2>. QED
    BY <2>1, <2>2
<1>. QED
  BY <1>6, <1>9, <1>10, <1>11 DEF Registered

LEMMA ReclaimKeeps ==
    ASSUME FeedGiven, Registered, NEW s \in Sockets, Feed!Reclaim(s)
    PROVE  Registered'
<1> DEFINE c == Feed!Here(s)
           unused == socket[s].empty /\ c \in DOMAIN clients /\ clients[c] = {}
<1>. SpotsOK /\ (\A r \in Sockets : Placed(r)) /\ OnlyMembers /\ EmptyIsLeft
  BY DEF Registered
<1>a. /\ socket[s].pc = "reclaim" /\ Feed!Step(s, "leave", "gone")
      /\ clients' = IF unused THEN Feed!Without(c) ELSE clients
  BY DEF Feed!Reclaim, Feed!At
<1>1. /\ SpotsOK' /\ (\A t \in Sockets : t # s => socket'[t] = socket[t])
      /\ \/ /\ socket[s].at = Len(ChannelsOf[s]) /\ socket'[s].pc = "gone"
         \/ /\ socket[s].at # Len(ChannelsOf[s]) /\ socket'[s].pc = "leave"
            /\ socket'[s].at = socket[s].at + 1
  BY <1>a, StepsOn, Zenon
<1>2. /\ \A r, d : Member(r, d)' <=> Member(r, d)
      /\ DOMAIN clients' = IF unused THEN DOMAIN clients \ {c} ELSE DOMAIN clients
      /\ \A d \in DOMAIN clients' : clients'[d] = clients[d]
  <2>1. CASE unused
    BY <2>1, <1>a, Forgets, Zenon
  <2>2. CASE ~unused
    BY <2>2, <1>a DEF Member
  <2>. QED
    BY <2>1, <2>2, Zenon
<1>3. /\ socket[s].at \in 1..Len(ChannelsOf[s]) /\ Len(ChannelsOf[s]) \in Nat
  BY HereIsMine, Zenon
<1>4. Placed(s)'
  <2>1. \A i \in 1..Len(ChannelsOf[s]) : i <= socket[s].at => ~Member(s, ChannelsOf[s][i])'
    BY <1>a, <1>2 DEF Placed
  <2>. QED
    BY <1>1, <1>3, <2>1 DEF Placed
<1>5. \A r, d : r # s => (Member(r, d)' <=> Member(r, d))
  BY <1>2, Zenon
<1>6. \A r \in Sockets : Placed(r)'
  BY <1>1, <1>4, <1>5, OthersStay, Zenon
<1>7. OnlyMembers'
  <2>1. \A r, d : Member(r, d)' => r \in Sockets /\ d \in Feed!Chan(r)
    BY <1>2, MembersOnly, Zenon
  <2>. QED
    BY <2>1 DEF OnlyMembers, Member
<1>8. EmptyIsLeft'
  <2>. SUFFICES ASSUME NEW d \in DOMAIN clients', clients'[d] = {}
       PROVE \E r \in Sockets : socket'[r].pc = "reclaim" /\ socket'[r].empty
                                /\ Feed!Here(r)' = d
    BY DEF EmptyIsLeft
  <2>1. d \in DOMAIN clients /\ clients[d] = {} /\ (unused => d # c)
    BY <1>2, Zenon
  <2>2. PICK r \in Sockets : socket[r].pc = "reclaim" /\ socket[r].empty /\ Feed!Here(r) = d
    BY <2>1, Zenon DEF EmptyIsLeft
  <2>3. r # s
    BY <2>1, <2>2, Zenon
  <2>. QED
    BY <2>2, <2>3, <1>1 DEF Feed!Here
<1>. QED
  BY <1>1, <1>6, <1>7, <1>8 DEF Registered

LEMMA RegisteredNext ==
    ASSUME FeedGiven, Registered, Feed!Next PROVE Registered'
<1>1. ASSUME NEW s \in Sockets, Feed!Greet(s) \/ Feed!Close(s) PROVE Registered'
  <2>. SpotsOK /\ (\A r \in Sockets : Placed(r)) /\ OnlyMembers /\ EmptyIsLeft
    BY DEF Registered
  <2>1. /\ clients' = clients
        /\ \/ socket[s].pc = "greet" /\ socket' = [socket EXCEPT ![s].pc = "open"]
           \/ socket[s].pc = "open" /\ socket' = [socket EXCEPT ![s].pc = "leave"]
    BY <1>1 DEF Feed!Greet, Feed!Close, Feed!At
  <2>2. /\ socket' \in [Sockets -> Spots]
        /\ \A t \in Sockets : t # s => socket'[t] = socket[t]
        /\ socket'[s].at = socket[s].at /\ socket[s].at = 1
        /\ \/ socket[s].pc = "greet" /\ socket'[s].pc = "open"
           \/ socket[s].pc = "open" /\ socket'[s].pc = "leave"
    <3>1. PICK pc \in {"open", "leave"} : /\ socket' = [socket EXCEPT ![s].pc = pc]
                                           /\ \/ socket[s].pc = "greet" /\ pc = "open"
                                              \/ socket[s].pc = "open" /\ pc = "leave"
      BY <2>1
    <3> DEFINE next == [socket[s] EXCEPT !.pc = pc]
    <3>2. next \in Spots /\ next.at = socket[s].at /\ next.pc = pc
      BY DEF SpotsOK, Spots
    <3>3. socket' = [socket EXCEPT ![s] = next]
      BY <3>1
    <3> HIDE DEF next
    <3>4. /\ socket' \in [Sockets -> Spots] /\ socket'[s] = next
          /\ \A t \in Sockets : t # s => socket'[t] = socket[t]
      BY <3>2, <3>3 DEF SpotsOK
    <3>. QED
      BY <3>1, <3>2, <3>4 DEF SpotsOK
  <2>3. SpotsOK'
    BY <2>2 DEF SpotsOK
  <2>4. \A r, c : Member(r, c)' <=> Member(r, c)
    BY <2>1 DEF Member
  <2>5. Placed(s)'
    BY <2>2, <2>4 DEF Placed
  <2>6. \A r \in Sockets : Placed(r)'
    BY <2>2, <2>4, <2>5, OthersStay, Zenon
  <2>7. OnlyMembers' 
    BY <2>1 DEF OnlyMembers
  <2>8. EmptyIsLeft'
    <3>. SUFFICES ASSUME NEW d \in DOMAIN clients, clients[d] = {}
         PROVE \E r \in Sockets : socket'[r].pc = "reclaim" /\ socket'[r].empty
                                  /\ Feed!Here(r)' = d
      BY <2>1 DEF EmptyIsLeft
    <3>1. PICK r \in Sockets : socket[r].pc = "reclaim" /\ socket[r].empty /\ Feed!Here(r) = d
      BY DEF EmptyIsLeft
    <3>2. r # s
      BY <3>1, <2>2
    <3>. QED
      BY <3>1, <3>2, <2>2 DEF Feed!Here
  <2>. QED
    BY <2>3, <2>6, <2>7, <2>8 DEF Registered
<1>2. ASSUME UNCHANGED <<clients, socket>> PROVE Registered'
  BY <1>2 DEF Registered, SpotsOK, Placed, Member, OnlyMembers, EmptyIsLeft, Feed!Here
<1>3. \/ \E s \in Sockets : Feed!Register(s)
      \/ \E s \in Sockets : Feed!Unregister(s)
      \/ \E s \in Sockets : Feed!Reclaim(s)
      \/ \E s \in Sockets : Feed!Greet(s) \/ Feed!Close(s)
      \/ UNCHANGED <<clients, socket>>
  BY DEF Feed!Next, Feed!Forward, Feed!SinkFails, Feed!Receive, Feed!Deliver
<1>. QED
  BY <1>1, <1>2, <1>3, RegisterKeeps, UnregisterKeeps, ReclaimKeeps, Zenon

(***************************************************************************)
(* What is sent.  While its send task runs, what a socket has received and *)
(* what is queued for it are one sequence, with one greeting in it; behind *)
(* the greeting stands what its channels have carried.                     *)
(***************************************************************************)
QueuesOK ==
    /\ sender \in [Sockets -> {"none", "on", "off"}]
    /\ queue \in [Sockets -> Seq(Nat)]
    /\ got \in [Sockets -> Seq(Nat)]
    /\ due \in [Sockets -> Seq(Nat)]
    /\ published \in Nat

BridgeOK ==
    /\ bridge \in [msg : Nat, todo : SUBSET Channels]
    /\ bridge.todo # {} => bridge.msg # 0

Greeted(all, n, rest) ==
    /\ n \in 1..Len(all) /\ all[n] = 0
    /\ \A i \in 1..Len(all) : i # n => all[i] # 0
    /\ Len(all) = n + Len(rest)
    /\ \A j \in 1..Len(rest) : all[n + j] = rest[j]

Silent(q) == \A i \in 1..Len(q) : q[i] # 0

SentOK(s) ==
    /\ sender[s] = "none" <=> socket[s].pc \in {"away", "join", "greet"}
    /\ sender[s] = "on" => socket[s].pc = "open"
    /\ sender[s] = "none" => got[s] = <<>> /\ due[s] = <<>> /\ Silent(queue[s])
    /\ sender[s] = "on" => \E n \in Nat : Greeted(got[s] \o queue[s], n, due[s])

Sent == QueuesOK /\ BridgeOK /\ \A s \in Sockets : SentOK(s)

LEMMA Appended ==
    ASSUME NEW q \in Seq(Nat), NEW m \in Nat
    PROVE  /\ Append(q, m) \in Seq(Nat) /\ Len(Append(q, m)) = Len(q) + 1
           /\ Len(q) \in Nat
           /\ Append(q, m)[Len(q) + 1] = m
           /\ \A i \in 1..Len(q) : Append(q, m)[i] = q[i]
OBVIOUS

(* A message takes its place at the end of both. *)
LEMMA OneMore ==
    ASSUME NEW all \in Seq(Nat), NEW rest \in Seq(Nat), NEW n \in Nat, NEW m \in Nat,
           m # 0, Greeted(all, n, rest)
    PROVE  Greeted(Append(all, m), n, Append(rest, m))
<1> DEFINE all2 == Append(all, m)  rest2 == Append(rest, m)
<1>1. /\ Len(all2) = Len(all) + 1 /\ Len(all) \in Nat /\ all2[Len(all) + 1] = m
      /\ \A i \in 1..Len(all) : all2[i] = all[i]
  BY Appended
<1>2. /\ Len(rest2) = Len(rest) + 1 /\ Len(rest) \in Nat /\ rest2[Len(rest) + 1] = m
      /\ \A i \in 1..Len(rest) : rest2[i] = rest[i]
  BY Appended
<1> HIDE DEF all2, rest2
<1>3. Greeted(all2, n, rest2)
  <2>1. \A i \in 1..Len(all2) : i # n => all2[i] # 0
    BY <1>1, SMTT(30) DEF Greeted
  <2>2. \A j \in 1..Len(rest2) : all2[n + j] = rest2[j]
    <3>. SUFFICES ASSUME NEW j \in 1..Len(rest2) PROVE all2[n + j] = rest2[j]
      OBVIOUS
    <3>0. Len(all) = n + Len(rest) /\ \A i \in 1..Len(rest) : all[n + i] = rest[i]
      BY DEF Greeted
    <3>1. CASE j = Len(rest) + 1
      <4>1. n + j = Len(all) + 1
        BY <3>0, <3>1, <1>2
      <4>. QED
        BY <3>1, <4>1, <1>1, <1>2
    <3>2. CASE j \in 1..Len(rest)
      <4>1. n + j \in 1..Len(all)
        BY <3>0, <3>2, <1>2
      <4>2. all2[n + j] = all[n + j] /\ rest2[j] = rest[j] /\ all[n + j] = rest[j]
        BY <3>0, <3>2, <4>1, <1>1, <1>2
      <4>. QED
        BY <4>2
    <3>. QED
      BY <3>1, <3>2, <1>2
  <2>. QED
    BY <2>1, <2>2, <1>1, <1>2 DEF Greeted
<1>. QED
  BY <1>3 DEF all2, rest2

LEMMA QueuedLast ==
    ASSUME NEW g \in Seq(Nat), NEW q \in Seq(Nat), NEW m \in Nat
    PROVE  g \o q \in Seq(Nat) /\ g \o Append(q, m) = Append(g \o q, m)
<1>1. g \o q \in Seq(Nat)
  BY ConcatProperties
<1>2. Append(q, m) = q \o <<m>> /\ Append(g \o q, m) = (g \o q) \o <<m>>
  BY <1>1, AppendIsConcat
<1>3. (g \o q) \o <<m>> = g \o (q \o <<m>>)
  <2>. DEFINE last == <<m>>
  <2>1. last \in Seq(Nat)
    OBVIOUS
  <2>. HIDE DEF last
  <2>2. (g \o q) \o last = g \o (q \o last)
    BY <2>1, ConcatAssociative, SMTT(30)
  <2>. QED
    BY <2>2 DEF last
<1>. QED
  BY <1>1, <1>2, <1>3, Zenon

(* The head of the queue goes from the one to the other. *)
LEMMA HeadMoves ==
    ASSUME NEW g \in Seq(Nat), NEW q \in Seq(Nat), q # <<>>
    PROVE  /\ Append(g, Head(q)) \in Seq(Nat) /\ Tail(q) \in Seq(Nat)
           /\ Append(g, Head(q)) \o Tail(q) = g \o q
<1> DEFINE h == Head(q)  w == Tail(q)
<1>1. h \in Nat /\ w \in Seq(Nat) /\ <<h>> \in Seq(Nat)
  BY HeadTailProperties
<1>2. q = <<h>> \o w
  <2>1. /\ Len(<<h>>) = 1 /\ <<h>>[1] = h
    OBVIOUS
  <2>2. /\ <<h>> \o w \in Seq(Nat) /\ Len(<<h>> \o w) = 1 + Len(w)
        /\ \A i \in 1..(1 + Len(w)) :
              (<<h>> \o w)[i] = IF i <= 1 THEN <<h>>[i] ELSE w[i - 1]
    BY <1>1, <2>1, ConcatProperties
  <2>3. /\ Len(q) = 1 + Len(w) /\ Len(w) \in Nat /\ q[1] = h
        /\ \A i \in 1..Len(w) : w[i] = q[i + 1]
    BY HeadTailProperties
  <2> HIDE DEF h, w
  <2>4. \A i \in 1..Len(q) : q[i] = (<<h>> \o w)[i]
    <3>. SUFFICES ASSUME NEW i \in 1..Len(q) PROVE q[i] = (<<h>> \o w)[i]
      OBVIOUS
    <3>1. CASE i = 1
      BY <3>1, <2>1, <2>2, <2>3
    <3>2. CASE i # 1
      <4>1. i - 1 \in 1..Len(w) /\ i - 1 + 1 = i
        BY <3>2, <2>3
      <4>2. (<<h>> \o w)[i] = w[i - 1]
        BY <3>2, <2>2, <2>3
      <4>. QED
        BY <4>1, <4>2, <2>3
    <3>. QED
      BY <3>1, <3>2
  <2>. QED
    BY <2>2, <2>3, <2>4, SeqEqual
<1>3. Append(g, h) = g \o <<h>> /\ Append(g, h) \in Seq(Nat)
  BY <1>1, AppendIsConcat
<1> HIDE DEF h, w
<1>4. Append(g, h) \o w = g \o q
  BY <1>1, <1>2, <1>3, ConcatAssociative
<1>. QED
  BY <1>1, <1>3, <1>4 DEF h, w

(* There is one greeting to find, and what is behind it is the rest. *)
LEMMA Behind ==
    ASSUME NEW all \in Seq(Nat), NEW rest \in Seq(Nat), NEW n \in Nat, Greeted(all, n, rest)
    PROVE  LET greeting == CHOOSE i \in DOMAIN all : all[i] = 0
           IN  SubSeq(all, greeting + 1, Len(all)) = rest
<1> DEFINE greeting == CHOOSE i \in DOMAIN all : all[i] = 0
<1>1. DOMAIN all = 1..Len(all) /\ Len(all) \in Nat /\ Len(rest) \in Nat
  BY LenProperties
<1>2. greeting = n
  BY <1>1 DEF Greeted
<1> HIDE DEF greeting
<1>3. \A i \in (n + 1)..Len(all) : all[i] \in Nat
  BY <1>1, ElementOfSeq
<1>4. /\ SubSeq(all, n + 1, Len(all)) \in Seq(Nat)
      /\ Len(SubSeq(all, n + 1, Len(all))) = IF n + 1 <= Len(all) THEN Len(all) - (n + 1) + 1 ELSE 0
      /\ \A j \in 1..(Len(all) - (n + 1) + 1) :
            SubSeq(all, n + 1, Len(all))[j] = all[n + 1 + j - 1]
  BY <1>1, <1>3, SubSeqProperties
<1>5. Len(SubSeq(all, n + 1, Len(all))) = Len(rest)
  BY <1>1, <1>4 DEF Greeted
<1>6. \A j \in 1..Len(rest) : SubSeq(all, n + 1, Len(all))[j] = rest[j]
  BY <1>1, <1>4 DEF Greeted
<1>7. SubSeq(all, n + 1, Len(all)) = rest
  BY <1>4, <1>5, <1>6, SeqEqual
<1>. QED
  BY <1>2, <1>7 DEF greeting

Untaken(r) ==
    /\ sender'[r] = sender[r] /\ socket'[r].pc = socket[r].pc
    /\ queue'[r] = queue[r] /\ got'[r] = got[r] /\ due'[r] = due[r]

LEMMA StaysSent ==
    ASSUME NEW r \in Sockets, SentOK(r), Untaken(r) PROVE SentOK(r)'
BY DEF SentOK, Untaken

LEMMA SentInit ==
    ASSUME Feed!Init PROVE Sent
<1>1. <<>> \in Seq(Nat) /\ Len(<<>>) = 0
  BY EmptySeq
<1>2. QueuesOK /\ BridgeOK
  BY <1>1 DEF Feed!Init, QueuesOK, BridgeOK
<1>3. ASSUME NEW s \in Sockets PROVE SentOK(s)
  <2>1. /\ sender[s] = "none" /\ socket[s].pc = "away"
        /\ queue[s] = <<>> /\ got[s] = <<>> /\ due[s] = <<>>
    BY DEF Feed!Init
  <2>2. Silent(queue[s])
    BY <2>1, <1>1 DEF Silent
  <2>. QED
    BY <2>1, <2>2 DEF SentOK
<1>. QED
  BY <1>2, <1>3 DEF Sent

(* The steps of a socket on its way in and out. *)
LEMMA SentMoving ==
    ASSUME FeedGiven, Registered, Sent, NEW s \in Sockets,
           Feed!Register(s) \/ Feed!Unregister(s) \/ Feed!Reclaim(s)
    PROVE  Sent'
<1>. SpotsOK /\ QueuesOK /\ BridgeOK /\ \A r \in Sockets : SentOK(r)
  BY DEF Sent, Registered
<1>1. UNCHANGED <<sender, queue, got, bridge, published, due>>
  BY DEF Feed!Register, Feed!Unregister, Feed!Reclaim
<1>2. QueuesOK' /\ BridgeOK'
  BY <1>1 DEF QueuesOK, BridgeOK
<1>3. /\ \A r \in Sockets : r # s => socket'[r] = socket[r]
      /\ \/ /\ socket[s].pc \in {"away", "join"} /\ socket'[s].pc \in {"join", "greet"}
         \/ /\ socket[s].pc \in {"leave", "reclaim"}
            /\ socket'[s].pc \in {"leave", "reclaim", "gone"}
  <2>1. CASE Feed!Register(s)
    <3>1. socket[s].pc \in {"away", "join"} /\ Feed!Step(s, "join", "greet")
      BY <2>1 DEF Feed!Register
    <3>2. /\ \A r \in Sockets : r # s => socket'[r] = socket[r]
          /\ socket'[s].pc \in {"join", "greet"}
      BY <3>1, StepsOn
    <3>. QED
      BY <3>1, <3>2
  <2>2. CASE Feed!Reclaim(s)
    <3>1. socket[s].pc = "reclaim" /\ Feed!Step(s, "leave", "gone")
      BY <2>2 DEF Feed!Reclaim, Feed!At
    <3>2. /\ \A r \in Sockets : r # s => socket'[r] = socket[r]
          /\ socket'[s].pc \in {"leave", "gone"}
      BY <3>1, StepsOn
    <3>. QED
      BY <3>1, <3>2
  <2>3. CASE Feed!Unregister(s)
    BY <2>3 DEF Feed!Unregister, Feed!At, SpotsOK, Spots
  <2>. QED
    BY <2>1, <2>2, <2>3
<1>4. \A r \in Sockets : r # s => SentOK(r)'
  BY <1>1, <1>3, StaysSent DEF Untaken
<1>5. SentOK(s)'
  <2>1. /\ sender'[s] = sender[s] /\ queue'[s] = queue[s] /\ got'[s] = got[s]
        /\ due'[s] = due[s]
    BY <1>1
  <2>2. SentOK(s) /\ sender[s] # "on"
    BY <1>3 DEF SentOK
  <2>. QED
    BY <2>1, <2>2, <1>3 DEF SentOK
<1>. QED
  BY <1>2, <1>4, <1>5 DEF Sent

LEMMA SentGreet ==
    ASSUME FeedGiven, Registered, Sent, NEW s \in Sockets, Feed!Greet(s)
    PROVE  Sent'
<1>. SpotsOK /\ QueuesOK /\ BridgeOK /\ \A r \in Sockets : SentOK(r)
  BY DEF Sent, Registered
<1>1. /\ socket[s].pc = "greet" /\ socket' = [socket EXCEPT ![s].pc = "open"]
      /\ sender' = [sender EXCEPT ![s] = "on"]
      /\ queue' = [queue EXCEPT ![s] = Append(@, 0)]
      /\ UNCHANGED <<got, bridge, published, due>>
  BY DEF Feed!Greet, Feed!At
<1>2. /\ queue[s] \in Seq(Nat) /\ Append(queue[s], 0) \in Seq(Nat)
      /\ Len(Append(queue[s], 0)) = Len(queue[s]) + 1 /\ Len(queue[s]) \in Nat
      /\ Append(queue[s], 0)[Len(queue[s]) + 1] = 0
      /\ \A i \in 1..Len(queue[s]) : Append(queue[s], 0)[i] = queue[s][i]
  BY DEF QueuesOK
<1> DEFINE q2 == Append(queue[s], 0)
<1>3. /\ queue' \in [Sockets -> Seq(Nat)] /\ queue'[s] = q2
      /\ \A r \in Sockets : r # s => queue'[r] = queue[r]
  BY <1>1, <1>2 DEF QueuesOK
<1> HIDE DEF q2
<1>4. /\ sender' \in [Sockets -> {"none", "on", "off"}] /\ sender'[s] = "on"
      /\ \A r \in Sockets : r # s => sender'[r] = sender[r]
  BY <1>1 DEF QueuesOK
<1>5. /\ socket'[s].pc = "open" /\ \A r \in Sockets : r # s => socket'[r] = socket[r]
  BY <1>1 DEF SpotsOK, Spots
<1>6. QueuesOK' /\ BridgeOK'
  BY <1>1, <1>3, <1>4 DEF QueuesOK, BridgeOK
<1>7. \A r \in Sockets : r # s => SentOK(r)'
  BY <1>1, <1>3, <1>4, <1>5, StaysSent DEF Untaken
<1>8. sender[s] = "none" /\ got[s] = <<>> /\ due[s] = <<>> /\ Silent(queue[s])
  BY <1>1 DEF SentOK
<1>9. <<>> \o q2 = q2
  BY <1>2, ConcatEmptySeq DEF q2
<1>10. Greeted(q2, Len(queue[s]) + 1, <<>>)
  <2> DEFINE n == Len(queue[s]) + 1
  <2>1. /\ Len(q2) = n /\ n \in Nat \ {0} /\ q2[n] = 0
        /\ \A i \in 1..(n - 1) : q2[i] = queue[s][i] /\ queue[s][i] # 0
    BY <1>2, <1>8 DEF q2, Silent
  <2>2. <<>> \in Seq(Nat) /\ Len(<<>>) = 0
    BY EmptySeq
  <2> HIDE DEF n
  <2>3. \A i \in 1..Len(q2) : i # n => q2[i] # 0
    BY <2>1
  <2>4. Greeted(q2, n, <<>>)
    BY <2>1, <2>2, <2>3 DEF Greeted
  <2>. QED
    BY <2>4 DEF n
<1>11. SentOK(s)'
  <2>1. got'[s] = <<>> /\ due'[s] = <<>> /\ queue'[s] = q2
    BY <1>1, <1>3, <1>8
  <2>2. \E n \in Nat : Greeted(got'[s] \o queue'[s], n, due'[s])
    <3>1. Len(queue[s]) + 1 \in Nat
      BY <1>2
    <3>. QED
      BY <2>1, <1>9, <1>10, <3>1, Zenon
  <2>. QED
    BY <2>2, <1>4, <1>5 DEF SentOK
<1>. QED
  BY <1>6, <1>7, <1>11 DEF Sent

LEMMA SentForward ==
    ASSUME Sent, NEW s \in Sockets, Feed!Forward(s)
    PROVE  Sent'
<1>. QueuesOK /\ BridgeOK /\ \A r \in Sockets : SentOK(r)
  BY DEF Sent
<1> DEFINE q2 == Tail(queue[s])  g2 == Append(got[s], Head(queue[s]))
<1>1. /\ sender[s] = "on" /\ queue[s] # <<>>
      /\ queue' = [queue EXCEPT ![s] = q2] /\ got' = [got EXCEPT ![s] = g2]
      /\ UNCHANGED <<socket, sender, bridge, published, due>>
  BY DEF Feed!Forward
<1>2. queue[s] \in Seq(Nat) /\ got[s] \in Seq(Nat)
  BY DEF QueuesOK
<1>3. q2 \in Seq(Nat) /\ g2 \in Seq(Nat) /\ g2 \o q2 = got[s] \o queue[s]
  BY <1>1, <1>2, HeadMoves
<1> HIDE DEF q2, g2
<1>4. /\ queue' \in [Sockets -> Seq(Nat)] /\ queue'[s] = q2
      /\ got' \in [Sockets -> Seq(Nat)] /\ got'[s] = g2
      /\ \A r \in Sockets : r # s => queue'[r] = queue[r] /\ got'[r] = got[r]
  BY <1>1, <1>3 DEF QueuesOK
<1>5. QueuesOK' /\ BridgeOK'
  BY <1>1, <1>4 DEF QueuesOK, BridgeOK
<1>6. \A r \in Sockets : r # s => SentOK(r)'
  BY <1>1, <1>4, StaysSent DEF Untaken
<1>7. SentOK(s)'
  <2>1. got'[s] \o queue'[s] = got[s] \o queue[s]
    BY <1>3, <1>4
  <2>2. SentOK(s)
    OBVIOUS
  <2>3. sender'[s] = "on" /\ socket'[s] = socket[s] /\ due'[s] = due[s]
    BY <1>1
  <2>4. \E n \in Nat : Greeted(got'[s] \o queue'[s], n, due'[s])
    BY <1>1, <2>1, <2>2, <2>3 DEF SentOK
  <2>. QED
    BY <1>1, <2>2, <2>3, <2>4 DEF SentOK
<1>. QED
  BY <1>5, <1>6, <1>7 DEF Sent

(* The send task ends, on its own or with the socket. *)
LEMMA SentEnds ==
    ASSUME Registered, Sent, NEW s \in Sockets, Feed!SinkFails(s) \/ Feed!Close(s)
    PROVE  Sent'
<1>. SpotsOK /\ QueuesOK /\ BridgeOK /\ \A r \in Sockets : SentOK(r)
  BY DEF Sent, Registered
<1>1. /\ sender' = [sender EXCEPT ![s] = "off"] /\ queue' = [queue EXCEPT ![s] = <<>>]
      /\ UNCHANGED <<got, bridge, published, due>>
  <2>1. CASE Feed!SinkFails(s)
    BY <2>1 DEF Feed!SinkFails
  <2>2. CASE Feed!Close(s)
    BY <2>2 DEF Feed!Close
  <2>. QED
    BY <2>1, <2>2
<1>2. <<>> \in Seq(Nat)
  BY EmptySeq
<1>3. /\ queue' \in [Sockets -> Seq(Nat)] /\ sender' \in [Sockets -> {"none", "on", "off"}]
      /\ sender'[s] = "off"
      /\ \A r \in Sockets : r # s => queue'[r] = queue[r] /\ sender'[r] = sender[r]
  BY <1>1, <1>2 DEF QueuesOK
<1>4. QueuesOK' /\ BridgeOK'
  BY <1>1, <1>3 DEF QueuesOK, BridgeOK
<1>5. /\ \A r \in Sockets : r # s => socket'[r] = socket[r]
      /\ socket'[s].pc \in {"open", "leave"}
  <2>1. CASE Feed!SinkFails(s)
    BY <2>1 DEF Feed!SinkFails, SentOK
  <2>2. CASE Feed!Close(s)
    BY <2>2 DEF Feed!Close, Feed!At, SpotsOK, Spots
  <2>. QED
    BY <2>1, <2>2
<1>6. \A r \in Sockets : r # s => SentOK(r)'
  BY <1>1, <1>3, <1>5, StaysSent DEF Untaken
<1>7. SentOK(s)'
  BY <1>3, <1>5 DEF SentOK
<1>. QED
  BY <1>4, <1>6, <1>7 DEF Sent

LEMMA SentReceive ==
    ASSUME Sent, Feed!Receive PROVE Sent'
<1>. QueuesOK /\ BridgeOK /\ \A r \in Sockets : SentOK(r)
  BY DEF Sent
<1>1. /\ published' = published + 1
      /\ UNCHANGED <<clients, socket, sender, queue, got, due>>
  BY DEF Feed!Receive
<1>2. PICK to \in {{c} : c \in Channels} \cup {Channels, {}} :
         bridge' = [msg |-> published + 1, todo |-> to]
  BY DEF Feed!Receive
<1>3. published + 1 \in Nat /\ published + 1 # 0 /\ to \in SUBSET Channels
  BY DEF QueuesOK
<1>4. QueuesOK' /\ BridgeOK'
  BY <1>1, <1>2, <1>3 DEF QueuesOK, BridgeOK
<1>5. \A r \in Sockets : SentOK(r)'
  BY <1>1, StaysSent DEF Untaken
<1>. QED
  BY <1>4, <1>5 DEF Sent

(* To an open socket a message comes by the channels that are its own. *)
LEMMA OpenIsMember ==
    ASSUME FeedGiven, Registered, NEW s \in Sockets, socket[s].pc = "open", NEW c
    PROVE  (c \in DOMAIN clients /\ s \in clients[c]) <=> c \in Feed!Chan(s)
<1>1. Feed!Chan(s) = {ChannelsOf[s][i] : i \in 1..Len(ChannelsOf[s])}
  BY HereIsMine DEF Registered
<1>2. \A i \in 1..Len(ChannelsOf[s]) : Member(s, ChannelsOf[s][i])
  BY DEF Registered, Placed
<1>. QED
  BY <1>1, <1>2 DEF Registered, OnlyMembers, Member

LEMMA SentDeliver ==
    ASSUME FeedGiven, Registered, Sent, NEW c \in Channels, Feed!Deliver(c)
    PROVE  Sent'
<1>. QueuesOK /\ BridgeOK /\ \A r \in Sockets : SentOK(r)
  BY DEF Sent
<1> DEFINE m == bridge.msg
           listed(s) == c \in DOMAIN clients /\ s \in clients[c]
<1>1. /\ c \in bridge.todo /\ bridge' = [bridge EXCEPT !.todo = @ \ {c}]
      /\ queue' = [s \in Sockets |-> IF listed(s) /\ sender[s] # "off"
                                     THEN Append(queue[s], m) ELSE queue[s]]
      /\ due' = [s \in Sockets |-> IF sender[s] = "on" /\ c \in Feed!Chan(s)
                                   THEN Append(due[s], m) ELSE due[s]]
      /\ UNCHANGED <<clients, socket, sender, got, published>>
  BY DEF Feed!Deliver
<1>2. BridgeOK'
  <2>1. bridge.msg \in Nat /\ bridge.todo \in SUBSET Channels /\ bridge.msg # 0
        /\ bridge = [msg |-> bridge.msg, todo |-> bridge.todo]
    BY <1>1 DEF BridgeOK
  <2>2. bridge' = [msg |-> bridge.msg, todo |-> bridge.todo \ {c}]
    BY <1>1, <2>1
  <2>. QED
    BY <2>1, <2>2 DEF BridgeOK
<1>3. m \in Nat /\ m # 0
  BY <1>1 DEF BridgeOK
<1> HIDE DEF m
<1>4. \A s \in Sockets : /\ queue[s] \in Seq(Nat) /\ Append(queue[s], m) \in Seq(Nat)
                         /\ due[s] \in Seq(Nat) /\ Append(due[s], m) \in Seq(Nat)
                         /\ got[s] \in Seq(Nat)
  BY <1>3, Appended DEF QueuesOK
<1>5. QueuesOK'
  <2>1. queue' \in [Sockets -> Seq(Nat)] /\ due' \in [Sockets -> Seq(Nat)]
    BY <1>1, <1>4
  <2>. QED
    BY <1>1, <2>1 DEF QueuesOK
<1>6. ASSUME NEW s \in Sockets PROVE SentOK(s)'
  <2>. SentOK(s)
    OBVIOUS
  <2>1. /\ sender'[s] = sender[s] /\ socket'[s] = socket[s] /\ got'[s] = got[s]
        /\ queue'[s] = IF listed(s) /\ sender[s] # "off" THEN Append(queue[s], m) ELSE queue[s]
        /\ due'[s] = IF sender[s] = "on" /\ c \in Feed!Chan(s)
                     THEN Append(due[s], m) ELSE due[s]
    BY <1>1
  <2>2. CASE sender[s] = "on"
    <3>1. listed(s) <=> c \in Feed!Chan(s)
      BY <2>2, OpenIsMember DEF SentOK
    <3>2. PICK n \in Nat : Greeted(got[s] \o queue[s], n, due[s])
      BY <2>2 DEF SentOK
    <3> HIDE DEF listed
    <3>3. CASE listed(s)
      <4>1. queue'[s] = Append(queue[s], m) /\ due'[s] = Append(due[s], m)
        BY <2>1, <2>2, <3>1, <3>3
      <4>2. /\ got[s] \o queue[s] \in Seq(Nat)
            /\ got[s] \o Append(queue[s], m) = Append(got[s] \o queue[s], m)
        BY <1>3, <1>4, QueuedLast
      <4>3. Greeted(Append(got[s] \o queue[s], m), n, Append(due[s], m))
        BY <1>3, <1>4, <3>2, <4>2, OneMore
      <4>4. \E k \in Nat : Greeted(got'[s] \o queue'[s], k, due'[s])
        BY <2>1, <4>1, <4>2, <4>3, Zenon
      <4>. QED
        BY <2>1, <2>2, <4>4 DEF SentOK
    <3>4. CASE ~listed(s)
      <4>1. queue'[s] = queue[s] /\ due'[s] = due[s]
        BY <2>1, <3>1, <3>4
      <4>. QED
        BY <2>1, <4>1, StaysSent DEF Untaken
    <3>. QED
      BY <3>3, <3>4
  <2>3. CASE sender[s] = "none"
    <3>1. due'[s] = <<>> /\ got'[s] = <<>> /\ Silent(queue[s])
      BY <2>1, <2>3 DEF SentOK
    <3>2. Silent(Append(queue[s], m))
      <4>1. /\ Len(Append(queue[s], m)) = Len(queue[s]) + 1 /\ Len(queue[s]) \in Nat
            /\ Append(queue[s], m)[Len(queue[s]) + 1] = m
            /\ \A i \in 1..Len(queue[s]) : Append(queue[s], m)[i] = queue[s][i]
        BY <1>3, <1>4, Appended
      <4>2. ASSUME NEW i \in 1..(Len(queue[s]) + 1) PROVE Append(queue[s], m)[i] # 0
        <5>1. CASE i = Len(queue[s]) + 1
          BY <5>1, <4>1, <1>3
        <5>2. CASE i \in 1..Len(queue[s])
          BY <5>2, <4>1, <3>1 DEF Silent
        <5>. QED
          BY <5>1, <5>2, <4>1
      <4>. QED
        BY <4>1, <4>2 DEF Silent
    <3>3. Silent(queue'[s])
      BY <2>1, <3>1, <3>2
    <3>. QED
      BY <2>1, <2>3, <3>1, <3>3 DEF SentOK
  <2>4. CASE sender[s] = "off"
    <3>1. sender'[s] # "on" /\ sender'[s] # "none" /\ sender[s] # "none"
      BY <2>1, <2>4
    <3>. QED
      BY <2>1, <3>1 DEF SentOK
  <2>. QED
    BY <2>2, <2>3, <2>4 DEF QueuesOK
<1>. QED
  BY <1>2, <1>5, <1>6 DEF Sent

LEMMA SentNext ==
    ASSUME FeedGiven, Registered, Sent, Feed!Next PROVE Sent'
<1>1. \/ \E s \in Sockets : Feed!Register(s) \/ Feed!Unregister(s) \/ Feed!Reclaim(s)
      \/ \E s \in Sockets : Feed!Greet(s)
      \/ \E s \in Sockets : Feed!Forward(s)
      \/ \E s \in Sockets : Feed!SinkFails(s) \/ Feed!Close(s)
      \/ Feed!Receive
      \/ \E c \in Channels : Feed!Deliver(c)
  BY DEF Feed!Next
<1>. QED
  BY <1>1, SentMoving, SentGreet, SentForward, SentEnds, SentReceive, SentDeliver, Zenon

(* hub.rs: a greeted socket gets what its channels carry, in order; and a  *)
(* channel that is in the map is that of a socket which is not gone.       *)
THEOREM FeedStaysWhole ==
    ASSUME FeedGiven PROVE Feed!Spec => []FeedIsWhole
<1>1. Feed!Init => Registered /\ Sent
  BY RegisteredInit, SentInit
<1>2. Registered /\ Sent /\ [Feed!Next]_Feed!vars => (Registered /\ Sent)'
  <2>. SUFFICES ASSUME Registered, Sent, [Feed!Next]_Feed!vars PROVE (Registered /\ Sent)'
    OBVIOUS
  <2>1. CASE Feed!Next
    BY <2>1, RegisteredNext, SentNext
  <2>2. CASE UNCHANGED Feed!vars
    <3>1. Registered'
      BY <2>2 DEF Feed!vars, Registered, SpotsOK, Placed, Member, OnlyMembers,
                  EmptyIsLeft, Feed!Here
    <3>2. QueuesOK' /\ BridgeOK'
      BY <2>2 DEF Feed!vars, Sent, QueuesOK, BridgeOK
    <3>3. \A s \in Sockets : SentOK(s)'
      BY <2>2, StaysSent DEF Feed!vars, Sent, Untaken
    <3>. QED
      BY <3>1, <3>2, <3>3 DEF Sent
  <2>. QED
    BY <2>1, <2>2
<1>3. Registered /\ Sent => FeedIsWhole
  <2>. SUFFICES ASSUME Registered, Sent PROVE Feed!FeedIsWhole
    BY DEF FeedIsWhole
  <2>1. ASSUME NEW s \in Sockets, sender[s] = "on" PROVE Feed!Heard(s) = due[s]
    <3>1. PICK n \in Nat : Greeted(got[s] \o queue[s], n, due[s])
      BY <2>1 DEF Sent, SentOK
    <3>2. got[s] \in Seq(Nat) /\ queue[s] \in Seq(Nat) /\ due[s] \in Seq(Nat)
      BY DEF Sent, QueuesOK
    <3> DEFINE all == got[s] \o queue[s]
    <3>3. all \in Seq(Nat) /\ Feed!Heard(s) =
             LET greeting == CHOOSE i \in DOMAIN all : all[i] = 0
             IN  SubSeq(all, greeting + 1, Len(all))
      BY <3>2, ConcatProperties DEF Feed!Heard
    <3>4. Greeted(all, n, due[s])
      BY <3>1
    <3> HIDE DEF all
    <3>. QED
      BY <3>2, <3>3, <3>4, Behind, Zenon
  <2>2. ASSUME NEW c \in DOMAIN clients
        PROVE \E s \in Sockets : c \in Feed!Chan(s) /\ ~Feed!At(s, "away")
                                 /\ ~Feed!At(s, "gone")
    <3>1. CASE clients[c] = {}
      <4>1. PICK s \in Sockets : socket[s].pc = "reclaim" /\ Feed!Here(s) = c
        BY <3>1 DEF Registered, EmptyIsLeft
      <4>2. c \in Feed!Chan(s)
        BY <4>1, HereIsMine DEF Registered
      <4>. QED
        BY <4>1, <4>2 DEF Feed!At
    <3>2. CASE clients[c] # {}
      <4>1. PICK s \in clients[c] : TRUE
        BY <3>2
      <4>2. s \in Sockets /\ c \in Feed!Chan(s) /\ Member(s, c) /\ Placed(s)
        BY <4>1 DEF Registered, OnlyMembers, Member
      <4>3. PICK i \in 1..Len(ChannelsOf[s]) : c = ChannelsOf[s][i]
        BY <4>2, HereIsMine DEF Registered
      <4>4. socket[s].pc \notin {"away", "gone"}
        BY <4>2, <4>3 DEF Placed
      <4>. QED
        BY <4>2, <4>4 DEF Feed!At
    <3>. QED
      BY <3>1, <3>2
  <2>. QED
    BY <2>1, <2>2 DEF Feed!FeedIsWhole
<1>. QED
  BY <1>1, <1>2, <1>3, PTL DEF Feed!Spec
==============================================================================
