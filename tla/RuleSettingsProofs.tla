------------------------- MODULE RuleSettingsProofs -------------------------
(* Proofs about RuleSettings, for any users, lists and bounds: saves that      *)
(* overlap, fail or are cut off by a crash, and wins between any two steps.    *)
EXTENDS RuleSettings, FiniteSetTheorems, SequenceTheorems, WellFoundedInduction,
        TLAPS

(***************************************************************************)
(* Typing.                                                                 *)
(***************************************************************************)
Row == [lane : Lanes, byId : BOOLEAN, cap : Nat, count : Nat]

Rule == [lane : Lanes, byId : BOOLEAN, cap : Nat, ids : SUBSET BookingIds]

Tables == UNION {[ids -> Row] : ids \in SUBSET RowIds}

BeforeInsert == {"gate", "spend", "delete", "insert"}
AfterInsert  == {"targets", "switch", "rows", "send", "reply"}

Save == [pc : BeforeInsert \cup AfterInsert, book : Books, want : BOOLEAN,
         doomed : SUBSET RowIds, n : 0..MaxSaves, at : Nat, got : Tables,
         overlap : BOOLEAN]

TablesOK ==
    /\ rows \in Tables
    /\ DOMAIN targets \subseteq DOMAIN rows
    /\ \A id \in DOMAIN targets : targets[id] \subseteq BookingIds
    /\ enabled \in BOOLEAN

RulesOK(set) == \A id \in DOMAIN set : set[id] \in Rule

PagesOK ==
    /\ proof \in [Users -> BOOLEAN]
    /\ page \in [Users -> [Lanes -> Nat]]

CallsOK ==
    /\ call \in [Users -> {Idle} \cup Save]
    /\ \A u \in Users : call[u] # Idle =>
           /\ call[u].pc \in BeforeInsert <=> call[u].n = 0
           /\ call[u].pc = "targets" => call[u].at \in DOMAIN call[u].book

Ghost == [due : [Lanes -> Nat], fresh : [Users -> BOOLEAN], synced : BOOLEAN,
          exact : BOOLEAN, overlaps : Nat, refused : BOOLEAN, hidden : BOOLEAN,
          arms : Nat]

CountersOK ==
    /\ saves \in 0..MaxSaves
    /\ ghost \in Ghost
    /\ proofs \in Nat

Types ==
    /\ TablesOK /\ PagesOK /\ CallsOK /\ CountersOK
    /\ RulesOK(channel) /\ RulesOK(running)

(***************************************************************************)
(* Overlaps.                                                               *)
(***************************************************************************)
LoneIsAlone ==
    \A u, v \in Users :
        (call[u] # Idle /\ call[v] # Idle /\ u # v) => call[u].overlap

OverlapsAreCounted ==
    ghost.overlaps = 0 => \A u \in Users : call[u] # Idle => ~call[u].overlap

Overlaps == LoneIsAlone /\ OverlapsAreCounted

Lone(u) == call[u] # Idle /\ ~call[u].overlap

(***************************************************************************)
(* What a lone save finds in the tables.                                   *)
(***************************************************************************)
DoomsAll ==
    \A u \in Users : (Lone(u) /\ call[u].pc = "insert") => call[u].doomed = DOMAIN rows

OwnTables ==
    \A u \in Users : (Lone(u) /\ call[u].pc = "targets") =>
        /\ DOMAIN rows = {<<call[u].n, i>> : i \in DOMAIN call[u].book}
        /\ \A id \in DOMAIN targets : targets[id] = call[u].book[id[2]].ids

Heals == SaveHeals /\ DoomsAll /\ OwnTables

(***************************************************************************)
(* What is pushed.                                                         *)
(***************************************************************************)
SameRules(f, g) ==
    /\ DOMAIN f = DOMAIN g
    /\ \A id \in DOMAIN f :
           f[id].lane = g[id].lane /\ f[id].byId = g[id].byId /\ f[id].cap = g[id].cap

LoadIsCurrent ==
    \A u \in Users : (Lone(u) /\ call[u].pc = "send") => SameRules(call[u].got, rows)

TargetsUnsent == \A u \in Users : call[u].pc = "targets" => ~ghost.synced

Pushed == SaveIsPushed /\ LoadIsCurrent /\ TargetsUnsent

(***************************************************************************)
(* Counts.                                                                 *)
(***************************************************************************)
LaneOnce == \A i, j \in DOMAIN rows : rows[i].lane = rows[j].lane => i = j

GoneIsZero ==
    \A l \in Lanes : (\A id \in DOMAIN rows : rows[id].lane # l) => ghost.due[l] = 0

Echoes(u) == {l \in Lanes : \/ call[u] = Idle
                            \/ call[u].n # 0
                            \/ l \in LanesOf(call[u].book)}

FreshIsDue ==
    \A u \in Users : ghost.fresh[u] =>
        \A l \in Echoes(u) : page[u][l] = ghost.due[l]

TheRestIsZero ==
    \A u \in Users : \A l \in Lanes \ Echoes(u) : page[u][l] = 0

Exact ==
    /\ TheRestIsZero
    /\ CountsAreExact
    /\ ghost.exact => LaneOnce /\ GoneIsZero /\ FreshIsDue

(***************************************************************************)
(* Arming.                                                                 *)
(***************************************************************************)
Proved == {u \in Users : proof[u]}

Unspent == {u \in Users : proof[u] /\ call[u].pc # "spend"}

Armed == {"spend", "delete", "insert", "targets", "switch"}

Arming == {u \in Users : call[u].pc \in Armed /\ call[u].want /\ ~enabled}

GateIsOff ==
    \A u \in Users : call[u].pc \in {"gate", "spend"} =>
        call[u].want /\ (ghost.overlaps = 0 => ~enabled)

\* Every verification earns one arming: it waits in Redis, or in a save that
\* passed the gate with it, or it was used.
Used == ghost.arms + Cardinality(Unspent) + (IF Arming = {} THEN 0 ELSE 1)

Credit ==
    /\ IsFiniteSet(Proved)
    /\ ghost.overlaps = 0 => Used <= proofs

Earned == GateIsOff /\ Credit

-----------------------------------------------------------------------------
(* Tables and rules. *)

LEMMA TableIs ==
    ASSUME NEW f
    PROVE  f \in Tables <=> /\ f = [id \in DOMAIN f |-> f[id]]
                            /\ DOMAIN f \subseteq RowIds
                            /\ \A id \in DOMAIN f : f[id] \in Row
<1>1. ASSUME f \in Tables
      PROVE  /\ f = [id \in DOMAIN f |-> f[id]]
             /\ DOMAIN f \subseteq RowIds
             /\ \A id \in DOMAIN f : f[id] \in Row
  <2>1. PICK ids \in SUBSET RowIds : f \in [ids -> Row]
    BY <1>1 DEF Tables
  <2>. QED
    BY <2>1
<1>2. ASSUME f = [id \in DOMAIN f |-> f[id]], DOMAIN f \subseteq RowIds,
             \A id \in DOMAIN f : f[id] \in Row
      PROVE  f \in Tables
  <2>1. f \in [DOMAIN f -> Row]
    BY <1>2
  <2>. QED
    BY <2>1, <1>2 DEF Tables
<1>. QED
  BY <1>1, <1>2

LEMMA NoIdsIsTable == NoIds \in Tables /\ DOMAIN NoIds = {}
BY TableIs DEF NoIds

LEMMA BookIs ==
    ASSUME NEW book \in Books
    PROVE  /\ DOMAIN book = 1..Len(book) /\ Len(book) \in Nat
           /\ \A i \in DOMAIN book :
                  /\ book[i].lane \in Lanes /\ book[i].cap \in Nat
                  /\ book[i].ids \subseteq BookingIds
           /\ \A i, j \in DOMAIN book : i # j =>
                  /\ book[i].lane # book[j].lane
                  /\ book[i].ids \cap book[j].ids = {}
<1> DEFINE Listed == [lane : Lanes, cap : Nat,
                      ids : SUBSET UNION {book[i].ids : i \in DOMAIN book}]
<1>1. book \in Seq(Listed)
  BY BooksAssumption
<1>2. /\ DOMAIN book = 1..Len(book) /\ Len(book) \in Nat
      /\ \A i \in DOMAIN book : book[i].lane \in Lanes /\ book[i].cap \in Nat
  <2>1. \A item \in Listed : item.lane \in Lanes /\ item.cap \in Nat
    OBVIOUS
  <2>. HIDE DEF Listed
  <2>2. book \in [1..Len(book) -> Listed] /\ Len(book) \in Nat
    BY <1>1, LenProperties
  <2>. QED
    BY <2>1, <2>2
<1>3. \A i \in DOMAIN book : book[i].ids \subseteq BookingIds
  BY DEF BookingIds
<1>. QED
  BY <1>2, <1>3, BooksAssumption

LEMMA NewRowsAre ==
    ASSUME NEW book \in Books, NEW n \in 1..MaxSaves, NEW echo \in [Lanes -> Nat]
    PROVE  /\ NewRows(book, n, echo) \in Tables
           /\ DOMAIN NewRows(book, n, echo) = {<<n, i>> : i \in DOMAIN book}
           /\ \A i \in DOMAIN book :
                  /\ NewRows(book, n, echo)[<<n, i>>].lane = book[i].lane
                  /\ NewRows(book, n, echo)[<<n, i>>].count = echo[book[i].lane]
<1> DEFINE new == NewRows(book, n, echo)
<1>1. DOMAIN new = {<<n, i>> : i \in DOMAIN book} /\ new = [id \in DOMAIN new |-> new[id]]
  BY DEF NewRows
<1>2. DOMAIN new \subseteq RowIds
  BY <1>1 DEF RowIds
<1>3. ASSUME NEW i \in DOMAIN book
      PROVE  /\ new[<<n, i>>] \in Row
             /\ new[<<n, i>>].lane = book[i].lane
             /\ new[<<n, i>>].count = echo[book[i].lane]
  <2>1. <<n, i>> \in {<<n, j>> : j \in DOMAIN book} /\ <<n, i>>[2] = i
    OBVIOUS
  <2>2. new[<<n, i>>] = [lane |-> book[i].lane, byId |-> book[i].ids # {},
                         cap  |-> book[i].cap,  count |-> echo[book[i].lane]]
    BY <2>1 DEF NewRows
  <2>3. book[i].lane \in Lanes /\ book[i].cap \in Nat /\ echo[book[i].lane] \in Nat
    BY BookIs
  <2>. QED
    BY <2>2, <2>3 DEF Row
<1>. QED
  BY <1>1, <1>2, <1>3, TableIs

LEMMA MergeIs ==
    ASSUME NEW f \in Tables, NEW g \in Tables
    PROVE  /\ Merge(f, g) \in Tables
           /\ DOMAIN Merge(f, g) = DOMAIN f \cup DOMAIN g
BY TableIs DEF Merge

LEMMA KeptRowsAre ==
    ASSUME rows \in Tables, NEW c
    PROVE  /\ KeptRows(c) \in Tables
           /\ DOMAIN KeptRows(c) = DOMAIN rows \ c.doomed
BY TableIs DEF KeptRows, Restrict

LEMMA CompileIs ==
    ASSUME NEW f \in Tables, NEW g, \A id \in DOMAIN g : g[id] \subseteq BookingIds
    PROVE  RulesOK(Compile(f, g))
BY TableIs DEF Compile, RulesOK, Rule, Row

LEMMA CountsAre == ASSUME rows \in Tables PROVE Counts \in [Lanes -> Nat]
BY TableIs DEF Counts, Row

-----------------------------------------------------------------------------
(* Saves *)

LEMMA LeastNat ==
    ASSUME NEW S \in SUBSET Nat, S # {}
    PROVE  \E m \in S : \A n \in S : m <= n
<1>. DEFINE Below == {0..n : n \in S}
<1>1. Below \subseteq FiniteSubsetsOf(Nat) /\ Below # {}
  <2>1. ASSUME NEW n \in S PROVE 0..n \in FiniteSubsetsOf(Nat)
    <3>1. n \in Int /\ 0..n \subseteq Nat
      OBVIOUS
    <3>2. IsFiniteSet(0..n)
      BY <3>1, FS_Interval
    <3>. QED
      BY <3>1, <3>2 DEF FiniteSubsetsOf
  <2>. QED
    BY <2>1
<1>2. PICK b \in Below : \A c \in Below : ~ (<<c, b>> \in StrictSubsetOrdering(Nat))
  <2>. HIDE DEF Below
  <2>. QED
    BY <1>1, FS_StrictSubsetOrderingWellFounded, WFMin
<1>3. PICK m \in S : b = 0..m
  OBVIOUS
<1>4. ASSUME NEW n \in S, n < m PROVE FALSE
  <2>1. 0..n \subseteq 0..m /\ 0..m \subseteq Nat /\ m \in 0..m /\ m \notin 0..n
    BY <1>4
  <2>2. <<0..n, 0..m>> \in StrictSubsetOrdering(Nat)
    BY <2>1 DEF StrictSubsetOrdering
  <2>. QED
    BY <1>2, <1>3, <2>2
<1>. QED
  BY <1>4

LEMMA ListingIs ==
    ASSUME NEW c \in Save, c.n # 0, NEW k \in Nat \ {0}
    PROVE  LET d == Listing(c, k)
           IN  /\ d \in Save
               /\ d.pc \in {"targets", "switch"}
               /\ d.pc = "targets" => d.at \in DOMAIN c.book
               /\ d.book = c.book /\ d.n = c.n /\ d.overlap = c.overlap
               /\ d.want = c.want
<1> DEFINE later == {i \in k..Len(c.book) : c.book[i].ids # {}}
<1>1. c.book \in Books
  BY DEF Save
<1>2. later \subseteq DOMAIN c.book /\ later \subseteq Nat
  BY <1>1, BookIs
<1>3. CASE later = {}
  <2>1. Listing(c, k) = [c EXCEPT !.pc = "switch"]
    BY <1>3 DEF Listing
  <2>. QED
    BY <2>1 DEF Save, AfterInsert
<1>4. CASE later # {}
  <2> DEFINE first == CHOOSE i \in later : \A j \in later : i <= j
  <2>1. first \in later
    BY <1>2, <1>4, LeastNat
  <2>2. Listing(c, k) = [c EXCEPT !.pc = "targets", !.at = first]
    BY <1>4 DEF Listing
  <2>. HIDE DEF first, later
  <2>. QED
    BY <1>2, <2>1, <2>2 DEF Save, AfterInsert
<1>. QED
  BY <1>3, <1>4

LEMMA SaveIs ==
    ASSUME NEW c \in Save
    PROVE  /\ c = [pc |-> c.pc, book |-> c.book, want |-> c.want, doomed |-> c.doomed,
                   n |-> c.n, at |-> c.at, got |-> c.got, overlap |-> c.overlap]
           /\ c.pc \in BeforeInsert \cup AfterInsert /\ c # Idle
           /\ c.book \in Books /\ c.want \in BOOLEAN /\ c.doomed \subseteq RowIds
           /\ c.n \in 0..MaxSaves /\ c.at \in Nat /\ c.got \in Tables
           /\ c.overlap \in BOOLEAN
BY DEF Save, Idle, BeforeInsert, AfterInsert

\* A caller waits for a save, or for nothing.
LEMMA CallIs ==
    ASSUME CallsOK, NEW u \in Users, call[u].pc # "idle"
    PROVE  call[u] # Idle /\ call[u] \in Save
BY DEF CallsOK, Idle

LEMMA CallMoves ==
    ASSUME CallsOK, NEW u \in Users, NEW c \in {Idle} \cup Save,
           c # Idle => /\ c.pc \in BeforeInsert <=> c.n = 0
                       /\ c.pc = "targets" => c.at \in DOMAIN c.book,
           call' = [call EXCEPT ![u] = c]
    PROVE  /\ CallsOK' /\ call'[u] = c
           /\ \A v \in Users \ {u} : call'[v] = call[v]
BY DEF CallsOK

-----------------------------------------------------------------------------
(* Typing *)

LEMMA TypesInit == Init => Types
<1>. SUFFICES ASSUME Init PROVE Types
  OBVIOUS
<1>. USE DEF Init
<1>1. TablesOK /\ RulesOK(channel) /\ RulesOK(running)
  BY NoIdsIsTable DEF TablesOK, RulesOK
<1>2. PagesOK
  BY DEF PagesOK
<1>3. CallsOK
  BY DEF CallsOK
<1>4. CountersOK
  BY BoundsAssumption DEF CountersOK, Ghost
<1>. QED
  BY <1>1, <1>2, <1>3, <1>4 DEF Types

\* Where a save goes on to, or gives up, without a word.
LEMMA AdvanceKeeps ==
    ASSUME CallsOK, NEW u \in Users, NEW pc, call[u].pc # "idle", Advance(u, pc),
           \/ pc \in BeforeInsert /\ call[u].pc \in BeforeInsert
           \/ pc \in AfterInsert \ {"targets"} /\ call[u].pc \in AfterInsert
    PROVE  /\ CallsOK'
           /\ call'[u] = [call[u] EXCEPT !.pc = pc]
           /\ \A v \in Users \ {u} : call'[v] = call[v]
<1> DEFINE c == [call[u] EXCEPT !.pc = pc]
<1>1. call[u] \in Save /\ call[u] # Idle
  BY CallIs
<1>2. /\ c \in Save /\ c.pc = pc /\ c.n = call[u].n
  BY <1>1 DEF Save
<1>3. c.pc \in BeforeInsert <=> c.n = 0
  BY <1>1, <1>2 DEF CallsOK, BeforeInsert, AfterInsert
<1>4. call' = [call EXCEPT ![u] = c]
  BY DEF Advance
<1>5. c.pc # "targets"
  BY <1>2 DEF BeforeInsert
<1>. HIDE DEF c
<1>6. CallsOK' /\ call'[u] = c /\ \A v \in Users \ {u} : call'[v] = call[v]
  BY <1>2, <1>3, <1>4, <1>5, CallMoves
<1>. QED
  BY <1>6 DEF c

LEMMA GiveUpKeeps ==
    ASSUME CallsOK, NEW u \in Users, GiveUp(u)
    PROVE  /\ CallsOK' /\ call'[u] = Idle
           /\ \A v \in Users \ {u} : call'[v] = call[v]
BY CallMoves DEF GiveUp

\* A save begins beside the ones that run, which now overlap it.
LEMMA ReadSwitchDoes ==
    ASSUME Types, NEW u \in Users, ReadSwitch(u)
    PROVE  /\ CallsOK' /\ PagesOK'
           /\ call[u] = Idle
           /\ call'[u] \in Save
           /\ call'[u].n = 0
           /\ call'[u].overlap <=> \E v \in Users : call[v] # Idle
           /\ IF call'[u].want /\ ~enabled THEN call'[u].pc = "gate"
                                          ELSE call'[u].pc = "delete"
           /\ \A l \in LanesOf(call'[u].book) : l \in Lanes => page'[u][l] = page[u][l]
           /\ \A l \in Lanes \ LanesOf(call'[u].book) : page'[u][l] = 0
           /\ \A v \in Users \ {u} :
                  /\ page'[v] = page[v]
                  /\ call[v] = Idle => call'[v] = Idle
                  /\ call[v] # Idle => call'[v] = [call[v] EXCEPT !.overlap = TRUE]
<1>1. PICK book \in Books, want \in BOOLEAN :
        /\ call' = [v \in Users |->
               IF v = u
               THEN [pc |-> IF want /\ ~enabled THEN "gate" ELSE "delete",
                     book |-> book, want |-> want, doomed |-> {}, n |-> 0,
                     at |-> 0, got |-> NoIds, overlap |-> InFlight # {}]
               ELSE IF call[v] = Idle THEN Idle
               ELSE [call[v] EXCEPT !.overlap = TRUE]]
        /\ page' = [page EXCEPT ![u] =
               [l \in Lanes |-> IF l \in LanesOf(book) THEN @[l] ELSE 0]]
  BY DEF ReadSwitch
<1> DEFINE new == [pc |-> IF want /\ ~enabled THEN "gate" ELSE "delete",
                   book |-> book, want |-> want, doomed |-> {}, n |-> 0,
                   at |-> 0, got |-> NoIds, overlap |-> InFlight # {}]
<1>2. call'[u] = new
  BY <1>1
<1>3. new \in Save /\ new.pc \in {"gate", "delete"}
  BY NoIdsIsTable, BoundsAssumption DEF Save, BeforeInsert
<1>4. \A v \in Users \ {u} :
        /\ call[v] = Idle => call'[v] = Idle
        /\ call[v] # Idle => call'[v] = [call[v] EXCEPT !.overlap = TRUE]
  BY <1>1
<1>5. page'[u] = [l \in Lanes |-> IF l \in LanesOf(book) THEN page[u][l] ELSE 0]
  BY <1>1 DEF Types, PagesOK
<1>6. PagesOK'
  BY <1>1 DEF Types, PagesOK, ReadSwitch
<1>7. \A v \in Users \ {u} : page'[v] = page[v]
  BY <1>1 DEF Types, PagesOK
<1>8. ASSUME NEW v \in Users \ {u}, call[v] # Idle
      PROVE  /\ call'[v] \in Save /\ call'[v].pc = call[v].pc /\ call'[v].n = call[v].n
             /\ call'[v].at = call[v].at /\ call'[v].book = call[v].book
  <2>1. call[v] \in Save
    BY <1>8 DEF Types, CallsOK
  <2> DEFINE d == [call[v] EXCEPT !.overlap = TRUE]
  <2>2. /\ d \in Save /\ d.pc = call[v].pc /\ d.n = call[v].n
        /\ d.at = call[v].at /\ d.book = call[v].book
    BY <2>1 DEF Save
  <2>3. call'[v] = d
    BY <1>4, <1>8
  <2>. HIDE DEF d
  <2>. QED
    BY <2>2, <2>3
<1>9. CallsOK'
  <2>1. call' \in [Users -> {Idle} \cup Save]
    <3>1. DOMAIN call' = Users /\ call' = [v \in Users |-> call'[v]]
      BY <1>1
    <3>2. ASSUME NEW v \in Users PROVE call'[v] \in {Idle} \cup Save
      BY <1>2, <1>3, <1>4, <1>8
    <3>. HIDE DEF new
    <3>. QED
      BY <3>1, <3>2
  <2>2. ASSUME NEW v \in Users, call'[v] # Idle
        PROVE  /\ call'[v].pc \in BeforeInsert <=> call'[v].n = 0
               /\ call'[v].pc = "targets" => call'[v].at \in DOMAIN call'[v].book
    <3>1. CASE v = u
      BY <3>1, <1>2, <1>3 DEF BeforeInsert
    <3>2. CASE v # u
      BY <3>2, <2>2, <1>4, <1>8 DEF Types, CallsOK
    <3>. QED
      BY <3>1, <3>2
  <2>. QED
    BY <2>1, <2>2 DEF CallsOK
<1>10. call[u] = Idle
  BY DEF ReadSwitch
<1>11. /\ new.n = 0 /\ new.book = book /\ (new.overlap <=> InFlight # {})
       /\ IF new.want /\ ~enabled THEN new.pc = "gate" ELSE new.pc = "delete"
  OBVIOUS
<1>. HIDE DEF new
<1>12. InFlight # {} <=> \E v \in Users : call[v] # Idle
  BY DEF InFlight
<1>13. /\ \A l \in LanesOf(book) : l \in Lanes => page'[u][l] = page[u][l]
       /\ \A l \in Lanes \ LanesOf(book) : page'[u][l] = 0
  BY <1>5
<1>. QED
  BY <1>2, <1>3, <1>4, <1>6, <1>7, <1>9, <1>10, <1>11, <1>12, <1>13

LEMMA DeleteRowsDoes ==
    ASSUME Types, NEW u \in Users, DeleteRows(u)
    PROVE  /\ CallsOK'
           /\ call[u] \in Save /\ call[u] # Idle /\ call[u].pc = "delete"
           /\ call'[u] \in Save /\ call'[u].pc = "insert" /\ call'[u].doomed = DOMAIN rows
           /\ call'[u].book = call[u].book /\ call'[u].want = call[u].want
           /\ call'[u].n = call[u].n /\ call'[u].overlap = call[u].overlap
           /\ \A v \in Users \ {u} : call'[v] = call[v]
<1> DEFINE c == [call[u] EXCEPT !.pc = "insert", !.doomed = DOMAIN rows]
<1>1. call[u] \in Save /\ call[u] # Idle /\ call[u].pc = "delete"
  BY CallIs DEF Types, DeleteRows
<1>2. DOMAIN rows \subseteq RowIds
  BY TableIs DEF Types, TablesOK
<1>3. c \in Save /\ c.pc = "insert" /\ c.n = call[u].n /\ c.doomed = DOMAIN rows
      /\ c.book = call[u].book /\ c.want = call[u].want
      /\ c.overlap = call[u].overlap
  BY <1>1, <1>2 DEF Save, BeforeInsert
<1>4. c.n = 0
  BY <1>1, <1>3 DEF Types, CallsOK, BeforeInsert
<1>5. call' = [call EXCEPT ![u] = c]
  BY DEF DeleteRows
<1>. HIDE DEF c
<1>6. CallsOK' /\ call'[u] = c /\ \A v \in Users \ {u} : call'[v] = call[v]
  BY <1>3, <1>4, <1>5, CallMoves DEF Types, BeforeInsert
<1>. QED
  BY <1>1, <1>3, <1>6

LEMMA LoadRowsDoes ==
    ASSUME Types, NEW u \in Users, LoadRows(u)
    PROVE  /\ CallsOK'
           /\ call[u] \in Save /\ call[u] # Idle /\ call[u].pc = "rows"
           /\ call'[u] \in Save /\ call'[u].pc = "send" /\ call'[u].got = rows
           /\ call'[u].book = call[u].book /\ call'[u].want = call[u].want
           /\ call'[u].n = call[u].n /\ call'[u].overlap = call[u].overlap
           /\ \A v \in Users \ {u} : call'[v] = call[v]
<1> DEFINE c == [call[u] EXCEPT !.pc = "send", !.got = rows]
<1>1. call[u] \in Save /\ call[u] # Idle /\ call[u].pc = "rows"
  BY CallIs DEF Types, LoadRows
<1>2. rows \in Tables
  BY DEF Types, TablesOK
<1>3. c \in Save /\ c.pc = "send" /\ c.n = call[u].n /\ c.got = rows
      /\ c.book = call[u].book /\ c.want = call[u].want
      /\ c.overlap = call[u].overlap
  BY <1>1, <1>2 DEF Save, AfterInsert
<1>4. c.n # 0
  BY <1>1, <1>3 DEF Types, CallsOK, BeforeInsert
<1>5. call' = [call EXCEPT ![u] = c]
  BY DEF LoadRows
<1>. HIDE DEF c
<1>6. CallsOK' /\ call'[u] = c /\ \A v \in Users \ {u} : call'[v] = call[v]
  BY <1>3, <1>4, <1>5, CallMoves DEF Types, BeforeInsert
<1>. QED
  BY <1>1, <1>3, <1>6

LEMMA LoadAndSendDoes ==
    ASSUME Types, NEW u \in Users, LoadAndSend(u)
    PROVE  /\ CallsOK' /\ RulesOK(channel)'
           /\ call[u] \in Save /\ call[u] # Idle /\ call[u].pc = "send"
           /\ call'[u] \in Save /\ call'[u].pc = "reply"
           /\ call'[u].book = call[u].book /\ call'[u].want = call[u].want
           /\ call'[u].n = call[u].n /\ call'[u].overlap = call[u].overlap
           /\ \A v \in Users \ {u} : call'[v] = call[v]
<1> DEFINE c == [call[u] EXCEPT !.pc = "reply", !.got = NoIds]
<1>1. call[u] \in Save /\ call[u] # Idle /\ call[u].pc = "send"
  BY CallIs DEF Types, LoadAndSend
<1>2. c \in Save /\ c.pc = "reply" /\ c.n = call[u].n
      /\ c.book = call[u].book /\ c.want = call[u].want
      /\ c.overlap = call[u].overlap
  BY <1>1, NoIdsIsTable DEF Save, AfterInsert
<1>3. c.n # 0
  BY <1>1, <1>2 DEF Types, CallsOK, BeforeInsert
<1>4. call' = [call EXCEPT ![u] = c]
  BY DEF LoadAndSend
<1>. HIDE DEF c
<1>5. CallsOK' /\ call'[u] = c /\ \A v \in Users \ {u} : call'[v] = call[v]
  BY <1>2, <1>3, <1>4, CallMoves DEF Types, BeforeInsert
<1>6. call[u].got \in Tables
  BY <1>1, SaveIs
<1>7. RulesOK(Compile(call[u].got, targets))
  BY <1>6, CompileIs DEF Types, TablesOK
<1>. QED
  BY <1>1, <1>2, <1>5, <1>7 DEF LoadAndSend, RulesOK

LEMMA InsertRowsDoes ==
    ASSUME Types, NEW u \in Users, InsertRows(u)
    PROVE  LET c   == call[u]
               new == NewRows(c.book, saves + 1, page[u])
           IN  /\ c \in Save /\ c # Idle /\ c.pc = "insert" /\ c.n = 0
               /\ saves + 1 \in 1..MaxSaves
               /\ CallsOK'
               /\ \A v \in Users \ {u} : call'[v] = call[v]
               /\ \/ /\ LaneClash(KeptRows(c), new)
                     /\ call'[u] = Idle
                     /\ ghost' = [Unsaved(ghost, u) EXCEPT !.refused = @ \/ ~c.overlap]
                     /\ UNCHANGED <<rows, targets, saves>>
                  \/ /\ rows' = Merge(KeptRows(c), new)
                     /\ targets' = KeptTargets(c)
                     /\ saves' = saves + 1
                     /\ call'[u] \in Save
                     /\ call'[u].pc \in {"targets", "switch"}
                     /\ call'[u].n = saves + 1
                     /\ call'[u].book = c.book /\ call'[u].overlap = c.overlap
                     /\ call'[u].want = c.want
<1> DEFINE c == call[u]
           d == [c EXCEPT !.n = saves + 1]
           e == Listing(d, 1)
<1>1. c \in Save /\ c # Idle /\ c.pc = "insert" /\ c.n = 0
  BY CallIs DEF Types, InsertRows, CallsOK, BeforeInsert
<1>2. saves + 1 \in 1..MaxSaves
  BY BoundsAssumption DEF Types, CountersOK, InsertRows
<1>3. CASE LaneClash(KeptRows(c), NewRows(c.book, saves + 1, page[u]))
  <2>1. GiveUp(u)
    BY <1>3 DEF InsertRows
  <2>. QED
    BY <1>1, <1>2, <1>3, <2>1, GiveUpKeeps DEF InsertRows, Types
<1>4. CASE ~LaneClash(KeptRows(c), NewRows(c.book, saves + 1, page[u]))
  <2>1. /\ d \in Save /\ d.n = saves + 1 /\ d.book = c.book
        /\ d.overlap = c.overlap /\ d.want = c.want
    BY <1>1, <1>2 DEF Save
  <2>2. d.n # 0 /\ d.n \in Nat
    BY <1>2, <2>1
  <2>3. call' = [call EXCEPT ![u] = e]
    BY <1>4 DEF InsertRows
  <2>. HIDE DEF d
  <2>4. /\ e \in Save /\ e.pc \in {"targets", "switch"}
        /\ e.pc = "targets" => e.at \in DOMAIN c.book
        /\ e.book = c.book /\ e.n = saves + 1 /\ e.overlap = c.overlap
        /\ e.want = c.want
    BY <2>1, <2>2, ListingIs
  <2>. HIDE DEF e
  <2>5. e.pc \notin BeforeInsert /\ e.n # 0
    BY <1>2, <2>4 DEF BeforeInsert
  <2>6. CallsOK' /\ call'[u] = e /\ \A v \in Users \ {u} : call'[v] = call[v]
    BY <2>3, <2>4, <2>5, CallMoves DEF Types
  <2>. QED
    BY <1>1, <1>2, <1>4, <2>4, <2>6, Zenon DEF InsertRows
<1>. QED
  BY <1>3, <1>4

LEMMA WriteTargetsDoes ==
    ASSUME Types, NEW u \in Users, WriteTargets(u)
    PROVE  LET c == call[u]
           IN  /\ c \in Save /\ c # Idle /\ c.pc = "targets" /\ c.n # 0
               /\ c.at \in DOMAIN c.book
               /\ CallsOK'
               /\ \A v \in Users \ {u} : call'[v] = call[v]
               /\ \/ /\ TargetClash(<<c.n, c.at>>, c.book[c.at].ids)
                     /\ call'[u] = Idle
                     /\ ghost' = [ghost EXCEPT !.refused = @ \/ ~c.overlap]
                     /\ UNCHANGED targets
                  \/ /\ ~TargetClash(<<c.n, c.at>>, c.book[c.at].ids)
                     /\ targets' = Merge(targets, [i \in {<<c.n, c.at>>} |->
                                                      c.book[c.at].ids])
                     /\ call'[u] \in Save
                     /\ call'[u].pc \in {"targets", "switch"}
                     /\ call'[u].n = c.n
                     /\ call'[u].book = c.book /\ call'[u].overlap = c.overlap
                     /\ call'[u].want = c.want
                     /\ UNCHANGED ghost
<1> DEFINE c == call[u]
           e == Listing(c, c.at + 1)
           clash == TargetClash(<<c.n, c.at>>, c.book[c.at].ids)
<1>1. /\ c \in Save /\ c # Idle /\ c.pc = "targets" /\ c.n # 0
      /\ c.at \in DOMAIN c.book
  BY CallIs DEF Types, WriteTargets, CallsOK, BeforeInsert
<1>2. CASE clash
  <2>1. GiveUp(u)
    BY <1>2 DEF WriteTargets
  <2>. QED
    BY <1>1, <1>2, <2>1, GiveUpKeeps DEF WriteTargets, Types
<1>3. CASE ~clash
  <2>1. c.at + 1 \in Nat \ {0}
    BY <1>1, SaveIs
  <2>2. call' = [call EXCEPT ![u] = e]
    BY <1>3 DEF WriteTargets
  <2>3. /\ e \in Save /\ e.pc \in {"targets", "switch"}
        /\ e.pc = "targets" => e.at \in DOMAIN c.book
        /\ e.book = c.book /\ e.n = c.n /\ e.overlap = c.overlap
        /\ e.want = c.want
    BY <1>1, <2>1, ListingIs
  <2>. HIDE DEF e
  <2>4. e.pc \notin BeforeInsert
    BY <2>3 DEF BeforeInsert
  <2>5. CallsOK' /\ call'[u] = e /\ \A v \in Users \ {u} : call'[v] = call[v]
    BY <1>1, <2>2, <2>3, <2>4, CallMoves DEF Types
  <2>. QED
    BY <1>1, <1>3, <2>3, <2>5 DEF WriteTargets
<1>. QED
  BY <1>2, <1>3

\* What a step leaves alone stays well typed.
LEMMA LeftAlone ==
    ASSUME Types
    PROVE  /\ TablesOK /\ PagesOK /\ CallsOK /\ CountersOK
           /\ RulesOK(channel) /\ RulesOK(running)
           /\ UNCHANGED tables => TablesOK'
           /\ UNCHANGED <<proof, page>> => PagesOK'
           /\ UNCHANGED call => CallsOK'
           /\ UNCHANGED <<ghost, saves, proofs>> => CountersOK'
           /\ UNCHANGED channel => RulesOK(channel)'
           /\ UNCHANGED running => RulesOK(running)'
BY DEF Types, TablesOK, PagesOK, CallsOK, CountersOK, RulesOK, tables

LEMMA GhostIs ==
    ASSUME ghost \in Ghost
    PROVE  /\ \A n \in Nat : /\ [ghost EXCEPT !.overlaps = n] \in Ghost
                            /\ [ghost EXCEPT !.arms = n] \in Ghost
           /\ \A b \in BOOLEAN : /\ [ghost EXCEPT !.synced = b] \in Ghost
                                /\ [ghost EXCEPT !.exact = b] \in Ghost
                                /\ [ghost EXCEPT !.refused = b] \in Ghost
                                /\ [ghost EXCEPT !.hidden = b] \in Ghost
           /\ \A u \in Users, b \in BOOLEAN : [ghost EXCEPT !.fresh[u] = b] \in Ghost
           /\ ghost.overlaps \in Nat /\ ghost.arms \in Nat
           /\ \A u \in Users : Unsaved(ghost, u) \in Ghost
BY DEF Ghost, Unsaved

\* What a commit, a charge and a crash leave in the history.
LEMMA GhostAfterInsert ==
    ASSUME Types, NEW u \in Users, InsertRows(u)
    PROVE  LET c    == call[u]
               old  == KeptRows(c)
               kept == {old[id].lane : id \in DOMAIN old} \cup LanesOf(c.book)
           IN  /\ ghost' \in Ghost
               /\ ghost'.overlaps = ghost.overlaps /\ ghost'.arms = ghost.arms
               /\ LaneClash(old, NewRows(c.book, saves + 1, page[u])) =>
                      /\ ghost'.refused = (ghost.refused \/ ~c.overlap)
                      /\ ghost'.exact = ghost.exact /\ ghost'.due = ghost.due
                      /\ ghost'.synced = ghost.synced
                      /\ ghost'.fresh = [ghost.fresh EXCEPT ![u] = FALSE]
               /\ ~LaneClash(old, NewRows(c.book, saves + 1, page[u])) =>
                      /\ ghost'.refused = ghost.refused
                      /\ ghost'.exact = (ghost.exact /\ ghost.fresh[u] /\ ~c.overlap)
                      /\ ghost'.due = [l \in Lanes |->
                             IF l \in kept THEN ghost.due[l] ELSE 0]
                      /\ ghost'.synced = FALSE
                      /\ ghost'.fresh = [v \in Users |-> ghost.fresh[v] /\ v = u]
<1> DEFINE c    == call[u]
           old  == KeptRows(c)
           kept == {old[id].lane : id \in DOMAIN old} \cup LanesOf(c.book)
           due  == [l \in Lanes |-> IF l \in kept THEN ghost.due[l] ELSE 0]
           keen == [v \in Users |-> ghost.fresh[v] /\ v = u]
           sure == ghost.exact /\ ghost.fresh[u] /\ ~c.overlap
<1>g. ghost \in Ghost
  BY DEF Types, CountersOK
<1>1. CASE LaneClash(old, NewRows(c.book, saves + 1, page[u]))
  <2> DEFINE g == [ghost EXCEPT !.fresh[u] = FALSE]
             r == ghost.refused \/ ~c.overlap
  <2>1. r \in BOOLEAN
    OBVIOUS
  <2>2. ghost' = [g EXCEPT !.refused = g.refused \/ ~c.overlap]
    BY <1>1 DEF InsertRows, Unsaved
  <2>3. /\ g \in Ghost /\ g.refused = ghost.refused /\ g.exact = ghost.exact
        /\ g.due = ghost.due /\ g.synced = ghost.synced /\ g.arms = ghost.arms
        /\ g.overlaps = ghost.overlaps
        /\ g.fresh = [ghost.fresh EXCEPT ![u] = FALSE]
    BY <1>g DEF Ghost
  <2>. HIDE DEF g
  <2>4. ghost' = [g EXCEPT !.refused = r]
    BY <2>2, <2>3
  <2>. HIDE DEF r
  <2>5. /\ ghost' \in Ghost /\ ghost'.refused = r /\ ghost'.exact = g.exact
        /\ ghost'.due = g.due /\ ghost'.synced = g.synced /\ ghost'.arms = g.arms
        /\ ghost'.overlaps = g.overlaps /\ ghost'.fresh = g.fresh
    BY <2>1, <2>3, <2>4 DEF Ghost
  <2>. QED
    BY <1>1, <2>3, <2>5, Zenon DEF r
<1>2. CASE ~LaneClash(old, NewRows(c.book, saves + 1, page[u]))
  <2>1. ghost' = [ghost EXCEPT !.due = due, !.exact = sure, !.fresh = keen,
                               !.synced = FALSE]
    BY <1>2 DEF InsertRows
  <2>2. due \in [Lanes -> Nat]
    <3>1. ghost.due \in [Lanes -> Nat]
      BY <1>g DEF Ghost
    <3>. QED
      BY <3>1
  <2>3. sure \in BOOLEAN /\ keen \in [Users -> BOOLEAN]
    OBVIOUS
  <2>4. /\ due = [l \in Lanes |-> IF l \in kept THEN ghost.due[l] ELSE 0]
        /\ keen = [v \in Users |-> ghost.fresh[v] /\ v = u]
        /\ sure = (ghost.exact /\ ghost.fresh[u] /\ ~c.overlap)
    OBVIOUS
  <2>. HIDE DEF due, keen, sure
  <2>5. /\ ghost' \in Ghost /\ ghost'.due = due /\ ghost'.exact = sure
        /\ ghost'.fresh = keen /\ ghost'.synced = FALSE
        /\ ghost'.refused = ghost.refused /\ ghost'.arms = ghost.arms
        /\ ghost'.overlaps = ghost.overlaps
    BY <1>g, <2>1, <2>2, <2>3 DEF Ghost
  <2>. QED
    BY <1>2, <2>4, <2>5, Zenon
<1>. QED
  BY <1>1, <1>2

LEMMA RowCharged ==
    ASSUME rows \in Tables, Charge, win.rule \in DOMAIN rows
    PROVE  /\ rows' \in Tables /\ DOMAIN rows' = DOMAIN rows
           /\ rows[win.rule] \in Row
           /\ \A i \in DOMAIN rows :
                  /\ rows'[i].lane = rows[i].lane /\ rows'[i].byId = rows[i].byId
                  /\ rows'[i].cap = rows[i].cap
                  /\ rows'[i].count =
                        IF i = win.rule /\ Under(rows[i].count, rows[i].cap)
                        THEN rows[i].count + 1 ELSE rows[i].count
<1> DEFINE id == win.rule
<1>1. rows[id] \in Row /\ rows = [i \in DOMAIN rows |-> rows[i]]
  BY TableIs
<1>2. CASE Under(rows[id].count, rows[id].cap)
  <2>1. rows' = [rows EXCEPT ![id].count = rows[id].count + 1]
    BY <1>2, Zenon DEF Charge
  <2>2. /\ DOMAIN rows' = DOMAIN rows
        /\ rows'[id] = [rows[id] EXCEPT !.count = rows[id].count + 1]
        /\ \A i \in DOMAIN rows \ {id} : rows'[i] = rows[i]
    BY <2>1
  <2>3. /\ rows'[id] \in Row /\ rows'[id].lane = rows[id].lane
        /\ rows'[id].byId = rows[id].byId /\ rows'[id].cap = rows[id].cap
        /\ rows'[id].count = rows[id].count + 1
    BY <1>1, <2>2 DEF Row
  <2>4. rows' \in Tables
    <3>1. \A i \in DOMAIN rows' : rows'[i] \in Row
      BY <2>2, <2>3, TableIs
    <3>2. rows' = [i \in DOMAIN rows' |-> rows'[i]] /\ DOMAIN rows' \subseteq RowIds
      BY <2>1, <2>2, TableIs
    <3>. QED
      BY <3>1, <3>2, TableIs
  <2>. QED
    BY <1>1, <1>2, <2>2, <2>3, <2>4
<1>3. CASE ~Under(rows[id].count, rows[id].cap)
  <2>1. rows' = rows
    BY <1>3, Zenon DEF Charge
  <2>. QED
    BY <1>1, <1>3, <2>1
<1>. QED
  BY <1>2, <1>3

LEMMA GhostAfterCharge ==
    ASSUME ghost \in Ghost, rows \in Tables, Charge, win.rule \in DOMAIN rows
    PROVE  LET lane == rows[win.rule].lane
               due  == ghost.due[lane]
           IN  /\ ghost' \in Ghost
               /\ ghost'.due = [ghost.due EXCEPT ![lane] =
                        IF Under(due, rows[win.rule].cap) THEN due + 1 ELSE due]
               /\ ghost'.fresh = [u \in Users |-> FALSE]
               /\ ghost'.exact = ghost.exact /\ ghost'.synced = ghost.synced
               /\ ghost'.overlaps = ghost.overlaps /\ ghost'.arms = ghost.arms
               /\ ghost'.refused = ghost.refused
<1> DEFINE lane == rows[win.rule].lane
           old  == ghost.due[lane]
           more == IF Under(old, rows[win.rule].cap) THEN old + 1 ELSE old
           none == [u \in Users |-> FALSE]
           due  == [ghost.due EXCEPT ![lane] = more]
<1>1. lane \in Lanes /\ ghost.due \in [Lanes -> Nat]
  BY TableIs DEF Row, Ghost
<1>2. more \in Nat
  BY <1>1
<1>3. ghost' = [ghost EXCEPT !.due[lane] = more, !.fresh = none]
  BY Zenon DEF Charge
<1>4. due \in [Lanes -> Nat] /\ none \in [Users -> BOOLEAN]
  <2>. HIDE DEF more, lane
  <2>. QED
    BY <1>1, <1>2
<1>5. ghost' = [ghost EXCEPT !.due = due, !.fresh = none]
  <2>. HIDE DEF more, lane, none
  <2>. QED
    BY <1>3
<1>6. /\ due = [ghost.due EXCEPT ![lane] =
                   IF Under(old, rows[win.rule].cap) THEN old + 1 ELSE old]
      /\ none = [u \in Users |-> FALSE]
  OBVIOUS
<1>. HIDE DEF due, none
<1>7. /\ ghost' \in Ghost /\ ghost'.due = due /\ ghost'.fresh = none
      /\ ghost'.exact = ghost.exact /\ ghost'.synced = ghost.synced
      /\ ghost'.overlaps = ghost.overlaps /\ ghost'.arms = ghost.arms
      /\ ghost'.refused = ghost.refused
  BY <1>4, <1>5 DEF Ghost
<1>. QED
  BY <1>6, <1>7, Zenon

LEMMA GhostAfterCrash ==
    ASSUME ghost \in Ghost, Crash
    PROVE  /\ ghost' \in Ghost
           /\ ghost'.due = ghost.due /\ (ghost'.exact => ghost.exact)
           /\ ghost'.overlaps = ghost.overlaps /\ ghost'.arms = ghost.arms
           /\ ghost'.refused = ghost.refused
           /\ \A u \in Users : ghost'.fresh[u] =>
                  ghost.fresh[u] /\ (call[u] = Idle \/ call[u].n # 0)
<1>1. PICK loaded \in BOOLEAN :
        ghost' = [ghost EXCEPT
            !.synced = loaded,
            !.exact  = @ /\ win = NoWin,
            !.fresh  = [u \in Users |-> @[u] /\ (call[u] = Idle \/ call[u].n # 0)]]
  BY Zenon DEF Crash
<1> DEFINE sure == ghost.exact /\ win = NoWin
           keen == [u \in Users |-> ghost.fresh[u] /\ (call[u] = Idle \/ call[u].n # 0)]
<1>2. sure \in BOOLEAN /\ keen \in [Users -> BOOLEAN] /\ (sure => ghost.exact)
      /\ \A u \in Users : keen[u] =>
             ghost.fresh[u] /\ (call[u] = Idle \/ call[u].n # 0)
  OBVIOUS
<1>3. ghost' = [ghost EXCEPT !.synced = loaded, !.exact = sure, !.fresh = keen]
  BY <1>1
<1>. HIDE DEF sure, keen
<1>4. /\ ghost' \in Ghost /\ ghost'.due = ghost.due /\ ghost'.exact = sure
      /\ ghost'.fresh = keen /\ ghost'.overlaps = ghost.overlaps
      /\ ghost'.arms = ghost.arms /\ ghost'.refused = ghost.refused
  BY <1>2, <1>3 DEF Ghost
<1>. QED
  BY <1>2, <1>4

LEMMA TypesNext == ASSUME Types, [Next]_vars PROVE Types'
<1>t. /\ TablesOK /\ PagesOK /\ CallsOK /\ CountersOK
      /\ RulesOK(channel) /\ RulesOK(running)
  BY DEF Types
<1>g. ghost \in Ghost
  BY <1>t DEF CountersOK
<1> SUFFICES /\ TablesOK' /\ PagesOK' /\ CallsOK' /\ CountersOK'
             /\ RulesOK(channel)' /\ RulesOK(running)'
  BY DEF Types
<1> DEFINE Good == /\ TablesOK' /\ PagesOK' /\ CallsOK' /\ CountersOK'
                   /\ RulesOK(channel)' /\ RulesOK(running)'
<1>1. ASSUME NEW u \in Users, Prove(u) PROVE Good
  BY <1>1, <1>t, LeftAlone DEF Prove, PagesOK, CountersOK, tables, poller
<1>2. ASSUME NEW u \in Users, ProofExpires(u) PROVE Good
  BY <1>2, <1>t, LeftAlone DEF ProofExpires, PagesOK, tables, poller, counters
<1>3. ASSUME NEW u \in Users, OpenPage(u) PROVE Good
  <2>1. Counts \in [Lanes -> Nat]
    BY <1>t, CountsAre DEF TablesOK
  <2>. QED
    BY <1>3, <1>t, <1>g, <2>1, LeftAlone, GhostIs
       DEF OpenPage, PagesOK, CountersOK, tables, poller, counters
<1>4. ASSUME NEW u \in Users, ReadSwitch(u) PROVE Good
  <2> DEFINE n == IF InFlight = {} THEN ghost.overlaps ELSE ghost.overlaps + 1
  <2>1. n \in Nat /\ ghost' = [ghost EXCEPT !.overlaps = n]
    BY <1>4, <1>g, GhostIs DEF ReadSwitch
  <2>. HIDE DEF n
  <2>2. ghost' \in Ghost /\ UNCHANGED <<saves, proofs>>
    <3>1. ghost' \in Ghost
      BY <1>g, <2>1, GhostIs
    <3>2. UNCHANGED <<saves, proofs>>
      BY <1>4 DEF ReadSwitch, counters
    <3>. QED
      BY <3>1, <3>2
  <2>3. CountersOK'
    BY <1>t, <2>2 DEF CountersOK
  <2>. QED
    BY <1>4, <1>t, <2>3, LeftAlone, ReadSwitchDoes DEF ReadSwitch, poller
<1>5. ASSUME NEW u \in Users, CheckProof(u) PROVE Good
  <2>1. CallsOK'
    BY <1>5, <1>t, AdvanceKeeps, GiveUpKeeps DEF CheckProof, BeforeInsert
  <2>. QED
    BY <1>5, <1>t, <1>g, <2>1, LeftAlone, GhostIs
       DEF CheckProof, CountersOK, poller, counters
<1>6. ASSUME NEW u \in Users, SpendProof(u) PROVE Good
  <2>1. CallsOK'
    BY <1>6, <1>t, AdvanceKeeps DEF SpendProof, BeforeInsert
  <2>. QED
    BY <1>6, <1>t, <2>1, LeftAlone DEF SpendProof, PagesOK, poller, counters
<1>7. ASSUME NEW u \in Users, DeleteRows(u) PROVE Good
  BY <1>7, <1>t, LeftAlone, DeleteRowsDoes, Zenon DEF DeleteRows, poller, counters
<1>8. ASSUME NEW u \in Users, InsertRows(u) PROVE Good
  <2> DEFINE c   == call[u]
             new == NewRows(c.book, saves + 1, page[u])
  <2>1. /\ c \in Save /\ saves + 1 \in 1..MaxSaves /\ CallsOK'
        /\ \/ UNCHANGED <<rows, targets, saves>>
           \/ /\ rows' = Merge(KeptRows(c), new)
              /\ targets' = KeptTargets(c)
              /\ saves' = saves + 1
    BY <1>8, InsertRowsDoes
  <2>2. c.book \in Books /\ page[u] \in [Lanes -> Nat]
    BY <1>t, <2>1, SaveIs DEF PagesOK
  <2>3. new \in Tables /\ DOMAIN new \subseteq DOMAIN Merge(KeptRows(c), new)
    BY <2>1, <2>2, NewRowsAre DEF Merge
  <2>4. TablesOK'
    <3>1. CASE UNCHANGED <<rows, targets, saves>>
      BY <1>8, <1>t, <3>1 DEF InsertRows, TablesOK
    <3>2. CASE rows' = Merge(KeptRows(c), new) /\ targets' = KeptTargets(c)
      <4>1. KeptRows(c) \in Tables /\ DOMAIN KeptRows(c) = DOMAIN rows \ c.doomed
        BY <1>t, KeptRowsAre DEF TablesOK
      <4>. HIDE DEF c, new
      <4>2. rows' \in Tables /\ DOMAIN rows \ c.doomed \subseteq DOMAIN rows'
        BY <2>3, <3>2, <4>1, MergeIs
      <4>3. /\ DOMAIN targets' = DOMAIN targets \ c.doomed
            /\ \A id \in DOMAIN targets' : targets'[id] = targets[id]
        BY <3>2 DEF KeptTargets, Restrict
      <4>. QED
        BY <1>8, <1>t, <4>2, <4>3 DEF InsertRows, TablesOK
    <3>. QED
      BY <2>1, <3>1, <3>2
  <2>5. ghost' \in Ghost
    BY <1>8, GhostAfterInsert, Zenon
  <2>6. CountersOK'
    BY <1>8, <1>t, <2>1, <2>5 DEF InsertRows, CountersOK
  <2>. QED
    BY <1>8, <1>t, <2>1, <2>4, <2>6, LeftAlone DEF InsertRows, poller
<1>9. ASSUME NEW u \in Users, WriteTargets(u) PROVE Good
  <2> DEFINE c   == call[u]
             ids == c.book[c.at].ids
  <2>1. /\ c \in Save /\ c.at \in DOMAIN c.book /\ CallsOK'
        /\ \/ /\ ghost' = [ghost EXCEPT !.refused = @ \/ ~c.overlap]
              /\ UNCHANGED targets
           \/ /\ ~TargetClash(<<c.n, c.at>>, ids)
              /\ targets' = Merge(targets, [i \in {<<c.n, c.at>>} |-> ids])
              /\ UNCHANGED ghost
    BY <1>9, WriteTargetsDoes
  <2>2. ids \subseteq BookingIds
    BY <2>1, SaveIs, BookIs
  <2>. HIDE DEF ids
  <2>3. TablesOK'
    <3>1. UNCHANGED <<rows, enabled>>
      BY <1>9 DEF WriteTargets
    <3>2. CASE UNCHANGED targets
      BY <1>t, <3>1, <3>2 DEF TablesOK
    <3>3. CASE /\ ~TargetClash(<<c.n, c.at>>, ids)
               /\ targets' = Merge(targets, [i \in {<<c.n, c.at>>} |-> ids])
      <4>1. <<c.n, c.at>> \in DOMAIN rows
        BY <3>3 DEF TargetClash
      <4>2. /\ DOMAIN targets' = DOMAIN targets \cup {<<c.n, c.at>>}
            /\ \A i \in DOMAIN targets' :
                   targets'[i] = IF i = <<c.n, c.at>> THEN ids ELSE targets[i]
        BY <3>3 DEF Merge
      <4>. QED
        BY <1>t, <2>2, <3>1, <4>1, <4>2 DEF TablesOK
    <3>. QED
      BY <2>1, <3>2, <3>3
  <2>4. ghost' \in Ghost
    <3>1. (ghost.refused \/ ~c.overlap) \in BOOLEAN
      OBVIOUS
    <3>. QED
      BY <1>g, <2>1, <3>1, GhostIs
  <2>5. CountersOK'
    BY <1>9, <1>t, <2>4 DEF WriteTargets, CountersOK, counters
  <2>. QED
    BY <1>9, <1>t, <2>1, <2>3, <2>5, LeftAlone DEF WriteTargets, poller
<1>10. ASSUME NEW u \in Users, SetSwitch(u) PROVE Good
  <2>1. call[u].want \in BOOLEAN
    BY <1>10, <1>t, CallIs, SaveIs DEF SetSwitch
  <2>2. CallsOK'
    BY <1>10, <1>t, AdvanceKeeps DEF SetSwitch, AfterInsert
  <2> DEFINE n == IF enabled' /\ ~enabled THEN ghost.arms + 1 ELSE ghost.arms
  <2>3. n \in Nat /\ ghost' = [ghost EXCEPT !.arms = n]
    BY <1>10, <1>g, GhostIs DEF SetSwitch
  <2>. HIDE DEF n
  <2>4. CountersOK'
    BY <1>10, <1>t, <1>g, <2>3, GhostIs DEF SetSwitch, CountersOK, counters
  <2>5. TablesOK'
    BY <1>10, <1>t, <2>1 DEF SetSwitch, TablesOK
  <2>. QED
    BY <1>10, <1>t, <2>2, <2>4, <2>5, LeftAlone DEF SetSwitch, poller
<1>11. ASSUME NEW u \in Users, LoadRows(u) PROVE Good
  BY <1>11, <1>t, LeftAlone, LoadRowsDoes, Zenon DEF LoadRows, poller, counters
<1>12. ASSUME NEW u \in Users, LoadAndSend(u) PROVE Good
  <2>1. call[u].overlap \in BOOLEAN
    BY <1>12, LoadAndSendDoes, SaveIs, Zenon
  <2>. QED
    BY <1>12, <1>t, <1>g, <2>1, LeftAlone, GhostIs, LoadAndSendDoes, Zenon
       DEF LoadAndSend, CountersOK, poller, counters
<1>13. ASSUME NEW u \in Users, Reply(u) PROVE Good
  <2>1. Counts \in [Lanes -> Nat]
    BY <1>t, CountsAre DEF TablesOK
  <2>2. CallsOK'
    BY <1>13, <1>t, GiveUpKeeps DEF Reply, GiveUp
  <2>. QED
    BY <1>13, <1>t, <1>g, <2>1, <2>2, LeftAlone, GhostIs
       DEF Reply, PagesOK, CountersOK, tables, poller, counters
<1>14. ASSUME NEW u \in Users, Fail(u) PROVE Good
  <2>1. CallsOK'
    <3>1. CASE call[u].pc \in {"rows", "send"}
      BY <1>14, <1>t, <3>1, AdvanceKeeps DEF Fail, AfterInsert
    <3>2. CASE call[u].pc \notin {"rows", "send"}
      BY <1>14, <1>t, <3>2, GiveUpKeeps DEF Fail
    <3>. QED
      BY <3>1, <3>2
  <2>2. CountersOK'
    BY <1>14, <1>t, <1>g, GhostIs DEF Fail, CountersOK
  <2>. QED
    BY <1>14, <1>t, <2>1, <2>2, LeftAlone DEF Fail, poller
<1>15. CASE Reload
  BY <1>15, <1>t, LeftAlone DEF Reload, RulesOK, counters
<1>16. CASE Win
  BY <1>16, <1>t, LeftAlone DEF Win
<1>17. CASE Charge
  <2> DEFINE id   == win.rule
  <2>1. CASE id \notin DOMAIN rows
    <3>1. CountersOK'
      BY <1>17, <1>t, <1>g, <2>1, GhostIs DEF Charge, CountersOK, counters
    <3>. QED
      BY <1>17, <1>t, <2>1, <3>1, LeftAlone DEF Charge, tables
  <2>2. CASE id \in DOMAIN rows
    <3>1. rows' \in Tables /\ DOMAIN rows' = DOMAIN rows
      BY <1>17, <1>t, <2>2, RowCharged DEF Charge, TablesOK
    <3>2. TablesOK'
      BY <1>17, <1>t, <3>1 DEF Charge, TablesOK
    <3>3. ghost' \in Ghost
      BY <1>17, <1>t, <1>g, <2>2, GhostAfterCharge DEF Charge, TablesOK
    <3>4. CountersOK'
      BY <1>17, <1>t, <3>3 DEF Charge, CountersOK, counters
    <3>. QED
      BY <1>17, <1>t, <3>2, <3>4, LeftAlone DEF Charge
  <2>. QED
    BY <2>1, <2>2
<1>18. CASE ShowWin
  BY <1>18, <1>t, <1>g, LeftAlone, GhostIs DEF ShowWin, CountersOK, counters
<1>19. CASE Crash
  <2>1. CallsOK' /\ TablesOK' /\ PagesOK'
    BY <1>19, <1>t, LeftAlone DEF Crash, CallsOK
  <2>2. PICK loaded \in BOOLEAN :
          channel' = IF loaded THEN Compile(rows, targets) ELSE NoIds
    BY <1>19 DEF Crash
  <2>3. RulesOK(channel)'
    <3>1. RulesOK(Compile(rows, targets)) /\ RulesOK(NoIds)
      BY <1>t, CompileIs, NoIdsIsTable DEF TablesOK, RulesOK
    <3>. QED
      BY <2>2, <3>1 DEF RulesOK
  <2>4. RulesOK(running)'
    BY <1>19, <2>3 DEF Crash, RulesOK
  <2>5. ghost' \in Ghost
    BY <1>19, <1>g, GhostAfterCrash
  <2>6. CountersOK'
    BY <1>19, <1>t, <2>5 DEF Crash, CountersOK
  <2>. QED
    BY <2>1, <2>3, <2>4, <2>6
<1>20. CASE UNCHANGED vars
  BY <1>20, <1>t, LeftAlone DEF vars, tables
<1>. QED
  BY <1>1, <1>2, <1>3, <1>4, <1>5, <1>6, <1>7, <1>8, <1>9, <1>10, <1>11, <1>12,
     <1>13, <1>14, <1>15, <1>16, <1>17, <1>18, <1>19, <1>20, ZenonT(40)
     DEF Next, UserStep

(***************************************************************************)
(* The tables hold rows of the lists saved, a target belongs to a row, and *)
(* the channel and the poller hold compiled rules.                         *)
(***************************************************************************)
THEOREM SettingsTypes == Spec => []TypeOK
<1>1. Types => TypeOK
  BY TableIs DEF Types, TypeOK, TablesOK, PagesOK, RulesOK, Row, Rule
<1>. QED
  BY <1>1, TypesInit, TypesNext, PTL DEF Spec

-----------------------------------------------------------------------------
(* Overlaps *)

\* What each step of a save but the first leaves of the saves.
GoesOn ==
    /\ ghost'.overlaps = ghost.overlaps
    /\ \A v \in Users : call'[v] # Idle =>
           /\ call[v] # Idle /\ call'[v].overlap = call[v].overlap
           /\ call'[v].book = call[v].book /\ call'[v].want = call[v].want
           /\ call'[v].n = call[v].n \/ InsertRows(v)

LEMMA StepsGoOn ==
    ASSUME Types, [Next]_vars, \A u \in Users : ~ReadSwitch(u)
    PROVE  GoesOn
<1>t. ghost \in Ghost /\ CallsOK
  BY DEF Types, CountersOK
<1> USE DEF GoesOn
<1>a. ASSUME NEW u \in Users, NEW pc, call[u].pc # "idle", Advance(u, pc)
      PROVE  \A v \in Users : call'[v] # Idle =>
               /\ call[v] # Idle /\ call'[v].overlap = call[v].overlap
               /\ call'[v].book = call[v].book /\ call'[v].want = call[v].want
               /\ call'[v].n = call[v].n
  <2>1. call[u] \in Save /\ call[u] # Idle
    BY <1>a, <1>t, CallIs
  <2>2. /\ call'[u] = [call[u] EXCEPT !.pc = pc]
        /\ \A v \in Users \ {u} : call'[v] = call[v]
    BY <1>a, <1>t DEF Advance, CallsOK
  <2>3. /\ call'[u].overlap = call[u].overlap /\ call'[u].book = call[u].book
        /\ call'[u].want = call[u].want /\ call'[u].n = call[u].n
    BY <2>1, <2>2 DEF Save
  <2>. QED
    BY <2>1, <2>2, <2>3
<1>b. ASSUME NEW u \in Users, GiveUp(u)
      PROVE  \A v \in Users : call'[v] # Idle => v # u /\ call'[v] = call[v]
  BY <1>b, <1>t, GiveUpKeeps
<1>1. ASSUME NEW u \in Users, Prove(u) \/ ProofExpires(u) PROVE GoesOn
  BY <1>1 DEF Prove, ProofExpires
<1>3. ASSUME NEW u \in Users, OpenPage(u) PROVE GoesOn
  BY <1>3, <1>t DEF OpenPage, Ghost
<1>5. ASSUME NEW u \in Users, CheckProof(u) PROVE GoesOn
  <2>1. ghost'.overlaps = ghost.overlaps
    BY <1>5, <1>t DEF CheckProof, Unsaved, Ghost
  <2>. QED
    BY <1>5, <1>a, <1>b, <2>1 DEF CheckProof
<1>6. ASSUME NEW u \in Users, SpendProof(u) PROVE GoesOn
  BY <1>6, <1>a DEF SpendProof
<1>7. ASSUME NEW u \in Users, DeleteRows(u) PROVE GoesOn
  <2>1. UNCHANGED ghost
    BY <1>7 DEF DeleteRows
  <2>. QED
    BY <1>7, <2>1, DeleteRowsDoes
<1>8. ASSUME NEW u \in Users, InsertRows(u) PROVE GoesOn
  <2>1. ghost'.overlaps = ghost.overlaps
    BY <1>8, GhostAfterInsert
  <2>. QED
    BY <1>8, <2>1, InsertRowsDoes
<1>9. ASSUME NEW u \in Users, WriteTargets(u) PROVE GoesOn
  <2>1. ghost'.overlaps = ghost.overlaps
    BY <1>9, <1>t, WriteTargetsDoes DEF Ghost
  <2>. QED
    BY <1>9, <2>1, WriteTargetsDoes
<1>10. ASSUME NEW u \in Users, SetSwitch(u) PROVE GoesOn
  BY <1>10, <1>a, <1>t DEF SetSwitch, Ghost
<1>11. ASSUME NEW u \in Users, LoadRows(u) PROVE GoesOn
  <2>1. UNCHANGED ghost
    BY <1>11 DEF LoadRows
  <2>. QED
    BY <1>11, <2>1, LoadRowsDoes
<1>12. ASSUME NEW u \in Users, LoadAndSend(u) PROVE GoesOn
  <2>1. ghost'.overlaps = ghost.overlaps
    BY <1>12, <1>t DEF LoadAndSend, Ghost
  <2>. QED
    BY <1>12, <2>1, LoadAndSendDoes
<1>13. ASSUME NEW u \in Users, Reply(u) PROVE GoesOn
  <2>1. ghost'.overlaps = ghost.overlaps
    BY <1>13, <1>t DEF Reply, Ghost
  <2>. QED
    BY <1>13, <1>b, <2>1 DEF Reply, GiveUp
<1>14. ASSUME NEW u \in Users, Fail(u) PROVE GoesOn
  <2>1. ghost'.overlaps = ghost.overlaps
    BY <1>14, <1>t DEF Fail, Unsaved, Ghost
  <2>. QED
    BY <1>14, <1>a, <1>b, <2>1, Zenon DEF Fail
<1>15. CASE Reload \/ Win
  BY <1>15 DEF Reload, Win
<1>17. CASE Charge
  <2>1. ghost'.overlaps = ghost.overlaps
    BY <1>17, <1>t DEF Charge, Ghost
  <2>. QED
    BY <1>17, <2>1 DEF Charge
<1>18. CASE ShowWin
  BY <1>18, <1>t DEF ShowWin, Ghost
<1>19. CASE Crash
  <2>1. ghost'.overlaps = ghost.overlaps
    BY <1>19, <1>t, GhostAfterCrash
  <2>. QED
    BY <1>19, <2>1 DEF Crash
<1>20. CASE UNCHANGED vars
  BY <1>20 DEF vars
<1>. HIDE DEF GoesOn
<1>. QED
  BY <1>1, <1>3, <1>5, <1>6, <1>7, <1>8, <1>9, <1>10, <1>11, <1>12,
     <1>13, <1>14, <1>15, <1>17, <1>18, <1>19, <1>20, ZenonT(40)
     DEF Next, UserStep

LEMMA ReadSwitchBegins ==
    ASSUME Types, NEW u \in Users, ReadSwitch(u)
    PROVE  /\ call'[u].pc \in {"gate", "delete"}
           /\ \A v \in Users \ {u} : call'[v] # Idle =>
                  /\ call[v] # Idle /\ call'[v].overlap
                  /\ call'[v].pc = call[v].pc /\ call'[v].n = call[v].n
                  /\ call'[v].book = call[v].book /\ call'[v].want = call[v].want
<1>1. call'[u].pc \in {"gate", "delete"}
  BY ReadSwitchDoes
<1>2. \A v \in Users \ {u} :
        /\ call[v] = Idle => call'[v] = Idle
        /\ call[v] # Idle => call'[v] = [call[v] EXCEPT !.overlap = TRUE]
  BY ReadSwitchDoes
<1>3. ASSUME NEW v \in Users \ {u}, call'[v] # Idle
      PROVE  /\ call[v] # Idle /\ call'[v].overlap
             /\ call'[v].pc = call[v].pc /\ call'[v].n = call[v].n
             /\ call'[v].book = call[v].book /\ call'[v].want = call[v].want
  <2>1. call[v] # Idle /\ call'[v] = [call[v] EXCEPT !.overlap = TRUE]
    BY <1>2, <1>3
  <2>2. call[v] \in Save
    BY <2>1 DEF Types, CallsOK
  <2>. QED
    BY <2>1, <2>2 DEF Save
<1>. QED
  BY <1>1, <1>3

LEMMA ReadSwitchKeeps ==
    ASSUME Types, NEW u \in Users, ReadSwitch(u), NEW v \in Users, call[v] # Idle
    PROVE  call'[v] # Idle
<1>1. call[v] \in Save /\ v # u
  BY ReadSwitchDoes DEF Types, CallsOK
<1>2. call'[v] = [call[v] EXCEPT !.overlap = TRUE]
  BY <1>1, ReadSwitchDoes
<1>. QED
  BY <1>1, <1>2 DEF Save, Idle

LEMMA OverlapsInit == Init => Overlaps
BY DEF Init, Overlaps, LoneIsAlone, OverlapsAreCounted

LEMMA OverlapsNext == ASSUME Types, Overlaps, [Next]_vars PROVE Overlaps'
<1> USE DEF Overlaps, LoneIsAlone, OverlapsAreCounted
<1>1. ASSUME NEW u \in Users, ReadSwitch(u) PROVE Overlaps'
  <2>1. ghost \in Ghost
    BY DEF Types, CountersOK
  <2>2. /\ call[u] = Idle /\ call'[u] \in Save
        /\ call'[u].overlap <=> \E v \in Users : call[v] # Idle
    BY <1>1, ReadSwitchDoes, Zenon
  <2>3. \A v \in Users \ {u} : call'[v] # Idle => call[v] # Idle /\ call'[v].overlap
    BY <1>1, ReadSwitchBegins, Zenon
  <2>4. LoneIsAlone'
    BY <2>2, <2>3
  <2>5. ghost'.overlaps = 0 => \A v \in Users : call[v] = Idle
    BY <1>1, <2>1 DEF ReadSwitch, InFlight, Ghost
  <2>6. OverlapsAreCounted'
    BY <2>2, <2>3, <2>5
  <2>. QED
    BY <2>4, <2>6
<1>2. CASE \A u \in Users : ~ReadSwitch(u)
  <2>1. GoesOn
    BY <1>2, StepsGoOn
  <2>. QED
    BY <2>1 DEF GoesOn
<1>. QED
  BY <1>1, <1>2

-----------------------------------------------------------------------------
(* What a lone save finds in the tables *)

\* What the steps leave that neither begin a save nor write the lists.
Aside ==
    /\ SameRules(rows', rows) /\ UNCHANGED targets
    /\ ghost'.refused = ghost.refused
    /\ \A v \in Users : call'[v].pc \in {"insert", "targets"} => call'[v] = call[v]

LEMMA StepsAside ==
    ASSUME Types, [Next]_vars,
           \A u \in Users : /\ ~ReadSwitch(u) /\ ~DeleteRows(u)
                            /\ ~InsertRows(u) /\ ~WriteTargets(u)
    PROVE  Aside
<1>t. ghost \in Ghost /\ CallsOK /\ rows \in Tables
  BY DEF Types, CountersOK, TablesOK
<1>s. UNCHANGED rows => SameRules(rows', rows)
  BY DEF SameRules
<1>a. ASSUME NEW u \in Users, NEW pc, pc \notin {"insert", "targets"}, Advance(u, pc)
      PROVE  \A v \in Users : call'[v].pc \in {"insert", "targets"} => call'[v] = call[v]
  <2>1. /\ call'[u] = [call[u] EXCEPT !.pc = pc]
        /\ \A v \in Users \ {u} : call'[v] = call[v]
    BY <1>a, <1>t DEF Advance, CallsOK
  <2>2. call'[u].pc \in {pc, "idle"}
    <3>1. call[u] \in {Idle} \cup Save
      BY <1>t DEF CallsOK
    <3>2. call[u] \in Save => [call[u] EXCEPT !.pc = pc].pc = pc
      BY DEF Save
    <3>3. [Idle EXCEPT !.pc = pc].pc = pc
      BY DEF Idle
    <3>. QED
      BY <2>1, <3>1, <3>2, <3>3
  <2>. QED
    BY <1>a, <2>1, <2>2
<1>b. ASSUME NEW u \in Users, GiveUp(u)
      PROVE  \A v \in Users : call'[v].pc \in {"insert", "targets"} => call'[v] = call[v]
  BY <1>b, <1>t, GiveUpKeeps DEF Idle
<1> USE DEF Aside
<1>1. ASSUME NEW u \in Users, Prove(u) \/ ProofExpires(u) PROVE Aside
  BY <1>1, <1>s DEF Prove, ProofExpires, tables
<1>3. ASSUME NEW u \in Users, OpenPage(u) PROVE Aside
  BY <1>3, <1>s, <1>t DEF OpenPage, Ghost, tables
<1>5. ASSUME NEW u \in Users, CheckProof(u) PROVE Aside
  <2>1. ghost'.refused = ghost.refused
    BY <1>5, <1>t DEF CheckProof, Unsaved, Ghost
  <2>. QED
    BY <1>5, <1>s, <1>a, <1>b, <2>1 DEF CheckProof, tables
<1>6. ASSUME NEW u \in Users, SpendProof(u) PROVE Aside
  BY <1>6, <1>s, <1>a DEF SpendProof, tables
<1>10. ASSUME NEW u \in Users, SetSwitch(u) PROVE Aside
  <2>1. ghost'.refused = ghost.refused
    BY <1>10, <1>t DEF SetSwitch, Ghost
  <2>. QED
    BY <1>10, <1>s, <1>a, <2>1 DEF SetSwitch
<1>11. ASSUME NEW u \in Users, LoadRows(u) PROVE Aside
  BY <1>11, <1>s, LoadRowsDoes, Zenon DEF LoadRows, tables
<1>12. ASSUME NEW u \in Users, LoadAndSend(u) PROVE Aside
  <2>1. ghost'.refused = ghost.refused
    BY <1>12, <1>t DEF LoadAndSend, Ghost
  <2>. QED
    BY <1>12, <1>s, <2>1, LoadAndSendDoes, Zenon DEF LoadAndSend, tables
<1>13. ASSUME NEW u \in Users, Reply(u) PROVE Aside
  <2>1. ghost'.refused = ghost.refused
    BY <1>13, <1>t DEF Reply, Ghost
  <2>. QED
    BY <1>13, <1>s, <1>b, <2>1 DEF Reply, GiveUp, tables
<1>14. ASSUME NEW u \in Users, Fail(u) PROVE Aside
  <2>1. ghost'.refused = ghost.refused
    BY <1>14, <1>t DEF Fail, Unsaved, Ghost
  <2>. QED
    BY <1>14, <1>s, <1>a, <1>b, <2>1 DEF Fail, tables
<1>15. CASE Reload \/ Win
  BY <1>15, <1>s DEF Reload, Win, tables
<1>17. CASE Charge
  <2>1. ghost'.refused = ghost.refused
    BY <1>17, <1>t DEF Charge, Ghost
  <2>2. SameRules(rows', rows)
    <3>1. CASE win.rule \notin DOMAIN rows
      BY <1>17, <1>s, <3>1 DEF Charge
    <3>2. CASE win.rule \in DOMAIN rows
      BY <1>17, <1>t, <3>2, RowCharged DEF SameRules
    <3>. QED
      BY <3>1, <3>2
  <2>. QED
    BY <1>17, <2>1, <2>2 DEF Charge
<1>18. CASE ShowWin
  BY <1>18, <1>s, <1>t DEF ShowWin, Ghost, tables
<1>19. CASE Crash
  <2>1. ghost'.refused = ghost.refused
    BY <1>19, <1>t, GhostAfterCrash
  <2>. QED
    BY <1>19, <1>s, <2>1 DEF Crash, tables, Idle
<1>20. CASE UNCHANGED vars
  BY <1>20, <1>s DEF vars
<1>. HIDE DEF Aside
<1>. QED
  BY <1>1, <1>3, <1>5, <1>6, <1>10, <1>11, <1>12,
     <1>13, <1>14, <1>15, <1>17, <1>18, <1>19, <1>20, ZenonT(40)
     DEF Next, UserStep

\* A save that goes on is not one that begins.
LEMMA InsertRowsIsNotFirst ==
    ASSUME Types, NEW u \in Users, call[u].pc \in {"delete", "insert", "targets"},
           \A v \in Users \ {u} : call'[v] = call[v]
    PROVE  \A v \in Users : ~ReadSwitch(v)
<1>. SUFFICES ASSUME NEW v \in Users, ReadSwitch(v) PROVE FALSE
  OBVIOUS
<1>1. v # u /\ call[v] = Idle
  BY DEF ReadSwitch, Idle
<1>2. call'[v] # Idle
  BY ReadSwitchDoes, SaveIs
<1>. QED
  BY <1>1, <1>2

LEMMA HealsInit == Init => Heals
BY DEF Init, Heals, SaveHeals, DoomsAll, OwnTables, Lone

LEMMA HealsNext == ASSUME Types, Overlaps, Heals, [Next]_vars PROVE Heals'
<1>t. ghost \in Ghost /\ CallsOK /\ rows \in Tables
  BY DEF Types, CountersOK, TablesOK
<1> USE DEF Heals, SaveHeals, DoomsAll, OwnTables
<1>l. \A u, v \in Users : call[u] # Idle /\ Lone(v) => u = v
  BY DEF Overlaps, LoneIsAlone, Lone
<1>g. (\A u \in Users : ~ReadSwitch(u)) => \A v \in Users : Lone(v)' => Lone(v)
  BY StepsGoOn DEF GoesOn, Lone
<1>1. ASSUME NEW u \in Users, ReadSwitch(u) PROVE Heals'
  <2>1. /\ call'[u].pc \in {"gate", "delete"}
        /\ \A v \in Users \ {u} : call'[v] # Idle => call'[v].overlap
    BY <1>1, ReadSwitchBegins
  <2>2. \A v \in Users : Lone(v)' => v = u
    BY <2>1 DEF Lone
  <2>3. ghost'.refused = ghost.refused
    BY <1>1, <1>t DEF ReadSwitch, Ghost
  <2>. QED
    BY <2>1, <2>2, <2>3
<1>2. ASSUME NEW u \in Users, DeleteRows(u) PROVE Heals'
  <2>1. /\ call'[u].pc = "insert" /\ call'[u].doomed = DOMAIN rows
        /\ \A v \in Users \ {u} : call'[v] = call[v]
        /\ UNCHANGED <<rows, targets, ghost>>
    BY <1>2, DeleteRowsDoes, Zenon DEF DeleteRows, tables
  <2>. QED
    BY <2>1 DEF Lone
<1>3. ASSUME NEW u \in Users, InsertRows(u) PROVE Heals'
  <2> DEFINE c   == call[u]
             new == NewRows(c.book, saves + 1, page[u])
  <2>1. /\ c \in Save /\ c # Idle /\ c.pc = "insert"
        /\ saves + 1 \in 1..MaxSaves
        /\ \A v \in Users \ {u} : call'[v] = call[v]
    BY <1>3, InsertRowsDoes
  <2>2. c.book \in Books /\ page[u] \in [Lanes -> Nat] /\ c.overlap \in BOOLEAN
    BY <2>1, SaveIs DEF Types, PagesOK
  <2>3. DOMAIN new = {<<saves + 1, i>> : i \in DOMAIN c.book}
    BY <2>1, <2>2, NewRowsAre
  <2>4. ~c.overlap => DOMAIN KeptRows(c) = {} /\ DOMAIN KeptTargets(c) = {}
    BY <1>t, <2>1 DEF Lone, KeptRows, KeptTargets, Restrict, Types, TablesOK
  <2>5. ~c.overlap => ~LaneClash(KeptRows(c), new)
    BY <2>4 DEF LaneClash
  <2>6. ~ghost'.refused
    BY <1>3, <2>2, <2>5, GhostAfterInsert
  <2>7. \A v \in Users : Lone(v)' => v = u /\ ~c.overlap
    BY <1>3, <1>g, <1>l, <2>1, <2>2, StepsGoOn, InsertRowsIsNotFirst DEF Lone
  <2>8. CASE c.overlap
    BY <2>6, <2>7, <2>8
  <2>9. CASE ~c.overlap
    <3>1. /\ rows' = Merge(KeptRows(c), new) /\ targets' = KeptTargets(c)
          /\ call'[u].pc \in {"targets", "switch"}
          /\ call'[u].n = saves + 1 /\ call'[u].book = c.book
      BY <1>3, <2>5, <2>9, InsertRowsDoes
    <3>2. DOMAIN rows' = {<<call'[u].n, i>> : i \in DOMAIN call'[u].book}
      <4>1. KeptRows(c) \in Tables /\ new \in Tables
        BY <1>t, <2>1, <2>2, NewRowsAre, KeptRowsAre
      <4>. HIDE DEF new
      <4>2. DOMAIN rows' = DOMAIN new
        BY <2>4, <2>9, <3>1, <4>1, MergeIs
      <4>. QED
        BY <2>3, <3>1, <4>2
    <3>3. DOMAIN targets' = {}
      BY <2>4, <2>9, <3>1
    <3>. QED
      BY <2>6, <2>7, <3>1, <3>2, <3>3
  <2>. QED
    BY <2>2, <2>8, <2>9
<1>4. ASSUME NEW u \in Users, WriteTargets(u) PROVE Heals'
  <2> DEFINE c   == call[u]
             id  == <<c.n, c.at>>
             ids == c.book[c.at].ids
  <2>1. /\ c \in Save /\ c # Idle /\ c.pc = "targets" /\ c.at \in DOMAIN c.book
        /\ \A v \in Users \ {u} : call'[v] = call[v]
    BY <1>4, WriteTargetsDoes
  <2>2. c.book \in Books /\ c.overlap \in BOOLEAN
    BY <2>1, SaveIs
  <2>3. ~c.overlap => ~TargetClash(id, ids)
    <3>. SUFFICES ASSUME ~c.overlap PROVE ~TargetClash(id, ids)
      OBVIOUS
    <3>1. /\ DOMAIN rows = {<<c.n, i>> : i \in DOMAIN c.book}
          /\ \A j \in DOMAIN targets : targets[j] = c.book[j[2]].ids
          /\ DOMAIN targets \subseteq DOMAIN rows
      BY <2>1 DEF Lone, Types, TablesOK
    <3>2. ASSUME NEW other \in DOMAIN targets \ {id}
          PROVE  targets[other] \cap ids = {}
      <4>1. PICK i \in DOMAIN c.book : other = <<c.n, i>>
        BY <3>1, <3>2
      <4>2. i # c.at /\ other[2] = i
        BY <3>2, <4>1
      <4>3. targets[other] = c.book[i].ids
        BY <3>1, <3>2, <4>2
      <4>4. c.book[i].ids \cap c.book[c.at].ids = {}
        BY <2>1, <2>2, <4>2, BookIs, Zenon
      <4>. QED
        BY <4>3, <4>4
    <3>. QED
      BY <2>1, <3>1, <3>2 DEF TargetClash
  <2>4. \A v \in Users : Lone(v)' => v = u /\ ~c.overlap
    BY <1>4, <1>g, <1>l, <2>1, <2>2, InsertRowsIsNotFirst DEF Lone
  <2>5. /\ ~ghost'.refused /\ UNCHANGED rows
    <3>1. (ghost.refused \/ ~c.overlap) \in BOOLEAN
      OBVIOUS
    <3>2. c.overlap => (ghost.refused \/ ~c.overlap) = FALSE
      BY <2>2
    <3>3. \/ UNCHANGED ghost
          \/ c.overlap /\ ghost' = [ghost EXCEPT !.refused = ghost.refused \/ ~c.overlap]
      BY <1>4, <2>2, <2>3, WriteTargetsDoes
    <3>4. ~ghost'.refused
      BY <1>t, <3>2, <3>3 DEF Ghost
    <3>. QED
      BY <1>4, <3>4 DEF WriteTargets
  <2>6. CASE c.overlap
    BY <2>4, <2>5, <2>6
  <2>7. CASE ~c.overlap
    <3>1. /\ targets' = Merge(targets, [i \in {id} |-> ids])
          /\ call'[u].pc \in {"targets", "switch"}
          /\ call'[u].n = c.n /\ call'[u].book = c.book
      BY <1>4, <2>3, <2>7, WriteTargetsDoes
    <3>2. /\ DOMAIN rows = {<<c.n, i>> : i \in DOMAIN c.book}
          /\ \A j \in DOMAIN targets : targets[j] = c.book[j[2]].ids
      BY <2>1, <2>7 DEF Lone
    <3>3. \A j \in DOMAIN targets' : targets'[j] = c.book[j[2]].ids
      BY <3>1, <3>2 DEF Merge
    <3>. QED
      BY <2>4, <2>5, <3>1, <3>2, <3>3
  <2>. QED
    BY <2>2, <2>6, <2>7
<1>5. CASE \A u \in Users : /\ ~ReadSwitch(u) /\ ~DeleteRows(u)
                            /\ ~InsertRows(u) /\ ~WriteTargets(u)
  <2>1. Aside /\ \A v \in Users : Lone(v)' => Lone(v)
    BY <1>5, <1>g, StepsAside
  <2>2. DOMAIN rows' = DOMAIN rows
    BY <2>1 DEF Aside, SameRules
  <2>3. /\ targets' = targets /\ ghost'.refused = ghost.refused
        /\ \A v \in Users : call'[v].pc \in {"insert", "targets"} => call'[v] = call[v]
    BY <2>1 DEF Aside
  <2>4. DoomsAll'
    BY <2>1, <2>2, <2>3
  <2>5. OwnTables'
    BY <2>1, <2>2, <2>3
  <2>. QED
    BY <2>3, <2>4, <2>5
<1>. QED
  BY <1>1, <1>2, <1>3, <1>4, <1>5

(***************************************************************************)
(* A save that runs alone meets neither the unique indices nor the foreign *)
(* key, whatever overlapping, failed or crashed saves left in the tables:  *)
(* its DELETE sees every row, and dedupe_rules leaves no id to two rules.  *)
(***************************************************************************)
THEOREM SavesHeal == Spec => []SaveHeals
<1>1. Heals => SaveHeals
  BY DEF Heals
<1>. QED
  BY <1>1, TypesInit, TypesNext, OverlapsInit, OverlapsNext, HealsInit, HealsNext,
     PTL DEF Spec

-----------------------------------------------------------------------------
(* What is pushed *)

LEMMA SameCompile ==
    ASSUME NEW f \in Tables, NEW g \in Tables, SameRules(f, g), NEW ts
    PROVE  Compile(f, ts) = Compile(g, ts)
BY DEF SameRules, Compile

\* What the steps leave that change neither the lists nor the channel.
Unsent ==
    /\ UNCHANGED <<channel, targets>> /\ ghost'.synced = ghost.synced
    /\ SameRules(rows', rows)
    /\ \A v \in Users : call'[v].pc \in {"send", "targets"} => call'[v] = call[v]

LEMMA StepsUnsent ==
    ASSUME Types, [Next]_vars, ~Crash,
           \A u \in Users : /\ ~ReadSwitch(u) /\ ~DeleteRows(u) /\ ~InsertRows(u)
                            /\ ~WriteTargets(u) /\ ~LoadRows(u) /\ ~LoadAndSend(u)
    PROVE  Unsent
<1>t. ghost \in Ghost /\ CallsOK
  BY DEF Types, CountersOK
<1>s. /\ SameRules(rows', rows) /\ UNCHANGED targets
      /\ \A v \in Users : call'[v].pc = "targets" => call'[v] = call[v]
  BY StepsAside DEF Aside
<1> DEFINE Kept == /\ UNCHANGED channel /\ ghost'.synced = ghost.synced
                   /\ \A v \in Users : call'[v].pc = "send" => call'[v] = call[v]
<1>a. ASSUME NEW u \in Users, NEW pc, pc # "send", Advance(u, pc)
      PROVE  \A v \in Users : call'[v].pc = "send" => call'[v] = call[v]
  <2>1. /\ call'[u] = [call[u] EXCEPT !.pc = pc]
        /\ \A v \in Users \ {u} : call'[v] = call[v]
    BY <1>a, <1>t DEF Advance, CallsOK
  <2>2. call'[u].pc = pc
    <3>1. call[u] \in {Idle} \cup Save
      BY <1>t DEF CallsOK
    <3>2. call[u] \in Save => [call[u] EXCEPT !.pc = pc].pc = pc
      BY DEF Save
    <3>3. [Idle EXCEPT !.pc = pc].pc = pc
      BY DEF Idle
    <3>. QED
      BY <2>1, <3>1, <3>2, <3>3
  <2>. QED
    BY <1>a, <2>1, <2>2
<1>b. ASSUME NEW u \in Users, GiveUp(u)
      PROVE  \A v \in Users : call'[v].pc = "send" => call'[v] = call[v]
  BY <1>b, <1>t, GiveUpKeeps DEF Idle
<1>1. ASSUME NEW u \in Users, Prove(u) \/ ProofExpires(u) PROVE Kept
  BY <1>1 DEF Prove, ProofExpires
<1>2. ASSUME NEW u \in Users, OpenPage(u) PROVE Kept
  BY <1>2, <1>t DEF OpenPage, Ghost
<1>3. ASSUME NEW u \in Users, CheckProof(u) PROVE Kept
  <2>1. ghost'.synced = ghost.synced
    BY <1>3, <1>t DEF CheckProof, Unsaved, Ghost
  <2>. QED
    BY <1>3, <1>a, <1>b, <2>1 DEF CheckProof
<1>4. ASSUME NEW u \in Users, SpendProof(u) PROVE Kept
  BY <1>4, <1>a DEF SpendProof
<1>5. ASSUME NEW u \in Users, SetSwitch(u) PROVE Kept
  <2>1. ghost'.synced = ghost.synced
    BY <1>5, <1>t DEF SetSwitch, Ghost
  <2>. QED
    BY <1>5, <1>a, <2>1 DEF SetSwitch
<1>6. ASSUME NEW u \in Users, Reply(u) PROVE Kept
  <2>1. ghost'.synced = ghost.synced
    BY <1>6, <1>t DEF Reply, Ghost
  <2>. QED
    BY <1>6, <1>b, <2>1 DEF Reply, GiveUp
<1>7. ASSUME NEW u \in Users, Fail(u) PROVE Kept
  <2>1. ghost'.synced = ghost.synced
    BY <1>7, <1>t DEF Fail, Unsaved, Ghost
  <2>. QED
    BY <1>7, <1>a, <1>b, <2>1 DEF Fail
<1>8. ASSUME Reload \/ Win PROVE Kept
  BY <1>8 DEF Reload, Win
<1>9. ASSUME Charge PROVE Kept
  <2>1. ghost'.synced = ghost.synced
    BY <1>9, <1>t DEF Charge, Ghost
  <2>. QED
    BY <1>9, <2>1 DEF Charge
<1>10. ASSUME ShowWin PROVE Kept
  BY <1>10, <1>t DEF ShowWin, Ghost
<1>11. ASSUME UNCHANGED vars PROVE Kept
  BY <1>11 DEF vars
<1>12. Kept
  BY <1>1, <1>2, <1>3, <1>4, <1>5, <1>6, <1>7, <1>8, <1>9, <1>10, <1>11, ZenonT(40)
     DEF Next, UserStep
<1>. QED
  BY <1>s, <1>12 DEF Unsent

LEMMA PushedInit == Init => Pushed
BY DEF Init, Pushed, SaveIsPushed, LoadIsCurrent, TargetsUnsent, Compile, NoIds, Idle

LEMMA PushedNext == ASSUME Types, Overlaps, Pushed, [Next]_vars PROVE Pushed'
<1>t. /\ ghost \in Ghost /\ CallsOK /\ rows \in Tables
      /\ rows' \in Tables
  BY TypesNext DEF Types, CountersOK, TablesOK
<1> USE DEF Pushed, SaveIsPushed, LoadIsCurrent, TargetsUnsent
<1>l. \A u, v \in Users : call[u] # Idle /\ Lone(v) => u = v
  BY DEF Overlaps, LoneIsAlone, Lone
<1>g. (\A u \in Users : ~ReadSwitch(u)) => \A v \in Users : Lone(v)' => Lone(v)
  BY StepsGoOn DEF GoesOn, Lone
<1>1. ASSUME NEW u \in Users, ReadSwitch(u) PROVE Pushed'
  <2>1. /\ call'[u].pc \in {"gate", "delete"}
        /\ \A v \in Users \ {u} : call'[v] # Idle =>
               call'[v].overlap /\ call'[v].pc = call[v].pc
    BY <1>1, ReadSwitchBegins
  <2>2. \A v \in Users : Lone(v)' => v = u
    BY <2>1 DEF Lone
  <2>3. /\ ghost'.synced = ghost.synced
        /\ UNCHANGED <<rows, targets, channel>>
    BY <1>1, <1>t DEF ReadSwitch, Ghost, tables
  <2>4. \A v \in Users : call'[v].pc = "targets" => call[v].pc = "targets"
    BY <2>1 DEF Idle
  <2>. QED
    BY <2>1, <2>2, <2>3, <2>4
<1>2. ASSUME NEW u \in Users, DeleteRows(u) PROVE Pushed'
  <2>1. /\ call'[u].pc = "insert" /\ \A v \in Users \ {u} : call'[v] = call[v]
        /\ UNCHANGED <<rows, targets, channel, ghost>>
    BY <1>2, DeleteRowsDoes, Zenon DEF DeleteRows, tables
  <2>. QED
    BY <2>1 DEF Lone
<1>3. ASSUME NEW u \in Users, InsertRows(u) PROVE Pushed'
  <2>1. /\ call[u] # Idle /\ call[u].pc = "insert" /\ UNCHANGED channel
        /\ \A v \in Users \ {u} : call'[v] = call[v]
        /\ call'[u] = Idle \/ call'[u].pc \in {"targets", "switch"}
    BY <1>3, InsertRowsDoes, Zenon DEF InsertRows
  <2>2. \A v \in Users : Lone(v)' => Lone(v)
    BY <1>3, <1>g, <2>1, InsertRowsIsNotFirst
  <2>3. \A v \in Users : Lone(v)' => v = u
    BY <1>l, <2>1, <2>2
  <2>4. LoadIsCurrent'
    BY <2>1, <2>3 DEF Idle
  <2>5. CASE LaneClash(KeptRows(call[u]), NewRows(call[u].book, saves + 1, page[u]))
    <3>1. UNCHANGED <<rows, targets>> /\ ghost'.synced = ghost.synced /\ call'[u] = Idle
      BY <1>3, <2>5, GhostAfterInsert, GiveUpKeeps, <1>t, Zenon DEF InsertRows
    <3>. QED
      BY <2>1, <2>4, <3>1 DEF Idle
  <2>6. CASE ~LaneClash(KeptRows(call[u]), NewRows(call[u].book, saves + 1, page[u]))
    <3>1. ~ghost'.synced
      BY <1>3, <2>6, GhostAfterInsert
    <3>. QED
      BY <2>4, <3>1
  <2>. QED
    BY <2>5, <2>6
<1>4. ASSUME NEW u \in Users, WriteTargets(u) PROVE Pushed'
  <2>1. /\ call[u] # Idle /\ call[u].pc = "targets" /\ UNCHANGED <<channel, rows>>
        /\ \A v \in Users \ {u} : call'[v] = call[v]
        /\ call'[u] = Idle \/ call'[u].pc \in {"targets", "switch"}
    BY <1>4, WriteTargetsDoes DEF WriteTargets
  <2>2. ghost'.synced = ghost.synced
    BY <1>4, <1>t, WriteTargetsDoes DEF Ghost
  <2>3. ~ghost'.synced
    BY <2>1, <2>2
  <2>4. \A v \in Users : Lone(v)' => v = u
    BY <1>4, <1>g, <1>l, <2>1, InsertRowsIsNotFirst
  <2>. QED
    BY <2>1, <2>3, <2>4 DEF Idle
<1>5. ASSUME NEW u \in Users, LoadRows(u) PROVE Pushed'
  <2>1. /\ call'[u].pc = "send" /\ call'[u].got = rows
        /\ \A v \in Users \ {u} : call'[v] = call[v]
        /\ UNCHANGED <<rows, targets, channel, ghost>>
    BY <1>5, LoadRowsDoes, Zenon DEF LoadRows, tables
  <2>2. SameRules(rows, rows)
    BY DEF SameRules
  <2>3. LoadIsCurrent'
    <3>. SUFFICES ASSUME NEW v \in Users, Lone(v)', call'[v].pc = "send"
                  PROVE  SameRules(call'[v].got, rows)
      BY <2>1
    <3>1. CASE v = u
      BY <2>1, <2>2, <3>1
    <3>2. CASE v # u
      BY <2>1, <3>2 DEF Lone
    <3>. QED
      BY <3>1, <3>2
  <2>. QED
    BY <2>1, <2>3
<1>6. ASSUME NEW u \in Users, LoadAndSend(u) PROVE Pushed'
  <2>1. /\ call[u] \in Save /\ call[u] # Idle /\ call[u].pc = "send"
        /\ call'[u].pc = "reply" /\ call'[u].overlap = call[u].overlap
        /\ \A v \in Users \ {u} : call'[v] = call[v]
    BY <1>6, LoadAndSendDoes, Zenon
  <2>2. /\ UNCHANGED <<rows, targets>> /\ channel' = Compile(call[u].got, targets)
    BY <1>6 DEF LoadAndSend, tables
  <2>3. call[u].got \in Tables /\ call[u].overlap \in BOOLEAN
    BY <2>1, SaveIs
  <2>4. ghost'.synced <=> Lone(u)
    BY <1>6, <1>t, <2>1, <2>3 DEF LoadAndSend, Ghost, Lone
  <2>5. SaveIsPushed'
    BY <1>t, <2>1, <2>2, <2>3, <2>4, SameCompile
  <2>6. TargetsUnsent'
    BY <1>l, <2>1, <2>4 DEF Lone, Idle, CallsOK
  <2>7. LoadIsCurrent'
    BY <2>1, <2>2 DEF Lone
  <2>. QED
    BY <2>5, <2>6, <2>7
<1>7. CASE Crash
  <2>1. /\ \A v \in Users : call'[v] = Idle
        /\ UNCHANGED <<rows, targets>>
    BY <1>7 DEF Crash, tables
  <2>2. ghost'.synced => channel' = Compile(rows, targets)
    BY <1>7, <1>t DEF Crash, Ghost
  <2>. QED
    BY <2>1, <2>2 DEF Idle
<1>8. CASE /\ ~Crash
           /\ \A u \in Users : /\ ~ReadSwitch(u) /\ ~DeleteRows(u) /\ ~InsertRows(u)
                               /\ ~WriteTargets(u) /\ ~LoadRows(u) /\ ~LoadAndSend(u)
  <2>1. Unsent /\ \A v \in Users : Lone(v)' => Lone(v)
    BY <1>8, <1>g, StepsUnsent
  <2>2. SaveIsPushed'
    BY <1>t, <2>1, SameCompile DEF Unsent
  <2>3. LoadIsCurrent'
    BY <2>1 DEF Unsent, SameRules
  <2>4. TargetsUnsent'
    BY <2>1 DEF Unsent
  <2>. QED
    BY <2>2, <2>3, <2>4
<1>. QED
  BY <1>1, <1>2, <1>3, <1>4, <1>5, <1>6, <1>7, <1>8, ZenonT(40)

(***************************************************************************)
(* Once a lone save has sent its rules, the channel holds every row with   *)
(* all its booking ids, until another save commits: nothing it read for    *)
(* the rules has changed when it sends them.                               *)
(***************************************************************************)
THEOREM SavesArePushed == Spec => []SaveIsPushed
<1>1. Pushed => SaveIsPushed
  BY DEF Pushed
<1>. QED
  BY <1>1, TypesInit, TypesNext, OverlapsInit, OverlapsNext, PushedInit, PushedNext,
     PTL DEF Spec

-----------------------------------------------------------------------------
(* Counts *)

LEMMA CountsAreDue ==
    ASSUME Types, Exact, ghost.exact
    PROVE  \A l \in Lanes : Counts[l] = ghost.due[l]
<1>. SUFFICES ASSUME NEW l \in Lanes PROVE Counts[l] = ghost.due[l]
  OBVIOUS
<1>1. CASE \E id \in DOMAIN rows : rows[id].lane = l
  <2> DEFINE it == CHOOSE id \in DOMAIN rows : rows[id].lane = l
  <2>1. it \in DOMAIN rows /\ rows[it].lane = l
    BY <1>1
  <2>2. Counts[l] = rows[it].count
    BY <1>1 DEF Counts
  <2>. HIDE DEF it
  <2>. QED
    BY <2>1, <2>2 DEF Exact, CountsAreExact
<1>2. CASE ~\E id \in DOMAIN rows : rows[id].lane = l
  BY <1>2 DEF Counts, Exact, GoneIsZero
<1>. QED
  BY <1>1, <1>2

\* What the steps leave that touch neither the counts nor a page.
Echoed ==
    /\ UNCHANGED <<rows, page>> /\ ghost'.due = ghost.due
    /\ ghost'.exact => ghost.exact
    /\ \A v \in Users : ghost'.fresh[v] => ghost.fresh[v] /\ Echoes(v)' \subseteq Echoes(v)

LEMMA StepsEcho ==
    ASSUME Types, [Next]_vars, ~Charge,
           \A u \in Users : /\ ~ReadSwitch(u) /\ ~InsertRows(u)
                            /\ ~OpenPage(u) /\ ~Reply(u)
    PROVE  Echoed
<1>t. ghost \in Ghost /\ CallsOK
  BY DEF Types, CountersOK
<1> USE DEF Echoed
<1>c. ASSUME UNCHANGED <<rows, page, call, ghost>> PROVE Echoed
  BY <1>c DEF Echoes
<1>e. ASSUME NEW u \in Users, call[u] # Idle, call'[u].n = call[u].n,
             call'[u] # Idle, call'[u].book = call[u].book
      PROVE  Echoes(u)' \subseteq Echoes(u)
  BY <1>e DEF Echoes
<1>n. ASSUME NEW u \in Users, call[u].n # 0 PROVE Echoes(u)' \subseteq Echoes(u)
  BY <1>n DEF Echoes
<1>s. ASSUME NEW v \in Users, call'[v] = call[v] PROVE Echoes(v)' \subseteq Echoes(v)
  BY <1>s DEF Echoes
<1>a. ASSUME NEW u \in Users, NEW pc, call[u].pc # "idle", pc # "idle", Advance(u, pc)
      PROVE  \A v \in Users : Echoes(v)' \subseteq Echoes(v)
  <2>1. call[u] \in Save /\ call[u] # Idle
    BY <1>a, <1>t, CallIs
  <2>2. /\ call'[u] = [call[u] EXCEPT !.pc = pc]
        /\ \A v \in Users \ {u} : call'[v] = call[v]
    BY <1>a, <1>t DEF Advance, CallsOK
  <2>3. call'[u].n = call[u].n /\ call'[u].book = call[u].book /\ call'[u] # Idle
    BY <1>a, <2>1, <2>2 DEF Save, Idle
  <2>. QED
    BY <2>1, <2>2, <2>3, <1>e, <1>s
<1>1. ASSUME NEW u \in Users, Prove(u) \/ ProofExpires(u) PROVE Echoed
  BY <1>1, <1>c DEF Prove, ProofExpires, tables
<1>2. ASSUME NEW u \in Users, CheckProof(u) PROVE Echoed
  <2>1. CASE proof[u]
    BY <1>2, <1>a, <2>1 DEF CheckProof, tables
  <2>2. CASE ~proof[u]
    <3>1. GiveUp(u) /\ ghost' = Unsaved(ghost, u) /\ UNCHANGED <<rows, page>>
      BY <1>2, <2>2 DEF CheckProof, tables
    <3>2. \A v \in Users \ {u} : call'[v] = call[v]
      BY <1>t, <3>1, GiveUpKeeps
    <3>3. /\ ghost'.due = ghost.due /\ ghost'.exact = ghost.exact
          /\ ghost'.fresh = [ghost.fresh EXCEPT ![u] = FALSE]
      BY <1>t, <3>1 DEF Unsaved, Ghost
    <3>4. ghost.fresh \in [Users -> BOOLEAN]
      BY <1>t DEF Ghost
    <3>. QED
      BY <1>s, <3>1, <3>2, <3>3, <3>4
  <2>. QED
    BY <2>1, <2>2
<1>3. ASSUME NEW u \in Users, SpendProof(u) PROVE Echoed
  BY <1>3, <1>a DEF SpendProof, tables
<1>4. ASSUME NEW u \in Users, DeleteRows(u) PROVE Echoed
  <2>1. /\ call[u] # Idle /\ call'[u] # Idle /\ call'[u].n = call[u].n
        /\ call'[u].book = call[u].book
        /\ \A v \in Users \ {u} : call'[v] = call[v]
    BY <1>4, DeleteRowsDoes, SaveIs
  <2>2. \A v \in Users : Echoes(v)' \subseteq Echoes(v)
    BY <2>1, <1>e, <1>s
  <2>. QED
    BY <1>4, <2>2 DEF DeleteRows, tables
<1>5. ASSUME NEW u \in Users, WriteTargets(u) PROVE Echoed
  <2>1. call[u].n # 0 /\ \A v \in Users \ {u} : call'[v] = call[v]
    BY <1>5, WriteTargetsDoes
  <2>2. \A v \in Users : Echoes(v)' \subseteq Echoes(v)
    BY <2>1, <1>n, <1>s
  <2>3. /\ ghost'.due = ghost.due /\ ghost'.exact = ghost.exact
        /\ ghost'.fresh = ghost.fresh
    BY <1>5, <1>t, WriteTargetsDoes DEF Ghost
  <2>. QED
    BY <1>5, <2>2, <2>3 DEF WriteTargets
<1>6. ASSUME NEW u \in Users, SetSwitch(u) PROVE Echoed
  <2>1. /\ ghost'.due = ghost.due /\ ghost'.exact = ghost.exact
        /\ ghost'.fresh = ghost.fresh
    BY <1>6, <1>t DEF SetSwitch, Ghost
  <2>. QED
    BY <1>6, <1>a, <2>1 DEF SetSwitch
<1>7. ASSUME NEW u \in Users, LoadRows(u) PROVE Echoed
  <2>1. /\ call[u] # Idle /\ call'[u] # Idle /\ call'[u].n = call[u].n
        /\ call'[u].book = call[u].book
        /\ \A v \in Users \ {u} : call'[v] = call[v]
    BY <1>7, LoadRowsDoes, SaveIs
  <2>2. \A v \in Users : Echoes(v)' \subseteq Echoes(v)
    BY <2>1, <1>e, <1>s
  <2>. QED
    BY <1>7, <2>2 DEF LoadRows, tables
<1>8. ASSUME NEW u \in Users, LoadAndSend(u) PROVE Echoed
  <2>1. /\ call[u] # Idle /\ call'[u] # Idle /\ call'[u].n = call[u].n
        /\ call'[u].book = call[u].book
        /\ \A v \in Users \ {u} : call'[v] = call[v]
    BY <1>8, LoadAndSendDoes, SaveIs
  <2>2. \A v \in Users : Echoes(v)' \subseteq Echoes(v)
    BY <2>1, <1>e, <1>s
  <2>3. /\ ghost'.due = ghost.due /\ ghost'.exact = ghost.exact
        /\ ghost'.fresh = ghost.fresh
    BY <1>8, <1>t DEF LoadAndSend, Ghost
  <2>. QED
    BY <1>8, <2>2, <2>3 DEF LoadAndSend, tables
<1>9. ASSUME NEW u \in Users, Fail(u) PROVE Echoed
  <2>1. call[u] # Idle /\ UNCHANGED <<rows, page>>
    BY <1>9 DEF Fail, tables
  <2>2. \A v \in Users \ {u} : call'[v] = call[v]
    BY <1>9, <1>t, GiveUpKeeps DEF Fail, Advance, CallsOK
  <2>3. CASE call[u].n = 0
    <3>1. ghost' = Unsaved(ghost, u)
      BY <1>9, <2>3 DEF Fail
    <3>2. /\ ghost'.due = ghost.due /\ ghost'.exact = ghost.exact
          /\ ghost'.fresh = [ghost.fresh EXCEPT ![u] = FALSE]
      BY <1>t, <3>1 DEF Unsaved, Ghost
    <3>3. ghost.fresh \in [Users -> BOOLEAN]
      BY <1>t DEF Ghost
    <3>. QED
      BY <1>s, <2>1, <2>2, <3>2, <3>3
  <2>4. CASE call[u].n # 0
    <3>1. UNCHANGED ghost
      BY <1>9, <2>4 DEF Fail
    <3>. QED
      BY <1>n, <1>s, <2>1, <2>2, <2>4, <3>1
  <2>. QED
    BY <2>3, <2>4
<1>10. CASE Reload \/ Win
  BY <1>10, <1>c DEF Reload, Win, tables
<1>11. CASE ShowWin
  <2>1. /\ ghost'.due = ghost.due /\ ghost'.exact = ghost.exact
        /\ ghost'.fresh = ghost.fresh
    BY <1>11, <1>t DEF ShowWin, Ghost
  <2>. QED
    BY <1>11, <1>s, <2>1 DEF ShowWin, tables
<1>12. CASE Crash
  <2>1. /\ ghost'.due = ghost.due /\ (ghost'.exact => ghost.exact)
        /\ \A u \in Users : ghost'.fresh[u] =>
               ghost.fresh[u] /\ (call[u] = Idle \/ call[u].n # 0)
    BY <1>12, <1>t, GhostAfterCrash
  <2>2. \A u \in Users : (call[u] = Idle \/ call[u].n # 0)
                           => Echoes(u)' \subseteq Echoes(u)
    BY DEF Echoes
  <2>. QED
    BY <1>12, <2>1, <2>2 DEF Crash, tables
<1>13. CASE UNCHANGED vars
  BY <1>13, <1>c DEF vars
<1>. HIDE DEF Echoed
<1>. QED
  BY <1>1, <1>2, <1>3, <1>4, <1>5, <1>6, <1>7, <1>8, <1>9, <1>10, <1>11, <1>12, <1>13,
     ZenonT(40) DEF Next, UserStep

LEMMA ExactInit == Init => Exact
BY DEF Init, Exact, CountsAreExact, LaneOnce, GoneIsZero, FreshIsDue, NoIds,
       TheRestIsZero, Echoes

LEMMA RestNext ==
    ASSUME Types, Exact, [Next]_vars
    PROVE  TheRestIsZero'
<1>t. CallsOK /\ PagesOK /\ TheRestIsZero
  BY DEF Types, Exact
<1>1. ASSUME NEW u \in Users, ReadSwitch(u) PROVE TheRestIsZero'
  <2>1. /\ \A l \in Lanes \ LanesOf(call'[u].book) : page'[u][l] = 0
        /\ call'[u].n = 0 /\ call'[u] # Idle
        /\ \A v \in Users \ {u} : page'[v] = page[v]
        /\ \A v \in Users \ {u} : call[v] = Idle => call'[v] = Idle
    BY <1>1, ReadSwitchDoes, SaveIs, Zenon
  <2>2. \A v \in Users \ {u} : call'[v] # Idle =>
          /\ call[v] # Idle /\ call'[v].n = call[v].n /\ call'[v].book = call[v].book
    BY <1>1, ReadSwitchBegins
  <2>. QED
    BY <1>t, <2>1, <2>2 DEF TheRestIsZero, Echoes
<1>2. CASE \A u \in Users : ~ReadSwitch(u)
  <2>1. \A v \in Users : call'[v] # Idle =>
          /\ call[v] # Idle /\ call'[v].book = call[v].book
          /\ call'[v].n = call[v].n \/ InsertRows(v)
    BY <1>2, StepsGoOn DEF GoesOn
  <2>2. \A v \in Users : InsertRows(v) => call'[v] = Idle \/ call'[v].n # 0
    BY InsertRowsDoes
  <2>3. ASSUME NEW v \in Users PROVE Echoes(v) \subseteq Echoes(v)'
    <3>1. CASE call'[v] = Idle
      BY <3>1 DEF Echoes
    <3>2. CASE call'[v] # Idle
      <4>1. /\ call[v] # Idle /\ call'[v].book = call[v].book
            /\ call'[v].n = call[v].n \/ call'[v].n # 0
        BY <2>1, <2>2, <3>2
      <4>. QED
        BY <4>1 DEF Echoes
    <3>. QED
      BY <3>1, <3>2
  \* A page is written when its user waits for no save, or no longer.
  <2>4. ASSUME NEW v \in Users PROVE page'[v] = page[v] \/ call'[v] = Idle
    <3>1. ASSUME NEW u \in Users, OpenPage(u) \/ Reply(u)
          PROVE  page'[v] = page[v] \/ call'[v] = Idle
      BY <1>t, <3>1 DEF OpenPage, Reply, PagesOK, CallsOK
    <3>2. CASE \A u \in Users : ~OpenPage(u) /\ ~Reply(u)
      BY <1>2, <3>2, ZenonT(40) DEF Next, UserStep, vars, Prove, ProofExpires, CheckProof,
         SpendProof, DeleteRows, InsertRows, WriteTargets, SetSwitch, LoadRows,
         LoadAndSend, Fail, Reload, Win, Charge, ShowWin, Crash
    <3>. QED
      BY <3>1, <3>2
  <2>5. \A v \in Users : call'[v] = Idle => Echoes(v)' = Lanes
    BY DEF Echoes
  <2>. QED
    BY <1>t, <2>3, <2>4, <2>5 DEF TheRestIsZero
<1>. QED
  BY <1>1, <1>2

LEMMA ExactNext ==
    ASSUME Types, Overlaps, Heals, Exact, [Next]_vars
    PROVE  Exact'
<1>t. /\ ghost \in Ghost /\ CallsOK /\ rows \in Tables /\ PagesOK
      /\ ghost.fresh \in [Users -> BOOLEAN] /\ ghost.due \in [Lanes -> Nat]
  BY DEF Types, CountersOK, TablesOK, Ghost
<1>r. \A id \in DOMAIN rows : rows[id] \in Row /\ rows[id].lane \in Lanes
  BY <1>t, TableIs DEF Row
<1>x. ghost.exact => /\ \A id \in DOMAIN rows : rows[id].count = ghost.due[rows[id].lane]
                     /\ LaneOnce /\ GoneIsZero /\ FreshIsDue
  BY DEF Exact, CountsAreExact
<1>p. SUFFICES ASSUME ghost'.exact
               PROVE  /\ \A id \in DOMAIN rows' :
                             rows'[id].count = ghost'.due[rows'[id].lane]
                      /\ LaneOnce' /\ GoneIsZero' /\ FreshIsDue'
  BY RestNext DEF Exact, CountsAreExact
<1> DEFINE Goal == /\ \A id \in DOMAIN rows' :
                          rows'[id].count = ghost'.due[rows'[id].lane]
                   /\ LaneOnce' /\ GoneIsZero' /\ FreshIsDue'
\* A page that shows the tables is right about every lane.
<1>o. ASSUME NEW u \in Users, page' = [page EXCEPT ![u] = Counts],
             ghost'.exact = ghost.exact, ghost'.due = ghost.due, UNCHANGED rows,
             \A v \in Users \ {u} : /\ ghost'.fresh[v] => ghost.fresh[v]
                                   /\ call'[v] = call[v]
      PROVE  Goal
  <2>1. ghost.exact
    BY <1>p, <1>o
  <2>2. page'[u] = Counts /\ \A v \in Users \ {u} : page'[v] = page[v]
    BY <1>o, <1>t DEF PagesOK
  <2>3. \A l \in Lanes : page'[u][l] = ghost.due[l]
    BY <2>1, <2>2, CountsAreDue
  <2>4. ASSUME NEW v \in Users, ghost'.fresh[v], NEW l \in Echoes(v)'
        PROVE  page'[v][l] = ghost'.due[l]
    <3>1. l \in Lanes
      BY <2>4 DEF Echoes
    <3>2. CASE v = u
      BY <1>o, <2>3, <3>1, <3>2
    <3>3. CASE v # u
      BY <1>o, <1>x, <2>1, <2>2, <2>4, <3>3 DEF FreshIsDue, Echoes
    <3>. QED
      BY <3>2, <3>3
  <2>5. FreshIsDue'
    BY <2>4 DEF FreshIsDue
  <2>. QED
    BY <1>o, <1>x, <2>1, <2>5 DEF LaneOnce, GoneIsZero
<1>1. ASSUME NEW u \in Users, OpenPage(u) PROVE Goal
  <2>1. ghost' = [ghost EXCEPT !.fresh[u] = TRUE] /\ UNCHANGED <<rows, call>>
        /\ page' = [page EXCEPT ![u] = Counts]
    BY <1>1 DEF OpenPage, tables
  <2>2. /\ ghost'.exact = ghost.exact /\ ghost'.due = ghost.due
        /\ ghost'.fresh = [ghost.fresh EXCEPT ![u] = TRUE]
    BY <1>t, <2>1 DEF Ghost
  <2>. QED
    BY <1>o, <1>t, <2>1, <2>2
<1>2. ASSUME NEW u \in Users, Reply(u) PROVE Goal
  <2>1. /\ ghost' = [ghost EXCEPT !.fresh[u] = TRUE] /\ UNCHANGED rows
        /\ page' = [page EXCEPT ![u] = Counts]
        /\ \A v \in Users \ {u} : call'[v] = call[v]
    BY <1>2, <1>t DEF Reply, tables, CallsOK
  <2>2. /\ ghost'.exact = ghost.exact /\ ghost'.due = ghost.due
        /\ ghost'.fresh = [ghost.fresh EXCEPT ![u] = TRUE]
    BY <1>t, <2>1 DEF Ghost
  <2>. QED
    BY <1>o, <1>t, <2>1, <2>2
<1>3. ASSUME NEW u \in Users, ReadSwitch(u) PROVE Goal
  <2>1. /\ call[u] = Idle /\ call'[u] # Idle /\ call'[u].n = 0
        /\ \A l \in LanesOf(call'[u].book) : l \in Lanes => page'[u][l] = page[u][l]
        /\ \A v \in Users \ {u} : page'[v] = page[v]
    BY <1>3, ReadSwitchDoes, SaveIs, Zenon
  <2>2. \A v \in Users \ {u} : call'[v] # Idle =>
          /\ call[v] # Idle /\ call'[v].n = call[v].n /\ call'[v].book = call[v].book
    BY <1>3, ReadSwitchBegins
  <2>3. \A v \in Users \ {u} : call[v] = Idle => call'[v] = Idle
    BY <1>3, ReadSwitchDoes
  <2>4. /\ ghost'.exact = ghost.exact /\ ghost'.due = ghost.due
        /\ ghost'.fresh = ghost.fresh /\ UNCHANGED rows
    BY <1>3, <1>t DEF ReadSwitch, Ghost, tables
  <2>5. \A v \in Users : \A l \in Echoes(v)' : l \in Echoes(v) /\ page'[v][l] = page[v][l]
    <3>1. ASSUME NEW l \in Echoes(u)'
          PROVE  l \in Echoes(u) /\ page'[u][l] = page[u][l]
      BY <2>1, <3>1 DEF Echoes
    <3>2. ASSUME NEW v \in Users \ {u}, NEW l \in Echoes(v)'
          PROVE  l \in Echoes(v) /\ page'[v][l] = page[v][l]
      <4>1. CASE call[v] = Idle
        BY <2>1, <3>2, <4>1 DEF Echoes
      <4>2. CASE call[v] # Idle
        BY <2>1, <2>2, <3>2, <4>2, <1>3, ReadSwitchKeeps DEF Echoes
      <4>. QED
        BY <4>1, <4>2
    <3>. QED
      BY <3>1, <3>2
  <2>6. FreshIsDue'
    BY <1>p, <1>x, <2>4, <2>5 DEF FreshIsDue
  <2>. QED
    BY <1>p, <1>x, <2>4, <2>6 DEF LaneOnce, GoneIsZero
<1>4. ASSUME NEW u \in Users, InsertRows(u) PROVE Goal
  <2> DEFINE c   == call[u]
             new == NewRows(c.book, saves + 1, page[u])
  <2>1. /\ c \in Save /\ c # Idle /\ c.pc = "insert" /\ c.n = 0
        /\ saves + 1 \in 1..MaxSaves
        /\ \A v \in Users \ {u} : call'[v] = call[v]
    BY <1>4, InsertRowsDoes
  <2>2. c.book \in Books /\ page[u] \in [Lanes -> Nat] /\ c.overlap \in BOOLEAN
    BY <1>t, <2>1, SaveIs DEF PagesOK
  <2>3. UNCHANGED page
    BY <1>4 DEF InsertRows
  <2>4. CASE LaneClash(KeptRows(c), new)
    <3>1. /\ UNCHANGED rows /\ ghost'.exact = ghost.exact /\ ghost'.due = ghost.due
          /\ ghost'.fresh = [ghost.fresh EXCEPT ![u] = FALSE]
      BY <1>4, <2>4, GhostAfterInsert, Zenon DEF InsertRows
    <3>2. FreshIsDue'
      BY <1>p, <1>t, <1>x, <2>1, <2>3, <3>1 DEF FreshIsDue, Echoes
    <3>. QED
      BY <1>p, <1>x, <3>1, <3>2 DEF LaneOnce, GoneIsZero
  <2>5. CASE ~LaneClash(KeptRows(c), new)
    <3> DEFINE kept == {KeptRows(c)[id].lane : id \in DOMAIN KeptRows(c)} \cup LanesOf(c.book)
    <3>1. /\ rows' = Merge(KeptRows(c), new)
          /\ call'[u] \in Save /\ call'[u].n = saves + 1 /\ call'[u].book = c.book
      BY <1>4, <2>5, InsertRowsDoes
    <3>2. /\ ghost'.exact = (ghost.exact /\ ghost.fresh[u] /\ ~c.overlap)
          /\ ghost'.due = [l \in Lanes |-> IF l \in kept THEN ghost.due[l] ELSE 0]
          /\ ghost'.fresh = [v \in Users |-> ghost.fresh[v] /\ v = u]
      BY <1>4, <2>5, GhostAfterInsert, Zenon
    <3>3. ghost.exact /\ ghost.fresh[u] /\ ~c.overlap
      BY <1>p, <1>t, <2>2, <3>2
    <3>4. DOMAIN KeptRows(c) = {}
      BY <1>t, <2>1, <3>3 DEF Heals, DoomsAll, Lone, KeptRows, Restrict
    <3>5. \A l \in Lanes : ghost'.due[l] = IF l \in LanesOf(c.book) THEN ghost.due[l] ELSE 0
      BY <3>2, <3>4
    <3>6. \A l \in LanesOf(c.book) : l \in Lanes /\ page[u][l] = ghost.due[l]
      <4>1. LanesOf(c.book) \subseteq Lanes
        BY <2>2, BookIs DEF LanesOf
      <4>2. LanesOf(c.book) \subseteq Echoes(u)
        BY <4>1 DEF Echoes
      <4>. QED
        BY <1>x, <3>3, <4>1, <4>2 DEF FreshIsDue
    <3>7. \A l \in Lanes \ LanesOf(c.book) : page[u][l] = 0
      BY <2>1 DEF Exact, TheRestIsZero, Echoes
    <3>8. FreshIsDue'
      <4>1. ASSUME NEW v \in Users, ghost'.fresh[v], NEW l \in Lanes
            PROVE  page'[v][l] = ghost'.due[l]
        <5>1. v = u
          BY <3>2, <4>1
        <5>2. page'[v][l] = page[u][l]
          BY <2>3, <5>1
        <5>3. CASE l \in LanesOf(c.book)
          BY <3>5, <3>6, <5>2, <5>3
        <5>4. CASE l \notin LanesOf(c.book)
          BY <3>5, <3>7, <5>2, <5>4
        <5>. QED
          BY <5>3, <5>4
      <4>. QED
        BY <4>1 DEF FreshIsDue, Echoes
    <3>9. /\ DOMAIN rows' = {<<saves + 1, i>> : i \in DOMAIN c.book}
          /\ \A i \in DOMAIN c.book :
                 /\ rows'[<<saves + 1, i>>].lane = c.book[i].lane
                 /\ rows'[<<saves + 1, i>>].count = page[u][c.book[i].lane]
      <4>1. /\ new \in Tables /\ DOMAIN new = {<<saves + 1, i>> : i \in DOMAIN c.book}
            /\ \A i \in DOMAIN c.book :
                   /\ new[<<saves + 1, i>>].lane = c.book[i].lane
                   /\ new[<<saves + 1, i>>].count = page[u][c.book[i].lane]
        BY <2>1, <2>2, NewRowsAre
      <4>. HIDE DEF new
      <4>2. DOMAIN rows' = DOMAIN new /\ \A id \in DOMAIN new : rows'[id] = new[id]
        BY <3>1, <3>4 DEF Merge
      <4>. QED
        BY <4>1, <4>2
    <3>10. LaneOnce'
      BY <2>2, <3>9, BookIs DEF LaneOnce
    <3>11. \A id \in DOMAIN rows' : rows'[id].count = ghost'.due[rows'[id].lane]
      BY <3>5, <3>6, <3>9 DEF LanesOf
    <3>12. GoneIsZero'
      <4>1. ASSUME NEW l \in Lanes, \A id \in DOMAIN rows' : rows'[id].lane # l
            PROVE  ghost'.due[l] = 0
        <5>1. l \notin LanesOf(c.book)
          <6>1. ASSUME NEW i \in DOMAIN c.book PROVE c.book[i].lane # l
            <7>1. <<saves + 1, i>> \in DOMAIN rows'
              BY <3>9, Zenon
            <7>2. rows'[<<saves + 1, i>>].lane = c.book[i].lane
              BY <3>9, Zenon
            <7>. QED
              BY <4>1, <7>1, <7>2, Zenon
          <6>. QED
            BY <6>1 DEF LanesOf
        <5>. QED
          BY <3>5, <5>1
      <4>. QED
        BY <4>1 DEF GoneIsZero
    <3>. QED
      BY <3>8, <3>10, <3>11, <3>12
  <2>. QED
    BY <2>4, <2>5
<1>5. CASE Charge
  <2> DEFINE id   == win.rule
             lane == rows[id].lane
  <2>1. id \in DOMAIN rows
    BY <1>5, <1>p, <1>t DEF Charge, Ghost
  <2>2. /\ DOMAIN rows' = DOMAIN rows
        /\ \A i \in DOMAIN rows :
               /\ rows'[i].lane = rows[i].lane
               /\ rows'[i].count = IF i = id /\ Under(rows[i].count, rows[i].cap)
                                   THEN rows[i].count + 1 ELSE rows[i].count
    BY <1>5, <1>t, <2>1, RowCharged
  <2>3. /\ ghost'.due = [ghost.due EXCEPT ![lane] =
               IF Under(ghost.due[lane], rows[id].cap) THEN ghost.due[lane] + 1
                                                       ELSE ghost.due[lane]]
        /\ ghost'.fresh = [u \in Users |-> FALSE] /\ ghost'.exact = ghost.exact
    BY <1>5, <1>t, <2>1, GhostAfterCharge, Zenon
  <2>4. /\ lane \in Lanes /\ rows[id].count = ghost.due[lane]
        /\ \A i \in DOMAIN rows \ {id} : rows[i].lane # lane
    BY <1>p, <1>r, <1>x, <2>1, <2>3 DEF LaneOnce
  <2>. HIDE DEF id, lane
  <2>5. ghost'.due[lane] = rows'[id].count
        /\ \A l \in Lanes \ {lane} : ghost'.due[l] = ghost.due[l]
    BY <1>t, <2>1, <2>2, <2>3, <2>4
  <2>6. \A i \in DOMAIN rows' : rows'[i].count = ghost'.due[rows'[i].lane]
    BY <1>p, <1>r, <1>x, <2>2, <2>3, <2>4, <2>5 DEF lane
  <2>7. GoneIsZero'
    BY <1>p, <1>x, <2>1, <2>2, <2>3, <2>4, <2>5 DEF GoneIsZero, lane
  <2>8. LaneOnce' /\ FreshIsDue'
    BY <1>p, <1>x, <2>2, <2>3 DEF LaneOnce, FreshIsDue
  <2>. QED
    BY <2>6, <2>7, <2>8
<1>6. CASE /\ ~Charge
           /\ \A u \in Users : /\ ~ReadSwitch(u) /\ ~InsertRows(u)
                               /\ ~OpenPage(u) /\ ~Reply(u)
  <2>1. Echoed
    BY <1>6, StepsEcho
  <2>2. FreshIsDue'
    BY <1>p, <1>x, <2>1 DEF Echoed, FreshIsDue
  <2>. QED
    BY <1>p, <1>x, <2>1, <2>2 DEF Echoed, LaneOnce, GoneIsZero
<1>. QED
  BY <1>1, <1>2, <1>3, <1>4, <1>5, <1>6, ZenonT(40)

(***************************************************************************)
(* A count is the number of wins charged to its lane, through every save,  *)
(* as long as saves run alone, each from a page read after the last win:   *)
(* such a page echoes, for each lane, the count the tables hold, and a     *)
(* lane that leaves the list starts again at zero.                         *)
(***************************************************************************)
THEOREM CountsStayExact == Spec => []CountsAreExact
<1>1. Exact => CountsAreExact
  BY DEF Exact
<1>. QED
  BY <1>1, TypesInit, TypesNext, OverlapsInit, OverlapsNext, HealsInit, HealsNext,
     ExactInit, ExactNext, PTL DEF Spec

-----------------------------------------------------------------------------
(* Arming *)

\* What the steps leave that neither hold a verification nor the switch.
ArmsStay ==
    /\ UNCHANGED <<proof, proofs, enabled>>
    /\ ghost'.arms = ghost.arms /\ ghost'.overlaps = ghost.overlaps
    /\ \A v \in Users :
           /\ call[v].pc = "spend" => call'[v].pc = "spend"
           /\ call'[v].pc \in {"gate", "spend"} =>
                  call'[v].pc = call[v].pc /\ call'[v].want = call[v].want
           /\ call'[v].pc \in Armed =>
                  call[v].pc \in Armed /\ call'[v].want = call[v].want

\* The steps that move a verification, the switch or all the saves at once.
Moves(u) ==
    \/ Prove(u) \/ ProofExpires(u) \/ ReadSwitch(u) \/ CheckProof(u) \/ SpendProof(u)
    \/ SetSwitch(u) \/ Fail(u)

LEMMA StepsStay ==
    ASSUME Types, [Next]_vars, ~Crash, \A u \in Users : ~Moves(u)
    PROVE  ArmsStay
<1>t. ghost \in Ghost /\ CallsOK
  BY DEF Types, CountersOK
<1> USE DEF ArmsStay
<1>s. ASSUME NEW u \in Users, \A v \in Users \ {u} : call'[v] = call[v],
             call[u].pc # "spend",
             \/ call'[u] = Idle
             \/ /\ call'[u].pc \notin {"gate", "spend"}
                /\ call'[u].pc \in Armed =>
                       call[u].pc \in Armed /\ call'[u].want = call[u].want
      PROVE  \A v \in Users :
                 /\ call[v].pc = "spend" => call'[v].pc = "spend"
                 /\ call'[v].pc \in {"gate", "spend"} =>
                        call'[v].pc = call[v].pc /\ call'[v].want = call[v].want
                 /\ call'[v].pc \in Armed =>
                        call[v].pc \in Armed /\ call'[v].want = call[v].want
  <2>1. Idle.pc \notin Armed /\ Idle.pc \notin {"gate", "spend"}
    BY DEF Idle, Armed
  <2>. QED
    BY <1>s, <2>1
<1>1. ASSUME NEW u \in Users, OpenPage(u) PROVE ArmsStay
  BY <1>1, <1>t DEF OpenPage, Ghost, tables, counters
<1>2. ASSUME NEW u \in Users, DeleteRows(u) PROVE ArmsStay
  <2>1. /\ \A v \in Users \ {u} : call'[v] = call[v]
        /\ call[u].pc = "delete" /\ call'[u].pc = "insert" /\ call'[u].want = call[u].want
    BY <1>2, DeleteRowsDoes
  <2>. QED
    BY <1>2, <1>s, <2>1 DEF DeleteRows, tables, counters, Armed
<1>3. ASSUME NEW u \in Users, InsertRows(u) PROVE ArmsStay
  <2>1. ghost'.overlaps = ghost.overlaps /\ ghost'.arms = ghost.arms
    BY <1>3, GhostAfterInsert
  <2>2. /\ \A v \in Users \ {u} : call'[v] = call[v]
        /\ call[u].pc = "insert"
        /\ \/ call'[u] = Idle
           \/ call'[u].pc \in {"targets", "switch"} /\ call'[u].want = call[u].want
    BY <1>3, InsertRowsDoes
  <2>. QED
    BY <1>3, <1>s, <2>1, <2>2 DEF InsertRows, Armed
<1>4. ASSUME NEW u \in Users, WriteTargets(u) PROVE ArmsStay
  <2>1. ghost'.overlaps = ghost.overlaps /\ ghost'.arms = ghost.arms
    BY <1>4, <1>t, WriteTargetsDoes DEF Ghost
  <2>2. /\ \A v \in Users \ {u} : call'[v] = call[v]
        /\ call[u].pc = "targets"
        /\ \/ call'[u] = Idle
           \/ call'[u].pc \in {"targets", "switch"} /\ call'[u].want = call[u].want
    BY <1>4, WriteTargetsDoes
  <2>. QED
    BY <1>4, <1>s, <2>1, <2>2 DEF WriteTargets, Armed, counters
<1>5. ASSUME NEW u \in Users, LoadRows(u) PROVE ArmsStay
  <2>1. /\ \A v \in Users \ {u} : call'[v] = call[v]
        /\ call[u].pc = "rows" /\ call'[u].pc = "send"
    BY <1>5, LoadRowsDoes
  <2>. QED
    BY <1>5, <1>s, <2>1 DEF LoadRows, tables, counters, Armed
<1>6. ASSUME NEW u \in Users, LoadAndSend(u) PROVE ArmsStay
  <2>1. ghost'.overlaps = ghost.overlaps /\ ghost'.arms = ghost.arms
    BY <1>6, <1>t DEF LoadAndSend, Ghost
  <2>2. /\ \A v \in Users \ {u} : call'[v] = call[v]
        /\ call[u].pc = "send" /\ call'[u].pc = "reply"
    BY <1>6, LoadAndSendDoes
  <2>. QED
    BY <1>6, <1>s, <2>1, <2>2 DEF LoadAndSend, tables, counters, Armed
<1>7. ASSUME NEW u \in Users, Reply(u) PROVE ArmsStay
  <2>1. ghost'.overlaps = ghost.overlaps /\ ghost'.arms = ghost.arms
    BY <1>7, <1>t DEF Reply, Ghost
  <2>2. /\ \A v \in Users \ {u} : call'[v] = call[v]
        /\ call[u].pc = "reply" /\ call'[u] = Idle
    BY <1>7, <1>t, GiveUpKeeps DEF Reply, GiveUp
  <2>. QED
    BY <1>7, <1>s, <2>1, <2>2 DEF Reply, tables, counters
<1>8. CASE Reload \/ Win
  BY <1>8 DEF Reload, Win, tables, counters
<1>9. CASE Charge
  <2>1. ghost'.overlaps = ghost.overlaps /\ ghost'.arms = ghost.arms
    BY <1>9, <1>t DEF Charge, Ghost
  <2>. QED
    BY <1>9, <2>1 DEF Charge, counters
<1>10. CASE ShowWin
  BY <1>10, <1>t DEF ShowWin, Ghost, tables, counters
<1>11. CASE UNCHANGED vars
  BY <1>11 DEF vars
<1>. HIDE DEF ArmsStay
<1>. QED
  BY <1>1, <1>2, <1>3, <1>4, <1>5, <1>6, <1>7, <1>8, <1>9, <1>10, <1>11, ZenonT(40)
     DEF Next, UserStep, Moves

\* Where the credit of a step goes: it grows by a verification at most, and
\* an arming takes one.
LEMMA CreditIs ==
    ASSUME Types, Credit
    PROVE  /\ IsFiniteSet(Unspent) /\ Cardinality(Unspent) \in Nat
           /\ ghost.arms \in Nat /\ ghost.overlaps \in Nat /\ proofs \in Nat
           /\ proof \in [Users -> BOOLEAN] /\ enabled \in BOOLEAN
<1>1. Unspent \subseteq Proved
  BY DEF Unspent, Proved
<1>2. IsFiniteSet(Unspent)
  BY <1>1, FS_Subset DEF Credit
<1>3. Cardinality(Unspent) \in Nat
  BY <1>2, FS_CardinalityType
<1>. QED
  BY <1>2, <1>3 DEF Types, CountersOK, Ghost, PagesOK, TablesOK

LEMMA CreditFalls ==
    ASSUME Types, Credit, IsFiniteSet(Proved'), Unspent' \subseteq Unspent,
           ghost.overlaps = 0 /\ Arming' # {} => Arming # {},
           ghost'.arms = ghost.arms,
           proofs' = proofs, ghost'.overlaps = ghost.overlaps
    PROVE  Credit'
<1>1. /\ IsFiniteSet(Unspent) /\ Cardinality(Unspent) \in Nat
      /\ ghost.arms \in Nat /\ proofs \in Nat
  BY CreditIs
<1>2. Cardinality(Unspent') \in Nat /\ Cardinality(Unspent') <= Cardinality(Unspent)
  BY <1>1, FS_Subset, FS_CardinalityType
<1>. QED
  BY <1>1, <1>2 DEF Credit, Used

\* A verification back from a save that will not arm.
LEMMA CreditReturns ==
    ASSUME Types, Credit, NEW u, IsFiniteSet(Proved'), Unspent' \subseteq Unspent \cup {u},
           ghost.overlaps = 0 => Arming # {} /\ Arming' = {},
           ghost'.arms = ghost.arms,
           proofs' = proofs, ghost'.overlaps = ghost.overlaps
    PROVE  Credit'
<1>1. /\ IsFiniteSet(Unspent) /\ Cardinality(Unspent) \in Nat
      /\ ghost.arms \in Nat /\ proofs \in Nat
  BY CreditIs
<1>2. /\ IsFiniteSet(Unspent \cup {u}) /\ Cardinality(Unspent \cup {u}) \in Nat
      /\ Cardinality(Unspent \cup {u}) <= Cardinality(Unspent) + 1
  <2>1. /\ IsFiniteSet(Unspent \cup {u})
        /\ Cardinality(Unspent \cup {u}) =
              IF u \in Unspent THEN Cardinality(Unspent) ELSE Cardinality(Unspent) + 1
    BY <1>1, FS_AddElement, Zenon
  <2>. QED
    BY <1>1, <2>1
<1>3. /\ Cardinality(Unspent') \in Nat
      /\ Cardinality(Unspent') <= Cardinality(Unspent \cup {u})
  BY <1>2, FS_Subset, FS_CardinalityType
<1>4. ASSUME ghost'.overlaps = 0 PROVE Used' <= proofs'
  <2>1. Used = ghost.arms + Cardinality(Unspent) + 1 /\ Used <= proofs
    BY <1>4 DEF Used, Credit
  <2>2. Used' = ghost.arms + Cardinality(Unspent') + 0
    BY <1>4 DEF Used
  <2>. QED
    BY <1>1, <1>2, <1>3, <2>1, <2>2
<1>. QED
  BY <1>4 DEF Credit

LEMMA GateNext == ASSUME Types, Overlaps, GateIsOff, [Next]_vars PROVE GateIsOff'
<1>t. ghost \in Ghost /\ CallsOK
  BY DEF Types, CountersOK
<1> USE DEF GateIsOff
<1>1. ASSUME NEW u \in Users, ReadSwitch(u) PROVE GateIsOff'
  <2>1. /\ call[u] = Idle /\ UNCHANGED enabled
        /\ call'[u].pc \in {"gate", "spend"} => call'[u].want /\ ~enabled
    BY <1>1, ReadSwitchDoes DEF ReadSwitch, tables
  <2>2. \A v \in Users \ {u} : call'[v] # Idle =>
          call'[v].pc = call[v].pc /\ call'[v].want = call[v].want
    BY <1>1, ReadSwitchBegins
  <2>3. Idle.pc \notin {"gate", "spend"}
    BY DEF Idle
  <2>4. ghost'.overlaps = 0 => ghost.overlaps = 0
    BY <1>1, <1>t DEF ReadSwitch, Ghost
  <2>. QED
    BY <2>1, <2>2, <2>3, <2>4
<1>2. ASSUME NEW u \in Users, SetSwitch(u) PROVE GateIsOff'
  <2>1. /\ call[u].pc = "switch" /\ call'[u].pc = "rows"
        /\ \A v \in Users \ {u} : call'[v] = call[v]
    <3>1. call[u].pc = "switch" /\ Advance(u, "rows") /\ call[u] \in Save
      BY <1>2, <1>t, CallIs DEF SetSwitch
    <3>2. /\ call'[u] = [call[u] EXCEPT !.pc = "rows"]
          /\ \A v \in Users \ {u} : call'[v] = call[v]
      BY <1>t, <3>1 DEF Advance, CallsOK
    <3>. QED
      BY <3>1, <3>2 DEF Save
  <2>2. ghost'.overlaps = ghost.overlaps
    BY <1>2, <1>t DEF SetSwitch, Ghost
  <2>3. \A v \in Users \ {u} : call[v].pc \in {"gate", "spend"} => ghost.overlaps # 0
    <3>1. call[u] # Idle
      BY <2>1 DEF Idle
    <3>2. \A v \in Users \ {u} : call[v].pc \in {"gate", "spend"} => call[v] # Idle
      BY DEF Idle
    <3>. QED
      BY <3>1, <3>2 DEF Overlaps, LoneIsAlone, OverlapsAreCounted
  <2>. QED
    BY <2>1, <2>2, <2>3
<1>3. ASSUME NEW u \in Users, CheckProof(u) PROVE GateIsOff'
  <2>1. call[u].pc = "gate" /\ UNCHANGED enabled /\ ghost'.overlaps = ghost.overlaps
    BY <1>3, <1>t DEF CheckProof, Unsaved, Ghost, tables
  <2>2. \A v \in Users \ {u} : call'[v] = call[v]
    BY <1>3, <1>t DEF CheckProof, Advance, GiveUp, CallsOK
  <2>3. call'[u] = Idle \/ call'[u].want = call[u].want
    <3>1. call[u] \in Save
      BY <1>t, <2>1, CallIs
    <3>2. call'[u] = Idle \/ call'[u] = [call[u] EXCEPT !.pc = "spend"]
      BY <1>3, <1>t DEF CheckProof, Advance, GiveUp, CallsOK
    <3>. QED
      BY <3>1, <3>2 DEF Save
  <2>4. Idle.pc \notin {"gate", "spend"}
    BY DEF Idle
  <2>. QED
    BY <2>1, <2>2, <2>3, <2>4
<1>4. ASSUME NEW u \in Users, SpendProof(u) \/ Fail(u) PROVE GateIsOff'
  <2>1. UNCHANGED enabled /\ ghost'.overlaps = ghost.overlaps
    BY <1>4, <1>t DEF SpendProof, Fail, Unsaved, Ghost, tables
  <2>2. \A v \in Users \ {u} : call'[v] = call[v]
    BY <1>4, <1>t DEF SpendProof, Fail, Advance, GiveUp, CallsOK
  <2>3. call'[u].pc \notin {"gate", "spend"}
    <3>1. call[u] # Idle /\ call[u] \in Save
      BY <1>4, <1>t, CallIs DEF SpendProof, Fail, CallsOK
    <3>2. \/ call'[u] = Idle
          \/ \E pc \in {"delete", "reply"} : call'[u] = [call[u] EXCEPT !.pc = pc]
      BY <1>4, <1>t DEF SpendProof, Fail, Advance, GiveUp, CallsOK
    <3>. QED
      BY <3>1, <3>2 DEF Save, Idle
  <2>. QED
    BY <2>1, <2>2, <2>3
<1>5. ASSUME NEW u \in Users, Prove(u) \/ ProofExpires(u) PROVE GateIsOff'
  BY <1>5 DEF Prove, ProofExpires, tables
<1>6. CASE Crash
  BY <1>6 DEF Crash, Idle
<1>7. CASE ~Crash /\ \A u \in Users : ~Moves(u)
  BY <1>7, StepsStay DEF ArmsStay
<1>. HIDE DEF GateIsOff
<1>. QED
  BY <1>1, <1>2, <1>3, <1>4, <1>5, <1>6, <1>7 DEF Moves

LEMMA CreditNext ==
    ASSUME Types, Overlaps, GateIsOff, Credit, [Next]_vars
    PROVE  Credit'
<1>t. ghost \in Ghost /\ CallsOK
  BY DEF Types, CountersOK
<1>c. /\ IsFiniteSet(Unspent) /\ Cardinality(Unspent) \in Nat
      /\ ghost.arms \in Nat /\ ghost.overlaps \in Nat /\ proofs \in Nat
      /\ proof \in [Users -> BOOLEAN] /\ enabled \in BOOLEAN
      /\ IsFiniteSet(Proved)
      /\ ghost.overlaps = 0 => Used <= proofs
  BY CreditIs DEF Credit
<1>f. ASSUME Proved' \subseteq Proved PROVE IsFiniteSet(Proved')
  BY <1>c, <1>f, FS_Subset
<1>i. Idle.pc = "idle" /\ "idle" \notin Armed /\ "gate" \notin Armed
  BY DEF Idle, Armed
\* Without overlaps, a save is the only one.
<1>o. ASSUME NEW u \in Users, call[u] # Idle, ghost.overlaps = 0, NEW v \in Users \ {u}
      PROVE  call[v] = Idle
  BY <1>o DEF Overlaps, LoneIsAlone, OverlapsAreCounted
<1>1. ASSUME NEW u \in Users, Prove(u) PROVE Credit'
  <2>1. /\ proof' = [proof EXCEPT ![u] = TRUE] /\ proofs' = proofs + 1
        /\ UNCHANGED <<call, ghost, enabled>>
    BY <1>1 DEF Prove, tables
  <2>2. Proved' = Proved \cup {u} /\ Unspent' \subseteq Unspent \cup {u} /\ Arming' = Arming
    BY <1>c, <2>1 DEF Proved, Unspent, Arming
  <2>3. IsFiniteSet(Proved')
    BY <1>c, <2>2, FS_AddElement
  <2>4. /\ IsFiniteSet(Unspent \cup {u})
        /\ Cardinality(Unspent \cup {u}) =
              IF u \in Unspent THEN Cardinality(Unspent) ELSE Cardinality(Unspent) + 1
    BY <1>c, FS_AddElement, Zenon
  <2>5. Cardinality(Unspent') \in Nat /\ Cardinality(Unspent') <= Cardinality(Unspent \cup {u})
    BY <2>2, <2>4, FS_Subset, FS_CardinalityType
  <2>. QED
    BY <1>c, <2>1, <2>2, <2>3, <2>4, <2>5 DEF Credit, Used
<1>2. ASSUME NEW u \in Users, ProofExpires(u) PROVE Credit'
  <2>1. /\ proof' = [proof EXCEPT ![u] = FALSE]
        /\ UNCHANGED <<proofs, call, ghost, enabled>>
    BY <1>2 DEF ProofExpires, tables, counters
  <2>2. Proved' \subseteq Proved /\ Unspent' \subseteq Unspent /\ Arming' = Arming
    BY <1>c, <2>1 DEF Proved, Unspent, Arming
  <2>. QED
    BY <1>f, <2>1, <2>2, CreditFalls
<1>3. ASSUME NEW u \in Users, ReadSwitch(u) PROVE Credit'
  <2>1. /\ UNCHANGED <<proof, proofs, enabled>>
        /\ ghost' = [ghost EXCEPT !.overlaps = IF InFlight = {} THEN @ ELSE @ + 1]
    BY <1>3 DEF ReadSwitch, tables, counters
  <2>2. /\ ghost'.arms = ghost.arms
        /\ ghost'.overlaps = 0 => ghost.overlaps = 0 /\ InFlight = {}
    BY <1>t, <1>c, <2>1 DEF Ghost
  <2>3. /\ call[u] = Idle /\ call'[u].pc \in {"gate", "delete"}
        /\ call'[u].want /\ ~enabled => call'[u].pc = "gate"
        /\ \A v \in Users \ {u} : call[v] = Idle => call'[v] = Idle
        /\ \A v \in Users \ {u} : call[v] # Idle => call'[v].pc = call[v].pc
    BY <1>3, ReadSwitchDoes, ReadSwitchBegins, ReadSwitchKeeps
  <2>4. Proved' = Proved /\ Unspent' \subseteq Unspent
    BY <1>i, <2>1, <2>3 DEF Proved, Unspent
  <2>5. InFlight = {} => Arming' = {}
    BY <1>i, <2>1, <2>3 DEF InFlight, Arming
  <2>6. CASE InFlight = {}
    <3>1. ghost'.overlaps = ghost.overlaps
      BY <1>t, <2>1, <2>6 DEF Ghost
    <3>. QED
      BY <1>c, <2>1, <2>2, <2>4, <2>5, <2>6, <3>1, CreditFalls
  <2>7. CASE InFlight # {}
    BY <1>c, <2>2, <2>4, <2>7 DEF Credit
  <2>. QED
    BY <2>6, <2>7
<1>4. ASSUME NEW u \in Users, CheckProof(u) PROVE Credit'
  <2>1. call[u].pc = "gate" /\ UNCHANGED <<proof, proofs, enabled>>
    BY <1>4 DEF CheckProof, tables, counters
  <2>2. call[u] \in Save
    BY <1>t, <2>1, CallIs
  <2>3. CASE proof[u]
    <3>1. UNCHANGED ghost /\ Advance(u, "spend")
      BY <1>4, <2>3 DEF CheckProof
    <3>2. /\ call'[u] = [call[u] EXCEPT !.pc = "spend"]
          /\ \A v \in Users \ {u} : call'[v] = call[v]
      BY <1>t, <3>1 DEF Advance, CallsOK
    <3>3. call'[u].pc = "spend"
      BY <2>2, <3>2 DEF Save
    <3>4. u \in Unspent /\ Unspent' = Unspent \ {u} /\ Proved' = Proved
      BY <2>1, <2>3, <3>2, <3>3 DEF Unspent, Proved
    <3>5. Cardinality(Unspent') = Cardinality(Unspent) - 1
      BY <1>c, <3>4, FS_RemoveElement
    <3>. QED
      BY <1>c, <2>1, <3>1, <3>4, <3>5 DEF Credit, Used
  <2>4. CASE ~proof[u]
    <3>1. ghost' = Unsaved(ghost, u) /\ GiveUp(u)
      BY <1>4, <2>4 DEF CheckProof
    <3>2. call'[u] = Idle /\ \A v \in Users \ {u} : call'[v] = call[v]
      BY <1>t, <3>1, GiveUpKeeps
    <3>3. ghost'.arms = ghost.arms /\ ghost'.overlaps = ghost.overlaps
      BY <1>t, <3>1 DEF Unsaved, Ghost
    <3>4. Proved' = Proved /\ Unspent' \subseteq Unspent /\ Arming' \subseteq Arming
      BY <1>i, <2>1, <3>2 DEF Proved, Unspent, Arming
    <3>. QED
      BY <1>c, <2>1, <3>3, <3>4, CreditFalls
  <2>. QED
    BY <2>3, <2>4
<1>5. ASSUME NEW u \in Users, SpendProof(u) PROVE Credit'
  <2>1. /\ call[u].pc = "spend" /\ UNCHANGED <<proofs, enabled, ghost>>
        /\ proof' = [proof EXCEPT ![u] = FALSE] /\ Advance(u, "delete")
    BY <1>5 DEF SpendProof, tables, counters
  <2>2. call[u] \in Save
    BY <1>t, <2>1, CallIs
  <2>3. /\ call'[u] = [call[u] EXCEPT !.pc = "delete"]
        /\ \A v \in Users \ {u} : call'[v] = call[v]
    BY <1>t, <2>1 DEF Advance, CallsOK
  <2>4. call'[u].want = call[u].want
    BY <2>2, <2>3 DEF Save
  <2>5. Proved' \subseteq Proved /\ Unspent' \subseteq Unspent
    BY <1>c, <2>1, <2>3 DEF Proved, Unspent
  <2>6. Arming' \subseteq Arming
    BY <2>1, <2>3, <2>4 DEF Arming, Armed
  <2>. QED
    BY <1>f, <2>1, <2>5, <2>6, CreditFalls
<1>6. ASSUME NEW u \in Users, SetSwitch(u) PROVE Credit'
  <2>1. /\ call[u].pc = "switch" /\ UNCHANGED <<proof, proofs>> /\ Advance(u, "rows")
        /\ enabled' = call[u].want
        /\ ghost' = [ghost EXCEPT !.arms = IF enabled' /\ ~enabled THEN @ + 1 ELSE @]
    <3>1. UNCHANGED <<proof, proofs>>
      BY <1>6 DEF SetSwitch, counters
    <3>. QED
      BY <1>6, <3>1, Zenon DEF SetSwitch
  <2>2. call[u] \in Save /\ call[u] # Idle
    BY <1>t, <2>1, CallIs
  <2>3. /\ call'[u] = [call[u] EXCEPT !.pc = "rows"]
        /\ \A v \in Users \ {u} : call'[v] = call[v]
    BY <1>t, <2>1 DEF Advance, CallsOK
  <2>4. call'[u].pc = "rows"
    BY <2>2, <2>3 DEF Save
  <2>5. Proved' = Proved /\ Unspent' \subseteq Unspent
    BY <2>1, <2>3, <2>4 DEF Proved, Unspent
  <2>6. /\ ghost'.overlaps = ghost.overlaps
        /\ ghost'.arms = IF enabled' /\ ~enabled THEN ghost.arms + 1 ELSE ghost.arms
    BY <1>t, <2>1 DEF Ghost
  <2>7. ghost.overlaps = 0 => Arming' = {}
    <3>1. ghost.overlaps = 0 => \A v \in Users \ {u} : call'[v] = Idle
      BY <1>o, <2>2, <2>3
    <3>. QED
      BY <1>i, <2>4, <3>1 DEF Arming, Armed
  <2>8. CASE enabled' /\ ~enabled
    <3>1. u \in Arming
      BY <2>1, <2>8 DEF Arming, Armed
    <3>2. Cardinality(Unspent') \in Nat /\ Cardinality(Unspent') <= Cardinality(Unspent)
      BY <1>c, <2>5, FS_Subset, FS_CardinalityType
    <3>3. ASSUME ghost.overlaps = 0 PROVE Used' <= proofs'
      <4>1. Used = ghost.arms + Cardinality(Unspent) + 1
        BY <3>1 DEF Used
      <4>2. Used' = ghost.arms + 1 + Cardinality(Unspent') + 0
        BY <2>6, <2>7, <2>8, <3>3 DEF Used
      <4>. QED
        BY <1>c, <2>1, <3>2, <3>3, <4>1, <4>2
    <3>. QED
      BY <1>c, <2>5, <2>6, <3>3 DEF Credit
  <2>9. CASE ~(enabled' /\ ~enabled)
    BY <1>c, <2>1, <2>5, <2>6, <2>7, <2>9, CreditFalls
  <2>. QED
    BY <2>8, <2>9
<1>7. ASSUME NEW u \in Users, Fail(u) PROVE Credit'
  <2>1. call[u] # Idle /\ call[u] \in Save /\ UNCHANGED <<proof, proofs, enabled>>
    BY <1>7, <1>t DEF Fail, CallsOK, tables
  <2>2. ghost'.arms = ghost.arms /\ ghost'.overlaps = ghost.overlaps
    BY <1>7, <1>t DEF Fail, Unsaved, Ghost
  <2>3. \A v \in Users \ {u} : call'[v] = call[v]
    BY <1>7, <1>t DEF Fail, Advance, GiveUp, CallsOK
  <2>4. call'[u].pc \in {"idle", "reply"}
    <3>1. call'[u] = Idle \/ call'[u] = [call[u] EXCEPT !.pc = "reply"]
      BY <1>7, <1>t DEF Fail, Advance, GiveUp, CallsOK
    <3>. QED
      BY <1>i, <2>1, <3>1 DEF Save
  <2>5. Proved' = Proved /\ Unspent' \subseteq Unspent \cup {u} /\ Arming' \subseteq Arming
    BY <2>1, <2>3, <2>4 DEF Proved, Unspent, Arming, Armed
  <2>6. CASE call[u].pc = "spend"
    <3>1. ghost.overlaps = 0 => Arming # {}
      BY <2>6 DEF GateIsOff, Arming, Armed
    <3>2. ghost.overlaps = 0 => Arming' = {}
      <4>1. ghost.overlaps = 0 => \A v \in Users \ {u} : call'[v] = Idle
        BY <1>o, <2>1, <2>3
      <4>. QED
        BY <1>i, <2>4, <4>1 DEF Arming, Armed
    <3>. QED
      BY <1>c, <2>1, <2>2, <2>5, <3>1, <3>2, CreditReturns
  <2>7. CASE call[u].pc # "spend"
    <3>1. Unspent' \subseteq Unspent
      BY <2>1, <2>3, <2>7 DEF Unspent
    <3>2. IsFiniteSet(Proved') /\ proofs' = proofs /\ (Arming' # {} => Arming # {})
      BY <1>c, <2>1, <2>5
    <3>. QED
      BY <2>2, <3>1, <3>2, CreditFalls, Zenon
  <2>. QED
    BY <2>6, <2>7
<1>8. CASE Crash
  <2>1. /\ call' = [u \in Users |-> Idle] /\ UNCHANGED <<proof, proofs, enabled>>
        /\ ghost'.arms = ghost.arms /\ ghost'.overlaps = ghost.overlaps
    BY <1>8, <1>t, GhostAfterCrash, Zenon DEF Crash, tables
  <2>2. Arming' = {} /\ Proved' = Proved
    BY <1>i, <2>1 DEF Arming, Proved
  <2>3. CASE ghost.overlaps # 0
    BY <1>c, <2>1, <2>2, <2>3 DEF Credit
  <2>4. CASE \A u \in Users : call[u].pc # "spend"
    <3>1. Unspent' \subseteq Unspent
      BY <2>1, <2>4 DEF Unspent
    <3>. QED
      BY <1>c, <2>1, <2>2, <3>1, CreditFalls
  <2>5. ASSUME ghost.overlaps = 0, NEW u \in Users, call[u].pc = "spend" PROVE Credit'
    <3>1. \A v \in Users \ {u} : call[v] = Idle
      BY <1>i, <1>o, <2>5
    <3>2. Unspent' \subseteq Unspent \cup {u}
      BY <1>i, <2>1, <3>1 DEF Unspent
    <3>3. u \in Arming
      BY <2>5 DEF GateIsOff, Arming, Armed
    <3>4. IsFiniteSet(Proved') /\ proofs' = proofs /\ (ghost.overlaps = 0 => Arming # {})
      BY <1>c, <2>1, <2>2, <3>3
    <3>. QED
      BY <2>1, <2>2, <3>2, <3>4, CreditReturns, Zenon
  <2>. QED
    BY <2>3, <2>4, <2>5
<1>9. CASE ~Crash /\ \A u \in Users : ~Moves(u)
  <2>1. ArmsStay
    BY <1>9, StepsStay
  <2>2. Proved' = Proved /\ Unspent' \subseteq Unspent /\ Arming' \subseteq Arming
    BY <2>1 DEF ArmsStay, Proved, Unspent, Arming
  <2>. QED
    BY <1>c, <2>1, <2>2, CreditFalls DEF ArmsStay
<1>. QED
  BY <1>1, <1>2, <1>3, <1>4, <1>5, <1>6, <1>7, <1>8, <1>9 DEF Moves

LEMMA EarnedInit == Init => Earned
<1>. SUFFICES ASSUME Init PROVE Earned
  OBVIOUS
<1>1. Proved = {} /\ Unspent = {} /\ Arming = {} /\ GateIsOff
  BY DEF Init, Proved, Unspent, Arming, Armed, GateIsOff, Idle
<1>. QED
  BY <1>1, FS_EmptySet DEF Init, Earned, Credit, Used

(***************************************************************************)
(* While saves run one after another, every time the switch goes on used   *)
(* up a verification of its own: one that waits in Redis is deleted before *)
(* the save it lets through arms, and no save arms twice.                  *)
(***************************************************************************)
THEOREM ArmsAlwaysEarned == Spec => []ArmsAreEarned
<1>1. Types /\ Earned => ArmsAreEarned
  <2>. SUFFICES ASSUME Types, Credit, ghost.overlaps = 0 PROVE ghost.arms <= proofs
    BY DEF Earned, ArmsAreEarned
  <2>. QED
    BY CreditIs DEF Credit, Used
<1>2. Types /\ Overlaps /\ Earned /\ [Next]_vars => Earned'
  BY GateNext, CreditNext DEF Earned
<1>. QED
  BY <1>1, <1>2, TypesInit, TypesNext, OverlapsInit, OverlapsNext, EarnedInit,
     PTL DEF Spec

=============================================================================
