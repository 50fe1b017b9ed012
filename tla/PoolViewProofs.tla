---------------------------- MODULE PoolViewProofs ----------------------------
(* Proofs about PoolView, for any pools, accounts and configuration, and any  *)
(* number of changes and faults.  They need no fairness.                      *)
EXTENDS PoolView, FiniteSetTheorems, SequenceTheorems, TLAPS

(***************************************************************************)
(* Typing.                                                                 *)
(***************************************************************************)
PoolsOK ==
    /\ pool \in [Accounts -> Seq(Tickets)]
    /\ \A a \in Accounts : IsInjective(pool[a]) /\ Listing(a) \subseteq Listed[a]

TableOK ==
    /\ rows \in [Accounts -> [Tickets -> Statuses]]
    /\ known \in [Accounts -> SUBSET Tickets]

WatchOK == watch \in [Accounts -> Nat \cup {-1}] /\ permit \in [Accounts -> BOOLEAN]

\* Readings of pools.
ReadingsOK == \A a \in Accounts : watch[a] \in -1..Cardinality(Tickets)

Cycle == [pc : {"sleep", "pages", "record", "expire"}, count : 0..(Cycles - 1),
          full : BOOLEAN, left : SUBSET Pages, failed : BOOLEAN,
          seen : SUBSET Tickets, todo : SUBSET Tickets]

LoopsOK ==
    /\ poller \in [Accounts -> Cycle]
    /\ \A a \in Accounts : poller[a].todo \subseteq poller[a].seen

HistoryOK == ghost \in [unswept : SUBSET Accounts, excused : [Accounts -> SUBSET Tickets]]

Types == PoolsOK /\ TableOK /\ WatchOK /\ LoopsOK /\ HistoryOK

(***************************************************************************)
(* Sweeps: a full sweep none of whose pages failed has seen what is on the *)
(* pages it has read, but for the tickets that moved, and ends no earlier  *)
(* than with its last page.                                                *)
(***************************************************************************)
Whole(c) == c.full /\ ~c.failed

SweepSees(s, c, moved) ==
    c.pc # "sleep" /\ Whole(c) =>
        \A t \in Tickets : PageOf(s, t) \in (1..MaxPages) \ c.left => t \in c.seen \cup moved

LastPageRead(c) == c.pc \in {"record", "expire"} => c.left = {}

OnlyWholeExpire(c) == c.pc = "expire" => Whole(c)

SweepOK(s, c, moved) == SweepSees(s, c, moved) /\ LastPageRead(c) /\ OnlyWholeExpire(c)

Sweeps == \A a \in Accounts : SweepOK(pool[a], poller[a], ghost.excused[a])

-----------------------------------------------------------------------------
(* Numbers *)

\* A set of natural numbers that is not empty has its minimum.
LEMMA MinOfNats ==
    ASSUME NEW S \in SUBSET Nat, S # {}
    PROVE  Min(S) \in S
<1>. DEFINE Below == {0..n : n \in S}
<1>1. Below \subseteq FiniteSubsetsOf(Nat) /\ Below # {}
  <2>1. ASSUME NEW n \in S PROVE 0..n \in FiniteSubsetsOf(Nat)
    <3>1. n \in Int /\ 0..n \subseteq Nat
      OBVIOUS
    <3>2. IsFiniteSet(0..n)
      BY <3>1, FS_Interval
    <3>. QED
      BY <3>1, <3>2 DEF FiniteSubsetsOf
  <2>. QED
    BY <2>1
<1>2. IsWellFoundedOn(StrictSubsetOrdering(Nat), FiniteSubsetsOf(Nat))
  BY FS_StrictSubsetOrderingWellFounded
<1>3. PICK b \in Below : \A c \in Below : ~ (<<c, b>> \in StrictSubsetOrdering(Nat))
  <2>. HIDE DEF Below
  <2>. QED
    BY <1>1, <1>2, WFMin
<1>4. PICK m \in S : b = 0..m
  OBVIOUS
<1>5. ASSUME NEW n \in S PROVE m <= n
  <2>. SUFFICES ASSUME n < m PROVE FALSE
    OBVIOUS
  <2>1. 0..n \subseteq 0..m /\ 0..m \subseteq Nat /\ m \in 0..m /\ m \notin 0..n
    OBVIOUS
  <2>2. <<0..n, 0..m>> \in StrictSubsetOrdering(Nat)
    BY <2>1 DEF StrictSubsetOrdering
  <2>. QED
    BY <1>3, <1>4, <2>2
<1>. QED
  BY <1>5 DEF Min

\* poll_count is counted modulo a number that is not 0.
LEMMA CyclesIsNat == Cycles \in Nat \ {0}
<1>. DEFINE every == IF FullSyncEvery = 0 THEN 1 ELSE FullSyncEvery
            top == every * MaxPages
            Common == {n \in 1..top : n % every = 0 /\ n % MaxPages = 0}
<1>1. every \in Nat \ {0} /\ MaxPages \in Nat \ {0}
  BY ConfigAssumption
<1>. HIDE DEF every
<1>2. top \in Nat \ {0} /\ top % every = 0 /\ top % MaxPages = 0
  BY <1>1
<1>3. top \in Common
  BY <1>2
<1>4. Common \in SUBSET Nat /\ 0 \notin Common
  BY <1>2
<1>5. Min(Common) \in Common
  BY <1>3, <1>4, MinOfNats
<1>. QED
  BY <1>4, <1>5 DEF Cycles, every

\* What a cycle reads lies within the last page a window reaches.
LEMMA PagesReached ==
    ASSUME NEW n \in Nat
    PROVE  WindowPages(n) \subseteq Pages /\ 1..MaxPages \subseteq Pages
<1>1. MaxPages \in Nat \ {0}
  BY ConfigAssumption
<1>2. n % MaxPages \in 0..(MaxPages - 1)
  BY <1>1
<1>. DEFINE r == n % MaxPages
<1>. HIDE DEF r
<1>3. ASSUME r \in 0..(MaxPages - 1)
      PROVE  (1 + r)..(1 + r + MaxPages - 1) \subseteq 1..(2 * MaxPages - 1)
  BY <1>1, <1>3
<1>. QED
  BY <1>1, <1>2, <1>3 DEF WindowPages, Pages, r

-----------------------------------------------------------------------------
(* Pools *)

\* A ticket that is not listed can be put first.
LEMMA PoolGrows ==
    ASSUME NEW s \in Seq(Tickets), IsInjective(s), NEW t \in Tickets \ ToSet(s)
    PROVE  /\ <<t>> \o s \in Seq(Tickets) /\ IsInjective(<<t>> \o s)
           /\ ToSet(<<t>> \o s) \subseteq {t} \cup ToSet(s)
<1>. DEFINE u == <<t>> \o s
<1>1. <<t>> \in Seq(Tickets) /\ Len(<<t>>) = 1 /\ <<t>>[1] = t
  OBVIOUS
<1>2. /\ u \in Seq(Tickets) /\ Len(u) = 1 + Len(s)
      /\ \A i \in 1..(1 + Len(s)) : u[i] = IF i <= 1 THEN <<t>>[i] ELSE s[i - 1]
  BY <1>1, ConcatProperties
<1>3. Len(s) \in Nat /\ DOMAIN s = 1..Len(s) /\ DOMAIN u = 1..(1 + Len(s))
  BY <1>2
<1>4. \A i \in 1..Len(s) : s[i] # t /\ s[i] \in ToSet(s)
  BY <1>3 DEF ToSet
<1>5. \A i \in 2..(1 + Len(s)) : u[i] = s[i - 1] /\ i - 1 \in 1..Len(s)
  BY <1>2, <1>3
<1>6. u[1] = t
  BY <1>1, <1>2, <1>3
<1>. HIDE DEF u
<1>7. IsInjective(u)
  <2>. SUFFICES ASSUME NEW i \in 1..(1 + Len(s)), NEW j \in 1..(1 + Len(s)), u[i] = u[j]
                PROVE  i = j
    BY <1>3 DEF IsInjective
  <2>1. CASE i = 1
    BY <1>3, <1>4, <1>5, <1>6, <2>1
  <2>2. CASE j = 1
    BY <1>3, <1>4, <1>5, <1>6, <2>2
  <2>3. CASE i # 1 /\ j # 1
    <3>1. s[i - 1] = s[j - 1] /\ i - 1 \in DOMAIN s /\ j - 1 \in DOMAIN s
      BY <1>3, <1>5, <2>3
    <3>. QED
      BY <3>1 DEF IsInjective
  <2>. QED
    BY <2>1, <2>2, <2>3
<1>8. ToSet(u) \subseteq {t} \cup ToSet(s)
  <2>1. ASSUME NEW i \in 1..(1 + Len(s)) PROVE u[i] \in {t} \cup ToSet(s)
    <3>1. i = 1 \/ i \in 2..(1 + Len(s))
      BY <1>3
    <3>. QED
      BY <1>4, <1>5, <1>6, <3>1
  <2>2. ToSet(u) = {u[i] : i \in 1..(1 + Len(s))}
    BY <1>3 DEF ToSet
  <2>. QED
    BY <2>1, <2>2
<1>. QED
  BY <1>2, <1>7, <1>8 DEF u

\* Any ticket can go.
LEMMA PoolShrinks ==
    ASSUME NEW s \in Seq(Tickets), IsInjective(s), NEW i \in DOMAIN s
    PROVE  /\ RemoveAt(s, i) \in Seq(Tickets) /\ IsInjective(RemoveAt(s, i))
           /\ ToSet(RemoveAt(s, i)) \subseteq ToSet(s)
<1>. DEFINE n == Len(s)
            u == SubSeq(s, 1, i - 1)
            v == SubSeq(s, i + 1, n)
            w == u \o v
<1>1. n \in Nat /\ i \in 1..n /\ DOMAIN s = 1..n /\ \A j \in 1..n : s[j] \in Tickets
  OBVIOUS
<1>2. /\ u \in Seq(Tickets) /\ Len(u) = i - 1
      /\ \A j \in 1..(i - 1) : u[j] = s[j]
  <2>1. 1 \in Int /\ i - 1 \in Int /\ \A j \in 1..(i - 1) : s[j] \in Tickets
    BY <1>1
  <2>2. /\ u \in Seq(Tickets)
        /\ Len(u) = IF 1 <= i - 1 THEN (i - 1) - 1 + 1 ELSE 0
        /\ \A j \in 1..((i - 1) - 1 + 1) : u[j] = s[1 + j - 1]
    BY <2>1, SubSeqProperties
  <2>. QED
    BY <1>1, <2>2
<1>3. /\ v \in Seq(Tickets) /\ Len(v) = n - i
      /\ \A j \in 1..(n - i) : v[j] = s[i + j]
  <2>1. i + 1 \in Int /\ n \in Int /\ \A j \in (i + 1)..n : s[j] \in Tickets
    BY <1>1
  <2>2. /\ v \in Seq(Tickets)
        /\ Len(v) = IF i + 1 <= n THEN n - (i + 1) + 1 ELSE 0
        /\ \A j \in 1..(n - (i + 1) + 1) : v[j] = s[(i + 1) + j - 1]
    BY <2>1, SubSeqProperties
  <2>3. ASSUME NEW j \in 1..(n - i) PROVE v[j] = s[i + j]
    <3>1. j \in 1..(n - (i + 1) + 1) /\ (i + 1) + j - 1 = i + j
      BY <1>1
    <3>. HIDE DEF v
    <3>. QED
      BY <2>2, <3>1
  <2>4. Len(v) = n - i
    BY <1>1, <2>2
  <2>. QED
    BY <2>2, <2>3, <2>4
<1>. HIDE DEF u, v
<1>4. /\ w \in Seq(Tickets) /\ Len(w) = n - 1
      /\ \A j \in 1..(n - 1) : w[j] = IF j <= i - 1 THEN u[j] ELSE v[j - (i - 1)]
  <2>1. /\ w \in Seq(Tickets) /\ Len(w) = Len(u) + Len(v)
        /\ \A j \in 1..(Len(u) + Len(v)) :
              w[j] = IF j <= Len(u) THEN u[j] ELSE v[j - Len(u)]
    BY <1>2, <1>3, ConcatProperties
  <2>. QED
    BY <1>1, <1>2, <1>3, <2>1
<1>5. DOMAIN w = 1..(n - 1)
  BY <1>4
<1>6. RemoveAt(s, i) = w
  BY DEF RemoveAt, u, v
<1>. HIDE DEF n, w
<1>7. \A j \in 1..(n - 1) :
         \/ j < i /\ w[j] = s[j]
         \/ j >= i /\ w[j] = s[j + 1]
  <2>. SUFFICES ASSUME NEW j \in 1..(n - 1)
                PROVE  (j < i /\ w[j] = s[j]) \/ (j >= i /\ w[j] = s[j + 1])
    OBVIOUS
  <2>1. CASE j < i
    <3>1. j \in 1..(i - 1) /\ j <= i - 1
      BY <1>1, <2>1
    <3>. QED
      BY <1>2, <1>4, <2>1, <3>1
  <2>2. CASE j >= i
    <3>1. j - (i - 1) \in 1..(n - i) /\ ~(j <= i - 1) /\ i + (j - (i - 1)) = j + 1
      BY <1>1, <2>2
    <3>. QED
      BY <1>3, <1>4, <2>2, <3>1
  <2>. QED
    BY <1>1, <2>1, <2>2
<1>8. IsInjective(w)
  <2>. SUFFICES ASSUME NEW j \in 1..(n - 1), NEW k \in 1..(n - 1), w[j] = w[k]
                PROVE  j = k
    BY <1>5 DEF IsInjective
  <2>1. \A x, y \in 1..n : s[x] = s[y] => x = y
    BY <1>1 DEF IsInjective
  <2>2. {j, k, j + 1, k + 1} \subseteq 1..n
    BY <1>1
  <2>. QED
    BY <1>1, <1>7, <2>1, <2>2
<1>9. ToSet(w) \subseteq ToSet(s)
  <2>1. ASSUME NEW j \in 1..(n - 1) PROVE \E x \in 1..n : w[j] = s[x]
    <3>1. j \in 1..n /\ j + 1 \in 1..n
      BY <1>1
    <3>. QED
      BY <1>7, <3>1
  <2>. QED
    BY <1>1, <1>5, <2>1 DEF ToSet
<1>. QED
  BY <1>4, <1>6, <1>8, <1>9

\* No pool is longer than there are tickets.
LEMMA PoolsAreShort ==
    ASSUME IsFiniteSet(Tickets), NEW s \in Seq(Tickets), IsInjective(s)
    PROVE  Len(s) \in 0..Cardinality(Tickets)
<1>1. Len(s) \in Nat /\ s \in [1..Len(s) -> Tickets]
  OBVIOUS
<1>2. s \in Injection(1..Len(s), Tickets)
  BY <1>1 DEF Injection
<1>3. Cardinality(1..Len(s)) <= Cardinality(Tickets)
  BY <1>2, FS_Injection
<1>4. Cardinality(1..Len(s)) = Len(s)
  BY <1>1, FS_Interval
<1>5. Cardinality(Tickets) \in Nat
  BY FS_CardinalityType
<1>. QED
  BY <1>1, <1>3, <1>4, <1>5

-----------------------------------------------------------------------------
(* Typing *)

LEMMA AsleepIsCycle ==
    ASSUME NEW n \in 0..(Cycles - 1)
    PROVE  /\ Asleep(n) \in Cycle /\ Asleep(n).pc = "sleep" /\ ~Asleep(n).failed
           /\ Asleep(n).todo = {} /\ Asleep(n).seen = {}
BY DEF Asleep, Cycle

LEMMA CountIsSmall ==
    ASSUME LoopsOK, NEW a \in Accounts
    PROVE  /\ poller[a].count \in 0..(Cycles - 1)
           /\ (poller[a].count + 1) % Cycles \in 0..(Cycles - 1)
BY CyclesIsNat DEF LoopsOK, Cycle

LEMMA TypesInit == Init => Types
<1>. SUFFICES ASSUME Init PROVE Types
  OBVIOUS
<1>1. PoolsOK
  <2>1. ToSet(<<>>) = {} /\ IsInjective(<<>>) /\ <<>> \in Seq(Tickets)
    BY DEF ToSet, IsInjective
  <2>. QED
    BY <2>1 DEF Init, PoolsOK, Listing
<1>2. TableOK
  BY DEF Init, TableOK, Statuses
<1>3. WatchOK
  BY DEF Init, WatchOK
<1>4. LoopsOK
  BY AsleepIsCycle, CyclesIsNat DEF Init, LoopsOK
<1>5. HistoryOK
  BY DEF Init, HistoryOK
<1>. QED
  BY <1>1, <1>2, <1>3, <1>4, <1>5 DEF Types

\* The pools change as SPX may change them.
LEMMA PoolStep ==
    ASSUME PoolsOK, NEW a \in Accounts, PoolChanges(a)
    PROVE  PoolsOK' /\ \A b \in Accounts : b # a => pool'[b] = pool[b]
<1>1. pool[a] \in Seq(Tickets) /\ IsInjective(pool[a]) /\ ToSet(pool[a]) \subseteq Listed[a]
  BY DEF PoolsOK, Listing
<1>2. ASSUME NEW s \in Seq(Tickets), IsInjective(s), ToSet(s) \subseteq Listed[a],
             pool' = [pool EXCEPT ![a] = s]
      PROVE  PoolsOK' /\ \A b \in Accounts : b # a => pool'[b] = pool[b]
  BY <1>2 DEF PoolsOK, Listing
<1>3. ASSUME NEW t \in Listed[a] \ ToSet(pool[a]), pool' = [pool EXCEPT ![a] = <<t>> \o @]
      PROVE  PoolsOK' /\ \A b \in Accounts : b # a => pool'[b] = pool[b]
  <2>. DEFINE s == <<t>> \o pool[a]
  <2>1. t \in Tickets \ ToSet(pool[a])
    BY ConfigAssumption
  <2>2. /\ s \in Seq(Tickets) /\ IsInjective(s) /\ ToSet(s) \subseteq {t} \cup ToSet(pool[a])
    BY <1>1, <2>1, PoolGrows
  <2>3. pool' = [pool EXCEPT ![a] = s]
    BY <1>3
  <2>. HIDE DEF s
  <2>. QED
    BY <1>1, <1>2, <2>2, <2>3
<1>4. ASSUME NEW i \in DOMAIN pool[a], pool' = [pool EXCEPT ![a] = RemoveAt(@, i)]
      PROVE  PoolsOK' /\ \A b \in Accounts : b # a => pool'[b] = pool[b]
  BY <1>1, <1>2, <1>4, PoolShrinks
<1>. QED
  BY <1>3, <1>4 DEF PoolChanges, Listing

\* A cycle begins with pages to read, all of them if it is full.
LEMMA BeginStep ==
    ASSUME Types, NEW a \in Accounts, NEW woken \in BOOLEAN, Begin(a, woken)
    PROVE  \E c \in Cycle :
             /\ poller' = [poller EXCEPT ![a] = c]
             /\ c.pc = "pages" /\ (c.full => c.left = 1..MaxPages) /\ c.todo \subseteq c.seen
             /\ woken => c.full
             /\ ghost' = [unswept |-> IF c.full THEN ghost.unswept \ {a} ELSE ghost.unswept,
                          excused |-> [ghost.excused EXCEPT ![a] = {}]]
             /\ UNCHANGED <<pool, rows, known, watch>>
<1>. DEFINE n == (poller[a].count + 1) % Cycles
<1>1. n \in 0..(Cycles - 1) /\ n \in Nat
  BY CountIsSmall, CyclesIsNat DEF Types
<1>2. PICK peek \in Peek(a) :
        LET full == ShouldFullSweep(n, woken \/ peek)
        IN  /\ poller' = [poller EXCEPT ![a] =
                     [Asleep(n) EXCEPT !.pc = "pages", !.full = full,
                         !.left = IF full THEN 1..MaxPages ELSE WindowPages(n)]]
            /\ ghost' = [ghost EXCEPT
                     !.excused[a] = {},
                     !.unswept = IF full THEN @ \ {a} ELSE @]
            /\ UNCHANGED <<pool, rows, known, watch, changes, faults>>
  BY Zenon DEF Begin
<1>. DEFINE full == ShouldFullSweep(n, woken \/ peek)
            left == IF full THEN 1..MaxPages ELSE WindowPages(n)
            c == [Asleep(n) EXCEPT !.pc = "pages", !.full = full, !.left = left]
            unswept == IF full THEN ghost.unswept \ {a} ELSE ghost.unswept
<1>3. full \in BOOLEAN /\ (woken => full)
  BY DEF ShouldFullSweep
<1>4. left \in SUBSET Pages /\ (full => left = 1..MaxPages)
  BY <1>1, PagesReached
<1>5. poller' = [poller EXCEPT ![a] = c] /\ UNCHANGED <<pool, rows, known, watch>>
  BY <1>2
<1>6. ghost' = [unswept |-> unswept, excused |-> [ghost.excused EXCEPT ![a] = {}]]
  <2>1. ghost' = [ghost EXCEPT !.excused[a] = {}, !.unswept = unswept]
    BY <1>2
  <2>. HIDE DEF unswept
  <2>. QED
    BY <2>1 DEF Types, HistoryOK
<1>7. unswept = IF full THEN ghost.unswept \ {a} ELSE ghost.unswept
  OBVIOUS
<1>. HIDE DEF n, full, left, unswept
<1>8. /\ c \in Cycle /\ c.pc = "pages" /\ c.full = full /\ c.left = left
      /\ c.todo \subseteq c.seen
  <2>. DEFINE asleep == Asleep(n)
              d == [asleep EXCEPT !.pc = "pages"]
              e == [d EXCEPT !.full = full]
  <2>1. asleep \in Cycle /\ asleep.todo = {}
    BY <1>1, AsleepIsCycle
  <2>2. c = [e EXCEPT !.left = left]
    BY <2>1 DEF Cycle
  <2>. HIDE DEF asleep, c
  <2>3. d \in Cycle /\ d.pc = "pages" /\ d.todo = {}
    BY <2>1 DEF Cycle
  <2>. HIDE DEF d
  <2>4. e \in Cycle /\ e.pc = "pages" /\ e.full = full /\ e.todo = {}
    BY <1>3, <2>3 DEF Cycle
  <2>. HIDE DEF e
  <2>. QED
    BY <1>4, <2>2, <2>4 DEF Cycle
<1>. HIDE DEF c
<1>. QED
  BY <1>3, <1>4, <1>5, <1>6, <1>7, <1>8

\* What the answer to a page makes of a cycle.
LEMMA AnsweredCycle ==
    ASSUME NEW c \in Cycle, NEW p, c.pc = "pages", p \in c.left, c.todo \subseteq c.seen
    PROVE  LET d == Answered(c, p)
           IN  /\ d \in Cycle /\ d.left = c.left \ {p} /\ d.seen = c.seen
               /\ d.full = c.full /\ d.failed = c.failed /\ d.todo \subseteq d.seen
               /\ d.pc \in {"pages", "record"} /\ (d.pc = "record" => d.left = {})
<1>1. CASE c.left = {p}
  BY <1>1 DEF Answered, Cycle
<1>2. CASE c.left # {p}
  BY <1>2 DEF Answered, Cycle
<1>. QED
  BY <1>1, <1>2

\* A page that is answered, fails or comes without a list.
PageStep(a, p) == ReadPage(a, p) \/ PageFails(a, p) \/ PageIsBlank(a, p)

LEMMA PageStepEffect ==
    ASSUME Types, NEW a \in Accounts, NEW p, PageStep(a, p)
    PROVE  \E c \in Cycle :
             /\ poller' = [poller EXCEPT ![a] = c]
             /\ UNCHANGED <<pool, rows, known, watch, permit>>
             /\ poller[a].pc = "pages" /\ c.pc \in {"pages", "record"}
             /\ c.pc = "record" => c.left = {}
             /\ c.left = poller[a].left \ {p}
             /\ c.todo \subseteq c.seen /\ poller[a].seen \subseteq c.seen
             /\ Whole(c) => /\ Whole(poller[a])
                            /\ Page(pool[a], p) \subseteq c.seen \cup ghost'.excused[a]
             /\ ghost'.unswept = ghost.unswept /\ HistoryOK'
             /\ \A b \in Accounts : ghost.excused[b] \subseteq ghost'.excused[b]
<1>. DEFINE c == poller[a]
            seen == c.seen \cup Page(pool[a], p)
            r == [c EXCEPT !.seen = seen]
            x == [c EXCEPT !.failed = TRUE]
<1>1. /\ c \in Cycle /\ c.pc = "pages" /\ p \in c.left /\ c.todo \subseteq c.seen
      /\ UNCHANGED <<pool, rows, known, watch, permit>>
  BY DEF PageStep, ReadPage, PageFails, PageIsBlank, Types, LoopsOK
<1>2. Page(pool[a], p) \subseteq Tickets
  BY DEF Types, PoolsOK, Page, ToSet
<1>3. seen \in SUBSET Tickets
  BY <1>1, <1>2 DEF Cycle
<1>. HIDE DEF seen
<1>4. /\ r \in Cycle /\ r.pc = "pages" /\ r.left = c.left /\ r.seen = seen
      /\ r.full = c.full /\ r.failed = c.failed /\ r.todo = c.todo
  BY <1>1, <1>3 DEF Cycle
<1>5. /\ x \in Cycle /\ x.pc = "pages" /\ x.left = c.left /\ x.seen = c.seen
      /\ x.failed /\ x.todo = c.todo
  BY <1>1 DEF Cycle
<1>6. c.seen \subseteq seen /\ Page(pool[a], p) \subseteq seen
  BY DEF seen
<1>7. CASE ReadPage(a, p)
  <2>1. poller' = [poller EXCEPT ![a] = Answered(r, p)] /\ UNCHANGED ghost
    BY <1>7 DEF ReadPage, seen
  <2>. HIDE DEF c, r
  <2>2. /\ Answered(r, p) \in Cycle /\ Answered(r, p).left = c.left \ {p}
        /\ Answered(r, p).seen = seen /\ Answered(r, p).full = c.full
        /\ Answered(r, p).failed = c.failed
        /\ Answered(r, p).todo \subseteq Answered(r, p).seen
        /\ Answered(r, p).pc \in {"pages", "record"}
        /\ Answered(r, p).pc = "record" => Answered(r, p).left = {}
    BY <1>1, <1>4, <1>6, AnsweredCycle
  <2>3. HistoryOK'
    BY <2>1 DEF Types, HistoryOK
  <2>. QED
    BY <1>1, <1>6, <2>1, <2>2, <2>3 DEF Whole, c
<1>8. CASE PageFails(a, p)
  <2>1. poller' = [poller EXCEPT ![a] = Answered(x, p)] /\ UNCHANGED ghost
    BY <1>8 DEF PageFails
  <2>. HIDE DEF c, x
  <2>2. /\ Answered(x, p) \in Cycle /\ Answered(x, p).left = c.left \ {p}
        /\ Answered(x, p).seen = c.seen /\ Answered(x, p).failed
        /\ Answered(x, p).todo \subseteq Answered(x, p).seen
        /\ Answered(x, p).pc \in {"pages", "record"}
        /\ Answered(x, p).pc = "record" => Answered(x, p).left = {}
    BY <1>1, <1>5, AnsweredCycle
  <2>3. HistoryOK'
    BY <2>1 DEF Types, HistoryOK
  <2>. QED
    BY <1>1, <2>1, <2>2, <2>3 DEF Whole, c
<1>9. CASE PageIsBlank(a, p)
  <2>1. /\ poller' = [poller EXCEPT ![a] = Answered(c, p)]
        /\ ghost' = [ghost EXCEPT !.excused[a] = @ \cup Page(pool[a], p)]
    BY <1>9 DEF PageIsBlank
  <2>2. /\ HistoryOK' /\ ghost'.unswept = ghost.unswept
        /\ ghost'.excused[a] = ghost.excused[a] \cup Page(pool[a], p)
        /\ \A b \in Accounts : b # a => ghost'.excused[b] = ghost.excused[b]
    BY <1>2, <2>1 DEF Types, HistoryOK
  <2>. HIDE DEF c
  <2>3. /\ Answered(c, p) \in Cycle /\ Answered(c, p).left = c.left \ {p}
        /\ Answered(c, p).seen = c.seen /\ Answered(c, p).full = c.full
        /\ Answered(c, p).failed = c.failed
        /\ Answered(c, p).todo \subseteq Answered(c, p).seen
        /\ Answered(c, p).pc \in {"pages", "record"}
        /\ Answered(c, p).pc = "record" => Answered(c, p).left = {}
    BY <1>1, AnsweredCycle
  <2>. QED
    BY <1>1, <2>1, <2>2, <2>3 DEF Whole, c
<1>. QED
  BY <1>7, <1>8, <1>9 DEF PageStep

\* The steps of a loop after its pages.
TableStep(a) ==
    \/ \E t \in Tickets : Handle(a, t)
    \/ EndCycle(a) \/ Resurrect(a) \/ Expire(a) \/ DriftFails(a)

LEMMA TableStepEffect ==
    ASSUME Types, NEW a \in Accounts, TableStep(a)
    PROVE  /\ UNCHANGED <<pool, watch, permit, ghost>>
           /\ \E c \in Cycle :
                 /\ poller' = [poller EXCEPT ![a] = c]
                 /\ c.todo \subseteq c.seen /\ poller[a].pc \in {"record", "expire"}
                 /\ \/ c.pc = "sleep"
                    \/ /\ c.left = poller[a].left /\ c.seen = poller[a].seen
                       /\ c.full = poller[a].full /\ c.failed = poller[a].failed
                       /\ \/ c.pc = "record"
                          \/ c.pc = "expire" /\ Whole(c)
<1>1. poller[a] \in Cycle /\ poller[a].todo \subseteq poller[a].seen
  BY DEF Types, LoopsOK
<1>2. UNCHANGED <<pool, watch, permit, ghost>>
  BY DEF TableStep, Handle, EndCycle, Resurrect, Expire, DriftFails
<1>3. ASSUME NEW t \in Tickets, Handle(a, t)
      PROVE  \E c \in Cycle :
                 /\ poller' = [poller EXCEPT ![a] = c]
                 /\ c.todo \subseteq c.seen /\ poller[a].pc = "record" /\ c.pc = "record"
                 /\ c.left = poller[a].left /\ c.seen = poller[a].seen
                 /\ c.full = poller[a].full /\ c.failed = poller[a].failed
  <2>. DEFINE c == [poller[a] EXCEPT !.todo = @ \ {t}]
  <2>1. poller' = [poller EXCEPT ![a] = c] /\ poller[a].pc = "record"
    BY <1>3 DEF Handle
  <2>2. /\ c \in Cycle /\ c.pc = poller[a].pc /\ c.left = poller[a].left
        /\ c.seen = poller[a].seen /\ c.todo \subseteq poller[a].todo
        /\ c.full = poller[a].full /\ c.failed = poller[a].failed
    BY <1>1 DEF Cycle
  <2>. HIDE DEF c
  <2>. QED
    BY <1>1, <2>1, <2>2
<1>4. CASE EndCycle(a) \/ Expire(a) \/ DriftFails(a)
  <2>1. /\ poller' = [poller EXCEPT ![a] = Asleep(poller[a].count)]
        /\ poller[a].pc \in {"record", "expire"}
    BY <1>4 DEF EndCycle, Expire, DriftFails, Handled
  <2>2. /\ Asleep(poller[a].count) \in Cycle /\ Asleep(poller[a].count).pc = "sleep"
        /\ Asleep(poller[a].count).todo = {}
    BY CountIsSmall, AsleepIsCycle DEF Types
  <2>. QED
    BY <1>2, <2>1, <2>2
<1>5. CASE Resurrect(a)
  <2>. DEFINE c == [poller[a] EXCEPT !.pc = "expire"]
  <2>1. /\ poller' = [poller EXCEPT ![a] = c] /\ poller[a].pc = "record" /\ Whole(poller[a])
    BY <1>5 DEF Resurrect, Handled, FetchComplete, Whole
  <2>2. /\ c \in Cycle /\ c.pc = "expire" /\ c.left = poller[a].left
        /\ c.seen = poller[a].seen /\ c.todo = poller[a].todo
        /\ c.full = poller[a].full /\ c.failed = poller[a].failed
    BY <1>1 DEF Cycle
  <2>. HIDE DEF c
  <2>. QED
    BY <1>1, <1>2, <2>1, <2>2 DEF Whole
<1>. QED
  BY <1>2, <1>3, <1>4, <1>5 DEF TableStep

\* A reading of the watcher.
LEMMA ObserveEffect ==
    ASSUME Types, NEW a \in Accounts, Observe(a)
    PROVE  /\ UNCHANGED <<pool, rows, known, poller>>
           /\ watch' = [watch EXCEPT ![a] = Len(pool[a])]
           /\ \E new \in BOOLEAN :
                 /\ permit' = [permit EXCEPT ![a] = @ \/ new]
                 /\ ghost' = [ghost EXCEPT !.unswept = IF new THEN @ \cup {a} ELSE @]
BY Zenon DEF Observe, Signal

LEMMA ObserveHistory ==
    ASSUME Types, NEW a \in Accounts, Observe(a)
    PROVE  /\ HistoryOK' /\ ghost'.excused = ghost.excused
           /\ permit' \in [Accounts -> BOOLEAN]
           /\ \A b \in Accounts : permit[b] => permit'[b]
           /\ ghost'.unswept \subseteq ghost.unswept \cup {a}
           /\ a \in ghost'.unswept => a \in ghost.unswept \/ permit'[a]
<1>1. PICK new \in BOOLEAN :
        /\ permit' = [permit EXCEPT ![a] = @ \/ new]
        /\ ghost' = [ghost EXCEPT !.unswept = IF new THEN @ \cup {a} ELSE @]
  BY ObserveEffect
<1>. DEFINE unswept == IF new THEN ghost.unswept \cup {a} ELSE ghost.unswept
            poked == permit[a] \/ new
<1>2. unswept \in SUBSET Accounts /\ unswept \subseteq ghost.unswept \cup {a}
  BY DEF Types, HistoryOK
<1>3. poked \in BOOLEAN /\ (permit[a] => poked) /\ (a \in unswept => a \in ghost.unswept \/ poked)
  OBVIOUS
<1>4. ghost' = [ghost EXCEPT !.unswept = unswept] /\ permit' = [permit EXCEPT ![a] = poked]
  BY <1>1
<1>. HIDE DEF unswept, poked
<1>5. HistoryOK' /\ ghost'.excused = ghost.excused /\ ghost'.unswept = unswept
  BY <1>2, <1>4 DEF Types, HistoryOK
<1>6. /\ permit' \in [Accounts -> BOOLEAN] /\ permit'[a] = poked
      /\ \A b \in Accounts : b # a => permit'[b] = permit[b]
  BY <1>3, <1>4 DEF Types, WatchOK
<1>. QED
  BY <1>2, <1>3, <1>5, <1>6

LEMMA StepCases ==
    ASSUME [Next]_vars
    PROVE  \/ UNCHANGED vars
           \/ \E a \in Accounts :
                 \/ PoolChanges(a) \/ Observe(a) \/ TableStep(a)
                 \/ WakeByTimer(a) \/ WakeByPoke(a)
                 \/ \E p \in Pages : PageStep(a, p)
BY ConfigAssumption DEF Next, LoopStep, PageStep, TableStep

LEMMA PoolsNext == ASSUME Types, [Next]_vars PROVE PoolsOK'
<1>. SUFFICES ASSUME pool' # pool PROVE PoolsOK'
  BY DEF Types, PoolsOK, Listing
<1>1. PICK a \in Accounts : PoolChanges(a)
  BY StepCases, PageStepEffect, TableStepEffect, ObserveEffect
     DEF vars, WakeByTimer, WakeByPoke, Begin
<1>. QED
  BY <1>1, PoolStep DEF Types

LEMMA LoopsNext == ASSUME Types, [Next]_vars PROVE LoopsOK'
<1>1. CASE UNCHANGED poller
  BY <1>1 DEF Types, LoopsOK
<1>2. ASSUME NEW a \in Accounts, NEW c \in Cycle, poller' = [poller EXCEPT ![a] = c],
             c.todo \subseteq c.seen
      PROVE  LoopsOK'
  BY <1>2 DEF Types, LoopsOK
<1>3. ASSUME NEW a \in Accounts, WakeByTimer(a) \/ WakeByPoke(a) PROVE LoopsOK'
  <2>1. \E woken \in BOOLEAN : Begin(a, woken)
    BY <1>3 DEF WakeByTimer, WakeByPoke
  <2>. QED
    BY <1>2, <2>1, BeginStep
<1>4. ASSUME NEW a \in Accounts, NEW p, PageStep(a, p) PROVE LoopsOK'
  BY <1>2, <1>4, PageStepEffect
<1>5. ASSUME NEW a \in Accounts, TableStep(a) PROVE LoopsOK'
  BY <1>2, <1>5, TableStepEffect
<1>. QED
  BY <1>1, <1>3, <1>4, <1>5, StepCases DEF vars, PoolChanges, Observe

LEMMA TableNext == ASSUME Types, [Next]_vars PROVE TableOK'
<1>1. CASE UNCHANGED <<rows, known>>
  BY <1>1 DEF Types, TableOK
<1>2. ASSUME NEW a \in Accounts, NEW t \in Tickets, Handle(a, t) PROVE TableOK'
  <2>. DEFINE first == IF rows[a][t] = "none" THEN "pending" ELSE rows[a][t]
              table == [rows EXCEPT ![a][t] = first]
              Mark(status) == [b \in Accounts |->
                  [table[b] EXCEPT ![t] = IF @ = "none" THEN @ ELSE status]]
  <2>1. first \in Statuses
    BY DEF Types, TableOK, Statuses
  <2>2. /\ \/ rows' = table \/ rows' = Mark("failed") \/ rows' = Mark("accepted")
        /\ known' = known \/ known' = [known EXCEPT ![a] = @ \cup {t}]
    BY <1>2, Zenon DEF Handle
  <2>. HIDE DEF first
  <2>3. table \in [Accounts -> [Tickets -> Statuses]]
    BY <2>1 DEF Types, TableOK
  <2>. HIDE DEF table
  <2>4. ASSUME NEW status \in {"failed", "accepted"}
        PROVE  Mark(status) \in [Accounts -> [Tickets -> Statuses]]
    <3>1. status \in Statuses
      BY DEF Statuses
    <3>2. ASSUME NEW b \in Accounts
          PROVE  [table[b] EXCEPT ![t] = IF @ = "none" THEN @ ELSE status]
                     \in [Tickets -> Statuses]
      <4>1. table[b] \in [Tickets -> Statuses]
        BY <2>3
      <4>. QED
        BY <3>1, <4>1
    <3>. QED
      BY <3>2
  <2>5. rows' \in [Accounts -> [Tickets -> Statuses]]
    BY <2>2, <2>3, <2>4
  <2>6. known' \in [Accounts -> SUBSET Tickets]
    BY <2>2 DEF Types, TableOK
  <2>. QED
    BY <2>5, <2>6 DEF TableOK
<1>3. ASSUME NEW a \in Accounts, Resurrect(a) PROVE TableOK'
  BY <1>3 DEF Resurrect, Types, TableOK, Statuses
<1>4. ASSUME NEW a \in Accounts, Expire(a) PROVE TableOK'
  BY <1>4 DEF Expire, Types, TableOK, Statuses
<1>5. ASSUME NEW a \in Accounts, NEW p, PageStep(a, p) PROVE TableOK'
  BY <1>1, <1>5, PageStepEffect
<1>6. ASSUME NEW a \in Accounts, Observe(a) PROVE TableOK'
  BY <1>1, <1>6 DEF Observe
<1>. QED
  BY <1>1, <1>2, <1>3, <1>4, <1>5, <1>6, StepCases
     DEF vars, PoolChanges, TableStep, EndCycle, DriftFails, WakeByTimer, WakeByPoke, Begin

LEMMA WatchNext == ASSUME Types, [Next]_vars PROVE WatchOK'
<1>1. CASE UNCHANGED <<watch, permit>>
  BY <1>1 DEF Types, WatchOK
<1>2. ASSUME NEW a \in Accounts, Observe(a) PROVE WatchOK'
  <2>1. Len(pool[a]) \in Nat
    BY DEF Types, PoolsOK
  <2>. QED
    BY <1>2, <2>1, ObserveEffect, ObserveHistory DEF Types, WatchOK
<1>3. ASSUME NEW a \in Accounts, WakeByPoke(a) PROVE WatchOK'
  BY <1>3 DEF WakeByPoke, Begin, Types, WatchOK
<1>4. ASSUME NEW a \in Accounts, NEW p, PageStep(a, p) PROVE WatchOK'
  BY <1>1, <1>4, PageStepEffect
<1>5. ASSUME NEW a \in Accounts, TableStep(a) PROVE WatchOK'
  BY <1>1, <1>5, TableStepEffect
<1>. QED
  BY <1>1, <1>2, <1>3, <1>4, <1>5, StepCases DEF vars, PoolChanges, WakeByTimer, Begin

\* What a step of a loop that begins a cycle leaves of the history.
LEMMA BeginHistory ==
    ASSUME Types, NEW a \in Accounts, NEW woken \in BOOLEAN, Begin(a, woken)
    PROVE  /\ HistoryOK' /\ ghost'.unswept \subseteq ghost.unswept
           /\ woken => a \notin ghost'.unswept
           /\ \A b \in Accounts : b # a => ghost'.excused[b] = ghost.excused[b]
BY BeginStep DEF Types, HistoryOK

LEMMA HistoryNext == ASSUME Types, [Next]_vars PROVE HistoryOK'
<1>1. CASE UNCHANGED ghost
  BY <1>1 DEF Types, HistoryOK
<1>2. ASSUME NEW a \in Accounts, PoolChanges(a) PROVE HistoryOK'
  <2>1. ghost' = [ghost EXCEPT !.excused[a] =
           @ \cup {t \in Tickets : PageOf(pool[a], t) # PageOf(pool'[a], t)}]
    BY <1>2 DEF PoolChanges
  <2>. QED
    BY <2>1 DEF Types, HistoryOK
<1>3. ASSUME NEW a \in Accounts, WakeByTimer(a) \/ WakeByPoke(a) PROVE HistoryOK'
  <2>1. \E woken \in BOOLEAN : Begin(a, woken)
    BY <1>3 DEF WakeByTimer, WakeByPoke
  <2>. QED
    BY <2>1, BeginHistory
<1>4. ASSUME NEW a \in Accounts, NEW p, PageStep(a, p) PROVE HistoryOK'
  BY <1>4, PageStepEffect
<1>5. ASSUME NEW a \in Accounts, TableStep(a) PROVE HistoryOK'
  BY <1>1, <1>5, TableStepEffect
<1>6. ASSUME NEW a \in Accounts, Observe(a) PROVE HistoryOK'
  BY <1>6, ObserveHistory
<1>. QED
  BY <1>1, <1>2, <1>3, <1>4, <1>5, <1>6, StepCases DEF vars

LEMMA TypesNext == ASSUME Types, [Next]_vars PROVE Types'
BY PoolsNext, LoopsNext, TableNext, WatchNext, HistoryNext DEF Types

-----------------------------------------------------------------------------
(* Pokes *)

LEMMA PokesNext == ASSUME Types, NoPokeIsLost, [Next]_vars PROVE NoPokeIsLost'
<1>1. CASE UNCHANGED <<ghost, permit>>
  BY <1>1 DEF NoPokeIsLost
<1>2. ASSUME NEW a \in Accounts, PoolChanges(a) PROVE NoPokeIsLost'
  <2>1. ghost' = [ghost EXCEPT !.excused[a] =
           @ \cup {t \in Tickets : PageOf(pool[a], t) # PageOf(pool'[a], t)}]
    BY <1>2 DEF PoolChanges
  <2>2. ghost'.unswept = ghost.unswept
    BY <2>1 DEF Types, HistoryOK
  <2>. QED
    BY <1>2, <2>2 DEF PoolChanges, NoPokeIsLost
<1>3. ASSUME NEW a \in Accounts, WakeByTimer(a) PROVE NoPokeIsLost'
  BY <1>3, BeginHistory DEF WakeByTimer, NoPokeIsLost
<1>4. ASSUME NEW a \in Accounts, WakeByPoke(a) PROVE NoPokeIsLost'
  <2>1. permit' = [permit EXCEPT ![a] = FALSE] /\ Begin(a, TRUE)
    BY <1>4 DEF WakeByPoke
  <2>2. ghost'.unswept \subseteq ghost.unswept /\ a \notin ghost'.unswept
    BY <2>1, BeginHistory
  <2>. QED
    BY <2>1, <2>2 DEF NoPokeIsLost, Types, WatchOK, HistoryOK
<1>5. ASSUME NEW a \in Accounts, NEW p, PageStep(a, p) PROVE NoPokeIsLost'
  BY <1>5, PageStepEffect DEF NoPokeIsLost
<1>6. ASSUME NEW a \in Accounts, TableStep(a) PROVE NoPokeIsLost'
  BY <1>1, <1>6, TableStepEffect
<1>7. ASSUME NEW a \in Accounts, Observe(a) PROVE NoPokeIsLost'
  BY <1>7, ObserveHistory DEF NoPokeIsLost, Types, HistoryOK
<1>. QED
  BY <1>1, <1>2, <1>3, <1>4, <1>5, <1>6, <1>7, StepCases DEF vars

-----------------------------------------------------------------------------
(* Sweeps *)

LEMMA AsleepSweeps ==
    ASSUME NEW s, NEW c, NEW moved, c.pc = "sleep" PROVE SweepOK(s, c, moved)
BY DEF SweepOK, SweepSees, LastPageRead, OnlyWholeExpire

LEMMA SweepsInit == Init => Sweeps
BY AsleepSweeps, AsleepIsCycle, CyclesIsNat DEF Init, Sweeps

\* More that is excused harms no sweep.
LEMMA SweepsStay ==
    ASSUME Sweeps, UNCHANGED <<pool, poller>>,
           \A a \in Accounts : ghost.excused[a] \subseteq ghost'.excused[a]
    PROVE  Sweeps'
BY DEF Sweeps, SweepOK, SweepSees

\* A step of one loop is about its own sweep.
LEMMA OneSweep ==
    ASSUME Types, Sweeps, UNCHANGED pool, NEW a \in Accounts, NEW c \in Cycle,
           poller' = [poller EXCEPT ![a] = c],
           \A b \in Accounts : b # a => ghost.excused[b] \subseteq ghost'.excused[b],
           SweepOK(pool[a], c, ghost'.excused[a])
    PROVE  Sweeps'
<1>1. poller'[a] = c /\ \A b \in Accounts : b # a => poller'[b] = poller[b]
  BY DEF Types, LoopsOK
<1>2. ASSUME NEW b \in Accounts, b # a
      PROVE  SweepOK(pool[b], poller[b], ghost'.excused[b])
  BY <1>2 DEF Sweeps, SweepOK, SweepSees
<1>. QED
  BY <1>1, <1>2 DEF Sweeps

LEMMA PageTickets ==
    ASSUME NEW s, NEW p, NEW t, PageOf(s, t) = p, p # 0
    PROVE  t \in Page(s, p)
BY DEF Page, PageOf

LEMMA SweepsNext == ASSUME Types, Sweeps, [Next]_vars PROVE Sweeps'
<1>1. CASE UNCHANGED vars
  BY <1>1, SweepsStay DEF vars
<1>2. ASSUME NEW a \in Accounts, PoolChanges(a) PROVE Sweeps'
  <2>. DEFINE moves == {t \in Tickets : PageOf(pool[a], t) # PageOf(pool'[a], t)}
  <2>1. /\ ghost' = [ghost EXCEPT !.excused[a] = @ \cup moves] /\ UNCHANGED poller
        /\ \A b \in Accounts : b # a => pool'[b] = pool[b]
    BY <1>2, PoolStep DEF PoolChanges, Types
  <2>. HIDE DEF moves
  <2>2. /\ ghost'.excused[a] = ghost.excused[a] \cup moves
        /\ \A b \in Accounts : b # a => ghost'.excused[b] = ghost.excused[b]
    BY <2>1 DEF Types, HistoryOK
  <2>3. SweepOK(pool'[a], poller[a], ghost'.excused[a])
    <3>1. SweepOK(pool[a], poller[a], ghost.excused[a])
      BY DEF Sweeps
    <3>2. \A t \in Tickets : t \in moves \/ PageOf(pool[a], t) = PageOf(pool'[a], t)
      BY DEF moves
    <3>3. SweepSees(pool'[a], poller[a], ghost'.excused[a])
      BY <2>2, <3>1, <3>2 DEF SweepOK, SweepSees
    <3>. QED
      BY <3>1, <3>3 DEF SweepOK
  <2>4. ASSUME NEW b \in Accounts, b # a PROVE SweepOK(pool'[b], poller[b], ghost'.excused[b])
    BY <2>1, <2>2, <2>4 DEF Sweeps
  <2>. QED
    BY <2>1, <2>3, <2>4 DEF Sweeps
<1>3. ASSUME NEW a \in Accounts, NEW woken \in BOOLEAN, Begin(a, woken) PROVE Sweeps'
  <2>1. PICK c \in Cycle :
             /\ poller' = [poller EXCEPT ![a] = c]
             /\ c.pc = "pages" /\ (c.full => c.left = 1..MaxPages) /\ c.todo \subseteq c.seen
             /\ woken => c.full
             /\ ghost' = [unswept |-> IF c.full THEN ghost.unswept \ {a} ELSE ghost.unswept,
                          excused |-> [ghost.excused EXCEPT ![a] = {}]]
             /\ UNCHANGED <<pool, rows, known, watch>>
    BY <1>3, BeginStep
  <2>2. SweepOK(pool[a], c, ghost'.excused[a])
    BY <2>1 DEF SweepOK, SweepSees, LastPageRead, OnlyWholeExpire, Whole
  <2>. QED
    BY <1>3, <2>1, <2>2, OneSweep, BeginHistory
<1>4. ASSUME NEW a \in Accounts, NEW p \in Pages, PageStep(a, p) PROVE Sweeps'
  <2>1. PICK c \in Cycle :
             /\ poller' = [poller EXCEPT ![a] = c]
             /\ UNCHANGED <<pool, rows, known, watch, permit>>
             /\ poller[a].pc = "pages" /\ c.pc \in {"pages", "record"}
             /\ c.pc = "record" => c.left = {}
             /\ c.left = poller[a].left \ {p}
             /\ c.todo \subseteq c.seen /\ poller[a].seen \subseteq c.seen
             /\ Whole(c) => /\ Whole(poller[a])
                            /\ Page(pool[a], p) \subseteq c.seen \cup ghost'.excused[a]
             /\ ghost'.unswept = ghost.unswept /\ HistoryOK'
             /\ \A b \in Accounts : ghost.excused[b] \subseteq ghost'.excused[b]
    BY <1>4, PageStepEffect
  <2>2. p # 0
    BY DEF Pages
  <2>3. ASSUME Whole(c), NEW t \in Tickets, PageOf(pool[a], t) \in (1..MaxPages) \ c.left
        PROVE  t \in c.seen \cup ghost'.excused[a]
    <3>1. CASE PageOf(pool[a], t) = p
      BY <2>1, <2>2, <2>3, <3>1, PageTickets
    <3>2. CASE PageOf(pool[a], t) # p
      <4>1. PageOf(pool[a], t) \in (1..MaxPages) \ poller[a].left
        BY <2>1, <2>3, <3>2
      <4>2. t \in poller[a].seen \cup ghost.excused[a]
        BY <2>1, <2>3, <4>1 DEF Sweeps, SweepOK, SweepSees
      <4>. QED
        BY <2>1, <4>2
    <3>. QED
      BY <3>1, <3>2
  <2>4. SweepOK(pool[a], c, ghost'.excused[a])
    BY <2>1, <2>3 DEF SweepOK, SweepSees, LastPageRead, OnlyWholeExpire
  <2>. QED
    BY <2>1, <2>4, OneSweep
<1>5. ASSUME NEW a \in Accounts, TableStep(a) PROVE Sweeps'
  <2>1. UNCHANGED <<pool, watch, permit, ghost>>
    BY <1>5, TableStepEffect
  <2>2. PICK c \in Cycle :
                 /\ poller' = [poller EXCEPT ![a] = c]
                 /\ c.todo \subseteq c.seen /\ poller[a].pc \in {"record", "expire"}
                 /\ \/ c.pc = "sleep"
                    \/ /\ c.left = poller[a].left /\ c.seen = poller[a].seen
                       /\ c.full = poller[a].full /\ c.failed = poller[a].failed
                       /\ \/ c.pc = "record"
                          \/ c.pc = "expire" /\ Whole(c)
    BY <1>5, TableStepEffect
  <2>3. SweepOK(pool[a], poller[a], ghost.excused[a])
    BY DEF Sweeps
  <2>4. SweepOK(pool[a], c, ghost'.excused[a])
    <3>1. CASE c.pc = "sleep"
      BY <3>1, AsleepSweeps
    <3>2. CASE c.pc # "sleep"
      BY <2>1, <2>2, <2>3, <3>2
         DEF SweepOK, SweepSees, LastPageRead, OnlyWholeExpire, Whole
    <3>. QED
      BY <3>1, <3>2
  <2>. QED
    BY <2>1, <2>2, <2>4, OneSweep
<1>6. ASSUME NEW a \in Accounts, Observe(a) PROVE Sweeps'
  BY <1>6, ObserveEffect, ObserveHistory, SweepsStay
<1>. QED
  BY <1>1, <1>2, <1>3, <1>4, <1>5, <1>6, StepCases DEF WakeByTimer, WakeByPoke

-----------------------------------------------------------------------------
(* Theorems *)

LEMMA ReadingsNext ==
    ASSUME IsFiniteSet(Tickets), Types, ReadingsOK, [Next]_vars PROVE ReadingsOK'
<1>1. CASE UNCHANGED watch
  BY <1>1 DEF ReadingsOK
<1>2. ASSUME NEW a \in Accounts, Observe(a) PROVE ReadingsOK'
  <2>1. Len(pool[a]) \in 0..Cardinality(Tickets)
    BY PoolsAreShort DEF Types, PoolsOK
  <2>2. Cardinality(Tickets) \in Nat
    BY FS_CardinalityType
  <2>3. watch' = [watch EXCEPT ![a] = Len(pool[a])]
    BY <1>2, ObserveEffect
  <2>. QED
    BY <2>1, <2>2, <2>3 DEF ReadingsOK, Types, WatchOK
<1>3. ASSUME NEW a \in Accounts, NEW p, PageStep(a, p) PROVE ReadingsOK'
  BY <1>1, <1>3, PageStepEffect
<1>4. ASSUME NEW a \in Accounts, TableStep(a) PROVE ReadingsOK'
  BY <1>1, <1>4, TableStepEffect
<1>. QED
  BY <1>1, <1>2, <1>3, <1>4, StepCases DEF vars, PoolChanges, WakeByTimer, WakeByPoke, Begin

\* The pools hold what SPX may list, each ticket once; the table, the loops
\* and the watchers hold values of the code's types, and no window reads
\* past its last page.
THEOREM PoolTypes == ASSUME IsFiniteSet(Tickets) PROVE Spec => []TypeOK
<1>1. Init => Types /\ ReadingsOK
  <2>1. Cardinality(Tickets) \in Nat
    BY FS_CardinalityType
  <2>2. Init => ReadingsOK
    BY <2>1 DEF Init, ReadingsOK
  <2>. QED
    BY <2>2, TypesInit
<1>2. Types /\ ReadingsOK /\ [Next]_vars => (Types /\ ReadingsOK)'
  BY TypesNext, ReadingsNext
<1>3. Types /\ ReadingsOK => TypeOK
  BY DEF Types, ReadingsOK, TypeOK, PoolsOK, TableOK, WatchOK, LoopsOK, Cycle
<1>. QED
  BY <1>1, <1>2, <1>3, PTL DEF Spec

\* A poke is never lost: a change the watcher saw is swept in full, or the
\* loop still has the permit that makes its next poked cycle do so.
THEOREM PokesAreKept == Spec => []NoPokeIsLost
<1>1. Init => Types /\ NoPokeIsLost
  BY TypesInit DEF Init, NoPokeIsLost
<1>2. Types /\ NoPokeIsLost /\ [Next]_vars => (Types /\ NoPokeIsLost)'
  BY TypesNext, PokesNext
<1>. QED
  BY <1>1, <1>2, PTL DEF Spec

\* A partial view never fails a live ticket: a row a sweep fails is of a
\* ticket the whole sweep saw on none of its pages, so a ticket SPX lists to
\* the sweep's own account within max_pages has changed page while they were
\* read, or its page came without a list.
THEOREM LiveTicketsAreKept == Spec => LiveTicketsKept
<1>. DEFINE Kept == \A a \in Accounts, t \in Tickets :
          (/\ poller[a].pc = "expire" /\ poller'[a].pc = "sleep"
           /\ rows[a][t] = "pending" /\ rows'[a][t] = "failed"
           /\ PageOf(pool[a], t) \in 1..MaxPages)
          => t \in ghost.excused[a]
<1>1. Types /\ Sweeps /\ [Next]_vars => [Kept]_vars
  <2>. SUFFICES ASSUME Types, Sweeps, [Next]_vars, NEW a \in Accounts, NEW t \in Tickets,
                       poller[a].pc = "expire", poller'[a].pc = "sleep",
                       rows[a][t] = "pending", rows'[a][t] = "failed",
                       PageOf(pool[a], t) \in 1..MaxPages
                PROVE  t \in ghost.excused[a]
    OBVIOUS
  <2>1. CASE Expire(a)
    <3>1. t \notin poller[a].seen
      BY <2>1 DEF Expire
    <3>2. Whole(poller[a]) /\ poller[a].left = {}
      BY DEF Sweeps, SweepOK, LastPageRead, OnlyWholeExpire
    <3>3. t \in poller[a].seen \cup ghost.excused[a]
      BY <3>2 DEF Sweeps, SweepOK, SweepSees
    <3>. QED
      BY <3>1, <3>3
  <2>2. CASE DriftFails(a)
    BY <2>2 DEF DriftFails
  <2>3. ASSUME NEW b \in Accounts, b # a, NEW c \in Cycle, poller' = [poller EXCEPT ![b] = c]
        PROVE  FALSE
    BY <2>3 DEF Types, LoopsOK
  <2>4. CASE UNCHANGED poller
    BY <2>4
  <2>5. ASSUME NEW c \in Cycle, poller' = [poller EXCEPT ![a] = c], c.pc # "sleep"
        PROVE  FALSE
    BY <2>5 DEF Types, LoopsOK
  <2>6. ASSUME NEW b \in Accounts, WakeByTimer(b) \/ WakeByPoke(b) PROVE FALSE
    <3>1. \E woken \in BOOLEAN : Begin(b, woken)
      BY <2>6 DEF WakeByTimer, WakeByPoke
    <3>. QED
      BY <2>3, <2>5, <3>1, BeginStep
  <2>7. ASSUME NEW b \in Accounts, NEW p, PageStep(b, p) PROVE FALSE
    BY <2>3, <2>5, <2>7, PageStepEffect
  <2>8. ASSUME NEW b \in Accounts, TableStep(b) PROVE t \in ghost.excused[a]
    <3>1. CASE b # a
      BY <2>3, <2>8, <3>1, TableStepEffect
    <3>2. CASE b = a
      BY <2>1, <2>2, <2>8, <3>2 DEF TableStep, Handle, EndCycle, Resurrect, Handled
    <3>. QED
      BY <3>1, <3>2
  <2>. QED
    BY <2>4, <2>6, <2>7, <2>8, StepCases DEF vars, PoolChanges, Observe
<1>2. Init => Types /\ Sweeps
  BY TypesInit, SweepsInit
<1>3. Types /\ Sweeps /\ [Next]_vars => (Types /\ Sweeps)'
  BY TypesNext, SweepsNext
<1>. QED
  BY <1>1, <1>2, <1>3, PTL DEF Spec, LiveTicketsKept

=============================================================================
