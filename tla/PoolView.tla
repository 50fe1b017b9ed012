------------------------------ MODULE PoolView ------------------------------
(***************************************************************************)
(* How the bookings table follows the pools of tickets SPX lists: each     *)
(* account's poll loop reads its pool page by page, in a rotating window   *)
(* or a full sweep (fetch.rs), records what it sees, dispatches what it    *)
(* does not know, and after a complete sweep corrects the table            *)
(* (antidrift.rs): failed rows it sees become pending again, pending rows  *)
(* it does not see fail.  The pool changes while its pages are read.  The  *)
(* account's watcher (notif_watch.rs) reads SPX's counters and pokes the   *)
(* loop when they change.                                                  *)
(*                                                                         *)
(* A dispatch is one step here; AcceptPipeline is its detail.              *)
(***************************************************************************)
EXTENDS Integers, FiniteSets, SequencesExt

CONSTANTS
    Accounts,
    Tickets,
    Listed,         \* account -> tickets SPX may list to it
    Watched,        \* the accounts a watcher runs for
    PageSize, MaxPages, FullSyncEvery, FastDetect,   \* PollerConfig
    MaxChanges,     \* bound: changes of the pools
    MaxFaults       \* bound: pages and statements that fail

ASSUME ConfigAssumption ==
    /\ {PageSize, MaxPages} \subseteq Nat \ {0}
    /\ {FullSyncEvery, MaxChanges, MaxFaults} \subseteq Nat
    /\ FastDetect \in BOOLEAN
    /\ Listed \in [Accounts -> SUBSET Tickets]
    /\ Watched \subseteq Accounts

VARIABLES
    pool,       \* account -> the tickets SPX lists, newest first
    rows,       \* table bookings: account, ticket -> status, "none" if absent
    known,      \* account -> tickets its AccountDedupState knows
    watch,      \* account -> the last signal its watcher read, -1 before
    permit,     \* account -> its Notify holds a permit
    poller,     \* account -> the cycle of its poll loop
    changes, faults,   \* counters of the bounds
    ghost       \* history: what the properties speak of

vars == <<pool, rows, known, watch, permit, poller, changes, faults, ghost>>

Listing(a) == ToSet(pool[a])

\* poll_count only matters modulo both periods.
Cycles ==
    LET every == IF FullSyncEvery = 0 THEN 1 ELSE FullSyncEvery
        Common == {n \in 1..(every * MaxPages) : n % every = 0 /\ n % MaxPages = 0}
    IN  Min(Common)

Asleep(n) == [pc |-> "sleep", count |-> n, full |-> FALSE, left |-> {},
              failed |-> FALSE, seen |-> {}, todo |-> {}]

Init ==
    /\ pool = [a \in Accounts |-> <<>>]
    /\ rows = [a \in Accounts |-> [t \in Tickets |-> "none"]]
    /\ known = [a \in Accounts |-> {}]
    /\ watch = [a \in Accounts |-> -1]
    /\ permit = [a \in Accounts |-> FALSE]
    /\ poller = [a \in Accounts |-> Asleep(0)]
    /\ changes = 0 /\ faults = 0
    /\ ghost = [unswept |-> {}, excused |-> [a \in Accounts |-> {}]]

-----------------------------------------------------------------------------
(* SPX *)

PageOf(s, t) ==
    IF t \in ToSet(s) THEN 1 + (SelectInSeq(s, LAMBDA u : u = t) - 1) \div PageSize
    ELSE 0

Page(s, p) == {t \in ToSet(s) : PageOf(s, t) = p}

\* A new ticket lands on the first page; any ticket may go.
PoolChanges(a) ==
    /\ changes < MaxChanges
    /\ changes' = changes + 1
    /\ \/ \E t \in Listed[a] \ Listing(a) : pool' = [pool EXCEPT ![a] = <<t>> \o @]
       \/ \E i \in DOMAIN pool[a] : pool' = [pool EXCEPT ![a] = RemoveAt(@, i)]
    /\ ghost' = [ghost EXCEPT !.excused[a] =
           @ \cup {t \in Tickets : PageOf(pool[a], t) # PageOf(pool'[a], t)}]
    /\ UNCHANGED <<rows, known, watch, permit, poller, faults>>

-----------------------------------------------------------------------------
(* The watcher *)

\* The sum of the counters SPX gives; here the length of the pool.
Signal(a) == Len(pool[a])

\* Variant: notify_waiters, which keeps no permit for a busy loop.
ObserveWaking(a) ==
    LET new == watch[a] >= 0 /\ Signal(a) # watch[a]
    IN  /\ watch' = [watch EXCEPT ![a] = Signal(a)]
        /\ permit' = [permit EXCEPT ![a] = @ \/ (new /\ poller[a].pc = "sleep")]
        /\ ghost' = [ghost EXCEPT !.unswept = IF new THEN @ \cup {a} ELSE @]
        /\ UNCHANGED <<pool, rows, known, poller, changes, faults>>

\* watch_loop: the first reading is only remembered, a change pokes; a
\* reading that fails leaves all as it was and only delays the next.
Observe(a) ==
    LET new == watch[a] >= 0 /\ Signal(a) # watch[a]
    IN  /\ watch' = [watch EXCEPT ![a] = Signal(a)]
        /\ permit' = [permit EXCEPT ![a] = @ \/ new]
        /\ ghost' = [ghost EXCEPT !.unswept = IF new THEN @ \cup {a} ELSE @]
        /\ UNCHANGED <<pool, rows, known, poller, changes, faults>>

-----------------------------------------------------------------------------
(* The poll loop *)

\* The last page a window reaches.
Pages == 1..(2 * MaxPages - 1)

\* Variant: one page more, past the inclusive end.
WidePages(n) ==
    LET start == 1 + (n % MaxPages) IN start..(start + MaxPages)

\* window_pages: as many pages as a full sweep, from a start that rotates.
WindowPages(n) ==
    LET start == 1 + (n % MaxPages) IN start..(start + MaxPages - 1)

ShouldFullSweep(n, changed) ==
    changed \/ FullSyncEvery = 0 \/ n % FullSyncEvery = 0

\* fast_detect: any ticket on the first page counts as a change; a failed
\* peek sees none.
Peek(a) == IF FastDetect THEN {pool[a] # <<>>, FALSE} ELSE {FALSE}

Begin(a, woken) ==
    LET n == (poller[a].count + 1) % Cycles
    IN  \E peek \in Peek(a) :
          LET full == ShouldFullSweep(n, woken \/ peek)
          IN  /\ poller' = [poller EXCEPT ![a] =
                     [Asleep(n) EXCEPT !.pc = "pages", !.full = full,
                         !.left = IF full THEN 1..MaxPages ELSE WindowPages(n)]]
              /\ ghost' = [ghost EXCEPT
                     !.excused[a] = {},
                     !.unswept = IF full THEN @ \ {a} ELSE @]
              /\ UNCHANGED <<pool, rows, known, watch, changes, faults>>

\* The select of spawn_account_loop: the interval, or a poke.
WakeByTimer(a) ==
    /\ poller[a].pc = "sleep"
    /\ Begin(a, FALSE)
    /\ UNCHANGED permit

WakeByPoke(a) ==
    /\ poller[a].pc = "sleep"
    /\ permit[a]
    /\ permit' = [permit EXCEPT ![a] = FALSE]
    /\ Begin(a, TRUE)

\* The cycle after a page: the tickets seen are recorded once every page
\* has been answered.
Answered(c, p) ==
    IF c.left = {p} THEN [c EXCEPT !.left = {}, !.pc = "record", !.todo = c.seen]
                    ELSE [c EXCEPT !.left = @ \ {p}]

\* fetch_range reads the pages side by side, each at a time of its own; of
\* a page and its hedge the first answer counts (hedge_race).
ReadPage(a, p) ==
    LET c == poller[a]
    IN  /\ c.pc = "pages" /\ p \in c.left
        /\ poller' = [poller EXCEPT ![a] =
               Answered([c EXCEPT !.seen = @ \cup Page(pool[a], p)], p)]
        /\ UNCHANGED <<pool, rows, known, watch, permit, changes, faults, ghost>>

PageFails(a, p) ==
    LET c == poller[a]
    IN  /\ c.pc = "pages" /\ p \in c.left
        /\ faults < MaxFaults
        /\ faults' = faults + 1
        /\ poller' = [poller EXCEPT ![a] = Answered([c EXCEPT !.failed = TRUE], p)]
        /\ UNCHANGED <<pool, rows, known, watch, permit, changes, ghost>>

\* An answer without a list, whatever its retcode, is an empty page
\* (extract_booking_list).
PageIsBlank(a, p) ==
    LET c == poller[a]
    IN  /\ c.pc = "pages" /\ p \in c.left
        /\ faults < MaxFaults
        /\ faults' = faults + 1
        /\ poller' = [poller EXCEPT ![a] = Answered(c, p)]
        /\ ghost' = [ghost EXCEPT !.excused[a] = @ \cup Page(pool[a], p)]
        /\ UNCHANGED <<pool, rows, known, watch, permit, changes>>

\* upsert_booking makes a new row pending and leaves an old one its status;
\* a known ticket is not dispatched.  dispatch_booking: no rule or a passing
\* error leaves the row, a loss fails it, a win is known from then on; the
\* status write goes by the ticket's id alone.
Handle(a, t) ==
    LET table == [rows EXCEPT ![a][t] = IF @ = "none" THEN "pending" ELSE @]
        Mark(status) == [b \in Accounts |->
            [table[b] EXCEPT ![t] = IF @ = "none" THEN @ ELSE status]]
    IN  /\ poller[a].pc = "record" /\ t \in poller[a].todo
        /\ poller' = [poller EXCEPT ![a].todo = @ \ {t}]
        /\ \/ rows' = table /\ UNCHANGED known
           \/ /\ t \notin known[a]
              /\ rows' = Mark("failed") /\ UNCHANGED known
           \/ /\ t \notin known[a]
              /\ rows' = Mark("accepted")
              /\ known' = [known EXCEPT ![a] = @ \cup {t}]
        /\ UNCHANGED <<pool, watch, permit, changes, faults, ghost>>

\* Variant: a sweep with failed pages counts as complete.
FullIsComplete(c) == c.full

FetchComplete(c) == c.full /\ ~c.failed

Handled(a) == poller[a].pc = "record" /\ poller[a].todo = {}

\* run_anti_drift: nothing unless the sweep was complete.
EndCycle(a) ==
    /\ Handled(a) /\ ~FetchComplete(poller[a])
    /\ poller' = [poller EXCEPT ![a] = Asleep(@.count)]
    /\ UNCHANGED <<pool, rows, known, watch, permit, changes, faults, ghost>>

\* Variant: nothing is resurrected.
ResurrectNothing(a) ==
    /\ Handled(a) /\ FetchComplete(poller[a])
    /\ poller' = [poller EXCEPT ![a].pc = "expire"]
    /\ UNCHANGED <<pool, rows, known, watch, permit, changes, faults, ghost>>

\* resurrect_pending, over the whole tenant.
Resurrect(a) ==
    LET c == poller[a]
    IN  /\ Handled(a) /\ FetchComplete(c)
        /\ rows' = [b \in Accounts |-> [t \in Tickets |->
               IF rows[b][t] = "failed" /\ t \in c.seen THEN "pending" ELSE rows[b][t]]]
        /\ poller' = [poller EXCEPT ![a].pc = "expire"]
        /\ UNCHANGED <<pool, known, watch, permit, changes, faults, ghost>>

\* expire_stale_bookings, over the whole tenant.
Expire(a) ==
    LET c == poller[a]
    IN  /\ c.pc = "expire"
        /\ rows' = [b \in Accounts |-> [t \in Tickets |->
               IF rows[b][t] = "pending" /\ t \notin c.seen THEN "failed" ELSE rows[b][t]]]
        /\ poller' = [poller EXCEPT ![a] = Asleep(c.count)]
        /\ UNCHANGED <<pool, known, watch, permit, changes, faults, ghost>>

\* A failed statement ends the correction.
DriftFails(a) ==
    /\ poller[a].pc = "expire" \/ (Handled(a) /\ FetchComplete(poller[a]))
    /\ faults < MaxFaults
    /\ faults' = faults + 1
    /\ poller' = [poller EXCEPT ![a] = Asleep(@.count)]
    /\ UNCHANGED <<pool, rows, known, watch, permit, changes, ghost>>

LoopStep(a) ==
    \/ WakeByTimer(a) \/ WakeByPoke(a)
    \/ \E p \in Pages : ReadPage(a, p) \/ PageFails(a, p) \/ PageIsBlank(a, p)
    \/ \E t \in Tickets : Handle(a, t)
    \/ EndCycle(a) \/ Resurrect(a) \/ Expire(a) \/ DriftFails(a)

Next ==
    \/ \E a \in Accounts : PoolChanges(a) \/ LoopStep(a)
    \/ \E a \in Watched : Observe(a)

\* The loop never ends and every await of it returns: requests time out,
\* the interval elapses.
Fairness == \A a \in Accounts : WF_vars(LoopStep(a))

Spec == Init /\ [][Next]_vars /\ Fairness

-----------------------------------------------------------------------------
(* Properties *)

Statuses == {"none", "pending", "failed", "accepted"}

\* The pools hold what SPX may list, each ticket once; the table, the loops
\* and the watchers hold values of the code's types.
TypeOK ==
    /\ \A a \in Accounts : IsInjective(pool[a]) /\ Listing(a) \subseteq Listed[a]
    /\ rows \in [Accounts -> [Tickets -> Statuses]]
    /\ known \in [Accounts -> SUBSET Tickets]
    /\ \A a \in Accounts :
           /\ watch[a] \in -1..Cardinality(Tickets)
           /\ poller[a].pc \in {"sleep", "pages", "record", "expire"}
           /\ poller[a].count \in 0..(Cycles - 1)
           /\ poller[a].left \subseteq Pages
           /\ poller[a].todo \subseteq poller[a].seen /\ poller[a].seen \subseteq Tickets
    /\ permit \in [Accounts -> BOOLEAN]

\* A partial view never fails a live ticket: when a sweep fails a row whose
\* ticket SPX lists to the sweep's own account, the ticket was beyond
\* max_pages, or changed page while the pages were read, or its page came
\* without a list (antidrift.rs: "a partial view can never expire a live
\* ticket").
LiveTicketsKept ==
    [][\A a \in Accounts, t \in Tickets :
          (/\ poller[a].pc = "expire" /\ poller'[a].pc = "sleep"
           /\ rows[a][t] = "pending" /\ rows'[a][t] = "failed"
           /\ PageOf(pool[a], t) \in 1..MaxPages)
          => t \in ghost.excused[a]]_vars

\* A poke is never lost: a change the watcher saw is swept in full, or the
\* loop still has the permit that makes its next poked cycle do so
\* (schedule.rs: a poke "reliably forces a full sweep").
NoPokeIsLost == \A a \in ghost.unswept : permit[a]

\* The table comes back to the pool: a ticket that stays listed, within
\* max_pages, is shown as pending or accepted again and again, whatever
\* another account's sweeps, lost accepts or failed pages made of its row.
LiveTicketsReturn ==
    \A a \in Accounts : \A t \in Listed[a] :
        <>[](PageOf(pool[a], t) \in 1..MaxPages)
            => []<>(rows[a][t] \in {"pending", "accepted"})

\* No view of a part of the tenant's pools fails a live ticket.
LiveTicketNeverExpires ==
    [][\A a, b \in Accounts, t \in Tickets :
          rows[b][t] = "pending" /\ rows'[b][t] = "failed" /\ poller[a].pc = "expire"
          => t \notin Listing(b)]_vars
=============================================================================
