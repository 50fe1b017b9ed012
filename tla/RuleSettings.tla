---------------------------- MODULE RuleSettings ----------------------------
(***************************************************************************)
(* The settings page's save (put_settings) while the poller works: every   *)
(* await of the handler is a step, since another save, a win of the poller *)
(* or a crash may come between two of them.                                *)
(*                                                                         *)
(*   switch, gate, proof    automation_settings.auto_accept_enabled is     *)
(*                          read first; turning it on spends the proof     *)
(*                          that verify-aa-otp left in Redis (ArmOtp)      *)
(*   delete, insert         replace_all, one transaction under READ        *)
(*                          COMMITTED: it deletes the rows it saw when its *)
(*                          DELETE began, so two saves that overlap leave  *)
(*                          the rows of both                               *)
(*   targets                replace_for_rule, a transaction for each       *)
(*                          booking_id rule                                *)
(*   rows, send             load_compiled_rules and the watch channel      *)
(*   reply                  build_response, which the page echoes later    *)
(*                                                                         *)
(* What a save does to the list before it stores it, and which rule a      *)
(* ticket falls to, are RuleBook's; the gates of a dispatch are            *)
(* AcceptPipeline's.                                                       *)
(***************************************************************************)
EXTENDS Integers, Sequences, FiniteSets, Functions

CONSTANTS
    Users,       \* main accounts with the settings page open, one tab each
    Lanes,       \* what two rules of one list never share (dedupe_rules)
    Books,       \* the lists a save may store: sequences of rules
                 \* [lane, ids, cap]; ids # {} makes it a booking_id rule
    MaxSaves,    \* bound: committed replace_all transactions
    MaxOverlaps, \* bound: saves that begin while another runs
    MaxWins,     \* bound: tickets won
    MaxProofs,   \* bound: codes verified
    MaxFaults    \* bound: failed statements and crashes

ASSUME BoundsAssumption ==
    {MaxSaves, MaxOverlaps, MaxWins, MaxProofs, MaxFaults} \subseteq Nat

\* What dedupe_rules leaves: each lane once, each booking id under one rule.
ASSUME BooksAssumption ==
    \A book \in Books :
        /\ book \in Seq([lane : Lanes, cap : Nat,
                         ids : SUBSET UNION {book[i].ids : i \in DOMAIN book}])
        /\ \A i, j \in DOMAIN book : i # j =>
               /\ book[i].lane # book[j].lane
               /\ book[i].ids \cap book[j].ids = {}

VARIABLES
    rows,       \* table accept_rules: id -> [lane, byId, cap, count]
    targets,    \* table rule_booking_targets: rule id -> booking ids
    enabled,    \* automation_settings.auto_accept_enabled
    proof,      \* spx:pwverify:<tenant>:<user>
    page,       \* what each user's page shows: lane -> accepted_count
    call,       \* the save each user waits for
    channel,    \* the value of rules_tx, a compiled rule set
    running,    \* PollerState.rules and rule_meta
    win,        \* the win being finalised: its rule's id and the next step
    saves, wins, proofs, faults,   \* counters of the bounds
    ghost       \* history: what the properties speak of

vars == <<rows, targets, enabled, proof, page, call, channel, running, win,
          saves, wins, proofs, faults, ghost>>

counters == <<saves, wins, proofs, faults>>
tables   == <<rows, targets, enabled>>
poller   == <<running, win>>

None  == <<>>
NoIds == [id \in {} |-> {}]
Idle  == [pc |-> "idle"]
NoWin == [rule |-> None, step |-> "none"]

-----------------------------------------------------------------------------
(* The tables *)

\* Variant: a save starts every count anew.
NewRowsFromZero(book, n, echo) ==
    [id \in {<<n, i>> : i \in DOMAIN book} |->
        [lane  |-> book[id[2]].lane, byId |-> book[id[2]].ids # {},
         cap   |-> book[id[2]].cap,  count |-> 0]]

\* The rows replace_all inserts in the n-th save, with the counts the page
\* echoes; their ids are fresh.
NewRows(book, n, echo) ==
    [id \in {<<n, i>> : i \in DOMAIN book} |->
        [lane  |-> book[id[2]].lane, byId |-> book[id[2]].ids # {},
         cap   |-> book[id[2]].cap,  count |-> echo[book[id[2]].lane]]]

LanesOf(book) == {book[i].lane : i \in DOMAIN book}

Merge(f, g) == [x \in DOMAIN f \cup DOMAIN g |->
                   IF x \in DOMAIN g THEN g[x] ELSE f[x]]

\* Variant: replace_all without its DELETE.
KeepAllRows(c) == rows

\* What is left of the tables when a save has deleted what it saw; the
\* targets of a deleted row go with it (ON DELETE CASCADE).
KeptRows(c) == Restrict(rows, DOMAIN rows \ c.doomed)

\* Variant: the foreign key without its cascade.
KeepAllTargets(c) == targets

KeptTargets(c) == Restrict(targets, DOMAIN targets \ c.doomed)

\* idx_accept_rules_route_dedup: no two route rules of one lane.
LaneClash(old, new) ==
    \E i \in DOMAIN old, j \in DOMAIN new :
        old[i].lane = new[j].lane /\ ~old[i].byId /\ ~new[j].byId

\* rule_booking_targets: the rule exists and no other rule has the ids.
TargetClash(id, ids) ==
    \/ id \notin DOMAIN rows
    \/ \E other \in DOMAIN targets \ {id} : targets[other] \cap ids # {}

\* load_compiled_rules joins the rows to the targets read after them.
Compile(rs, ts) ==
    [id \in DOMAIN rs |->
        [lane |-> rs[id].lane, byId |-> rs[id].byId, cap |-> rs[id].cap,
         ids  |-> IF id \in DOMAIN ts THEN ts[id] ELSE {}]]

\* A row a running replace_all has deleted stays locked until its commit.
Locked(id) ==
    \E u \in Users : call[u].pc = "insert" /\ id \in call[u].doomed

\* accepted_count as build_response gives it to the page; a lane the list
\* lacks starts at zero.
Counts ==
    [l \in Lanes |->
        IF \E id \in DOMAIN rows : rows[id].lane = l
        THEN rows[CHOOSE id \in DOMAIN rows : rows[id].lane = l].count
        ELSE 0]

-----------------------------------------------------------------------------
Init ==
    /\ rows = NoIds
    /\ targets = NoIds
    /\ enabled = FALSE
    /\ proof = [u \in Users |-> FALSE]
    /\ page = [u \in Users |-> [l \in Lanes |-> 0]]
    /\ call = [u \in Users |-> Idle]
    /\ channel = NoIds
    /\ running = NoIds
    /\ win = NoWin
    /\ saves = 0 /\ wins = 0 /\ proofs = 0 /\ faults = 0
    /\ ghost = [due |-> [l \in Lanes |-> 0], fresh |-> [u \in Users |-> TRUE],
                synced |-> TRUE, exact |-> TRUE, overlaps |-> 0,
                refused |-> FALSE, hidden |-> FALSE, arms |-> 0]

Advance(u, pc) == call' = [call EXCEPT ![u].pc = pc]

(* verify-aa-otp leaves its proof (SetProof of ArmOtp); it expires. *)
Prove(u) ==
    /\ proofs < MaxProofs
    /\ proofs' = proofs + 1
    /\ proof' = [proof EXCEPT ![u] = TRUE]
    /\ UNCHANGED <<tables, page, call, channel, poller, saves, wins, faults,
                   ghost>>

ProofExpires(u) ==
    /\ proof[u]
    /\ proof' = [proof EXCEPT ![u] = FALSE]
    /\ UNCHANGED <<tables, page, call, channel, poller, counters, ghost>>

(* GET /bookings/settings. *)
OpenPage(u) ==
    /\ call[u] = Idle
    /\ page' = [page EXCEPT ![u] = Counts]
    /\ ghost' = [ghost EXCEPT !.fresh[u] = TRUE]
    /\ UNCHANGED <<tables, proof, call, channel, poller, counters>>

-----------------------------------------------------------------------------
(* put_settings *)

InFlight == {u \in Users : call[u] # Idle}

\* What the user changed on the page stays there when the save fails, so
\* its counts are those of the tables only after the next answer.
GiveUp(u) == call' = [call EXCEPT ![u] = Idle]

Unsaved(g, u) == [g EXCEPT !.fresh[u] = FALSE]

\* The next booking_id rule of the list from place k on, or the switch.
Listing(c, k) ==
    LET later == {i \in k..Len(c.book) : c.book[i].ids # {}}
    IN  IF later = {} THEN [c EXCEPT !.pc = "switch"]
        ELSE [c EXCEPT !.pc = "targets",
                       !.at = CHOOSE i \in later : \A j \in later : i <= j]

\* The switch is read before anything is written.
ReadSwitch(u) ==
    /\ call[u] = Idle
    /\ saves < MaxSaves
    /\ \E book \in Books, want \in BOOLEAN :
           /\ call' = [v \in Users |->
               IF v = u
               THEN [pc |-> IF want /\ ~enabled THEN "gate" ELSE "delete",
                     book |-> book, want |-> want, doomed |-> {}, n |-> 0,
                     at |-> 0, got |-> NoIds, overlap |-> InFlight # {}]
               ELSE IF call[v] = Idle THEN Idle
               ELSE [call[v] EXCEPT !.overlap = TRUE]]
           /\ page' = [page EXCEPT ![u] =
                  [l \in Lanes |-> IF l \in LanesOf(book) THEN @[l] ELSE 0]]
    /\ InFlight # {} => ghost.overlaps < MaxOverlaps
    /\ ghost' = [ghost EXCEPT !.overlaps = IF InFlight = {} THEN @ ELSE @ + 1]
    /\ UNCHANGED <<tables, proof, channel, poller, counters>>

\* 401 without a proof; otherwise it is deleted, in a second command.
CheckProof(u) ==
    /\ call[u].pc = "gate"
    /\ IF proof[u] THEN Advance(u, "spend") /\ UNCHANGED ghost
                   ELSE GiveUp(u) /\ ghost' = Unsaved(ghost, u)
    /\ UNCHANGED <<tables, proof, page, channel, poller, counters>>

\* Variant: the proof is checked and not deleted.
SpendNothing(u) ==
    /\ call[u].pc = "spend"
    /\ Advance(u, "delete")
    /\ UNCHANGED <<tables, proof, page, channel, poller, counters, ghost>>

SpendProof(u) ==
    /\ call[u].pc = "spend"
    /\ proof' = [proof EXCEPT ![u] = FALSE]
    /\ Advance(u, "delete")
    /\ UNCHANGED <<tables, page, channel, poller, counters, ghost>>

\* The DELETE of replace_all takes the rows committed when it begins.
DeleteRows(u) ==
    /\ call[u].pc = "delete"
    /\ call' = [call EXCEPT ![u] = [@ EXCEPT !.pc = "insert", !.doomed = DOMAIN rows]]
    /\ UNCHANGED <<tables, proof, page, channel, poller, counters, ghost>>

\* The INSERTs and the commit.  Rows of an overlapping save survive, and
\* refuse the new ones (23505) where a lane is taken.
InsertRows(u) ==
    LET c    == call[u]
        old  == KeptRows(c)
        new  == NewRows(c.book, saves + 1, page[u])
        kept == {old[id].lane : id \in DOMAIN old} \cup LanesOf(c.book)
    IN  /\ c.pc = "insert"
        /\ saves < MaxSaves
        /\ IF LaneClash(old, new)
           THEN /\ GiveUp(u)
                /\ ghost' = [Unsaved(ghost, u) EXCEPT !.refused = @ \/ ~c.overlap]
                /\ UNCHANGED <<rows, targets, saves>>
           ELSE /\ rows' = Merge(old, new)
                /\ targets' = KeptTargets(c)
                /\ saves' = saves + 1
                /\ call' = [call EXCEPT ![u] = Listing([c EXCEPT !.n = saves + 1], 1)]
                /\ ghost' = [ghost EXCEPT
                       !.due    = [l \in Lanes |-> IF l \in kept THEN @[l] ELSE 0],
                       !.exact  = @ /\ ghost.fresh[u] /\ ~c.overlap,
                       !.fresh  = [v \in Users |-> @[v] /\ v = u],
                       !.synced = FALSE]
        /\ UNCHANGED <<enabled, proof, page, channel, poller, wins, proofs,
                       faults>>

\* replace_for_rule for each booking_id rule, in the list's order.
WriteTargets(u) ==
    LET c   == call[u]
        id  == <<c.n, c.at>>
        ids == c.book[c.at].ids
    IN  /\ c.pc = "targets"
        /\ IF TargetClash(id, ids)
           THEN /\ GiveUp(u)
                /\ ghost' = [ghost EXCEPT !.refused = @ \/ ~c.overlap]
                /\ UNCHANGED targets
           ELSE /\ targets' = Merge(targets, [i \in {id} |-> ids])
                /\ call' = [call EXCEPT ![u] = Listing(c, c.at + 1)]
                /\ UNCHANGED ghost
        /\ UNCHANGED <<rows, enabled, proof, page, channel, poller, counters>>

\* set_auto_accept_enabled writes what the page asked for.
SetSwitch(u) ==
    /\ call[u].pc = "switch"
    /\ enabled' = call[u].want
    /\ ghost' = [ghost EXCEPT !.arms = IF enabled' /\ ~enabled THEN @ + 1 ELSE @]
    /\ Advance(u, "rows")
    /\ UNCHANGED <<rows, targets, proof, page, channel, poller, counters>>

\* load_compiled_rules: the rows, then, in another transaction, the targets,
\* which are compiled and sent at once.
LoadRows(u) ==
    /\ call[u].pc = "rows"
    /\ call' = [call EXCEPT ![u] = [@ EXCEPT !.pc = "send", !.got = rows]]
    /\ UNCHANGED <<tables, proof, page, channel, poller, counters, ghost>>

\* Variant: the rules are compiled without their booking ids.
SendRowsOnly(u) ==
    /\ call[u].pc = "send"
    /\ channel' = Compile(call[u].got, NoIds)
    /\ call' = [call EXCEPT ![u] = [@ EXCEPT !.pc = "reply", !.got = NoIds]]
    /\ ghost' = [ghost EXCEPT !.synced = ~call[u].overlap]
    /\ UNCHANGED <<tables, proof, page, poller, counters>>

LoadAndSend(u) ==
    /\ call[u].pc = "send"
    /\ channel' = Compile(call[u].got, targets)
    /\ call' = [call EXCEPT ![u] = [@ EXCEPT !.pc = "reply", !.got = NoIds]]
    /\ ghost' = [ghost EXCEPT !.synced = ~call[u].overlap]
    /\ UNCHANGED <<tables, proof, page, poller, counters>>

\* build_response: the page shows what the tables hold now.
Reply(u) ==
    /\ call[u].pc = "reply"
    /\ call' = [call EXCEPT ![u] = Idle]
    /\ page' = [page EXCEPT ![u] = Counts]
    /\ ghost' = [ghost EXCEPT !.fresh[u] = TRUE]
    /\ UNCHANGED <<tables, proof, channel, poller, counters>>

\* A statement fails: 500, and what was committed stays.  A failed load
\* only skips the push.
Fail(u) ==
    /\ call[u] # Idle
    /\ faults < MaxFaults
    /\ faults' = faults + 1
    /\ IF call[u].pc \in {"rows", "send"} THEN Advance(u, "reply") ELSE GiveUp(u)
    /\ ghost' = IF call[u].n = 0 THEN Unsaved(ghost, u) ELSE ghost
    /\ UNCHANGED <<tables, proof, page, channel, poller, saves, wins, proofs>>

-----------------------------------------------------------------------------
(* The poller *)

\* A cycle starts by taking over what was sent last (poll_once).
Reload ==
    /\ win = NoWin
    /\ running # channel
    /\ running' = channel
    /\ UNCHANGED <<tables, proof, page, call, channel, win, counters, ghost>>

\* A dispatch of the cycle is won under one of the rules in force.
Win ==
    /\ win = NoWin
    /\ wins < MaxWins
    /\ wins' = wins + 1
    /\ \E id \in DOMAIN running :
           /\ running[id].byId => running[id].ids # {}
           /\ win' = [rule |-> id, step |-> "charge"]
    /\ UNCHANGED <<tables, proof, page, call, channel, running, saves, proofs,
                   faults, ghost>>

Under(count, cap) == cap = 0 \/ count < cap

\* consume_rule_quota: the row is charged if it is there and under its cap.
Charge ==
    LET id   == win.rule
        full == ~Under(rows[id].count, rows[id].cap)
    IN  /\ win.step = "charge"
        /\ ~Locked(id)
        /\ win' = [win EXCEPT !.step = "status"]
        /\ IF id \notin DOMAIN rows
           THEN ghost' = [ghost EXCEPT !.exact = FALSE] /\ UNCHANGED rows
           ELSE /\ rows' = IF full THEN rows ELSE [rows EXCEPT ![id].count = @ + 1]
                /\ ghost' = [ghost EXCEPT
                       !.due[rows[id].lane] = IF Under(@, rows[id].cap) THEN @ + 1 ELSE @,
                       !.fresh = [u \in Users |-> FALSE]]
        /\ UNCHANGED <<targets, enabled, proof, page, call, channel, running,
                       counters>>

\* update_booking_status names the rule: without its row the foreign key
\* refuses the write and the win is not shown.
ShowWin ==
    /\ win.step = "status"
    /\ ~Locked(win.rule)
    /\ win' = NoWin
    /\ ghost' = [ghost EXCEPT !.hidden = @ \/ win.rule \notin DOMAIN rows]
    /\ UNCHANGED <<tables, proof, page, call, channel, running, counters>>

(* The process dies and comes back: boot loads the rules, or starts with   *)
(* none when the load fails.                                               *)
Crash ==
    /\ faults < MaxFaults
    /\ faults' = faults + 1
    /\ call' = [u \in Users |-> Idle]
    /\ win' = NoWin
    /\ \E loaded \in BOOLEAN :
           /\ channel' = IF loaded THEN Compile(rows, targets) ELSE NoIds
           /\ ghost' = [ghost EXCEPT
                  !.synced = loaded,
                  !.exact  = @ /\ win = NoWin,
                  !.fresh  = [u \in Users |->
                                 @[u] /\ (call[u] = Idle \/ call[u].n # 0)]]
    /\ running' = channel'
    /\ UNCHANGED <<tables, proof, page, saves, wins, proofs>>

UserStep(u) ==
    \/ Prove(u) \/ ProofExpires(u) \/ OpenPage(u) \/ ReadSwitch(u) \/ CheckProof(u)
    \/ SpendProof(u) \/ DeleteRows(u) \/ InsertRows(u) \/ WriteTargets(u)
    \/ SetSwitch(u) \/ LoadRows(u) \/ LoadAndSend(u) \/ Reply(u) \/ Fail(u)

Next ==
    \/ \E u \in Users : UserStep(u)
    \/ Reload \/ Win \/ Charge \/ ShowWin \/ Crash

Spec == Init /\ [][Next]_vars

-----------------------------------------------------------------------------
(* Properties *)

BookingIds == UNION {UNION {book[i].ids : i \in DOMAIN book} : book \in Books}

RowIds == UNION {(1..MaxSaves) \X DOMAIN book : book \in Books}

\* The tables hold rows of the lists saved, a target belongs to a row, and
\* the watch channel and the poller hold compiled rules.
TypeOK ==
    /\ DOMAIN rows \subseteq RowIds
    /\ \A id \in DOMAIN rows : rows[id] \in
           [lane : Lanes, byId : BOOLEAN, cap : Nat, count : Nat]
    /\ DOMAIN targets \subseteq DOMAIN rows
    /\ \A id \in DOMAIN targets : targets[id] \subseteq BookingIds
    /\ enabled \in BOOLEAN
    /\ proof \in [Users -> BOOLEAN]
    /\ page \in [Users -> [Lanes -> Nat]]
    /\ \A set \in {channel, running} : \A id \in DOMAIN set : set[id] \in
           [lane : Lanes, byId : BOOLEAN, cap : Nat, ids : SUBSET BookingIds]

\* What a save pushes is what it stored: once a save that ran alone has sent
\* its rules, the poller's channel holds every row with all its booking ids,
\* until another save is committed (rules.rs: "the broadcast is guaranteed
\* to match what was actually persisted").
SaveIsPushed == ghost.synced => channel = Compile(rows, targets)

\* A save that runs alone never meets the unique indices or the foreign key,
\* whatever overlapping, failed or crashed saves left in the tables before
\* it (rules.rs: "the very next successful PUT self-heals").
SaveHeals == ~ghost.refused

\* accepted_count is the number of wins charged to its lane while the cap of
\* the day had room, through every save, as long as each save runs alone, from
\* a page read after the last win, and none runs between a win's dispatch and
\* its charge (accept_rules.rs: "accepted_count survives across saves because
\* the CLIENT echoes it back").
CountsAreExact ==
    ghost.exact =>
        \A id \in DOMAIN rows : rows[id].count = ghost.due[rows[id].lane]

\* While saves run one after another, each time the switch goes on a
\* verification of its own was used up (rules.rs: "OTP-gated on its
\* false->true transition").
ArmsAreEarned == ghost.overlaps = 0 => ghost.arms <= proofs

\* A confirmed win is shown as accepted unless the process dies first.
WinIsStored == ~ghost.hidden
=============================================================================
