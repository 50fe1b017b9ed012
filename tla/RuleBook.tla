------------------------------- MODULE RuleBook -------------------------------
(***************************************************************************)
(* The way of a rule from the settings page to an accepted ticket, with    *)
(* its data: a save cleans, collapses and stores the list (put_settings),  *)
(* the poller loads and compiles it (load_compiled_rules), each ticket it  *)
(* reads is normalised and answered by the best rule that matches          *)
(* (dispatch_booking), and a win is charged to that rule's row.  The steps *)
(* run one after another here; their interleavings are the subject of      *)
(* AcceptPipeline and RuleSettings.                                        *)
(***************************************************************************)
EXTENDS SpxTicket

CONSTANTS
    Saves,      \* the lists of raw rules the settings page may send
    Pages,      \* the bodies SPX may answer a page of the pool with
    Answers,    \* the answers SPX may give to an accept
    MaxReads    \* bound: tickets read

ASSUME MaxReadsAssumption == MaxReads \in Nat

\* What serde takes of a rule: numbers, booleans, lists of texts, and options.
RawRule(raw) ==
    /\ {raw.enabled, raw.coc_only, raw.non_coc_only} \subseteq BOOLEAN
    /\ raw.priority \in Int
    /\ raw.origin \in Seq(STRING)
    /\ \A texts \in {raw.service_types, raw.booking_ids, raw.destinations} :
           texts \in Seq(Seq(STRING))
    /\ \A option \in {raw.max_weight, raw.max_cod_amount, raw.min_deadline_min,
                      raw.max_accept_count, raw.accepted_count} :
           option \subseteq Int /\ \A x, y \in option : x = y
    /\ raw.shift_types \cup raw.trip_types \subseteq Int

ASSUME SavesAssumption ==
    \A raws \in Saves : raws \in Seq(ToSet(raws)) /\ \A i \in DOMAIN raws : RawRule(raws[i])

\* What JSON makes of an object of a page: its lists are lists, and its texts
\* are texts.
RawObject(raw) ==
    \A k \in DOMAIN raw :
        /\ IsList(raw[k]) => raw[k].items \in Seq(ToSet(raw[k].items))
        /\ IsText(raw[k]) => raw[k].s \in Seq(STRING)
RawTicket(raw) ==
    RawObject(raw) /\ \A leg \in ToSet(Items(raw, "route_detail_list")) : RawObject(leg)

ASSUME PagesAssumption ==
    \A body \in Pages : \A t \in ToSet(ExtractBookingList(body)) : RawTicket(t)

VARIABLES
    pc,      \* "page", "saved", "loaded", "read", "fired" or "won"
    page,    \* the list last saved, as the client sent it
    rows,    \* table accept_rules with its targets, in the order of insertion
    rules,   \* the poller's RuleSet: for each rule its row and the copy loaded
    ticket,  \* the ticket in hand, as SPX lists it
    chosen,  \* the place in rules of the rule that answers for it, if any
    reason,  \* the client's reading of the answer
    reads    \* tickets read so far

vars == <<pc, page, rows, rules, ticket, chosen, reason, reads>>

NoTicket == [k \in {} |-> Null]

Booking == NormalizeBooking(ticket)
Core    == ToCoreBooking(Booking)

Copies == [k \in DOMAIN rules |-> rules[k].copy]

Init ==
    /\ pc = "page"
    /\ page = <<>>
    /\ rows = <<>>
    /\ rules = <<>>
    /\ ticket = NoTicket
    /\ chosen = {}
    /\ reason = "none"
    /\ reads = 0

\* put_settings: clean, collapse, replace every row.
Save ==
    /\ pc = "page"
    /\ \E raws \in Saves :
           /\ page' = raws
           /\ rows' = DedupeRules(SanitizeAcceptRules(raws))
    /\ pc' = "saved"
    /\ UNCHANGED <<rules, ticket, chosen, reason, reads>>

\* ORDER BY priority DESC, created_at ASC: the rows of one save share
\* created_at, the time of their transaction, so equals come in any order.
LoadOrders ==
    {o \in [DOMAIN rows -> DOMAIN rows] :
        /\ \A i, j \in DOMAIN o : o[i] = o[j] => i = j
        /\ \A i, j \in DOMAIN o :
               i < j => rows[o[i]].priority >= rows[o[j]].priority}

\* What load_compiled_rules keeps of a row: only booking_id rules have targets.
Loaded(row) ==
    [row EXCEPT !.booking_ids = IF row.mode = "booking_id" THEN @ ELSE <<>>]

Load ==
    /\ pc = "saved"
    /\ \E o \in LoadOrders :
           rules' = [k \in DOMAIN o |-> [row |-> o[k], copy |-> Loaded(rows[o[k]])]]
    /\ pc' = "loaded"
    /\ UNCHANGED <<page, rows, ticket, chosen, reason, reads>>

Read ==
    /\ pc = "loaded"
    /\ reads < MaxReads
    /\ \E body \in Pages : \E t \in ToSet(ExtractBookingList(body)) : ticket' = t
    /\ reads' = reads + 1
    /\ pc' = "read"
    /\ UNCHANGED <<page, rows, rules, chosen, reason>>

\* No rule: the ticket is skipped.
Choose ==
    /\ pc = "read"
    /\ chosen' = FindBest(Copies, Core)
    /\ pc' = IF chosen' = {} THEN "loaded" ELSE "fired"
    /\ UNCHANGED <<page, rows, rules, ticket, reason, reads>>

Fire ==
    /\ pc = "fired"
    /\ \E agencyId \in {0, 1}, a \in Answers : reason' = AcceptBooking(agencyId, a)
    /\ pc' = IF Success(reason') THEN "won" ELSE "loaded"
    /\ UNCHANGED <<page, rows, rules, ticket, chosen, reads>>

\* consume_rule_quota; the loaded copy keeps the count it was loaded with.
ChargeRow(k) ==
    rows' = [rows EXCEPT ![rules[k].row].accepted_count = @ + 1]

Charge ==
    /\ pc = "won"
    /\ \E k \in chosen : ChargeRow(k)
    /\ pc' = "loaded"
    /\ UNCHANGED <<page, rules, ticket, chosen, reason, reads>>

Next == Save \/ Load \/ Read \/ Choose \/ Fire \/ Charge

Spec == Init /\ [][Next]_vars

-----------------------------------------------------------------------------
(* Properties *)

Words(s) == \A i \in DOMAIN s : s[i] \in STRING

\* A stored rule as sanitize_accept_rules and the table's CHECKs promise it.
RuleOK(r) ==
    /\ r.enabled \in BOOLEAN /\ r.coc_only \in BOOLEAN /\ r.non_coc_only \in BOOLEAN
    /\ ~(r.coc_only /\ r.non_coc_only)
    /\ r.priority \in -999..999
    /\ r.mode \in {"booking_id", "route", "filter"}
    /\ r.booking_type \in {"all", "spxid", "reguler"}
    /\ r.match_mode \in {"strict", "flexible"}
    /\ Len(r.destinations) <= MaxDestinations
    /\ Words(r.origin)
    /\ \A option \in {r.max_weight, r.max_cod_amount, r.min_deadline_min} :
           option \subseteq Nat /\ Cardinality(option) <= 1
    /\ r.shift_types \cup r.trip_types \subseteq Nat
    /\ {r.max_accept_count, r.accepted_count} \subseteq Nat

\* Types, and what the columns of accept_rules may hold (migration 0005).
TypeOK ==
    /\ pc \in {"page", "saved", "loaded", "read", "fired", "won"}
    /\ \A i \in DOMAIN rows : RuleOK(rows[i])
    /\ \A k \in DOMAIN rules : rules[k].row \in DOMAIN rows /\ RuleOK(rules[k].copy)
    /\ chosen \in SUBSET DOMAIN rules
    /\ Cardinality(chosen) <= 1
    /\ reads \in 0..MaxReads

\* The list the page sent, cleaned but not collapsed.
Sent == SanitizeAcceptRules(page)

\* A booking id some enabled rule of the page names is stored with exactly one
\* rule, an enabled one; none is stored with two (the unique key of
\* rule_booking_targets would refuse the save).
IdsStayArmed ==
    pc # "page" =>
    \A id \in UNION {IdsOf(Sent[i]) : i \in DOMAIN Sent} :
        LET holders == {k \in DOMAIN rows :
                            rows[k].mode = "booking_id" /\ id \in IdsOf(rows[k])}
            asked(on) == \E i \in DOMAIN Sent : /\ Sent[i].mode = "booking_id"
                                                /\ Sent[i].enabled = on
                                                /\ id \in IdsOf(Sent[i])
        IN  /\ Cardinality(holders) <= 1
            /\ asked(TRUE) \/ asked(FALSE) => holders # {}
            /\ asked(TRUE) => \A k \in holders : rows[k].enabled

\* The unique index on (tenant_id, route_signature) never refuses a save, and
\* merging a lane loses neither the larger cap nor the larger count of what
\* the page sent.
LanesMergeUp ==
    LET routes(rs) == {i \in DOMAIN rs : rs[i].mode = "route"}
        bigger(m, n) == m = 0 \/ (n # 0 /\ m >= n)
    IN  pc # "page" =>
        /\ \A i, j \in routes(rows) : Lane(rows[i]) = Lane(rows[j]) => i = j
        /\ \A i \in routes(Sent) : \E k \in routes(rows) :
               /\ Lane(rows[k]) = Lane(Sent[i])
               /\ bigger(rows[k].max_accept_count, Sent[i].max_accept_count)
               /\ rows[k].accepted_count >= Sent[i].accepted_count
               /\ Sent[i].enabled => rows[k].enabled

\* The page sends back what it was shown, in the order it was shown, whatever
\* that is; saving it again stores the same rules.
Echo(r) ==
    [r EXCEPT !.max_accept_count = {@}, !.accepted_count = {@}]
SavingAgainChangesNothing ==
    pc = "loaded" =>
        ToSet(DedupeRules(SanitizeAcceptRules(
                  [k \in DOMAIN rules |-> Echo(Loaded(rows[rules[k].row]))])))
            = {Loaded(rows[i]) : i \in DOMAIN rows}

\* What an operator means by a route, told without the walk: the destinations
\* in K can each be given a stop that names it, past from, in their order.
Placements(K, dests, stops, from) ==
    {f \in [K -> from + 1 .. Len(stops)] :
        /\ \A i, j \in K : i < j => f[i] < f[j]
        /\ \A i \in K : LocMatch(stops[f[i]], dests[i])}

CanBePlaced(K, r, b) ==
    Placements(K, Map(NormLoc, r.destinations), Stops(b),
               IF OriginIsFirstStop(r, b) THEN 1 ELSE 0) # {}

\* The endpoint of a flexible rule and the hubs that some stop past the origin
\* names; the other hubs the ticket does not know.
Known(r, b) ==
    {i \in DOMAIN r.destinations :
        \/ i = Len(r.destinations)
        \/ StopsFor(NormLoc(r.destinations[i]), Stops(b),
                    IF OriginIsFirstStop(r, b) THEN 1 ELSE 0) # {}}

\* What a ticket must do, and what is enough, to run along a rule's lane: for a
\* strict rule the same, all its destinations in order.  A flexible one asks
\* for its endpoint at least, and is content with the endpoint and every hub
\* the ticket knows in order; what it makes of hubs in another order is left
\* to the code's walk, which takes the first stop that fits.
MustRun(r, b) ==
    r.destinations # <<>> =>
        CanBePlaced(IF r.match_mode = "strict" THEN DOMAIN r.destinations
                    ELSE {Len(r.destinations)}, r, b)
RunsEnough(r, b) ==
    r.destinations # <<>> =>
        CanBePlaced(IF r.match_mode = "strict" THEN DOMAIN r.destinations
                    ELSE Known(r, b), r, b)

\* Everything a route rule asks for besides its destinations.
RestAllows(r, b) ==
    /\ r.enabled /\ WithinCap(r) /\ ShiftOK(r, b)
    /\ \/ HasOrigin(r) \/ r.destinations # <<>> \/ FilterActive(r)
       \/ r.booking_type # "all"
    /\ OriginOK(r, b)
    /\ r.booking_type \in {"all", b.booking_type}
    /\ ServiceOK(r, b) /\ WeightOK(r, b) /\ CodOK(r, b) /\ CocOK(r, b)

\* A route rule in force matches the ticket in hand only if the ticket runs
\* along its lane, and does match it if nothing else it asks for is missing
\* (CompiledRule::matches, destinations_match_in_order).
RoutesAreServed ==
    ticket # NoTicket =>
        \A k \in DOMAIN rules :
            LET r == rules[k].copy IN
            r.mode = "route" =>
                /\ Matches(r, Core) => RestAllows(r, Core) /\ MustRun(r, Core)
                /\ RestAllows(r, Core) /\ RunsEnough(r, Core) => Matches(r, Core)

\* A rule that is chosen asks for something: a rule the page sent with only
\* white space and punctuation in it accepts nothing, whatever its mode and
\* whatever shifts it names.
BlankRulesNeverFire ==
    pc = "fired" => \A k \in chosen :
        LET r == rules[k].copy IN
        \/ IdsOf(r) # {}
        \/ r.mode = "route" /\ (HasOrigin(r) \/ r.destinations # <<>> \/ r.booking_type # "all")
        \/ r.max_weight # {} \/ r.max_cod_amount # {} \/ r.coc_only \/ r.non_coc_only
        \/ r.service_types # <<>>

\* A rule that wins a ticket by booking id can tell which id it was: the two
\* comparisons agree, else the id would never be consumed.
MatchedIdIsFound ==
    pc = "fired" => \A k \in chosen :
        rules[k].copy.mode = "booking_id" =>
            \E id \in MatchedBookingIdFor(Core, rules[k].copy) :
                NormId(id) \in IdsOf(rows[rules[k].row])

\* The rule that answers for a ticket matches it, and none that matches is
\* stronger: modes before priorities before detail.  Of equals the first loaded
\* answers, and is charged; load_compiled_rules leaves open which that is.  A
\* ticket is passed over only if no rule in force matches it.
StrongestAnswers ==
    LET rank(k) == RuleRank(rules[k].copy)
        Takers  == {j \in DOMAIN rules : Matches(rules[j].copy, Core)}
    IN  /\ pc = "fired" =>
               /\ chosen # {} /\ chosen \subseteq Takers
               /\ \A k \in chosen, j \in Takers :
                      /\ ~Outranks(rank(j), rank(k))
                      /\ rank(j) = rank(k) => k <= j
        /\ pc = "loaded" /\ ticket # NoTicket /\ chosen = {} => Takers = {}

\* A COC-only rule never takes a ticket SPX has not named SPXID, whatever its
\* booking id looks like; a non-COC rule never one it has.
CocIsByName ==
    pc = "fired" => \A k \in chosen :
        LET named == PickText(ticket, NameKeys)
            coc   == named # <<>> /\ Trim(named) # <<>> /\ Head(Trim(named)) = "spxid"
        IN  rules[k].copy.mode # "booking_id" =>
                /\ rules[k].copy.coc_only => coc
                /\ rules[k].copy.non_coc_only => ~coc

\* A vehicle class asked for is one SPX named: no bare code passes for it,
\* unless it stands where SPX gives the names.
VehicleIsNamed ==
    pc = "fired" => \A k \in chosen :
        rules[k].copy.mode # "booking_id" /\ rules[k].copy.service_types # <<>> =>
            /\ Core.vehicle_type # <<>>
            /\ BareCode(Core.vehicle_type) =>
                   PickText(ticket, VehicleNameKeys) = Core.vehicle_type

\* A save stores what the page asked for: every booking id once and armed,
\* every lane once with its larger cap, and saving what is shown changes
\* nothing (sanitize_accept_rules, dedupe_rules).
BookIsWhole == IdsStayArmed /\ LanesMergeUp /\ SavingAgainChangesNothing

\* What a ticket's text says decides: its name, its vehicle, its ids
\* (normalize_booking, coc.rs, vehicle.rs).
TextIsRead == CocIsByName /\ VehicleIsNamed /\ MatchedIdIsFound

-----------------------------------------------------------------------------
(* Statements of the repository that do not hold of the code *)

\* tower-master-spec.md:153 lists minDeadlineMin among the gates of a rule: a
\* rule that asks for a notice takes no ticket with less of it.
DeadlineGates ==
    pc = "fired" => \A k \in chosen : \A m \in rules[k].copy.min_deadline_min :
        Booking.deadline_at - Now >= m * 60 * Second

\* rule.rs:385: merging a lane must never silently shrink capacity.
CapacityNeverShrinks ==
    LET routes(rs) == {i \in DOMAIN rs : rs[i].mode = "route"}
    IN  pc # "page" =>
        \A i \in routes(Sent) : Sent[i].enabled => \E k \in routes(rows) :
            /\ Lane(rows[k]) = Lane(Sent[i])
            /\ rows[k].max_accept_count # 0 =>
                   /\ Sent[i].max_accept_count # 0
                   /\ rows[k].max_accept_count - rows[k].accepted_count
                          >= Sent[i].max_accept_count - Sent[i].accepted_count
=============================================================================
