----------------------------- MODULE RuleEngine -----------------------------
(***************************************************************************)
(* The accept rules of core-domain: how a list of rules from the settings  *)
(* page is cleaned (sanitize_accept_rules) and collapsed (dedupe_rules),   *)
(* which tickets a rule matches (CompiledRule::matches) and which of the   *)
(* matching rules answers for a ticket (find_best_matching_rule_compiled). *)
(*                                                                         *)
(* A text is a sequence of lower-case words.  Blank is white space the     *)
(* user typed, Dash any other run of punctuation, a member of Capacities a   *)
(* capacity in brackets; the other words are alphanumeric.  An optional    *)
(* value is a set of at most one element.                                  *)
(***************************************************************************)
EXTENDS Integers, SequencesExt

CONSTANT MaxDestinations   \* bound of a rule's destinations, 5 in the code

ASSUME MaxDestinationsAssumption == MaxDestinations \in Nat \ {0}

Blank    == " "
Dash     == "-"
Capacities == {"(4wh)", "(6wh)", "(10wh)"}

-----------------------------------------------------------------------------
(* Sequences.  Keep is SelectSeq, as a fold: TLAPS has no definition of the *)
(* other.                                                                   *)

Map(Op(_), s) == [i \in DOMAIN s |-> Op(s[i])]

\* The members of s at the places, in their order.
Picked(s, places) ==
    FoldLeftDomain(LAMBDA kept, i : IF i \in places THEN Append(kept, s[i]) ELSE kept,
                   <<>>, s)

Keep(s, Test(_)) == Picked(s, {i \in DOMAIN s : Test(s[i])})

-----------------------------------------------------------------------------
(* Texts *)

One(p) == IF p THEN 1 ELSE 0

Trim(s) ==
    LET words == {i \in DOMAIN s : s[i] # Blank}
    IN  IF words = {} THEN <<>> ELSE SubSeq(s, Min(words), Max(words))

NormLoc(s) == Keep(s, LAMBDA w : w \notin {Blank, Dash})

NormVehicle(s) == Keep(NormLoc(s), LAMBDA w : w \notin Capacities)

\* norm_id drops the separators and joins what they separate; the words it
\* joins are kept apart here.
NormId(s) == NormLoc(s)

\* An id of at least nine characters: here, of two words or more.
LongId(id) == Len(id) >= 2

\* needle stands in hay on word boundaries.
Occurs(needle, hay) ==
    \E i \in 0 .. Len(hay) - Len(needle) :
        SubSeq(hay, i + 1, i + Len(needle)) = needle

LocMatch(hay, needle) == needle # <<>> /\ Occurs(needle, NormLoc(hay))

VehicleMatch(ticket, label) == label # <<>> /\ IsPrefix(label, ticket)

VehicleLabelSwapped(n) ==
    CASE n = <<"fuso", "std">> -> <<"fuso">>
      [] n = <<"fuso">>        -> <<"fuso", "std">>
      [] OTHER                 -> n
\* Of the labels an operator types one is renamed; the other known classes,
\* and the unknown ones, keep their words.
VehicleRuleLabel(n) == IF n = <<"fuso", "std">> THEN <<"fuso">> ELSE n

CanonicalLabel(s) == VehicleRuleLabel(NormVehicle(s))

IsCocName(name) == Trim(name) # <<>> /\ Head(Trim(name)) = "spxid"

BookingTypeOf(name) == IF IsCocName(name) THEN "spxid" ELSE "reguler"

-----------------------------------------------------------------------------
(* Cleaning a rule: sanitize_accept_rules *)

\* The values whose key is neither empty nor that of an earlier value.
UniqKeepOrder(values, Key(_)) ==
    Picked(values, {i \in DOMAIN values :
                        /\ Key(values[i]) # <<>>
                        /\ \A j \in 1 .. i - 1 : Key(values[j]) # Key(values[i])})

Texts(values) == Keep(Map(Trim, values), LAMBDA v : v # <<>>)

NonNeg(n) == Max({0, n})

ModeOf(mode) == IF mode \in {"booking_id", "route"} THEN mode ELSE "filter"

BookingTypeFilter(t) == IF t \in {"spxid", "reguler"} THEN t ELSE "all"

MatchModeOf(m) == IF m = "flexible" THEN m ELSE "strict"

DestinationsUncut(values) == UniqKeepOrder(Texts(values), NormLoc)
\* The first MaxDestinations are kept before repeated ones are dropped.
Destinations(values) ==
    LET all == Texts(values)
    IN  UniqKeepOrder(SubSeq(all, 1, Min({MaxDestinations, Len(all)})), NormLoc)

ServiceTypes(values) ==
    UniqKeepOrder(Keep(Map(CanonicalLabel, values), LAMBDA v : v # <<>>), NormVehicle)

OnlyNonNeg(values) == {v \in values : v >= 0}

Sanitize(raw) ==
    [enabled          |-> raw.enabled,
     priority         |-> Max({-999, Min({999, raw.priority})}),
     mode             |-> ModeOf(raw.mode),
     service_types    |-> ServiceTypes(raw.service_types),
     max_weight       |-> {NonNeg(w) : w \in raw.max_weight},
     coc_only         |-> raw.coc_only,
     non_coc_only     |-> raw.non_coc_only /\ ~raw.coc_only,
     max_cod_amount   |-> {NonNeg(a) : a \in raw.max_cod_amount},
     booking_ids      |-> UniqKeepOrder(Texts(raw.booking_ids), NormId),
     origin           |-> Trim(raw.origin),
     destinations     |-> Destinations(raw.destinations),
     booking_type     |-> BookingTypeFilter(raw.booking_type),
     shift_types      |-> OnlyNonNeg(raw.shift_types),
     trip_types       |-> OnlyNonNeg(raw.trip_types),
     match_mode       |-> MatchModeOf(raw.match_mode),
     min_deadline_min |-> {NonNeg(m) : m \in raw.min_deadline_min},
     max_accept_count |-> Max({0} \cup raw.max_accept_count),
     accepted_count   |-> Max({0} \cup raw.accepted_count)]

SanitizeAcceptRules(raws) == Map(Sanitize, raws)

-----------------------------------------------------------------------------
(* Collapsing a list: dedupe_rules *)

ClaimsInInputOrder(rules, j, i) == rules[j].mode = "booking_id" /\ j < i
\* Rule j claims its booking ids before rule i: enabled rules come first.
ClaimsBefore(rules, j, i) ==
    /\ rules[j].mode = "booking_id"
    /\ \/ rules[j].enabled /\ ~rules[i].enabled
       \/ rules[j].enabled = rules[i].enabled /\ j < i

IdsOf(rule) == {NormId(rule.booking_ids[k]) : k \in DOMAIN rule.booking_ids}

KeptIds(rules, i) ==
    LET claimed == UNION {IdsOf(rules[j]) :
                          j \in {k \in DOMAIN rules : ClaimsBefore(rules, k, i)}}
    IN  UniqKeepOrder(Keep(rules[i].booking_ids, LAMBDA b : NormId(b) \notin claimed),
                      NormId)

\* The lane of a route rule; booking ids, shifts, trips, weight, COD, COC and
\* deadline are not part of it.
Lane(r) ==
    <<NormLoc(r.origin),
      Keep(Map(NormLoc, r.destinations), LAMBDA d : d # <<>>),
      r.match_mode, r.booking_type, ToSet(Map(Trim, r.service_types))>>

MergeSmallerCap(old, r) ==
    [old EXCEPT
        !.max_accept_count = Min({@, r.max_accept_count}),
        !.accepted_count = Max({@, r.accepted_count}),
        !.enabled = @ \/ r.enabled]
\* A cap of 0 is no cap.
Merge(old, r) ==
    [old EXCEPT
        !.max_accept_count = IF 0 \in {@, r.max_accept_count} THEN 0
                             ELSE Max({@, r.max_accept_count}),
        !.accepted_count = Max({@, r.accepted_count}),
        !.enabled = @ \/ r.enabled]

AddRoute(out, r) ==
    LET at == {k \in DOMAIN out : out[k].mode = "route" /\ Lane(out[k]) = Lane(r)}
    IN  IF at = {}
        THEN Append(out, [r EXCEPT !.destinations = UniqKeepOrder(@, NormLoc)])
        ELSE [out EXCEPT ![Min(at)] = Merge(@, r)]

AddTargets(out, r, ids) ==
    IF ids = <<>> THEN out ELSE Append(out, [r EXCEPT !.booking_ids = ids])

DedupeRules(rules) ==
    FoldLeftDomain(LAMBDA out, i :
                       CASE rules[i].mode = "route" -> AddRoute(out, rules[i])
                         [] rules[i].mode = "booking_id"
                                -> AddTargets(out, rules[i], KeptIds(rules, i))
                         [] OTHER -> Append(out, rules[i]),
                   <<>>, rules)

-----------------------------------------------------------------------------
(* Matching a ticket: CompiledRule::matches *)

HasOrigin(r) == r.origin # <<>>

WithinCap(r) == r.max_accept_count > 0 => r.accepted_count < r.max_accept_count

IdHitsExactly(id, b) ==
    id # <<>> /\ id \in {NormId(b.spx_tx_id), NormId(b.booking_id), NormId(b.request_id)}
IdHits(id, b) ==
    /\ id # <<>>
    /\ \/ id \in {NormId(b.spx_tx_id), NormId(b.booking_id), NormId(b.request_id)}
       \/ LongId(id) /\ Occurs(id, NormId(b.spx_tx_id))

MatchesBookingId(r, b) == \E id \in IdsOf(r) : IdHits(id, b)

\* The conditions route and filter rules share.
WeightOK(r, b)  == \A w \in r.max_weight : b.weight <= w
CodOK(r, b)     == \A a \in r.max_cod_amount : b.cod_amount <= a
CocOK(r, b)     == /\ r.coc_only => b.booking_type = "spxid"
                   /\ r.non_coc_only => b.booking_type # "spxid"
ServiceOK(r, b) ==
    \/ r.service_types = <<>>
    \/ \E i \in DOMAIN r.service_types :
           VehicleMatch(NormVehicle(b.vehicle_type), NormVehicle(r.service_types[i]))

ShiftOK(r, b) ==
    /\ r.shift_types = {} \/ b.shift_type \in r.shift_types
    /\ r.trip_types = {} \/ b.trip_type \in r.trip_types

FilterAlwaysActive(r) == TRUE
FilterActive(r) ==
    \/ r.max_weight # {} \/ r.max_cod_amount # {}
    \/ r.coc_only \/ r.non_coc_only
    \/ r.service_types # <<>>

Stops(b) == Texts(b.route_stops)

\* A rule's destinations are trimmed, and dropped if that leaves nothing.
DestinationsNorm(r) == Map(NormLoc, Texts(r.destinations))

OriginIsFirstStop(r, b) ==
    HasOrigin(r) /\ Stops(b) # <<>> /\ LocMatch(Head(Stops(b)), NormLoc(r.origin))

OriginOK(r, b) ==
    HasOrigin(r) => \/ LocMatch(b.report_station, NormLoc(r.origin))
                    \/ OriginIsFirstStop(r, b)

Lost == -1

\* The stops after at that the destination d occurs in.
StopsFor(d, stops, at) == {j \in DOMAIN stops : j > at /\ LocMatch(stops[j], d)}

\* As Walk, but staying at the stop it found.
WalkInPlace(dests, stops, start, flexible) ==
    FoldLeftDomain(LAMBDA at, d :
                       LET found == StopsFor(dests[d], stops, at)
                       IN  CASE at # Lost /\ found # {} -> Min(found) - 1
                             [] at # Lost /\ found = {} /\ flexible /\ d # Len(dests) -> at
                             [] OTHER -> Lost,
                   start, dests)
\* Consume the destinations in order, each at the first stop after the last
\* one consumed that it occurs in; at is the stop consumed last.
Walk(dests, stops, start, flexible) ==
    FoldLeftDomain(LAMBDA at, d :
                       LET found == StopsFor(dests[d], stops, at)
                       IN  CASE at # Lost /\ found # {} -> Min(found)
                             [] at # Lost /\ found = {} /\ flexible /\ d # Len(dests) -> at
                             [] OTHER -> Lost,
                   start, dests)

StartPastOrigin(r, b) == One(HasOrigin(r))
\* An origin met only by the report station consumes no stop.
Start(r, b) == One(OriginIsFirstStop(r, b))

DestinationsOK(r, b) ==
    \/ DestinationsNorm(r) = <<>>
    \/ /\ Stops(b) # <<>>
       /\ Walk(DestinationsNorm(r), Stops(b), Start(r, b), r.match_mode = "flexible") # Lost

MatchesRoute(r, b) ==
    /\ \/ HasOrigin(r) \/ DestinationsNorm(r) # <<>>
       \/ FilterActive(r) \/ r.booking_type # "all"
    /\ OriginOK(r, b)
    /\ DestinationsOK(r, b)
    /\ r.booking_type \in {"all", b.booking_type}
    /\ ServiceOK(r, b) /\ WeightOK(r, b) /\ CodOK(r, b) /\ CocOK(r, b)

MatchesFilter(r, b) ==
    /\ FilterActive(r)
    /\ WeightOK(r, b) /\ CodOK(r, b) /\ CocOK(r, b) /\ ServiceOK(r, b)

Matches(r, b) ==
    /\ r.enabled
    /\ WithinCap(r)
    /\ \/ r.mode = "booking_id" /\ MatchesBookingId(r, b)
       \/ r.mode = "route" /\ ShiftOK(r, b) /\ MatchesRoute(r, b)
       \/ r.mode = "filter" /\ ShiftOK(r, b) /\ MatchesFilter(r, b)

-----------------------------------------------------------------------------
(* Choosing among the rules: rule_rank and find_best_matching_rule_compiled *)

RuleRank(r) ==
    LET route == r.mode = "route"
    IN  <<CASE r.mode = "booking_id" -> 3 [] route -> 2 [] OTHER -> 1,
          r.priority,
          IF route THEN Len(Texts(r.destinations)) ELSE 0,
          One(route /\ HasOrigin(r)),
          One(route /\ r.match_mode = "strict"),
          Len(r.service_types)>>

Outranks(p, q) ==
    \E k \in DOMAIN p : p[k] > q[k] /\ \A j \in 1 .. k - 1 : p[j] = q[j]

LastBest(rules, b) ==
    FoldLeftDomain(LAMBDA best, i :
                       IF /\ Matches(rules[i], b)
                          /\ \A k \in best : ~Outranks(RuleRank(rules[k]), RuleRank(rules[i]))
                       THEN {i} ELSE best,
                   {}, rules)
\* The place of the rule that answers for b: an equal comes too late.
FindBest(rules, b) ==
    FoldLeftDomain(LAMBDA best, i :
                       IF /\ Matches(rules[i], b)
                          /\ \A k \in best : Outranks(RuleRank(rules[i]), RuleRank(rules[k]))
                       THEN {i} ELSE best,
                   {}, rules)

FirstId(r, Hit(_)) ==
    LET hits == {k \in DOMAIN r.booking_ids : Hit(NormId(r.booking_ids[k]))}
    IN  IF hits = {} THEN {} ELSE {r.booking_ids[Min(hits)]}

MatchedExactlyFor(b, r) == FirstId(r, LAMBDA id : IdHitsExactly(id, b))
\* The registered id, as it was typed, that b was matched by.
MatchedBookingIdFor(b, r) == FirstId(r, LAMBDA id : IdHits(id, b))
=============================================================================
