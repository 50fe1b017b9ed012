------------------------------ MODULE SpxTicket ------------------------------
(***************************************************************************)
(* What the SPX client makes of one ticket of the pool's JSON              *)
(* (normalize_booking, parse_route_stops, to_core_booking) and of the      *)
(* answer to an accept request (accept_booking,                            *)
(* classify_accept_response).                                              *)
(*                                                                         *)
(* A raw ticket is a function from the keys present to values, and a value *)
(* is a record [t] with one more field: Text(s), Number(n), List(items)    *)
(* with the items' own JSON, or Null.  Texts are as in RuleEngine.         *)
(***************************************************************************)
EXTENDS RuleEngine

CONSTANTS
    Now,      \* the time at which the ticket is read, in milliseconds
    Second,   \* milliseconds in a second
    Hour,     \* milliseconds in an hour
    FirstMs   \* the least number read as milliseconds, not as seconds

ASSUME TimeAssumption == /\ {Now, Second, Hour, FirstMs} \subseteq Nat
                         /\ Second > 1

Text(s)     == [t |-> "text", s |-> s]
Number(n)   == [t |-> "number", n |-> n]
List(items) == [t |-> "list", items |-> items]
Null        == [t |-> "null"]

Arrow  == "->"
Digits == <<"1", "2", "3", "4", "5", "6", "7", "8", "9">>

IsText(v) == v.t = "text"
IsList(v) == v.t = "list"
IsNull(v) == v.t = "null"

NumeralOf(n) == IF n \in DOMAIN Digits THEN <<Digits[n]>> ELSE <<"0">>

\* String(v) of a value that is not null.
TextOf(v) == IF IsText(v) THEN v.s ELSE NumeralOf(v.n)

\* Number(v): what does not parse is 0.
ToNum(v) ==
    CASE v.t = "number" -> v.n
      [] IsText(v) /\ \E d \in DOMAIN Digits : Trim(v.s) = <<Digits[d]>>
             -> CHOOSE d \in DOMAIN Digits : Trim(v.s) = <<Digits[d]>>
      [] OTHER -> 0

-----------------------------------------------------------------------------
(* The first of several keys that has a value *)

Present(raw, k) == k \in DOMAIN raw /\ ~IsNull(raw[k])
Filled(raw, k)  == Present(raw, k) /\ ~(IsText(raw[k]) /\ raw[k].s = <<>>)

FirstOf(raw, keys, Has(_, _)) ==
    LET at == {i \in DOMAIN keys : Has(raw, keys[i])}
    IN  IF at = {} THEN {} ELSE {raw[keys[Min(at)]]}

\* pick skips an empty text, the nullish chain takes it.
Pick(raw, keys)    == FirstOf(raw, keys, Filled)
Nullish(raw, keys) == FirstOf(raw, keys, Present)

Only(option, default) == IF option = {} THEN default ELSE CHOOSE v \in option : TRUE

PickText(raw, keys) == Only({TextOf(v) : v \in Pick(raw, keys)}, <<>>)
PickNum(raw, keys)  == Only({ToNum(v) : v \in Pick(raw, keys)}, 0)

ToMs(n) == IF n >= FirstMs \/ n = 0 THEN n ELSE n * Second

-----------------------------------------------------------------------------
(* The stops of the route: parse_route_stops *)

BookingIdKeys == <<"booking_id", "bookingId", "booking_sn", "id">>
RequestKeys   == <<"request_id", "requestId", "req_id">>
NameKeys      == <<"booking_name", "spx_tx_id", "spxTxId", "tx_id", "tracking_no">>
DeadlineKeys  == <<"bidding_ddl", "deadline_at", "pickup_time_ms", "expired_at">>
VehicleNameKeys ==
    <<"vehicle_type_name", "right_vehicle_type_name", "sgi_vehicle_name">>
VehicleCodeKeys ==
    <<"truck_type", "vehicle_type", "vehicleType", "service_type">>
OriginKeys == <<"origin_dc_name", "origin_hub", "from_dc_name", "origin_name">>
DestKeys   == <<"dest_dc_name", "dest_hub", "to_dc_name", "dest_name">>
StopKeys   == <<"dc_name", "hub_name", "name", "location">>
StatusKeys == <<"request_acceptance_status", "status", "booking_status">>

NonEmpty(texts) == Keep(texts, LAMBDA s : s # <<>>)

Items(raw, k) ==
    IF Present(raw, k) /\ IsList(raw[k]) THEN raw[k].items ELSE <<>>

BareText(v) == IF IsNull(v) THEN <<"null">> ELSE TextOf(v)

\* The names of the nodes of all the legs, in order.
ParseRouteDetailList(raw) ==
    FoldLeft(LAMBDA names, leg :
                 names \o NonEmpty(Map(LAMBDA node : PickText(node, <<"name">>),
                                       Items(leg, "node_info_list"))),
             <<>>, Items(raw, "route_detail_list"))

\* The first of the keys present decides, even if it is not a list; within a
\* stop an empty name hides the keys after it.
FirstRouteKey(raw) ==
    Keep(<<"route_list", "routes", "route">>, LAMBDA k : Present(raw, k))

ParseRouteList(raw) ==
    IF FirstRouteKey(raw) = <<>> THEN <<>>
    ELSE NonEmpty(Map(LAMBDA stop : Only({TextOf(v) : v \in Nullish(stop, StopKeys)}, <<>>),
                      Items(raw, Head(FirstRouteKey(raw)))))

SplitAtArrows(s) ==
    NonEmpty(FoldLeft(LAMBDA parts, w :
                          IF w = Arrow THEN Append(parts, <<>>)
                          ELSE [parts EXCEPT ![Len(parts)] = Append(@, w)],
                      <<<<>>>>, s))

HubNames(raw) == NonEmpty(<<PickText(raw, OriginKeys), PickText(raw, DestKeys)>>)

ParseRouteStops(raw) ==
    CASE Items(raw, "route_stops") # <<>>
             -> NonEmpty(Map(BareText, Items(raw, "route_stops")))
      [] ParseRouteDetailList(raw) # <<>>  -> ParseRouteDetailList(raw)
      [] ParseRouteList(raw) # <<>>        -> ParseRouteList(raw)
      [] Filled(raw, "sgi_route_name")     -> SplitAtArrows(TextOf(raw["sgi_route_name"]))
      [] Filled(raw, "report_station_name") -> <<TextOf(raw["report_station_name"])>>
      [] OTHER                             -> HubNames(raw)

-----------------------------------------------------------------------------
(* The ticket: normalize_booking and to_core_booking *)

BookingId(raw) == PickText(raw, BookingIdKeys)
RequestId(raw) == PickText(raw, RequestKeys)

TxId(raw) ==
    IF PickText(raw, NameKeys) = <<>> THEN BookingId(raw) ELSE PickText(raw, NameKeys)

IdOf(raw) ==
    CASE BookingId(raw) # <<>> -> BookingId(raw)
      [] RequestId(raw) # <<>> -> RequestId(raw)
      [] OTHER                 -> TxId(raw)

TypeFromTxId(raw) == BookingTypeOf(TxId(raw))
\* From the name SPX gave, not from the id that stands in for it.
TypeOf(raw) == BookingTypeOf(PickText(raw, NameKeys))

BareCode(s) == \E d \in DOMAIN Digits : Trim(s) = <<Digits[d]>>

VehicleOfAny(raw) ==
    IF PickText(raw, VehicleNameKeys) # <<>> THEN PickText(raw, VehicleNameKeys)
    ELSE PickText(raw, VehicleCodeKeys)
\* A code of digits is no vehicle.
VehicleOf(raw) ==
    LET named == PickText(raw, VehicleNameKeys)
        code  == PickText(raw, VehicleCodeKeys)
    IN  IF named # <<>> THEN named
        ELSE IF BareCode(code) THEN <<>> ELSE code

StatusNames == <<<<"pending">>, <<"accepted">>, <<"failed">>>>

StatusOf(raw) ==
    LET name(v) == IF ToNum(v) \in DOMAIN StatusNames THEN StatusNames[ToNum(v)]
                   ELSE TextOf(v)
    IN  Only({name(v) : v \in Pick(raw, StatusKeys)}, <<"pending">>)

DeadlineOf(raw) ==
    Only({ToMs(ToNum(v)) : v \in Pick(raw, DeadlineKeys)}, Now + Hour)

NormalizeBooking(raw) ==
    [id             |-> IdOf(raw),
     booking_id     |-> BookingId(raw),
     request_id     |-> RequestId(raw),
     spx_tx_id      |-> TxId(raw),
     booking_type   |-> TypeOf(raw),
     status         |-> StatusOf(raw),
     vehicle_type   |-> VehicleOf(raw),
     weight         |-> PickNum(raw, <<"weight", "total_weight", "item_weight">>),
     cod_amount     |-> PickNum(raw, <<"cod_amount", "coc_amount", "codAmount">>),
     shift_type     |-> PickNum(raw, <<"shift_type">>),
     trip_type      |-> PickNum(raw, <<"trip_type">>),
     route_stops    |-> ParseRouteStops(raw),
     report_station |-> PickText(raw, <<"report_station_name">>),
     deadline_at    |-> DeadlineOf(raw)]

CoreFields == {"route_stops", "report_station", "spx_tx_id", "booking_id",
               "request_id", "booking_type", "vehicle_type", "weight",
               "cod_amount", "shift_type", "trip_type"}

ToCoreBooking(b) == Restrict(b, CoreFields)

\* A page of the list: data.list, else data.booking_list, else nothing; a body
\* without data is its own data.
ExtractBookingList(body) ==
    LET data == IF "data" \in DOMAIN body THEN body["data"].obj ELSE body
        has(k) == k \in DOMAIN data /\ IsList(data[k])
    IN  CASE has("list")         -> data["list"].items
          [] has("booking_list") -> data["booking_list"].items
          [] OTHER               -> <<>>

-----------------------------------------------------------------------------
(* The answer to an accept *)

\* The patterns of accept.rs; a message is the set of those it matches.
Patterns == {"agency_dup", "ok", "taken", "transient"}

ClassifyOkFirst(success, message) ==
    CASE success                  -> "ok"
      [] "ok" \in message         -> "ok"
      [] "agency_dup" \in message -> "agency_dup"
      [] "taken" \in message      -> "taken"
      [] "transient" \in message  -> "transient"
      [] OTHER                    -> "error"
\* classify_accept_response: agency_dup before ok, which its message matches too.
Classify(success, message) ==
    CASE success                  -> "ok"
      [] "agency_dup" \in message -> "agency_dup"
      [] "ok" \in message         -> "ok"
      [] "taken" \in message      -> "taken"
      [] "transient" \in message  -> "transient"
      [] OTHER                    -> "error"

\* accept_booking, for an answer [http, parsed, success, message]; a transport
\* error has http = 0, and a body that does not parse counts as {}.
AcceptBooking(agencyId, answer) ==
    CASE agencyId <= 0                                -> "auth"
      [] answer.http = 0                              -> "transient"
      [] answer.http \in {401, 403}                   -> "auth"
      [] answer.http = 429 \/ answer.http >= 500      -> "transient"
      [] ~answer.parsed                               -> Classify(FALSE, {})
      [] OTHER -> Classify(answer.success, answer.message)

Success(reason) == reason \in {"ok", "agency_dup"}
=============================================================================
