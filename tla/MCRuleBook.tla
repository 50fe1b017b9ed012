------------------------------ MODULE MCRuleBook ------------------------------
(***************************************************************************)
(* RuleBook on the lists and tickets below: every list of at most two of   *)
(* the rules, and some of three.                                           *)
(***************************************************************************)
EXTENDS RuleBook

Padang  == <<"padang", "dc">>
Solo    == <<"solo", "dc">>
Solok   == <<"solok", "dc">>
Kosambi == <<"kosambi", "dc">>

Empty ==
    [enabled |-> TRUE, priority |-> 0, mode |-> "filter", service_types |-> <<>>,
     max_weight |-> {}, coc_only |-> FALSE, non_coc_only |-> FALSE,
     max_cod_amount |-> {}, booking_ids |-> <<>>, origin |-> <<>>,
     destinations |-> <<>>, booking_type |-> "all", shift_types |-> {},
     trip_types |-> {}, match_mode |-> "strict", min_deadline_min |-> {},
     max_accept_count |-> {}, accepted_count |-> {}]

RouteRule(o, d) == [Empty EXCEPT !.mode = "route", !.origin = o, !.destinations = d]
IdRule(on, ids) ==
    [Empty EXCEPT !.mode = "booking_id", !.enabled = on, !.booking_ids = ids]

RawRules ==
    {Empty,
     [Empty EXCEPT !.mode = "typo", !.shift_types = {1, -1}, !.priority = 5000],
     [Empty EXCEPT !.service_types = <<<<"fuso", "std">>, <<" ", "fuso", "(6wh)">>>>],
     [Empty EXCEPT !.service_types = <<<<"4">>>>],
     [Empty EXCEPT !.coc_only = TRUE, !.non_coc_only = TRUE, !.priority = 1],
     [Empty EXCEPT !.non_coc_only = TRUE, !.max_cod_amount = {-1}],
     [Empty EXCEPT !.max_weight = {3}, !.min_deadline_min = {10}],
     RouteRule(<<" ">>, <<<<"-">>>>),
     [RouteRule(<<>>, <<>>) EXCEPT !.shift_types = {1}],
     RouteRule(<<"-">>, <<Solo>>),
     RouteRule(<<"padang">>, <<Solo, <<"solo", "-", "dc">>, Solok, Kosambi>>),
     [RouteRule(<<"padang", "-">>, <<Solo>>) EXCEPT
         !.max_accept_count = {2}, !.accepted_count = {2}, !.enabled = FALSE],
     [RouteRule(<<" ", "padang">>, <<Solo>>) EXCEPT
         !.max_accept_count = {1}],
     RouteRule(Padang, <<<<"solo">>, Solo>>),
     [RouteRule(Padang, <<Solok, Kosambi>>) EXCEPT !.match_mode = "flexible"],
     [RouteRule(Padang, <<>>) EXCEPT !.booking_type = "reguler",
         !.service_types = <<<<"fuso">>>>],
     IdRule(TRUE, <<<<"bk", "-", "7">>>>),
     IdRule(TRUE, <<<<"2">>, <<" ", "2">>>>),
     IdRule(FALSE, <<<<"bk", "7">>, <<"2">>>>)}

MCSaves ==
    {<<>>} \cup {<<r>> : r \in RawRules} \cup {<<r, s>> : r, s \in RawRules}
        \cup {<<IdRule(FALSE, <<<<"bk", "7">>, <<"2">>>>), r, IdRule(TRUE, <<<<"2">>>>)>> :
              r \in {IdRule(TRUE, <<<<"bk", "-", "7">>>>), RouteRule(Padang, <<Solo>>)}}

Node(s) == [name |-> Text(s)]
Leg(nodes) == [node_info_list |-> List(nodes)]

RawTickets ==
    <<[booking_id |-> Number(2), booking_name |-> Text(<<"spxid", "99">>),
      route_detail_list |-> List(<<Leg(<<Node(Padang), Node(<<>>), Node(Solo)>>),
                                   Leg(<<Node(Kosambi)>>)>>),
      vehicle_type_name |-> Text(<<"fuso", "std", "(6wh)">>),
      weight |-> Number(3), shift_type |-> Number(1)],
     [booking_id |-> Text(<<"spxid", "7">>), truck_type |-> Text(<<"4">>),
      route_list |-> List(<<[dc_name |-> Null, hub_name |-> Text(Padang)],
                            [dc_name |-> Text(<<>>), name |-> Text(Solok)],
                            [location |-> Text(Kosambi)]>>),
      bidding_ddl |-> Number(100), weight |-> Text(<<"9">>), cod_amount |-> Number(1)],
     [id |-> Number(5), tx_id |-> Text(<<"id", "bk", "7", "-", "x">>),
      sgi_route_name |-> Text(<<"padang", "dc", "->", "solo", "dc">>),
      vehicle_type |-> Text(<<"fuso", "(4wh)">>), expired_at |-> Number(2000)],
     [request_id |-> Number(7), tx_id |-> Text(<<>>), status |-> Number(1),
      route_stops |-> List(<<Text(Solo), Null, Text(Padang)>>),
      report_station_name |-> Text(Padang)],
     [booking_sn |-> Number(8), route_list |-> Text(<<"x">>), routes |-> List(<<[name |-> Text(Solo)]>>),
      origin_dc_name |-> Text(Padang), dest_hub |-> Text(Kosambi)]>>

MCPages ==
    {[data |-> [obj |-> [list |-> List(SubSeq(RawTickets, 1, 2))]]],
     [data |-> [obj |-> [booking_list |-> List(SubSeq(RawTickets, 3, 4)), list |-> Null]]],
     [list |-> List(SubSeq(RawTickets, 5, 5))]}

MCAnswers ==
    [http : {200}, parsed : {TRUE}, success : {TRUE}, message : {{}}]
    \cup [http : {200}, parsed : {TRUE}, success : {FALSE}, message : {{"agency_dup", "ok"}, {"taken"}}]
    \cup [http : {401, 429, 0}, parsed : {TRUE}, success : {FALSE}, message : {{}}]
    \cup [http : {200}, parsed : {FALSE}, success : {TRUE}, message : {{}}]
=============================================================================
