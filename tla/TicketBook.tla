----------------------------- MODULE TicketBook -----------------------------
(***************************************************************************)
(* The tickets as people meet them: the lists of the portal, searched,     *)
(* filtered and read page by page (routes/bookings.rs, store/bookings.rs), *)
(* the dashboard's counters, and the accept by session, signed link or     *)
(* short code (routes/quick_accept.rs).  Meanwhile the poll loops save,    *)
(* fail, revive and accept the same rows.                                  *)
(*                                                                         *)
(* A row is a ticket under the account that saw it.  Lists and dashboard   *)
(* speak of rows, status writes and links of tickets.  AcceptPipeline has  *)
(* the detail of a claim and the crashes; here the three layers are asked  *)
(* in one step, by handlers of one process.                                *)
(***************************************************************************)
EXTENDS Integers, FiniteSets, SequencesExt

CONSTANTS
    Rows,        \* pairs <<account, ticket>> SPX may list
    Facts,       \* ticket -> the columns generated from raw_data, None for NULL
    None,
    Coded,       \* tickets a short code was made for
    Tokens,      \* signed links people hold
    Desks,       \* handlers of POST accept requests
    Filters,     \* the filters readers use
    PageSize,    \* rows of a page of the portal
    MaxLimit,    \* rows the server gives at most
    Terms,       \* what people type in a search field, as sequences
    MaxWrites,   \* bound: sweeps and dispatches that write statuses
    MaxFaults,   \* bound: statements and Redis commands that fail
    MaxDays,     \* bound: midnights
    Apart        \* bound: lists are read on the first day, accepts posted on the last

\* The portal asks for fewer rows than the server gives; links and codes name
\* tickets of the book; a deadline is a number or NULL, and NULL is no value;
\* an id and a search term are texts, one character a word.
ASSUME BookAssumption ==
    /\ {PageSize, MaxLimit} \subseteq Nat \ {0} /\ PageSize < MaxLimit
    /\ {MaxWrites, MaxFaults, MaxDays} \subseteq Nat /\ Apart \in BOOLEAN
    /\ IsFiniteSet(Rows)
    /\ Coded \cup {token.ticket : token \in Tokens} \subseteq {k[2] : k \in Rows}
    /\ \A k \in Rows : Facts[k[2]].deadline \in Int \cup {None}
    /\ \A k \in Rows : Facts[k[2]].spx_id \in Seq(STRING)
    /\ Terms \subseteq Seq(STRING)
    /\ None \notin Filters
    /\ None \notin Int \cup BOOLEAN \cup {"pending", "accepted", "failed", "expired",
                                          "taken_by_other", "manual_accept_failed"}

VARIABLES
    book,      \* table bookings: row -> its columns, Absent before
    saved,     \* how many rows were inserted: the order of created_at
    today,     \* days since the start, midnight in WIB
    usedUp,    \* tickets whose short code was deleted from Redis
    known,     \* Layer 1 of the accounts: the rows it has committed as won
    claims,    \* rows whose claim key is in Redis
    desk,      \* handler -> its place in the accept of a row
    reader,    \* a person who reads a list page by page
    writes, faults,   \* counters of the bounds
    wins,      \* history: row -> wins recorded
    opened     \* history: rows a failing claim let a request through to

dedup == <<known, claims>>
hist  == <<wins, opened>>
vars  == <<book, saved, today, usedUp, dedup, desk, reader, writes, faults, hist>>

Tickets == {k[2] : k \in Rows}
RowsOf(t) == {k \in Rows : k[2] = t}

Absent == [status |-> "none", auto |-> FALSE, accept |-> None, drift |-> None,
           created |-> 0, day |-> 0]

Idle == [pc |-> "idle", row |-> None, ticket |-> None, code |-> FALSE]
Away == [pc |-> "away", list |-> "live", filter |-> None, page |-> 1, got |-> {}, due |-> {}]

Init ==
    /\ book = [k \in Rows |-> Absent]
    /\ saved = 0 /\ today = 0
    /\ usedUp = {}
    /\ known = {} /\ claims = {}
    /\ desk = [d \in Desks |-> Idle]
    /\ reader = Away
    /\ writes = 0 /\ faults = 0
    /\ wins = [k \in Rows |-> 0] /\ opened = {}

Present == {k \in Rows : book[k].status # "none"}

-----------------------------------------------------------------------------
(* Search terms *)

Back == "\\"

\* Every c in the word gets the escape character before it.
Escape(word, c) ==
    LET To[n \in 0..Len(word)] ==
            IF n = 0 THEN <<>>
            ELSE To[n - 1] \o (IF word[n] = c THEN <<Back, c>> ELSE <<word[n]>>)
    IN  To[Len(word)]

\* Variant: the escape character is escaped last.
EscapeLikeLate(s) ==
    Escape(Escape(Escape(s, "%"), "_"), Back)

EscapeLike(s) ==
    Escape(Escape(Escape(s, Back), "%"), "_")

\* SQL: text LIKE pattern ESCAPE '\'.  From[i] holds the places of s from which
\* the rest of s is like the rest of p from i on.
Like(p, s) ==
    LET From[i \in 1..(Len(p) + 1)] ==
            IF i > Len(p) THEN {Len(s) + 1}
            ELSE CASE p[i] = "%" -> {j \in 1..(Len(s) + 1) : \E k \in From[i + 1] : j <= k}
                   [] p[i] = Back /\ i < Len(p) ->
                          {j \in DOMAIN s : s[j] = p[i + 1] /\ j + 1 \in From[i + 2]}
                   [] OTHER -> {j \in DOMAIN s : p[i] \in {"_", s[j]} /\ j + 1 \in From[i + 1]}
    IN  1 \in From[1]

StartsWith(text, term) == Like(Append(EscapeLike(term), "%"), text)

-----------------------------------------------------------------------------
(* Lists *)

\* COALESCE(raw_data->>'accept_reason', raw_data->>'drift_reason')
Reason(k) == IF book[k].accept # None THEN book[k].accept ELSE book[k].drift

\* A column of a row as the filters see it.
Column(k, c) ==
    CASE c = "auto_accepted" -> book[k].auto
      [] c = "accept_reason" -> Reason(k)
      [] c = "created_at"    -> book[k].day
      [] OTHER               -> Facts[k[2]][c]

\* Variant: the filter prefers the reason of the sweep.
PassesByDrift(k, f) ==
    \A c \in DOMAIN f.equal :
        IF c = "accept_reason"
        THEN (IF book[k].drift # None THEN book[k].drift ELSE book[k].accept) = f.equal[c]
        ELSE Column(k, c) = f.equal[c]

\* push_common_filters: a filter given for a column that is NULL fails.
Passes(k, f) ==
    /\ \A c \in DOMAIN f.prefix : Column(k, c) # None /\ StartsWith(Column(k, c), f.prefix[c])
    /\ \A c \in DOMAIN f.equal : Column(k, c) = f.equal[c]
    /\ \A c \in DOMAIN f.least : Column(k, c) # None /\ Column(k, c) >= f.least[c]
    /\ \A c \in DOMAIN f.most : Column(k, c) # None /\ Column(k, c) <= f.most[c]

\* The statuses a list holds: its own, unless the filter names one.
StatusesOf(list, f) ==
    IF f.status # None THEN {f.status}
    ELSE IF list = "live" THEN {"pending"} ELSE {"accepted", "failed"}

Shown(list, f) == {k \in Present : book[k].status \in StatusesOf(list, f) /\ Passes(k, f)}

\* ORDER BY created_at DESC, or spx_deadline_at ASC NULLS LAST
Before(k, l, f) ==
    IF f.sort = "newest" THEN book[k].created > book[l].created
    ELSE LET x == Facts[k[2]].deadline  y == Facts[l[2]].deadline
         IN  x # None /\ (y = None \/ x < y)

\* Rows that tie come in any order, in each query anew.
Sorted(S, f) ==
    {s \in SetToSeqs(S) : \A i, j \in DOMAIN s : i < j => ~Before(s[j], s[i], f)}

Ties(S, f) == \E k, l \in S : k # l /\ ~Before(k, l, f) /\ ~Before(l, k, f)

ClampLimit(n)  == IF n < 1 THEN 1 ELSE IF n > MaxLimit THEN MaxLimit ELSE n
ClampOffset(n) == IF n < 0 THEN 0 ELSE n

\* LIMIT and OFFSET
Window(s, limit, offset) ==
    SubSeq(s, ClampOffset(offset) + 1,
           IF ClampOffset(offset) + ClampLimit(limit) > Len(s) THEN Len(s)
           ELSE ClampOffset(offset) + ClampLimit(limit))

\* A counter of the dashboard: rows of today with this status and filter.
Count(status, f) == Cardinality({k \in Present :
    book[k].status \in status /\ book[k].day >= today /\ \A c \in DOMAIN f : Column(k, c) = f[c]})

\* summary; a row counts on the day it was first seen.
Summary == [
    incoming |-> Count({"pending", "accepted", "failed"}, <<>>),
    auto     |-> Count({"accepted"}, [auto_accepted |-> TRUE]),
    manual   |-> Count({"accepted"}, [auto_accepted |-> FALSE]),
    taken    |-> Count({"failed"}, [accept_reason |-> "taken_by_other"])]

-----------------------------------------------------------------------------
(* The reader *)

\* What happens to the book under a reader: what is due to be seen is what was
\* listed at the start, until a row leaves the list or two rows tie.
Reading ==
    \E list \in {reader.list}, f \in {reader.filter} :
        reader' = IF f = None \/ /\ Shown(list, f) \subseteq Shown(list, f)'
                                 /\ ~Ties(Shown(list, f), f)'
                  THEN reader ELSE [reader EXCEPT !.due = {}]

OpenList(list, f) ==
    /\ reader.pc = "away"
    /\ Apart => today = 0
    /\ LET S == Shown(list, f) IN
         reader' = [pc |-> "read", list |-> list, filter |-> f, page |-> 1, got |-> {},
                    due |-> IF Ties(S, f) THEN {} ELSE S]
    /\ UNCHANGED <<book, saved, today, usedUp, dedup, desk, writes, faults, hist>>

\* Variant: the offset counts the row asked for beyond the page.
OffsetBeyond(page) == (page - 1) * (PageSize + 1)

\* fetchTickets: one row more than a page is asked for, to know of a next one.
Offset(page) == (page - 1) * PageSize

ReadPage ==
    /\ reader.pc = "read"
    /\ \E s \in Sorted(Shown(reader.list, reader.filter), reader.filter) :
         LET rows == Window(s, PageSize + 1, Offset(reader.page))
             more == Len(rows) > PageSize
             page == IF more THEN SubSeq(rows, 1, PageSize) ELSE rows
         IN  reader' = [reader EXCEPT !.pc = IF more THEN "read" ELSE "end",
                          !.page = IF more THEN @ + 1 ELSE @,
                          !.got = @ \cup ToSet(page)]
    /\ UNCHANGED <<book, saved, today, usedUp, dedup, desk, writes, faults, hist>>

CloseList ==
    /\ reader.pc = "end"
    /\ reader' = Away
    /\ UNCHANGED <<book, saved, today, usedUp, dedup, desk, writes, faults, hist>>

-----------------------------------------------------------------------------
(* The poll loops *)

Write == writes < MaxWrites /\ writes' = writes + 1

\* upsert_booking: a row that is there keeps its status and its columns.
Save(k) ==
    /\ book[k].status = "none"
    /\ saved' = saved + 1
    /\ book' = [book EXCEPT ![k] = [Absent EXCEPT !.status = "pending",
                                        !.created = saved + 1, !.day = today]]
    /\ Reading
    /\ UNCHANGED <<today, usedUp, dedup, desk, writes, faults, hist>>

\* expire_stale_bookings: the pending rows no longer listed; those with a
\* deadline to come count as taken.
Expire ==
    /\ Write
    /\ \E gone \in SUBSET {k \in Present : book[k].status = "pending"}, why \in {"expired", "taken_by_other"} :
         /\ gone # {}
         /\ book' = [k \in Rows |-> IF k \in gone
                       THEN [book[k] EXCEPT !.status = "failed", !.drift = why] ELSE book[k]]
    /\ Reading
    /\ UNCHANGED <<saved, today, usedUp, dedup, desk, faults, hist>>

\* resurrect_pending: failed rows of tickets a sweep has seen.
Resurrect(t) ==
    /\ Write
    /\ \E k \in RowsOf(t) : book[k].status = "failed"
    /\ book' = [k \in Rows |-> IF k \in RowsOf(t) /\ book[k].status = "failed"
                  THEN [book[k] EXCEPT !.status = "pending", !.drift = None] ELSE book[k]]
    /\ Reading
    /\ UNCHANGED <<saved, today, usedUp, dedup, desk, faults, hist>>

\* update_booking_status: the rows of a ticket, under whatever account; a
\* reason is merged, and none leaves the old one.
UpdateStatus(t, status, auto, reason) ==
    book' = [k \in Rows |-> IF k[2] = t /\ k \in Present
               THEN [book[k] EXCEPT !.status = status, !.auto = auto,
                        !.accept = IF reason = None THEN @ ELSE reason]
               ELSE book[k]]

Fault == faults < MaxFaults /\ faults' = faults + 1

\* A dispatch of a poll loop: won, or lost to another agency.  It keeps its
\* claim either way, and a failing status write is ignored.  The claim is
\* fail-closed: a Redis error ends the dispatch, though the key may have been
\* set.  (One that SPX answers with an error gives the claim back and leaves
\* everything as it was.)
AutoAccept(k) ==
    /\ Write
    /\ k \in Present \ (known \cup claims)
    /\ claims' = claims \cup {k}
    /\ \/ /\ known' = known \cup {k}
          /\ wins' = [wins EXCEPT ![k] = @ + 1]
          /\ \/ UpdateStatus(k[2], "accepted", TRUE, None) /\ UNCHANGED faults
             \/ Fault /\ UNCHANGED book
       \/ /\ UpdateStatus(k[2], "failed", FALSE, "taken_by_other")
          /\ UNCHANGED <<known, faults, wins>>
       \/ Fault /\ UNCHANGED <<book, known, wins>>
    /\ Reading
    /\ UNCHANGED <<saved, today, usedUp, desk, opened>>

\* The 600 s of a claim outlast the fifteen seconds of the handler that took it.
ClaimLapses(k) ==
    /\ k \in claims
    /\ \A d \in Desks : desk[d].row = k => desk[d].pc # "fired"
    /\ claims' = claims \ {k}
    /\ UNCHANGED <<book, saved, today, usedUp, known, desk, reader, writes, faults, hist>>

NextDay ==
    /\ Apart => reader = Away
    /\ today < MaxDays
    /\ today' = today + 1
    /\ UNCHANGED <<book, saved, usedUp, dedup, desk, reader, writes, faults, hist>>

-----------------------------------------------------------------------------
(* The accept handlers *)

Begin(d, pc, t, k, code) ==
    /\ desk[d].pc = "idle"
    /\ Apart => today = MaxDays
    /\ desk' = [desk EXCEPT ![d] = [pc |-> pc, ticket |-> t, row |-> k, code |-> code]]
    /\ UNCHANGED <<book, saved, today, usedUp, dedup, reader, writes, faults, hist>>

\* accept, by a session: the row of its own id, if it is pending.
PostRow(d, k) == book[k].status = "pending" /\ Begin(d, "claim", k[2], k, FALSE)

\* sign_quick_token: a link names a ticket for a while; ours tells whether it
\* was signed with this deployment's key for its tenant.
Sign(t, ours, until) == [ticket |-> t, ours |-> ours, until |-> until]

\* verify_quick_token
Verified(token) == token.ours /\ today <= token.until

\* post_quick_accept: using a link does not use it up.
PostToken(d, token) == Verified(token) /\ Begin(d, "find", token.ticket, None, FALSE)

\* post_short_code: the code is read from Redis.  A code whose thirty minutes
\* are over is one that nobody posts any more.
PostCode(d, t) == t \notin usedUp /\ Begin(d, "find", t, None, TRUE)

Goto(d, pc) == desk' = [desk EXCEPT ![d].pc = pc]
Leave(d) == desk' = [desk EXCEPT ![d] = Idle]

\* get_by_spx_id, LIMIT 1 without an order: any row of the ticket.  A row that
\* is not pending, none, or a failing read ends the request.
Find(d) ==
    /\ desk[d].pc = "find"
    /\ \/ /\ \E k \in RowsOf(desk[d].ticket) \cap Present :
               /\ book[k].status = "pending"
               /\ desk' = [desk EXCEPT ![d].pc = "claim", ![d].row = k]
       \/ Leave(d)
    /\ UNCHANGED <<book, saved, today, usedUp, dedup, reader, writes, faults, hist>>

\* Variant: the claim is not looked at.
ClaimAnyway(d) ==
    /\ desk[d].pc = "claim"
    /\ Write
    /\ claims' = claims \cup {desk[d].row}
    /\ Goto(d, "fired")
    /\ UNCHANGED <<book, saved, today, usedUp, known, reader, faults, hist>>

\* try_claim_manual: a row Layer 1 knows, or whose key is set, is refused.  It
\* is fail-open: any Redis error, in Layer 3 or in the SET NX itself, lets the
\* request through ("open"), and the key may be set or not.  (Layer 3 knows no
\* row that Layer 1 does not, since the restart that filled Layer 1 from it.)
TryClaimManual(d) ==
    /\ desk[d].row \notin known
    /\ \/ /\ desk[d].row \notin claims
          /\ claims' = claims \cup {desk[d].row}
          /\ Goto(d, "fired")
          /\ UNCHANGED <<faults, opened>>
       \/ /\ Fault
          /\ claims' \in {claims, claims \cup {desk[d].row}}
          /\ opened' = opened \cup {desk[d].row}
          /\ Goto(d, "open")

\* execute_manual_accept up to the channel of the account.  An account that is
\* offline or a claim that is refused ends the request.  (The dispatch counts
\* towards the bound here, so that its write always finds room.)
Claim(d) ==
    /\ desk[d].pc = "claim"
    /\ \/ Leave(d) /\ UNCHANGED <<claims, writes, faults, opened>>
       \/ TryClaimManual(d) /\ Write
    /\ UNCHANGED <<book, saved, today, usedUp, known, reader, wins>>

\* The account's answer, within fifteen seconds: a win is committed in Layer 1
\* and keeps the claim, what is no win deletes the key, whoever set it.  No
\* answer, or no account task: the claim stays.
Answer(d) ==
    /\ desk[d].pc \in {"fired", "open"}
    /\ \/ /\ Goto(d, "won")
          /\ known' = known \cup {desk[d].row}
          /\ wins' = [wins EXCEPT ![desk[d].row] = @ + 1]
          /\ UNCHANGED <<claims, faults>>
       \/ /\ Goto(d, "lost")
          /\ \/ claims' = claims \ {desk[d].row} /\ UNCHANGED faults
             \/ Fault /\ UNCHANGED claims
          /\ UNCHANGED <<known, wins>>
       \/ Leave(d) /\ UNCHANGED <<known, claims, faults, wins>>
    /\ UNCHANGED <<book, saved, today, usedUp, reader, writes, opened>>

\* The status write; its failure is ignored.
Record(d) ==
    /\ \/ /\ desk[d].pc = "won"
          /\ IF desk[d].code THEN Goto(d, "used") ELSE Leave(d)
       \/ desk[d].pc = "lost" /\ Leave(d)
    /\ \/ /\ IF desk[d].pc = "won" THEN UpdateStatus(desk[d].ticket, "accepted", FALSE, None)
             ELSE UpdateStatus(desk[d].ticket, "failed", FALSE, "manual_accept_failed")
          /\ Reading
          /\ UNCHANGED faults
       \/ Fault /\ UNCHANGED <<book, reader>>
    /\ UNCHANGED <<saved, today, usedUp, dedup, writes, hist>>

\* Variant: the code is used up by any answer.
UseUpByAnyone(d) ==
    /\ (desk[d].pc = "used" \/ (desk[d].pc = "lost" /\ desk[d].code))
    /\ usedUp' = usedUp \cup {desk[d].ticket}
    /\ Leave(d)
    /\ UNCHANGED <<book, saved, today, dedup, reader, writes, faults, hist>>

\* DEL of the code after a win; its failure is ignored.
UseUp(d) ==
    /\ desk[d].pc = "used"
    /\ \/ /\ usedUp' = usedUp \cup {desk[d].ticket}
          /\ UNCHANGED faults
       \/ Fault /\ UNCHANGED usedUp
    /\ Leave(d)
    /\ UNCHANGED <<book, saved, today, dedup, reader, writes, hist>>

-----------------------------------------------------------------------------

PollStep ==
    \/ \E k \in Rows : Save(k) \/ AutoAccept(k) \/ ClaimLapses(k)
    \/ \E t \in Tickets : Resurrect(t)
    \/ Expire

PostStep ==
    \E d \in Desks :
        \/ \E k \in Rows : PostRow(d, k)
        \/ \E token \in Tokens : PostToken(d, token)
        \/ \E t \in Coded : PostCode(d, t)
        \/ Find(d) \/ Claim(d) \/ Answer(d) \/ Record(d) \/ UseUp(d)

ReadStep ==
    \/ \E list \in {"live", "history"}, f \in Filters : OpenList(list, f)
    \/ ReadPage \/ CloseList

Next ==
    \/ PollStep \/ PostStep \/ ReadStep
    \/ NextDay

Spec == Init /\ [][Next]_vars

-----------------------------------------------------------------------------
(* Properties *)

Reasons == {None, "expired", "taken_by_other", "manual_accept_failed"}

TypeOK ==
    /\ book \in [Rows -> [status : {"none", "pending", "accepted", "failed"}, auto : BOOLEAN,
                    accept : Reasons \ {"expired"}, drift : Reasons \ {"manual_accept_failed"},
                    created : 0..Cardinality(Rows), day : 0..MaxDays]]
    /\ saved \in 0..Cardinality(Rows) /\ today \in 0..MaxDays
    /\ usedUp \subseteq Tickets
    /\ known \subseteq Rows /\ claims \subseteq Rows /\ opened \subseteq Rows
    /\ desk \in [Desks -> [pc : {"idle", "find", "claim", "fired", "open", "won", "lost", "used"},
                    ticket : Tickets \cup {None}, row : Rows \cup {None},
                    code : BOOLEAN]]
    /\ reader \in [pc : {"away", "read", "end"}, list : {"live", "history"},
                   filter : Filters \cup {None}, page : Nat, got : SUBSET Rows, due : SUBSET Rows]
    /\ writes \in 0..MaxWrites /\ faults \in 0..MaxFaults
    /\ wins \in [Rows -> Nat]

\* Readers and open requests change no row, and may go away at any time: the
\* state without them stands for all with the same rows.
Quiet == reader = Away /\ \A d \in Desks : desk[d] = Idle

\* Reading a list to its end page by page shows every row that was listed all
\* the time, though rows are inserted above the reader and move in from the
\* other list meanwhile; unless a row left the list, or two rows had the same
\* deadline in the deadline order (store/bookings.rs:173-176,
\* src/Frontend/src/lib/api-tickets.ts:108-122).
PagesMissNothing == reader.pc = "end" => reader.due \subseteq reader.got

\* The search fields find exactly the rows whose column starts with what was
\* typed, LIKE's wildcards and its escape character included
\* (store/bookings.rs:79-94, 180-186).
SearchFindsPrefixes ==
    Quiet => \A k \in Present, term \in Terms :
        StartsWith(Facts[k[2]].spx_id, term) <=> IsPrefix(term, Facts[k[2]].spx_id)

\* The counters of the dashboard and the lists speak of the same rows: each
\* counter is the number of rows its list shows with the filters a person
\* would set for it (store/bookings.rs:111-124, 585-615: the two must stay in
\* lockstep).
DashboardMatchesLists ==
    Quiet =>
    LET Listed(list, status, equal) == Cardinality(Shown(list,
            [status |-> status, prefix |-> <<>>, equal |-> equal,
             least |-> [created_at |-> today], most |-> <<>>, sort |-> "newest"]))
    IN  /\ Summary.incoming = Listed("live", None, <<>>) + Listed("history", None, <<>>)
        /\ Summary.auto = Listed("history", "accepted", [auto_accepted |-> TRUE])
        /\ Summary.manual = Listed("history", "accepted", [auto_accepted |-> FALSE])
        /\ Summary.taken = Listed("history", "failed", [accept_reason |-> "taken_by_other"])

\* Whichever sessions, links, codes and poll loops go for a row at once, it is
\* won a second time only if a Redis error had let a request through to it:
\* without one a claim that ran out, or that another handler's lost answer
\* deleted, opens no way round the win.  And a short code is used up only by
\* the win of a row of its ticket: until then it can be tried again
\* (routes/bookings.rs:438-550, executor/src/gate.rs:185-213,
\* routes/quick_accept.rs:300-306, 375-378).
LinksWinOnce ==
    /\ \A k \in Rows : wins[k] > 1 => k \in opened
    /\ \A t \in usedUp : \E k \in RowsOf(t) : wins[k] > 0

\* What a comment says of the two reads of a row's reason (store/bookings.rs:
\* 117-121): the filter prefers the reason the page prefers.  It does not.
ReasonIsShown ==
    \A k \in Present : book[k].status = "failed" =>
        Reason(k) = IF book[k].drift # None THEN book[k].drift ELSE book[k].accept
=============================================================================
