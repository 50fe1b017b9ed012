--------------------------- MODULE TenantSettings ---------------------------
(***************************************************************************)
(* What the portal keeps for a tenant besides tickets, rules and users:    *)
(* the WhatsApp settings with their encrypted key (routes/bot.rs,          *)
(* waha_settings.rs, envelope.rs), the log of the bot in Redis             *)
(* (bot_log.rs), and what the public price page shows (routes/prices.rs,   *)
(* routes/locations.rs, branding.rs).  PUT /bot/settings reads and writes  *)
(* its row in two transactions, and an entry of the log is two commands;   *)
(* every other request is one transaction or one command.                  *)
(***************************************************************************)
EXTENDS Integers, Sequences, FiniteSets

CONSTANTS
    None,
    Desks,          \* the PUT /bot/settings being served
    Bodies,         \* what they may send
    Seeds,          \* the rows an operator may have left before the first one
    Recorders,      \* those who write to the log
    LogCap,         \* MAX_LOGS of bot_log.rs
    PriceIds, PriceInputs, PlaceInputs, Looks,
    TitleMax, ImageMax,     \* TITLE_MAX, LOGO_MAX_BYTES of branding.rs
    DefaultName,    \* the length of the default site name
    MaxChanges,     \* bound: requests and log entries
    MaxFaults       \* bound: failing commands of the log, and transactions of
                    \* the price page

VARIABLES
    row,        \* site_settings 'waha_settings', or None
    desk,       \* desk -> [pc, body, seen]
    past,       \* for the properties: the operator's portal label, the key
                \* last given, and whether a save without a key has since
                \* written back a key it had read before
    log,        \* Redis list spx:bot:logs, newest first
    recorder,   \* recorder -> [pc, entry]; an entry is a number
    since,      \* for the properties: the entries pushed since a DEL was
                \* done, newest first
    prices,     \* route_prices: id -> row, or None
    places,     \* route_locations: names
    page,       \* site_settings 'price_page', or None
    answer,     \* of the last request about prices, places or page: its
                \* status, and whether the database refused a text or failed
    changes, faults

bot == <<row, desk, past>>
logs == <<log, recorder, since>>
public == <<prices, places, page, answer>>
vars == <<bot, logs, public, changes, faults>>

AtWork == changes < MaxChanges /\ changes' = changes + 1

-----------------------------------------------------------------------------
(* The settings of the bot *)

\* AES-GCM under a key derived for the purpose, with purpose and tenant as
\* associated data: it opens for the same purpose and tenant only.
WahaKey == "tower.waha-key.v1"
AgencyCredential == "tower.agency-credential.v1"
Unreadable == "unreadable"

Encrypt(purpose, text) == [purpose |-> purpose, text |-> text]
Decrypt(purpose, ct) == IF ct.purpose = purpose THEN ct.text ELSE Unreadable

\* Variant: encrypt_new uses the label of the agency passwords.
EncryptNewAsCredential(body, lab) ==
    [url |-> body.url, number |-> body.number, on |-> FALSE, portal_label |-> lab,
     key |-> Encrypt(AgencyCredential, body.key)]

EncryptNew(body, lab) ==
    [url |-> body.url, number |-> body.number, on |-> FALSE, portal_label |-> lab,
     key |-> Encrypt(WahaKey, body.key)]

DecryptApiKey(r) == Decrypt(WahaKey, r.key)

\* An address is blank, or one the server may call: a plain http(s) address
\* of a public host.
IsSafeOutboundUrl(u) == u.blank \/ (u.http /\ ~u.userinfo /\ u.public)

BlankKey(body) == body.key = ""

\* put_settings: check the addresses, read the row.  A refused request
\* leaves no trace.
ReadSettings(d) ==
    /\ desk[d].pc = "idle"
    /\ AtWork
    /\ \E body \in Bodies :
          /\ IsSafeOutboundUrl(body.url)
          /\ BlankKey(body) => row # None
          /\ desk' = [desk EXCEPT ![d] = [pc |-> "store", body |-> body, seen |-> row]]
    /\ UNCHANGED <<row, past, logs, public, faults>>

\* Variant: the label is not carried over when the key changes.
NewSettingsUnlabelled(body, seen) ==
    LET base == IF BlankKey(body) THEN seen ELSE EncryptNew(body, "")
    IN [base EXCEPT !.url = body.url, !.number = body.number, !.on = body.on]

\* A blank key keeps the row that was read, a new one starts a row with the
\* old label; then every plain field is the request's.
NewSettings(body, seen) ==
    LET base == IF BlankKey(body) THEN seen
                ELSE EncryptNew(body, IF seen = None THEN "" ELSE seen.portal_label)
    IN [base EXCEPT !.url = body.url, !.number = body.number, !.on = body.on]

\* The upsert of site_settings.
StoreSettings(d) ==
    /\ desk[d].pc = "store"
    /\ row' = NewSettings(desk[d].body, desk[d].seen)
    /\ LET kept == BlankKey(desk[d].body)
       IN  past' = [label |-> past.label,
                    key |-> IF kept THEN past.key ELSE desk[d].body.key,
                    writtenBack |-> kept /\ (past.writtenBack \/ desk[d].seen.key # row.key)]
    /\ desk' = [desk EXCEPT ![d] = [pc |-> "idle"]]
    /\ UNCHANGED <<logs, public, changes, faults>>

\* The client goes away, or the database does.
DropPut(d) ==
    /\ desk[d].pc = "store"
    /\ desk' = [desk EXCEPT ![d] = [pc |-> "idle"]]
    /\ UNCHANGED <<row, past, logs, public, changes, faults>>

\* load_bot_settings: the row with its key in the clear, as the one-time
\* code is sent with.
LoadBotSettings ==
    [url |-> row.url, number |-> row.number, waha_api_key |-> DecryptApiKey(row)]

-----------------------------------------------------------------------------
(* The log of the bot *)

Keep(s, n) == SubSeq(s, 1, IF Len(s) < n THEN Len(s) ELSE n)

\* Someone has something to log: an accepted or a lost ticket
\* (dispatch.rs:176,322), or a one-time code, asked for with settings that
\* name a number (routes/otp.rs:83).
BeginRecord(r) ==
    /\ recorder[r].pc = "idle"
    /\ AtWork
    /\ recorder' = [recorder EXCEPT ![r] = [pc |-> "push", entry |-> changes']]
    /\ UNCHANGED <<bot, log, since, public, faults>>

\* record: LPUSH.  Its failure is dropped, and LTRIM is sent all the same.
Push(r) ==
    /\ recorder[r].pc = "push"
    /\ recorder' = [recorder EXCEPT ![r] = [pc |-> "trim", entry |-> 0]]
    /\ log' = <<recorder[r].entry>> \o log
    /\ since' = <<recorder[r].entry>> \o since
    /\ UNCHANGED <<bot, public, changes, faults>>

PushFails(r) ==
    /\ recorder[r].pc = "push"
    /\ faults < MaxFaults
    /\ faults' = faults + 1
    /\ recorder' = [recorder EXCEPT ![r] = [pc |-> "trim", entry |-> 0]]
    /\ UNCHANGED <<bot, log, since, public, changes>>

\* Variant: LTRIM 0 MAX_LOGS keeps one too many.
TrimTooFew(r) ==
    /\ recorder[r].pc = "trim"
    /\ recorder' = [recorder EXCEPT ![r].pc = "idle"]
    /\ \/ log' = Keep(log, LogCap + 1) /\ UNCHANGED faults
       \/ faults < MaxFaults /\ faults' = faults + 1 /\ UNCHANGED log
    /\ UNCHANGED <<bot, since, public, changes>>

\* record: LTRIM 0 MAX_LOGS-1, whose failure is dropped too.
Trim(r) ==
    /\ recorder[r].pc = "trim"
    /\ recorder' = [recorder EXCEPT ![r].pc = "idle"]
    /\ \/ log' = Keep(log, LogCap) /\ UNCHANGED faults
       \/ faults < MaxFaults /\ faults' = faults + 1 /\ UNCHANGED log
    /\ UNCHANGED <<bot, since, public, changes>>

\* DELETE /bot/logs: DEL, answered 204 whether it was done or failed.
ClearLog ==
    /\ log # <<>> /\ AtWork
    /\ \/ log' = <<>> /\ since' = <<>> /\ UNCHANGED faults
       \/ faults < MaxFaults /\ faults' = faults + 1 /\ UNCHANGED <<log, since>>
    /\ UNCHANGED <<bot, recorder, public>>

\* list: what GET /bot/logs may show, LogCap entries at most.  If LRANGE fails
\* it shows none, with a 200.
ListLog == {Keep(log, LogCap)} \cup {entries \in {<<>>} : faults < MaxFaults}

-----------------------------------------------------------------------------
(* The public price page *)

\* A code as it is typed: padded has blanks around it.
TrimCode(c) == [c EXCEPT !.padded = FALSE]

\* Variant: validate_destinations checks that there are any.
ValidDestinationsAny(in) == in.array /\ in.count >= 1 /\ ~in.blankOne

\* validate_destinations.
ValidDestinations(in) == in.array /\ in.count \in 1 .. 5 /\ ~in.blankOne

\* What migration 0013 demands of a row: CHECK and UNIQUE.
FitsCheck(p) == p.array /\ p.count \in 1 .. 5
FitsUnique(p, id) ==
    \A o \in PriceIds \ {id} : prices[o] # None => prices[o].code # p.code

ToNewRoutePrice(in) == [code |-> TrimCode(in.code), array |-> in.array, count |-> in.count]

\* From<sqlx::Error> for ApiError: a unique violation is a 409, every other
\* error a 500: a text that cannot be stored (it holds a NUL, or is too long
\* for its index), and a transaction that fails, of which only the answer may
\* be lost.
Status(code) == [code |-> code, database |-> FALSE]
TextRefused == [code |-> 500, database |-> TRUE]
TransactionFails ==
    /\ faults < MaxFaults /\ faults' = faults + 1
    /\ answer' = [code |-> 500, database |-> TRUE]

\* The INSERT or UPDATE.
WritePrice(id, p, storable) ==
    LET fits    == storable /\ FitsCheck(p) /\ FitsUnique(p, id)
        written == IF fits THEN [prices EXCEPT ![id] = p] ELSE prices
    IN  \/ /\ answer' = CASE fits                      -> Status(200)
                         [] ~storable                 -> TextRefused
                         [] storable /\ ~FitsCheck(p) -> Status(500)
                         [] OTHER                     -> Status(409)
           /\ prices' = written /\ UNCHANGED faults
        \/ TransactionFails /\ prices' \in {prices, written}

\* create_price gives a new id; update_price answers 404 for one that is gone.
PutPrice(id) ==
    /\ AtWork
    /\ \E in \in PriceInputs :
          IF ValidDestinations(in) THEN WritePrice(id, ToNewRoutePrice(in), in.storable)
          ELSE answer' = Status(400) /\ UNCHANGED <<prices, faults>>
    /\ UNCHANGED <<bot, logs, places, page>>

UpdateMissing ==
    /\ AtWork
    /\ (answer' = Status(404) /\ UNCHANGED faults) \/ TransactionFails
    /\ UNCHANGED <<bot, logs, prices, places, page>>

DeletePrice(id) ==
    /\ prices[id] # None /\ AtWork
    /\ LET without == [prices EXCEPT ![id] = None]
       IN  \/ prices' = without /\ answer' = Status(204) /\ UNCHANGED faults
           \/ TransactionFails /\ prices' \in {prices, without}
    /\ UNCHANGED <<bot, logs, places, page>>

\* create_location and delete_location: names are unique, and never edited.
CreateLocation ==
    /\ AtWork
    /\ \E n \in PlaceInputs :
          LET name  == TrimCode(n.name)
              blank == name.code = ""
              fits  == n.storable /\ name \notin places
              with  == IF fits THEN places \cup {name} ELSE places
          IN  \/ blank /\ answer' = Status(400) /\ UNCHANGED <<places, faults>>
              \/ /\ ~blank
                 /\ answer' = CASE fits        -> Status(200)
                               [] ~n.storable -> TextRefused
                               [] OTHER       -> Status(409)
                 /\ places' = with /\ UNCHANGED faults
              \/ ~blank /\ TransactionFails /\ places' \in {places, with}
    /\ UNCHANGED <<bot, logs, prices, page>>

DeleteLocation ==
    /\ AtWork
    /\ \E n \in places :
          \/ places' = places \ {n} /\ answer' = Status(204) /\ UNCHANGED faults
          \/ TransactionFails /\ places' \in {places, places \ {n}}
    /\ UNCHANGED <<bot, logs, prices, page>>

\* A text is its trimmed length, an image its base64 payload: length and
\* number of = at its end.
NoImage == [kind |-> "none", length |-> 0, pads |-> 0]

\* The size of the decoded image, told from the payload.
DecodedLength(i) == (i.length \div 4) * 3 - (IF i.pads < 2 THEN i.pads ELSE 2)

\* validate_data_uri: svg and ico are refused, too short a payload before its
\* size is computed.
ValidDataUri(i) ==
    i.kind \in {"png", "jpeg", "webp"} /\ i.length >= 4 /\ DecodedLength(i) <= ImageMax

\* validate_and_normalize: a blank site name becomes the default one.
Normalized(look) == [look EXCEPT !.name = IF look.name = 0 THEN DefaultName ELSE look.name]
ValidLook(look) ==
    /\ look.title \in 1 .. TitleMax
    /\ Normalized(look).name <= TitleMax
    /\ look.logo # NoImage => ValidDataUri(look.logo)

\* put_branding.
PutBranding ==
    /\ AtWork
    /\ \E look \in Looks :
          LET saved == IF look.storable THEN Normalized(look) ELSE page
          IN  \/ ~ValidLook(look) /\ answer' = Status(400) /\ UNCHANGED <<page, faults>>
              \/ /\ ValidLook(look)
                 /\ answer' = IF look.storable THEN Status(200) ELSE TextRefused
                 /\ page' = saved /\ UNCHANGED faults
              \/ ValidLook(look) /\ TransactionFails /\ page' \in {page, saved}
    /\ UNCHANGED <<bot, logs, prices, places>>

-----------------------------------------------------------------------------

Init ==
    /\ row \in Seeds \cup {None}
    /\ past = [label |-> IF row = None THEN "" ELSE row.portal_label,
               key |-> IF row = None THEN "" ELSE DecryptApiKey(row),
               writtenBack |-> FALSE]
    /\ desk = [d \in Desks |-> [pc |-> "idle"]]
    /\ log = <<>> /\ since = <<>>
    /\ recorder = [r \in Recorders |-> [pc |-> "idle", entry |-> 0]]
    /\ prices = [id \in PriceIds |-> None]
    /\ places = {} /\ page = None /\ answer = Status(0)
    /\ changes = 0 /\ faults = 0

Next ==
    \/ \E d \in Desks : ReadSettings(d) \/ StoreSettings(d) \/ DropPut(d)
    \/ \E r \in Recorders : BeginRecord(r) \/ Push(r) \/ PushFails(r) \/ Trim(r)
    \/ ClearLog
    \/ \E id \in PriceIds : PutPrice(id) \/ DeletePrice(id)
    \/ UpdateMissing \/ CreateLocation \/ DeleteLocation
    \/ PutBranding

Spec == Init /\ [][Next]_vars

-----------------------------------------------------------------------------
(* Properties *)

\* bot.rs:49-52 and 206-220: whatever requests overlap, the row that is read
\* for the next message is of one piece.  Its plain fields are one request's,
\* its label the operator's, its address may be called, and its key opens and
\* was once given.  It is the one given last, unless a save without a key,
\* which wipes nothing, has read the row before that key was stored and stores
\* it, old key and all, after it: until the next key is given.
SettingsHold ==
    row # None =>
        /\ IsSafeOutboundUrl(row.url)
        /\ row.portal_label = past.label
        /\ LoadBotSettings.waha_api_key \in
              ({b.key : b \in Bodies} \cup {DecryptApiKey(r) : r \in Seeds}) \ {"", Unreadable}
        /\ ~past.writtenBack => LoadBotSettings.waha_api_key = past.key
        /\ \E b \in Bodies \cup Seeds : row.url = b.url /\ row.number = b.number /\ row.on = b.on

\* bot_log.rs:36-67: though entries of several writers interleave command by
\* command, and some fail, GET /bot/logs shows the newest entries since the
\* log was really cleared, newest first; or none, if its own command fails.
\* What Redis keeps beyond them is what writers between their two commands
\* have pushed, or a failed LTRIM left.
LogShowsNewest ==
    /\ \A shown \in ListLog :
          shown = Keep(since, LogCap) \/ (shown = <<>> /\ faults < MaxFaults)
    /\ Len(log) <= LogCap + faults + Cardinality({r \in Recorders : recorder[r].pc = "trim"})

\* prices.rs:56-61, locations.rs:49 and branding.rs: what visitors see is
\* without contradiction, and an editor's request that ends in an internal
\* error is one the database failed at, or whose text it cannot hold: the
\* checks of the routes leave the table's own nothing to refuse.  One price
\* per code, however it was typed; one entry per place; and the page is one
\* its own editor would save again unchanged, with an image that is no larger
\* than allowed (two bytes more if its padding was left out).
PublicPageIsSound ==
    /\ answer.code = 500 => answer.database
    /\ \A i, j \in PriceIds :
          prices[i] # None /\ prices[j] # None /\ i # j =>
              TrimCode(prices[i].code) # TrimCode(prices[j].code)
    /\ \A m, n \in places : TrimCode(m) = TrimCode(n) => m = n
    /\ page # None =>
          /\ ValidLook(page) /\ page.storable /\ Normalized(page) = page
          /\ page.logo # NoImage =>
                (6 * (page.logo.length - page.logo.pads)) \div 8 <= ImageMax + 2
=============================================================================
