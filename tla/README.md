# Verification of the TOWER accept engine

TOWER watches the ticket pool of a logistics portal (SPX), decides by rules
which tickets to accept, and accepts them before anyone else does, without ever
accepting a ticket twice or beyond a rule's quota. This directory holds TLA+
models of the engine (`src/Backend`), the TLC runs that check them and the
theorems TLAPS proves about them. Around the engine stand models of the rules
with their data, of the settings and their save, of the pool and its watcher, of
the SPX accounts and logins, of the portal's users, lists and settings pages, of
the live feed, and of the retention worker, which archives and deletes aged rows
of the same database. Paths below are relative to `src/Backend/crates` unless
they start with `src/` or `bin/`.

## 1. Inventory

| Part | State it keeps | Operations | Talks to |
|---|---|---|---|
| **executor** | Layer 1 (`AccountDedupState`: `accepting_now`, `accepted_ids`), Layer 2 (Redis `spx:claim:*`, `spx:inflight:*`), Layer 3 (Redis ZSET `spx:accepted:*`), per-account locks | `try_claim_auto` (Lua, fail-closed), `try_claim_manual` (fail-open), `release_claim_auto`, `apply_rule_consumption`, `record_durable_accept`, `restore_accepted_ids`, `verify_agency_dup` | Redis, store, SPX |
| **poller** | per account: cookies, `rules`/`rule_meta`, `poll_count`, 401 counter; the manual-accept channel; `Notify` poke | `spawn_account_loop`, `poll_once`, `dispatch_booking`, `finalize_win`, `sweep`, `run_anti_drift`, `watch_loop`, relogin, watchdog | executor, store, SPX, sidecar |
| **store** | Postgres: `bookings`, `accept_rules`, `rule_booking_targets`, `automation_settings`, `archive_runs`, users, sessions, prices | upsert / status / expire / resurrect, `consume_rule_quota`, `replace_all`, retention cycle, CRUD | Postgres |
| **api-gateway** | sessions; Redis OTP keys | `execute_manual_accept`, quick-accept links, `put_settings`, OTP request / verify, CRUD routes | store, executor, poller channel, `rules_tx` |
| **core-domain** | none | rule compilation, matching, ranking, sanitising, deduplication | called by poller and api-gateway |
| **spx-client** | cookies | `accept_booking` and its classification, fetches, logins, crypto | SPX |
| **ws-hub** | channel registry | register, unregister, deliver, Redis bridge | Redis pub/sub, browsers |
| **notifier** | none | best-effort messages, bot log | WAHA, Redis |
| **bin/reactor-core** | — | boot: rules, restore, one loop per credential row | all of the above |
| **bin/retention** | — | daily `run_cycle` | Postgres, archive files |
| **bin/auth-sidecar** | none | one browser login per call | SPX |
| **src/Frontend, src/Docker** | browser state | pages, arming dialogue, reconnecting socket | api-gateway |

How they interact: one tokio task per account runs `poll_once` in a loop, and
between two cycles waits in a `select!` for its interval, a poke of the
watcher, or a `ManualAcceptRequest`. Everything that must outlive the process
is in Redis or Postgres. The manual route runs in the HTTP server's tasks at
the same time; the two meet in Layer 1 (shared memory), in the claim key
(Redis), in the channel, and in `bookings.status`.

What is hard, and what makes each part correct:

* **accept pipeline** (executor + dispatch + loop + manual route): two kinds of
  actors racing for a ticket through three dedup layers, a crash between any two
  of five writes, keys that expire, calls that fail after taking effect, a
  caller that times out while its request is still queued. Correct when a ticket
  has one dispatcher at a time, a recorded win is never fired again, a ticket is
  charged once, what is recorded was won, and no ticket is locked out for ever.
* **quota**: the gate's count is a snapshot plus an in-flight set. Correct when
  a rule never wins more than its cap (it may: `CapExceeded`).
* **rules**: cleaning, deduplication, merging, first-wins ranking, matching
  along a route. Correct when what the operator sent is what is armed, and the
  most specific rule that really matches answers, in any order of the rows.
* **settings save**: several transactions, a broadcast, counts that travel
  through the page, a proof that must arm once. Correct when a save alone stores
  and pushes what it was given and heals what others left.
* **sweep, anti-drift, watcher**: rotating windows over pages that shift, partial
  fetches, coalesced pokes. Correct when a partial view does not fail a live
  ticket, a change leads to a full sweep, and the table comes back to the pool.
* **SPX accounts**: rows anyone edits, several rows of one account, one session
  per account that anyone's login ends. Correct when each account has one loop
  and its session comes back.
* **portal**: users deleted while they log in; codes checked, counted and
  deleted command by command; settings read and written in two transactions.
* **lists and links**: four SQL statements that must agree on which row is what,
  pages of a list that moves, a link that is used up in a step of its own.
* **ws-hub**: a registration may not be lost to a concurrent clean-up.
* **retention**: nothing may be deleted that was not archived and verified,
  with one runner at a time and a crash anywhere.

`PROJECT.json` lists every part with its status, and the hazards at their lines.

## 2. Modules

| Module | What it is |
|---|---|
| `AcceptGate` | The operations of the executor crate for one account, as actions over Layer 1, the Redis keys and the durable set |
| `AcceptPipeline` | EXTENDS `AcceptGate`. The poll task, the manual route, bookings and quota in Postgres, SPX, TTLs and crashes, composed |
| `DispatchLease` | What the pipeline promises about a ticket: one holder at a time, only a holder records, a recorded ticket is never taken again |
| `MCAcceptPipeline` | Symmetry for TLC |
| `AcceptPipelineProofs` | Types and channel; recorded wins are ours, no marker is left behind, slots are held; the dedup invariant, mutual exclusion, no second accept, no second charge, wins stay shown; refinement of `DispatchLease` |
| `RuleEngine` | `core-domain`: cleaning, deduplication, matching and ranking, as operators and recursive functions |
| `SpxTicket` | EXTENDS `RuleEngine`. What the SPX client reads off a ticket's JSON and off the answer to an accept |
| `RuleBook` | EXTENDS `SpxTicket`. A list of rules from the page to the win it is charged for, one step after another, with all its data |
| `RuleBookProofs` | Types; the strongest rule that matches answers; blank rules take nothing; route rules follow their lanes; text decides; the book stays whole |
| `RuleSettings` | `put_settings` await by await, beside other saves, the poller's reload, wins, charges and crashes |
| `RuleSettingsProofs` | Types; lone saves heal and push; counts are exact; every arming was earned |
| `PoolView` | Sweep, anti-drift and watcher over pools that change while they are read |
| `PoolViewProofs` | Types; no poke is lost; no sweep fails a live ticket |
| `SpxLogin` | One login to SPX, request by request: tiers, variants, redirects, cookies |
| `SpxAccounts` | EXTENDS `SpxLogin`. Credential rows, boot, the loops and their sessions, the routes that edit the rows |
| `SpxAccountsProofs` | Types; one loop for each account; types of `ConnectivityTest`, and tests of a label take turns |
| `ConnectivityTest` | EXTENDS `SpxLogin`. `POST /auth/spx-login/:label` and its key, over a clock of ten-second ticks |
| `Credentials` | `SpxAccounts`, and `ConnectivityTest` beside it |
| `PortalAccess` | Users, sessions and one-time codes, statement by statement |
| `TicketBook` | Lists, filters, search, paging and counters over the bookings, and the accept by session, link and short code |
| `TicketBookProofs` | Types; dashboard and lists agree; rows are won once unless a failing claim let a second request through; pages miss nothing; a search is literal |
| `TenantSettings` | WhatsApp settings with their key, the bot log, prices, places, branding |
| `LiveFeed` | The hub's registry under sockets that come and go, and the bridge |
| `Portal` | `PortalAccess`, `TenantSettings` and `LiveFeed` side by side, with the properties of the last two |
| `PortalProofs` | Types, accounts and codes of `PortalAccess`; the bot settings, the log and the public page of `TenantSettings`; the feed of `LiveFeed` |
| `RetentionCycle` | The retention worker: lock, capture, archive file, verification, batched delete, run record; the rows and the failures around it |
| `RetentionProofs` | Types, single runner, only verified runs delete, what is deleted is archived, reports are true |
| `MC*` | The instances of the above for TLC |

What composes what: `AcceptGate`, `RuleSettings` and `PoolView` meet in the
poll loop, and each model keeps of the others what it needs: a dispatch is one
step of `PoolView`, a save is absent from `AcceptPipeline`, a rule is a lane with
a cap in `RuleSettings` and has its data in `RuleBook`. `Credentials` and
`Portal` put modules that share no state into one run, side by side: in each
behaviour one of them moves.

### State and actions against the code

`task.pc` is the await at which `spawn_account_loop` stands; one action is what
happens between two awaits that other actors could observe. `PollTicket` is one
iteration of the loop of `poll_once` up to Layer 1; `Claim` is `try_claim_auto`
and the four arms on its outcome; `Fire` is `accept_booking` and SPX's decision;
`HandleOk/Dup/Taken/Retry` are the arms of `dispatch_booking`;
`RecordWin`, `Consume`, `FreeSlot`, `MarkAccepted` are the awaits of
`finalize_win`, in order; `EndCycle`, `Resurrect`, `Expire` are
`run_anti_drift`; `ServeManual`/`ReplyManual` the manual arm of `select!`.
`manual[r].st` is the await of request `r` in `execute_manual_accept`:
`Click`, `CheckKnown`, `CheckDurable`, `ClaimManual`, `Timeout`,
`ManualCommit/Record` on a win, `ManualRelease/Abort` otherwise, `ManualMark`.

In `RetentionCycle`, `job[p]` is where process `p` stands in `run_cycle` with its
locals (`ids`, the count, the stamp of the file name); `StartCycle` is the lock
and the cycle's timestamp, `InsertRun` the iteration of `run_all_tables` and
`insert_run`, `Capture`, `OpenArchive`, `CopyRows`, `MarkArchived`, `Reject`,
`DeleteBatch`, `Vacuum`, `Complete` the awaits of `run_one_table` in order,
`MarkFailed` its error arm, `EndCycle` the unlock. `runs` is `archive_runs`,
`files` the archive directory; `purgedBy` is a history variable that says which
cycle's DELETE removed a row.

SPX is not in the repository: `owner` says who holds a ticket there, `SpxAnswers`
gives the answers `accept_booking` can make of it, `OthersTake` is the rest of
the world.

`RuleEngine` and `SpxTicket` are the code's functions by name: `SanitizeAcceptRules`,
`DedupeRules` (with `Lane` for the signature of a route rule and `Merge` for two
of one lane), `Matches` with its three kinds, `RuleRank` and `FindBest`;
`NormalizeBooking`, `ParseRouteStops`, `ToCoreBooking`, `Classify`. A text is a
sequence of words, a JSON value a record with its kind. `RuleBook` runs `Save`,
`Load` (in every order Postgres may return rows of equal keys), `Read`, `Choose`,
`Fire`, `Charge` over them.

`RuleSettings`: one action per await of `put_settings` (`ReadSwitch`,
`CheckProof`, `SpendProof`, `DeleteRows`, `InsertRows`, `WriteTargets`,
`SetSwitch`, `LoadRows`, `LoadAndSend`, `Reply`, with `Fail` at each), `Reload`
for the poller's end of the watch channel, `Win`, `Charge`, `ShowWin` for what
`finalize_win` does to the same rows. `replace_all` is two steps because under
READ COMMITTED its DELETE sees only the rows committed before it began.

`PoolView`: `Begin` chooses window or full sweep, `ReadPage`, `PageFails` and
`PageIsBlank` are the answers to one page, in any order since pages are fetched
concurrently, `Handle` is a ticket through dispatch, `Resurrect` and `Expire`
the two transactions, `Observe` the watcher, `PoolChanges` SPX.

`SpxLogin` is the state of a login before its next request; `After` gives the
state after an answer. `SpxAccounts`: `ListAll` and `Bootstrap` are the boot,
`Poll`, `Dispatch`, `CheckRelogin`, `Login` a loop, `FindForPut`, `WritePut`,
`Remove` the credential routes, `SessionEnds` anyone else's login.
`ConnectivityTest`: `Claim`, the requests of the login, `Refresh`, and `Tick`.

`PortalAccess`: `FindByName`, `InsertSession` are a login, `Authorize` the
middleware with the request behind it, `Create` and `Delete` the user routes;
`Cooldown`, `Store`, `Reset` the issue of a code; `Count`, `Window`, `Compare`,
`Burn`, `Clear`, `Prove` its verification; each `*Expires` a key that runs out.

`TicketBook`: `OpenList`, `ReadPage`, `CloseList` are the reader, `Save`,
`Expire`, `Resurrect`, `AutoAccept` the loops, `PostRow`, `PostToken`,
`PostCode`, `Find`, `Claim` (with `TryClaimManual`), `Answer`, `Record`, `UseUp` a
POST; `Passes`,
`Before` and `Summary` are the WHERE, ORDER BY and COUNT of the SQL.

`TenantSettings`: `ReadSettings`, `StoreSettings` are PUT /bot/settings,
`Push`, `Trim`, `ClearLog` the log and `ListLog` what a reader of it may get;
`PutPrice`, `CreateLocation`, `PutBranding` and their opposites are the page
editors, each with the answers of a refused text and of a failing transaction
(`TextRefused`, `TransactionFails`, `Status`: `From<sqlx::Error>` in
`api-gateway/src/error.rs`). `LiveFeed`: `Register` and `Greet` are a socket's
start, one channel after another, `Forward` its send task, `Unregister` and
`Reclaim` its clean-up, `Receive` and `Deliver` the bridge.

Definitions with a comment "Variant" are the code with one plausible mistake;
they are used by no specification, and each shows for one property that it is
sensitive to the code.

### What the model assumes or leaves out

* `AcceptPipeline`: one account, one rule that matches every ticket, with cap `Cap` (0 is
  unlimited). Settings are not saved during the modelled period; `rule_meta` is
  the copy of `accepted_count` loaded at boot, which is what `poll_once` works
  with until the next save.
* A real agency id. `bin/reactor-core` bootstraps accounts with `agency_id = 0`
  and says so in its doc comment; `accept_booking` answers `Auth` without a call
  then, and nothing would ever be accepted.
* `Transient`, `Auth` and `Error` are one answer, "retry": the three arms do the
  same with the modelled state. The relogin they may trigger is
  in `SpxAccounts`.
* A key's 600 s TTL is longer than one attempt (15 s wait, seconds of calls):
  `ClaimTTL` and `InflightTTL` do not run out under the attempt that holds them.
* Each Redis or Postgres call, and the profile call of the agency-dup probe, may
  fail while `faults < MaxFaults`. A failed Redis write may have taken effect.
* The eviction of Layer 1 above 5000 ids and the seven-day trim of the durable
  set are not modelled. The channel's capacity of 8 is never reached with the
  requests of the runs.
* Retention: rows have no content, so a booking that is updated between COPY and
  DELETE is not told apart from the one in the file. A cycle that finds nothing
  due, and one that finds the lock taken, changes nothing and is no step. Tables
  with a window of zero are not in `Windows`. Whether a process is armed is fixed
  when it starts (`build_config`). An unlock that fails is a session that ends
  later and is not modelled. A statement answered with an error may have taken
  effect. `SameSecond`, `PowerLoss` and `LockLoss` switch on what the worker is
  exposed to but does not handle; section 4 says what follows from each.
  Power goes for the host of the worker, whose archive volume loses what it had
  not written back; the database is durable.
* `RuleBook`: lists of at most three rules out of a set made to collide, texts of
  a few words, one ticket at a time. The spellings of vehicles and names are a
  few of each kind.
* `RuleSettings`: lists as `dedupe_rules` leaves them, each lane once and each
  booking id under one rule (`BooksAssumption`); in the run, both lanes or the
  route alone with a cap of one; a save that overlaps another at most once; a
  proof's TTL may run out whenever it is unused.
* `PoolView`: a dispatch ends in a win, a loss or nothing in one step. A sweep
  that fetches nothing and one that is incomplete are told apart as in the code.
  Hedged requests are not modelled.
* `SpxAccounts`: a day is a step (`NextDay` makes the daily relogin due). Only an
  accept answered `Auth` counts towards the reactive one. `AgencyId = 0`, as in
  the binary, so that every dispatched accept is.
* `PortalAccess`: password checks and hashes are guards. Two requests at a time.
* `TicketBook`: with `Apart`, lists are opened on the first day and POSTs begin on
  the last, which keeps the run small: the loops alone move rows in every way a
  POST can, and no list of the run asks for a day. Layer 3 is asked in the step
  of the claim: it knows no row that Layer 1 does not, since one process runs
  all the time. A claim may lapse whenever nobody waits for an answer under it.
* `TenantSettings`: `past`, `since` are history for the properties. A text that the
  database cannot hold (a NUL, too long for its index) is one bit of the input,
  `storable`; a statement that fails is a `TransactionFails`, which may have
  committed. A DEL of the log that fails is answered 204 like one that is done, a
  failed LRANGE is an empty list with 200: `ClearLog` and `ListLog` have both.
* `LiveFeed`: the queue of a socket is unbounded, as in the code; Redis delivers
  each message once, or one whose payload cannot be read and is passed over. The
  end of the bridge's stream ends all delivery, as stopping does. The bridge is not started by `bin/reactor-core`
  (`spawn_bridge` is called by tests only): what the run shows is what the hub
  would do if it were.

## 3. Runs

| Run | Bounds | Shows |
|---|---|---|
| `PipelineTwoClicks` | 1 ticket, 2 requests, 1 crash | `OneDispatcher`, `FireOnlyUnrecorded`, refinement of the lease (`ImplementsLease`), `WinStaysAccepted` |
| `PipelinePoller` | 2 tickets, cap 2, 1 crash | `SlotUntilCharged`, `WinIsShown` (while nothing has crashed), `ChargedOnce` |
| `PipelineLive` | 1 ticket, 1 request, cap 1, 1 fault, 1 crash | `WinsAreOurs`, `AcceptingIsCurrent`, `EveryTicketDecided` |
| `RuleBook` | lists of two of nineteen raw rules, some of three; 1 ticket | `BookIsWhole`, `RoutesAreServed`, `BlankRulesNeverFire`, `StrongestAnswers`, `TextIsRead` |
| `RuleSettings` | 2 users, 3 saves of which 1 overlaps, 1 win, 1 code, 1 fault or crash | `SaveIsPushed`, `SaveHeals`, `CountsAreExact`, `ArmsAreEarned` |
| `PoolView` | 2 accounts, 2 tickets on 2 pages of one, 2 changes, 1 fault | `NoPokeIsLost`, `LiveTicketsKept`, `LiveTicketsReturn` |
| `SpxAccounts` | 2 rows of 1 account in three first states, 2 edits, 1 crash; 2 connectivity tests | `OneLoopPerAccount`, `SessionsComeBack`, `TestsTakeTurns` |
| `TicketBook` | 3 rows of 2 tickets, 2 requests at a time, 2 links that open and a forged one, a code, 2 status writes, 1 fault, 1 midnight, pages of 1 | `PagesMissNothing`, `SearchFindsPrefixes`, `DashboardMatchesLists`, `LinksWinOnce` |
| `Portal` | 2 users, 2 sessions, 2 requests, 2 codes; 2 saves, 2 log writers, 2 prices, 4 changes, 1 fault; 2 sockets, 2 channels, 2 messages | `AccountsStand`, `CodesAreLimited`, `SettingsHold`, `LogShowsNewest`, `PublicPageIsSound`, `FeedIsWhole` |
| `RetentionSafe` | 1 table, 2 rows in batches of 1, 2 armed processes and a dry one, 3 cycles, 1 fault or lost lock, 1 crash | `PurgedIsArchived`, `OnlyVerifiedRunsPurge`, `ReportIsTrue` |
| `RetentionLive` | 2 tables, 1 row, 2 processes, 3 cycles, 1 fault, 1 crash or power loss, shared seconds | `SingleRunner`, `AgedRowsGo` |
| `CapExceeded` | 2 tickets, cap 1 | expects `CapNeverExceeded` violated |

Two tickets are enough to have one ticket's slot, marker or claim disturb the
other; two requests and the poller are the three parties that can meet at one
claim key; one crash separates "before" and "after" at every step, and one fault
is each single failure at each point. `PipelineTwoClicks` lets a click that lost
write its late "failed" over the win of the other or of the poller: the only
step `WinStaysAccepted` excepts. The pipeline's runs without faults are so
on purpose: with one fault their properties are false, as the table below shows.
Two rules show every pairing that collides, and the third what a collapsed pair
does to a later one. Three saves let one overlap another and a later one, alone,
heal what they left. The second account of `PoolView` lists nothing, so every
complete sweep of it fails all of the first one's pending rows: the worst a
neighbour can do. The key of a connectivity test lives twelve ticks and a login
may take thirteen, so it can run out under one. Pages of one row put every insert
and every move between two pages.
For retention, two rows with a batch of one let a failure fall between two
batches, and three cycles let a later run meet what an interrupted one has left;
the second table shows that the tables of a cycle do not disturb each other. Three
cycles in `RetentionLive` are one for the row and one more for the fault and the crash
each, which is what the bound must leave for the liveness property to be about
the worker and not about the bound.
Symmetry is used in runs of invariants and of action properties only, over
tickets, requests, rows, users of equal rights, tokens and handlers (those of
`TicketBook` too), none of which a definition names; no run with liveness has it. Deadlock is checked
except where the bounds end what can happen.

Each property holds under what its comment says, and several say something
less than a comment of the repository does. What the code does not do, and how
to see it (only the first has a run of its own; the others are definitions of
the modules that TLC refutes when added to the run named, or properties that
fall when a bound is raised):

| Statement of the repository | What happens | To see it |
|---|---|---|
| the effective count never dips (`executor/src/quota.rs:4`) | the gate counts with the boot-time `accepted_count`; after the slot is released a second ticket passes | run `CapExceeded` |
| restore must complete before the first poll (`poller/src/schedule.rs:192`) | its error is dropped, a recorded ticket is fired again | `FireOnlyUnrecorded` with `MaxFaults = 1` |
| a missing own e-mail means inconclusive (`poller/src/dispatch.rs:385`) | it means lost to a rival | `OwnWinNeverLost` of `AcceptPipeline` with a fault |
| `accepted` rows are never touched (`store/src/bookings.rs:396`) | resurrect does not, but a click that lost has released its claim when it writes "failed", over whoever has won since | `WinStaysAccepted` without its exception `TakenBack` |
| merging a lane never shrinks capacity (`core-domain/src/rule.rs:385`) | the larger count is kept too: less may be left than one of the two had | `CapacityNeverShrinks` of `RuleBook` |
| a rule's notice is a gate (`src/Docs/tower-master-spec.md:153`, minDeadlineMin) | it is cleaned, stored and shown, and no match looks at it | `DeadlineGates` of `RuleBook` |
| a confirmed win becomes an accepted row | a save replaces the rule's row meanwhile; the status write names a rule that is gone and fails, unread | `WinIsStored` of `RuleSettings` |
| a partial view never expires a live ticket (`poller/src/antidrift.rs`) | one account's view is partial for the tenant, and fails the other's rows until their next sweep | `LiveTicketNeverExpires` of `PoolView` |
| the lock never lapses while a login runs (`api-gateway/src/routes/spx_login.rs`) | a login of many slow requests outlasts 120 s | `LockOutlastsLogin` of `ConnectivityTest` |
| the tenant keeps a main account (`api-gateway/src/routes/portal_users.rs`) | two of them delete each other | `LastMainAccountStays` of `PortalAccess` |
| no poller contends with a manual claim that fails open (`executor/src/gate.rs:180`) | the poller may hold the claim already, or another handler: two accept the row | `LinksWinOnce` without `opened` |
| a blank field never wipes a configured key (`api-gateway/src/routes/bot.rs:49`) | it does not wipe it, but a save without a key that read the row before another's commit stores the old key over the new one | `SettingsHold` without `writtenBack` |
| a malformed request gets a 400 instead of an opaque 500 (`api-gateway/src/routes/prices.rs:56`) | for the list of destinations it does; a text with a NUL or too long for its index is a 500, as is any failing statement | `PublicPageIsSound` with `answer.code # 500` |
| filter and page prefer the same reason (`store/src/bookings.rs:117`) | the two COALESCEs are in opposite order | `ReasonIsShown` of `TicketBook` |
| the archive is durable before the first DELETE (`src/Docs/superpowers/specs/2026-07-21-fase-8-retention-design.md:96`) | nothing syncs the file; a power loss takes it after the DELETE has committed | `PurgedIsArchived` with `PowerLoss = TRUE` |

Found by reading, outside any model: `spawn_bridge` is called by no binary, so no
event reaches a browser, and browsers name no account when they connect;
`bin/reactor-core/src/main.rs:252` passes no notifier (a comment there says so), so no win is announced;
no binary starts the watchdog.

### Fairness

`LiveSpec` gives the poll task and the manual handlers weak fairness: tokio runs
every ready task. `ServeManual` is strongly fair because `select!` picks at
random among ready arms. A TTL runs out although its guard is disabled again and
again (the guard is an abstraction of "longer than an attempt"), hence strong
fairness. About SPX it is assumed that a free ticket is listed again and again
and that not every accept is answered with an error; without either nothing can
be accepted. 
The loops of `PoolView` and `SpxAccounts` are weakly fair: every await of them
returns, since requests time out and the interval elapses. In `SpxAccounts` the
days pass (`NextDay`), and the only strong fairness is that a login tried for
ever with a password SPX takes is granted some time; edits, tests, people and
crashes have none. `LiveTicketsReturn` speaks of tickets that stay listed within
`max_pages` from some point on; the changes and faults of the run are bounded,
so they end, and a window that comes round is what brings a page back.

In `RetentionCycle` every armed process is weakly fair (the worker
wakes every day), and strongly fair to start, since a cycle that finds the lock
taken is tried again at the next schedule. No fairness is put on crashes, faults, timeouts, users or rivals.

## 4. Proofs

Every theorem holds for all values of the constants that satisfy the assumptions
named in the modules and, where it has any, the hypotheses in its statement. The
assumptions are what the code or the shape of its data gives: bounds are natural
numbers, sets of rows are finite, `None` is no value of a column, a list of rules
is as `dedupe_rules` leaves it, what a page sends is what serde accepts, a text is a
sequence of words. Modules that the runs reach by INSTANCE only
(`ConnectivityTest`, `TenantSettings`, `LiveFeed`) state theirs as hypotheses of
the theorem. Every safety property of the passing runs is proved; what is left to
TLC is listed at the end of this section.

The accept pipeline, for every set of tickets and requests, every cap and every bound:

* `TypeCorrect`, `ChannelInOrder`: `Types == TypeOK /\ ChannelOK` is inductive.
  The channel part is needed for types: the task's answer goes to the request at
  the head, whose ticket must still be known.
* With `MaxFaults = 0`: `LayersHold`, `Serialised`, `NeverAgain`,
  `PipelineIsLease`. `OneDispatcher` is not inductive: what keeps a second
  dispatcher out is that whoever works owns the claim key (`ClaimCoversWork`);
  what keeps a recorded ticket from being worked on again is that Layer 1 knows
  it (`Layer1CoversZset`), that no worker's ticket is recorded before its own
  record step (`WorkIsUnrecorded`), and that an attempt which checked too early
  meets the claim of the win (`LateClaimIsTaken`). Their conjunction `DedupInv`
  with `OneDispatcher` is inductive relative to `Types`. The refinement maps a
  holder to whoever works under the claim and shows that each step takes, gives
  up, records, or does none of it.
* With any faults: `RecordedWinsAreOurs` (the strengthening says what each point
  after a positive answer knows about `owner`), `NoMarkerLeft` (a marker in
  `accepting_now` is the current ticket's, and only until the answer is known)
  and `SlotsAreHeld`, which is inductive with the types: the reply that lets the
  poller fire is that of the script that took the slot.
* With `MaxFaults = 0` again, `Recorded` (what was charged or is shown as accepted
  is in the durable set) gives `QuotaChargedOnce`, since `WorkIsUnrecorded` keeps
  such a ticket from another attempt, and `OnlyALostClickTakesBack`: an accepted
  row is only ever written over by a manual request that lost its ticket and has
  released the claim (`ManualRelease` comes before `ManualMark`,
  `api-gateway/src/routes/bookings.rs:547`). This is `WinStaysAccepted` for any
  number of requests. `WinsAreShown` has `Requests = {}` as a hypothesis, as its
  run has, for the same reason: what a late "failed" takes back is not shown. It
  adds that a ticket the task works on has a row (`Listed`).

`MaxFaults = 0` is needed: with one fault TLC refutes `FireOnlyUnrecorded` (a
restore that failed), and `OneDispatcher` because `try_claim_manual` lets the
caller through on a Redis error.

The settings save, for any users, lists and bounds:

* `SettingsTypes`: every target is that of a row, and compiled rules have the
  form of the rows. Where a save stands says what it may hold.
* `SavesHeal`. `SaveHeals` is about a flag; the reason is `Heals`: once a lone
  save has done its DELETE nobody else writes the lists, so what it doomed is
  all there is (`DoomsAll`), and between its two steps the tables are its own
  list (`OwnTables`), whose lanes and ids `BooksAssumption` keeps apart.
* `SavesArePushed`: a lone save between its load and its send has read what the
  tables still hold (`LoadIsCurrent`).
* `CountsStayExact`: on top of `Heals`, a lane has one row at most (`LaneOnce`), a
  lane without one has nothing due (`GoneIsZero`), and what a fresh page or a
  save that came from one echoes is what is due (`FreshIsDue`).
* `ArmsAlwaysEarned`: a credit. Arms so far, verifications that wait unspent and
  a save on its way to arm are together never more than the verifications made
  (`Credit`); without overlaps there is one such save, and the switch is off
  until it arms (`GateIsOff`).

The rules and their data, for any lists of rules an operator can send
(`SavesAssumption`: a list of what serde takes of a rule), any order in which
Postgres returns rows of equal keys, any pages of tickets (`PagesAssumption`: the
lists and texts of a JSON object are lists and texts) and any answers:

* `IInv` is inductive. Once a page is saved each row is what cleaning and
  collapsing that page gives, but for the tickets won since (`RowsKept`); each
  row is loaded once, and a copy differs from what the load makes of its row by
  its count alone (`RulesLoaded`); the rule that answers is `FindBest` of the
  copies and the ticket in hand, and where none does `FindBest` was empty
  (`Answered`). `RuleBookTypes` follows from it.
* The operators are folds and recursive functions over lists. The library's
  induction theorems cannot be instantiated here, so the proofs go by sets: a
  set of numbers that holds 0 and with n - 1 holds n holds them all
  (`StepByStep`, from the well-founded order of the numbers), and for each fold
  a lemma says what the next place adds (`PickedSteps`, `WalkSteps`,
  `FindBestSteps` and others).
* `StrongestRuleAnswers`: what is kept of the first n rules matches, is outranked by
  none of them that matches, and comes before its equals; nothing is kept only if
  none matches (`NoneMatches`). Ranks are compared place by place, which is
  transitive (`StrongerThanStronger`). Equal ranks are left to the order of the
  load, which Postgres chooses: the theorem does not say that the answer is the
  same in every order.
* `BlankRulesTakeNothing`: a copy without ids, criteria and lane fails `matches` in
  each of its three modes; shifts alone do not make a filter active.
* `RouteRulesFollowLanes` is about every loaded route rule and the ticket in hand.
  A strict rule matches exactly if the rest of the rule allows the ticket and its
  destinations can be placed on the stops in order. For a flexible one that its
  endpoint can be placed is necessary, and that the endpoint and all hubs the
  ticket knows can be placed in order is sufficient; in between (known hubs in
  another order) the code's greedy walk decides, and the property says nothing.
  The walk takes the first stop it can, so it is never behind another placement
  of the same destinations (`PlacedIsWalked`), and where it went is a placement
  (`StrictWalkPlaces`; a flexible one places the last, `WalkPlacesTheLast`). For
  this the stops of any ticket must be a list of texts, whichever of the route's
  spellings they were read from (`StopsAreListed`).
* `TextDecides`: the comparison that says which id was matched is that of the
  match (`IdDecides`); a vehicle comes from the first name field that is filled
  or is a code with something to read in it (`VehicleDecides`).
* `TheBookStaysWhole`: collapsing keeps for every id the first enabled rule that
  claims it and for every lane the larger cap and count (`DedupeCollapses`);
  cleaning leaves what it made alone, and a list without repeated ids, lanes and
  emptied rules passes through the collapse unchanged, in any order
  (`CollapsedStays`), which is why saving what is shown changes nothing.

Pools and watcher, for any accounts, pools and configuration:

* `PoolTypes`, for finitely many tickets: what a cycle reads lies within the last
  page a window reaches, and a reading of the watcher counts no more tickets than
  there are.
* `PokesAreKept` is inductive with the types. `LiveTicketsAreKept` is an action
  property; its invariant `Sweeps` says that a full sweep without a failed page
  has seen whatever is on the pages it has read, except tickets that moved
  meanwhile, and that only such a sweep that has read its last page expires.

Accounts and connectivity tests:

* `AccountTypes`, and `AccountsGetOneLoop` by `Boot`: before the boot nothing
  runs; from its first row on handles and loops belong together, and every row
  that opens and is done with has left its account a handle.
* `TestTypesHold`, `TestsNeverMeet`, for any cooldown and any time to live that is
  not 0. `KeyCoversTest`: unless a test of the label was slow, the ticks left of
  its key and the ticks since its claim make up the whole time to live. The
  refresh keeps this only because no other test holds the label then, so the two
  halves are inductive together only.

Portal, for any users, tokens, requests and limits:

* `PortalTypes`. `AccountsAlwaysStand` needs what a request to delete knows:
  whoever is about to delete is still a main account, or was deleted meanwhile by
  one it was deleting (`DeletersAreMain`). `CodesStayLimited`: while a user's code
  is out and was not at work in two handlers, what was compared was counted
  before, the counter is not forgotten before the code, and a proof follows the
  end of its code. `PortalAssumption` says, among other things, that no user is
  called "unborn" or "deleted".
* `SettingsStayWhole` (`BotGiven`: bodies have the form the route deserialises,
  rows left by an operator have an address that may be called and a key that
  opens). A request may store what it read before another's commit; therefore
  each row a request has read must be whole too (`BotInv`). The key is the one
  given last until such a request writes an older one back.
* `NewestEntriesAreShown` (`LogGiven`): what Redis holds is a prefix of the
  entries since the last DEL that was done, and its length beyond the cap is owed
  by the writers between LPUSH and LTRIM and by failed LTRIMs. What a reader gets
  is the first `LogCap` of it, or nothing if LRANGE fails.
* `PublicPageStaysSound` (`PageGiven`): trimming a stored code again changes
  nothing, so the unique column compares what visitors read; and what the route's
  checks let through fits the CHECK, so that only a text that cannot be stored or
  a failing transaction ends in a 500.
* `FeedStaysWhole` (`FeedGiven`: each socket has a channel to come by). Two
  invariants. `Registered`: a socket is in the sets of the channels it has come
  by and in no others, and a set that is empty is about to be taken out by the
  socket that emptied it; the second look of `remove_if` is what keeps this when
  another registers in between. `Sent`: what a socket received and what is queued
  for it are one sequence with one greeting in it, and behind the greeting stands
  what its channels have carried since.

The book, for every book of tickets, any filters, links and codes, and any size
of page:

* `BookTypesHold`: a handler past its search holds a row of its ticket (`Found`).
* `DashboardAgreesWithLists` follows from the types: the conditions of the
  counters and of the lists hold of the same rows.
* `LinksWinRowsOnce`: while no failing claim has let a request through to a row,
  who waits for its answer holds its claim alone (`FiringAlone`), a winner is
  the only one (`WinnersWon`), and what is won is known to Layer 1 for good
  (`WonIsKnown`), so that a claim that lapses or is deleted opens no way to it;
  who came through without a claim is recorded as such (`OpenIsOpened`); a used
  code's row is won (`UsedIsWon`). Faults are not excluded.
* `PagesShowEverything`: a row that is due to the reader and was on none of the
  pages so far has at least as many rows before it as these pages held. Rows that
  come into the list only push it on, and a page is the rows behind its offset
  (`SortedRows`, `Cut` and `PlaceInList` are the facts about the sorted list).
* `SearchIsLiteral`, for ids and terms of any length (`BookAssumption` says they
  are texts). Escaping a text one character longer adds the character, with
  the escape character before it if `LIKE` would read it otherwise
  (`EscapeLikeAppend`: the three passes do not disturb each other because the
  escape character itself goes first). `Like` reads such a pattern from its end:
  at the place where the first k characters end it holds exactly the places
  behind which the text goes on as the term does (`FromStep`, `FromEnd`).

The retention worker, for any tables, rows, processes, batch and bounds:

* `RetentionTypes`: the types, with the fact that a process inside
  `run_one_table` is at a table (`AtTable`), without which its row of
  `archive_runs` would not be defined.
* `LockKeepsRunnersApart` (`~LockLoss`): whoever is in a cycle holds the lock.
  TLC finds two in a cycle as soon as `LockLoss` is `TRUE`.
* `OnlyVerifiedDelete`, with everything switched on. The invariant `GateInv`
  carries the verdict from the check to the deletes (`RunSoFar`), and says that
  a cycle has deleted nothing from a table it has not verified
  (`NothingPurgedYet`), so that writing its row there cannot change the verdict
  on rows already gone; cycles are told apart by their number, not by the lock,
  which is why a lost lock does no harm.
* `DeletedIsArchived` (`~SameSecond`, `~PowerLoss`): `ArchiveInv` adds what the
  file holds at each point. The counts that are compared are those of a subset
  (the rows found) and its superset (the rows captured), both finite, so equal
  counts are equal sets. A deleted row's file is never opened again, because
  stamps are not shared and its own cycle is past opening it. Both assumptions
  are needed: `ArchiveNotSynced` is the counterexample without the second, and
  without the first a cycle truncates the file of another of the same second.
  The schedule sleeps at least a second; one-shot runs may share one.
* `ReportsAreTrue`, with everything switched on: the count a cycle carries is that
  of the rows it has deleted from its table (`Counted`), it is zero until the
  deletes begin, and no row is deleted twice (`Fates`), so batches add up.

Only model-checked, and why:

* Liveness (`EveryTicketDecided`, `LiveTicketsReturn`, `SessionsComeBack`,
  `AgedRowsGo`): fairness and ENABLED are out of the prover's reach.
* `CapNeverExceeded`, which is false.

The `TypeOK` of a module holds of its run's instance and is in no run, since the
theorems above say more; `TenantSettings` and `LiveFeed` have theirs inside their
invariants.

## 5. Plan, and what is not modelled

What could be proved next:

1. The executor alone against `AcceptGate`: what of `DedupInv` survives a fault.
2. `AcceptPipeline`: that a slot is taken for the tickets at work and those that
   a crash left only.

Not modelled, and why:

* Layer 1's eviction above 5000 ids, the seven-day trim of the durable set, the
  heartbeat and hedged requests: bounds and repetitions that no instance reaches
  or that change no decision.
* The watchdog: nothing starts it. The publisher and the messages of the
  notifier: output that nothing awaits.
* Ciphers, hashes and the browser of the sidecar: computation and I/O behind one
  call, whose outcomes are choices of the models.
* The spellings `route_parse.rs`, `vehicle.rs` and `location.rs` know: tables of
  texts, represented by some members.
* The rate limiter: it refuses requests, which the models may leave unsent.
* Schema and deployment: declarative. The constraints the writers meet are in
  the writers' actions. The frontend: what it sends and how it pages is in
  `TicketBook` and `RuleSettings`; rendering is left out.
* The schedule arithmetic of `bin/retention`, and two tenants in one database,
  which row-level security keeps apart.
