--------------------------- MODULE AcceptPipeline ---------------------------
(***************************************************************************)
(* The accept pipeline of one SPX account: the poll task that sweeps the   *)
(* ticket pool and dispatches automatic accepts, the manual-accept route   *)
(* that runs beside it and borrows the task's session through a channel,   *)
(* the bookings table both write, process crashes and restarts.            *)
(*                                                                         *)
(* The poll task is a sequential program, and task.pc is the await at      *)
(* which it stands:                                                        *)
(*                                                                         *)
(*   down -> poll -> cycle -> claim -> fire -> answered                    *)
(*     answered: ok -> zadd -> consume -> srem -> mark_accepted -> cycle   *)
(*               dup -> verify -> zadd | mark_failed                       *)
(*               taken -> mark_failed -> cycle                             *)
(*               retry -> release -> cycle                                 *)
(*   cycle -> resurrect -> expire -> select | select -> manual -> poll     *)
(*                                                                         *)
(* A manual request goes                                                   *)
(*   idle -> known -> durable -> claim -> waiting                          *)
(*     waiting: timeout -> abandoned -> done                               *)
(*              won -> zadd -> mark_accepted -> done                       *)
(*              lost -> abort -> mark_failed -> done                       *)
(*                                                                         *)
(* SPX itself is outside the repository: owner says who holds a ticket on  *)
(* their side, and the answers are the ones classify_accept_response and   *)
(* accept_booking can return for it.  Transient, Auth and Error answers    *)
(* are one, "retry": the handlers do the same with the state kept here.    *)
(***************************************************************************)
EXTENDS AcceptGate, Sequences

CONSTANTS
    Requests,    \* manual accepts the users may start
    MaxCrashes   \* bound: how many times the process may crash

ASSUME MaxCrashesAssumption == MaxCrashes \in Nat

VARIABLES
    task,            \* [pc, ticket, answer] of the account's poll task
    sweep,           \* [seen, todo] of the current poll cycle
    manual,          \* [st, ticket] of each manual request
    queue,           \* the ManualAcceptRequest channel into the task
    status,          \* bookings.status of each ticket
    accepted_count,  \* accept_rules.accepted_count, in Postgres
    rule_meta,       \* RuleMeta.accepted_count, the copy read at boot
    owner,           \* SPX: who holds the ticket
    crashes,         \* crashes so far
    charged,         \* history: tickets that consumed a quota slot
    guessed          \* history: wins declared on an inconclusive probe

db   == <<status, accepted_count>>
hist == <<charged, guessed>>
vars == <<layer1, redis, faults, task, sweep, manual, queue, db, rule_meta,
          owner, crashes, hist>>

NoTicket == "none"

ASSUME NoTicketAssumption == NoTicket \notin Tickets

\* The task holds the claim of task.ticket at these points ...
HoldPc == {"fire", "answered", "verify", "zadd", "consume", "srem",
           "mark_accepted", "mark_failed", "release"}
\* ... and is busy with a ticket at these.
BusyPc == HoldPc \cup {"claim"}
Pc     == BusyPc \cup {"down", "poll", "cycle", "resurrect", "expire",
                       "select", "manual"}

Answers == {"none", "ok", "dup", "taken", "retry"}
Owners  == {"free", "us", "sibling", "rival"}
Status  == {"unseen", "pending", "accepted", "failed"}

HoldSt   == {"waiting", "abandoned", "won", "zadd", "mark_accepted", "lost"}
ManualSt == HoldSt \cup {"idle", "known", "durable", "claim", "abort",
                         "mark_failed", "done"}

ManualOK ==
    /\ manual \in [Requests -> [st : ManualSt,
                                ticket : Tickets \cup {NoTicket}]]
    /\ \A r \in Requests : manual[r].st \notin {"idle", "done"}
                               => manual[r].ticket \in Tickets

TypeOK ==
    /\ GateTypeOK
    /\ task \in [pc : Pc, ticket : Tickets \cup {NoTicket}, answer : Answers]
    /\ task.pc \in BusyPc \cup {"manual"} => task.ticket \in Tickets
    /\ sweep \in [seen : SUBSET Tickets, todo : SUBSET Tickets]
    /\ ManualOK
    /\ queue \in Seq(Requests)
    /\ status \in [Tickets -> Status]
    /\ accepted_count \in Nat
    /\ rule_meta \in Nat
    /\ owner \in [Tickets -> Owners]
    /\ crashes \in Nat
    /\ charged \subseteq Tickets
    /\ guessed \subseteq Tickets

Init ==
    /\ GateInit
    /\ task = [pc |-> "down", ticket |-> NoTicket, answer |-> "none"]
    /\ sweep = [seen |-> {}, todo |-> {}]
    /\ manual = [r \in Requests |-> [st |-> "idle", ticket |-> NoTicket]]
    /\ queue = <<>>
    /\ status = [t \in Tickets |-> "unseen"]
    /\ accepted_count = 0
    /\ rule_meta = 0
    /\ owner = [t \in Tickets |-> "free"]
    /\ crashes = 0
    /\ charged = {}
    /\ guessed = {}

Goto(pc) == task' = [task EXCEPT !.pc = pc]
Leave(pc) == task' = [pc |-> pc, ticket |-> NoTicket, answer |-> "none"]

\* One UPDATE of bookings.status, of a row that may be missing; the callers
\* ignore a failure.
SetStatus(t, s) ==
    \/ Succeeds /\ status' = [status EXCEPT ![t] = IF @ = "unseen" THEN @ ELSE s]
    \/ Fails /\ UNCHANGED status

-----------------------------------------------------------------------------
(* SPX *)

\* SPX's decision on an accept of t by this account, and the answer the
\* client makes of it.  A "retry" answer covers a request that never took
\* effect and one that did but whose response was lost.  A second accept of a
\* ticket we already hold is answered "already accepted by you" or "your
\* agency already accepted".
SpxAnswers(t, answer) ==
    \/ /\ owner[t] = "free"
       /\ answer \in {"ok", "retry"}
       /\ owner' = [owner EXCEPT ![t] = "us"]
    \/ /\ UNCHANGED owner
       /\ answer \in CASE owner[t] = "free"    -> {"retry"}
                       [] owner[t] = "us"      -> {"ok", "dup", "retry"}
                       [] owner[t] = "sibling" -> {"dup", "retry"}
                       [] owner[t] = "rival"   -> {"taken", "retry"}

\* Another account of the agency, or another agency, takes a free ticket.
OthersTake(t) ==
    /\ owner[t] = "free"
    /\ \E o \in {"sibling", "rival"} : owner' = [owner EXCEPT ![t] = o]
    /\ UNCHANGED <<layer1, redis, faults, task, sweep, manual, queue, db,
                   rule_meta, crashes, hist>>

-----------------------------------------------------------------------------
(* The poll task *)

\* Boot: load the rules, restore Layer 1 from the durable set, spawn the loop.
Start ==
    /\ task.pc = "down"
    /\ RestoreAcceptedIds
    /\ rule_meta' = accepted_count
    /\ Leave("poll")
    /\ UNCHANGED <<sweep, manual, queue, db, owner, crashes, hist>>

\* One sweep: the tickets SPX lists.  A listing may be partial, and may still
\* hold a ticket somebody has taken.
BeginCycle(seen) ==
    /\ task.pc \in {"poll", "select"}
    /\ sweep' = [seen |-> seen, todo |-> seen]
    /\ Goto("cycle")
    /\ UNCHANGED <<layer1, redis, faults, manual, queue, db, rule_meta, owner,
                   crashes, hist>>

\* The rule matches every ticket; a compiled rule whose accepted_count, as
\* read at boot, is at its cap matches none.
RuleMatches == Cap = 0 \/ rule_meta < Cap

\* upsert_booking never changes the status of a row that exists; a failure is
\* ignored.
UpsertRow(t) ==
    \/ /\ Succeeds
       /\ status' = [status EXCEPT ![t] = IF @ = "unseen" THEN "pending" ELSE @]
    \/ Fails /\ UNCHANGED status

\* The next ticket of the sweep: upsert the row, skip it when Layer 1 knows
\* it or no rule matches, otherwise begin the accept.
PollTicket(t) ==
    /\ task.pc = "cycle"
    /\ t \in sweep.todo
    /\ sweep' = [sweep EXCEPT !.todo = @ \ {t}]
    /\ UpsertRow(t)
    /\ IF RuleMatches /\ ~IsKnown(t)
       THEN /\ TryBeginAccept(t)
            /\ task' = [pc |-> "claim", ticket |-> t, answer |-> "none"]
       ELSE UNCHANGED <<layer1, task>>
    /\ UNCHANGED <<redis, manual, queue, accepted_count, rule_meta,
                   owner, crashes, hist>>

\* Variant: a refused claim leaves the in-flight marker of Layer 1 behind.
ClaimWithoutAbort ==
    /\ task.pc = "claim"
    /\ \E reply \in {"proceed", "already_claimed", "quota_full",
                     "redis_unavailable"} :
         /\ TryClaimAuto(task.ticket, rule_meta, reply)
         /\ IF reply = "proceed" THEN Goto("fire") ELSE Leave("cycle")
    /\ UNCHANGED <<layer1, sweep, manual, queue, db, rule_meta, owner, crashes,
                   hist>>

\* Layer 2: dispatch only on "proceed".
Claim ==
    /\ task.pc = "claim"
    /\ \E reply \in {"proceed", "already_claimed", "quota_full",
                     "redis_unavailable"} :
         /\ TryClaimAuto(task.ticket, rule_meta, reply)
         /\ IF reply = "proceed"
            THEN Goto("fire") /\ UNCHANGED layer1
            ELSE AbortAccept(task.ticket) /\ Leave("cycle")
    /\ UNCHANGED <<sweep, manual, queue, db, rule_meta, owner, crashes, hist>>

Fire ==
    /\ task.pc = "fire"
    /\ \E answer \in Answers :
         /\ SpxAnswers(task.ticket, answer)
         /\ task' = [task EXCEPT !.pc = "answered", !.answer = answer]
    /\ UNCHANGED <<layer1, redis, faults, sweep, manual, queue, db, rule_meta,
                   crashes, hist>>

\* dispatch_booking's match on the classified answer.
HandleOk ==
    /\ task.pc = "answered" /\ task.answer = "ok"
    /\ CommitAccept(task.ticket)
    /\ Goto("zadd")
    /\ UNCHANGED <<redis, faults, sweep, manual, queue, db, rule_meta, owner,
                   crashes, hist>>

\* Variant: "your agency already accepted" taken for "already accepted by you".
HandleDupAsOk ==
    /\ task.pc = "answered" /\ task.answer = "dup"
    /\ CommitAccept(task.ticket)
    /\ Goto("zadd")
    /\ UNCHANGED <<redis, faults, sweep, manual, queue, db, rule_meta, owner,
                   crashes, hist>>

HandleDup ==
    /\ task.pc = "answered" /\ task.answer = "dup"
    /\ Goto("verify")
    /\ UNCHANGED <<layer1, redis, faults, sweep, manual, queue, db, rule_meta,
                   owner, crashes, hist>>

HandleTaken ==
    /\ task.pc = "answered" /\ task.answer = "taken"
    /\ AbortAccept(task.ticket)
    /\ Goto("mark_failed")
    /\ UNCHANGED <<redis, faults, sweep, manual, queue, db, rule_meta, owner,
                   crashes, hist>>

\* Variant: the handler forgets abort_accept.
HandleRetryWithoutAbort ==
    /\ task.pc = "answered" /\ task.answer = "retry"
    /\ Goto("release")
    /\ UNCHANGED <<layer1, redis, faults, sweep, manual, queue, db, rule_meta,
                   owner, crashes, hist>>

HandleRetry ==
    /\ task.pc = "answered" /\ task.answer = "retry"
    /\ AbortAccept(task.ticket)
    /\ Goto("release")
    /\ UNCHANGED <<redis, faults, sweep, manual, queue, db, rule_meta, owner,
                   crashes, hist>>

\* Who accepted, by the booking's operation log: our own e-mail, another's,
\* or nobody after three probes.  Without our own e-mail (the profile call
\* failed) every acceptor found looks like a rival.
VerifyWin ==
    /\ task.pc = "verify"
    /\ \/ owner[task.ticket] = "us" /\ UNCHANGED guessed
       \/ guessed' = guessed \cup {task.ticket}
    /\ CommitAccept(task.ticket)
    /\ Goto("zadd")
    /\ UNCHANGED <<redis, faults, sweep, manual, queue, db, rule_meta, owner,
                   crashes, charged>>

VerifyLost ==
    /\ task.pc = "verify"
    /\ \/ owner[task.ticket] # "us" /\ Succeeds
       \/ owner[task.ticket] = "us" /\ Fails
    /\ AbortAccept(task.ticket)
    /\ Goto("mark_failed")
    /\ UNCHANGED <<redis, sweep, manual, queue, db, rule_meta, owner,
                   crashes, hist>>

\* Variant: the slot is released with the durable record, before the charge.
RecordWinAndFreeSlot ==
    /\ task.pc = "zadd"
    /\ Succeeds
    /\ accepted_zset' = accepted_zset \cup {task.ticket}
    /\ inflight' = inflight \ {task.ticket}
    /\ Goto("consume")
    /\ UNCHANGED <<layer1, claims, sweep, manual, queue, db, rule_meta, owner,
                   crashes, hist>>

\* finalize_win, after the Layer 1 commit.
RecordWin ==
    /\ task.pc = "zadd"
    /\ RecordDurableAccept(task.ticket)
    /\ Goto("consume")
    /\ UNCHANGED <<layer1, sweep, manual, queue, db, rule_meta, owner,
                   crashes, hist>>

\* consume_rule_quota: one conditional UPDATE.  The slot is released only if
\* it consumed.
Consume ==
    /\ task.pc = "consume"
    /\ \/ /\ Cap = 0 \/ accepted_count < Cap
          /\ Succeeds
          /\ accepted_count' = accepted_count + 1
          /\ charged' = charged \cup {task.ticket}
          /\ Goto("srem")
       \/ /\ \/ Cap > 0 /\ accepted_count >= Cap /\ Succeeds
             \/ Fails
          /\ UNCHANGED <<accepted_count, charged>>
          /\ Goto("mark_accepted")
    /\ UNCHANGED <<layer1, redis, sweep, manual, queue, status, rule_meta,
                   owner, crashes, guessed>>

FreeSlot ==
    /\ task.pc = "srem"
    /\ ReleaseSlot(task.ticket)
    /\ Goto("mark_accepted")
    /\ UNCHANGED <<layer1, sweep, manual, queue, db, rule_meta, owner,
                   crashes, hist>>

MarkAccepted ==
    /\ task.pc = "mark_accepted"
    /\ SetStatus(task.ticket, "accepted")
    /\ Leave("cycle")
    /\ UNCHANGED <<layer1, redis, sweep, manual, queue, accepted_count,
                   rule_meta, owner, crashes, hist>>

\* A ticket somebody else won: the claim is kept.
MarkFailed ==
    /\ task.pc = "mark_failed"
    /\ SetStatus(task.ticket, "failed")
    /\ Leave("cycle")
    /\ UNCHANGED <<layer1, redis, sweep, manual, queue, accepted_count,
                   rule_meta, owner, crashes, hist>>

Release ==
    /\ task.pc = "release"
    /\ ReleaseClaim(task.ticket, TRUE)
    /\ Leave("cycle")
    /\ UNCHANGED <<layer1, sweep, manual, queue, db, rule_meta, owner,
                   crashes, hist>>

\* After the last ticket: anti-drift if the sweep was complete.
EndCycle ==
    /\ task.pc = "cycle"
    /\ sweep.todo = {}
    /\ \/ Goto("select") /\ sweep' = [sweep EXCEPT !.seen = {}]
       \/ Goto("resurrect") /\ UNCHANGED sweep
    /\ UNCHANGED <<layer1, redis, faults, manual, queue, db, rule_meta, owner,
                   crashes, hist>>

\* Anti-drift, first transaction: failed rows we see are pending again.  If
\* it fails the second one is not tried.
Resurrect ==
    /\ task.pc = "resurrect"
    /\ \/ /\ Succeeds
          /\ status' = [t \in Tickets |->
                 IF t \in sweep.seen /\ status[t] = "failed"
                 THEN "pending" ELSE status[t]]
          /\ Goto("expire")
          /\ UNCHANGED sweep
       \/ /\ Fails
          /\ Goto("select")
          /\ sweep' = [sweep EXCEPT !.seen = {}]
          /\ UNCHANGED status
    /\ UNCHANGED <<layer1, redis, manual, queue, accepted_count, rule_meta,
                   owner, crashes, hist>>

\* Variant: the UPDATE of expire_stale_bookings without its status condition.
ExpireAnyStatus ==
    /\ task.pc = "expire"
    /\ Succeeds
    /\ status' = [t \in Tickets |->
           IF t \notin sweep.seen /\ status[t] # "unseen"
           THEN "failed" ELSE status[t]]
    /\ Goto("select")
    /\ sweep' = [sweep EXCEPT !.seen = {}]
    /\ UNCHANGED <<layer1, redis, manual, queue, accepted_count, rule_meta,
                   owner, crashes, hist>>

\* Second transaction: pending rows we no longer see have failed.
Expire ==
    /\ task.pc = "expire"
    /\ \/ /\ Succeeds
          /\ status' = [t \in Tickets |->
                 IF t \notin sweep.seen /\ status[t] = "pending"
                 THEN "failed" ELSE status[t]]
       \/ Fails /\ UNCHANGED status
    /\ Goto("select")
    /\ sweep' = [sweep EXCEPT !.seen = {}]
    /\ UNCHANGED <<layer1, redis, manual, queue, accepted_count, rule_meta,
                   owner, crashes, hist>>

\* The select! arm that serves a manual request with the task's session.  The
\* request stays at the head of queue until it is answered.
ServeManual ==
    /\ task.pc = "select"
    /\ queue # <<>>
    /\ LET t == manual[Head(queue)].ticket
       IN  \E answer \in Answers :
             /\ SpxAnswers(t, answer)
             /\ task' = [pc |-> "manual", ticket |-> t, answer |-> answer]
    /\ UNCHANGED <<layer1, redis, faults, sweep, manual, queue, db, rule_meta,
                   crashes, hist>>

Update(r, st) == manual' = [manual EXCEPT ![r].st = st]
Finish(r)     == manual' = [manual EXCEPT ![r] = [st |-> "done",
                                                  ticket |-> NoTicket]]

\* The reply goes nowhere when the route has given up.  An "agency dup" is
\* not verified here: anything but "ok" is a failure.
ReplyManual ==
    /\ task.pc = "manual"
    /\ queue' = Tail(queue)
    /\ LET r == Head(queue)
       IN  IF manual[r].st = "waiting"
           THEN Update(r, IF task.answer = "ok" THEN "won" ELSE "lost")
           ELSE Finish(r)
    /\ Leave("poll")
    /\ UNCHANGED <<layer1, redis, faults, sweep, db, rule_meta, owner, crashes,
                   hist>>

-----------------------------------------------------------------------------
(* The manual-accept route *)

\* The booking row is read, and the account's handle looked up.
Click(r, t) ==
    /\ manual[r].st = "idle"
    /\ task.pc # "down"
    /\ status[t] = "pending"
    /\ manual' = [manual EXCEPT ![r] = [st |-> "known", ticket |-> t]]
    /\ UNCHANGED <<layer1, redis, faults, task, sweep, queue, db, rule_meta,
                   owner, crashes, hist>>

\* try_claim_manual, Layer 1.
CheckKnown(r) ==
    /\ manual[r].st = "known"
    /\ IF IsKnown(manual[r].ticket) THEN Finish(r) ELSE Update(r, "durable")
    /\ UNCHANGED <<layer1, redis, faults, task, sweep, queue, db, rule_meta,
                   owner, crashes, hist>>

\* The claim is granted: the request goes into the channel.
Enqueue(r) == Update(r, "waiting") /\ queue' = Append(queue, r)

\* Layer 3; an error lets the request through, without looking at Layer 2.
CheckDurable(r) ==
    /\ manual[r].st = "durable"
    /\ \/ /\ Succeeds
          /\ IF manual[r].ticket \in accepted_zset
             THEN Finish(r) ELSE Update(r, "claim")
          /\ UNCHANGED queue
       \/ Fails /\ Enqueue(r)
    /\ UNCHANGED <<layer1, redis, task, sweep, db, rule_meta, owner, crashes,
                   hist>>

\* Layer 2, the key the poller claims.
ClaimManual(r) ==
    /\ manual[r].st = "claim"
    /\ \E reply \in {"ok", "already_accepted"} :
         /\ TryClaimManual(manual[r].ticket, reply)
         /\ IF reply = "ok" THEN Enqueue(r) ELSE Finish(r) /\ UNCHANGED queue
    /\ UNCHANGED <<layer1, task, sweep, db, rule_meta, owner, crashes, hist>>

\* Variant: giving up ends the request, which is still in the channel.
TimeoutFinishes(r) ==
    /\ manual[r].st = "waiting"
    /\ Finish(r)
    /\ UNCHANGED <<layer1, redis, faults, task, sweep, queue, db, rule_meta,
                   owner, crashes, hist>>

\* Variant: giving up forgets which ticket the queued request is for.
TimeoutForgets(r) ==
    /\ manual[r].st = "waiting"
    /\ manual' = [manual EXCEPT ![r] = [st |-> "abandoned",
                                        ticket |-> NoTicket]]
    /\ UNCHANGED <<layer1, redis, faults, task, sweep, queue, db, rule_meta,
                   owner, crashes, hist>>

\* 15 s without a reply.  The claim is not released and the request stays in
\* the channel.
Timeout(r) ==
    /\ manual[r].st = "waiting"
    /\ Update(r, "abandoned")
    /\ UNCHANGED <<layer1, redis, faults, task, sweep, queue, db, rule_meta,
                   owner, crashes, hist>>

ManualCommit(r) ==
    /\ manual[r].st = "won"
    /\ CommitAccept(manual[r].ticket)
    /\ Update(r, "zadd")
    /\ UNCHANGED <<redis, faults, task, sweep, queue, db, rule_meta, owner,
                   crashes, hist>>

ManualRecord(r) ==
    /\ manual[r].st = "zadd"
    /\ RecordDurableAccept(manual[r].ticket)
    /\ Update(r, "mark_accepted")
    /\ UNCHANGED <<layer1, task, sweep, queue, db, rule_meta, owner, crashes,
                   hist>>

ManualRelease(r) ==
    /\ manual[r].st = "lost"
    /\ ReleaseClaim(manual[r].ticket, FALSE)
    /\ Update(r, "abort")
    /\ UNCHANGED <<layer1, task, sweep, queue, db, rule_meta, owner, crashes,
                   hist>>

ManualAbort(r) ==
    /\ manual[r].st = "abort"
    /\ AbortAccept(manual[r].ticket)
    /\ Update(r, "mark_failed")
    /\ UNCHANGED <<redis, faults, task, sweep, queue, db, rule_meta, owner,
                   crashes, hist>>

ManualMark(r) ==
    /\ \/ /\ manual[r].st = "mark_accepted"
          /\ SetStatus(manual[r].ticket, "accepted")
       \/ /\ manual[r].st = "mark_failed"
          /\ SetStatus(manual[r].ticket, "failed")
    /\ Finish(r)
    /\ UNCHANGED <<layer1, redis, task, sweep, queue, accepted_count, rule_meta,
                   owner, crashes, hist>>

-----------------------------------------------------------------------------
(* Time and crashes *)

AutoHolds(t)   == task.pc \in HoldPc /\ task.ticket = t
ManualHolds(r) == manual[r].st \in HoldSt

\* The 600 s TTL of a claim outlasts the attempt that took it, and the time
\* between the dedup checks of another attempt and its own try at the claim.
ClaimTTL(t) ==
    /\ ~(task.pc \in BusyPc /\ task.ticket = t)
    /\ \A r \in Requests :
         manual[r].ticket = t
             => ~ManualHolds(r) /\ manual[r].st # "claim"
    /\ ClaimExpires(t)
    /\ UNCHANGED <<layer1, faults, task, sweep, manual, queue, db, rule_meta,
                   owner, crashes, hist>>

\* The in-flight set expires as a whole, 600 s after the last SADD.
InflightTTL ==
    /\ \A t \in inflight : ~AutoHolds(t)
    /\ InflightExpires
    /\ UNCHANGED <<layer1, faults, task, sweep, manual, queue, db, rule_meta,
                   owner, crashes, hist>>

\* The process dies; Redis, Postgres and SPX keep their state.
Crash ==
    /\ task.pc # "down"
    /\ crashes < MaxCrashes
    /\ crashes' = crashes + 1
    /\ accepting_now' = {}
    /\ accepted_ids' = {}
    /\ Leave("down")
    /\ sweep' = [seen |-> {}, todo |-> {}]
    /\ queue' = <<>>
    /\ manual' = [r \in Requests |->
          IF manual[r].st = "idle" THEN manual[r]
          ELSE [st |-> "done", ticket |-> NoTicket]]
    /\ UNCHANGED <<redis, faults, db, rule_meta, owner, hist>>

-----------------------------------------------------------------------------

TaskStep ==
    \/ Start
    \/ \E seen \in SUBSET Tickets : BeginCycle(seen)
    \/ \E t \in Tickets : PollTicket(t)
    \/ Claim \/ Fire
    \/ HandleOk \/ HandleDup \/ HandleTaken \/ HandleRetry
    \/ VerifyWin \/ VerifyLost
    \/ RecordWin \/ Consume \/ FreeSlot \/ MarkAccepted
    \/ MarkFailed \/ Release
    \/ EndCycle \/ Resurrect \/ Expire
    \/ ServeManual \/ ReplyManual

RouteStep(r) ==
    \/ CheckKnown(r) \/ CheckDurable(r) \/ ClaimManual(r)
    \/ ManualCommit(r) \/ ManualRecord(r)
    \/ ManualRelease(r) \/ ManualAbort(r) \/ ManualMark(r)

Next ==
    \/ TaskStep
    \/ \E r \in Requests :
         \/ RouteStep(r) \/ Timeout(r)
         \/ \E t \in Tickets : Click(r, t)
    \/ \E t \in Tickets : OthersTake(t) \/ ClaimTTL(t)
    \/ InflightTTL
    \/ Crash

Spec == Init /\ [][Next]_vars

-----------------------------------------------------------------------------
(* Safety *)

\* The shared claim key serialises the poller and the people clicking accept:
\* from the moment a claim is granted until it is given up, no one else is
\* accepting the same ticket (try_claim_auto, try_claim_manual).
OneDispatcher ==
    \A r \in Requests : ManualHolds(r) =>
        /\ ~AutoHolds(manual[r].ticket)
        /\ \A q \in Requests \ {r} :
             ManualHolds(q) => manual[q].ticket # manual[r].ticket

\* A ticket in the durable set is never sent to SPX again, across any number
\* of restarts and claim expiries: neither the poller about to fire nor a
\* manual request in the channel carries one (restore_accepted_ids before the
\* first poll, ZSCORE in try_claim_manual).
FireOnlyUnrecorded ==
    /\ task.pc = "fire" => task.ticket \notin accepted_zset
    /\ \A r \in Requests : manual[r].st \in {"waiting", "abandoned"}
          => manual[r].ticket \notin accepted_zset

\* Why the two hold when no call fails.  Whoever works on a ticket owns its
\* claim key; Layer 1 knows every durable win of this process or an earlier
\* one; and a durable win can only appear under the claim of its dispatcher,
\* so that an attempt that passed the dedup checks before the win was recorded
\* finds the key taken (the order of the layers in try_claim_auto,
\* try_claim_manual and finalize_win).
ClaimCoversWork ==
    /\ task.pc \in HoldPc => task.ticket \in claims
    /\ \A r \in Requests : ManualHolds(r) => manual[r].ticket \in claims

Layer1CoversZset ==
    /\ task.pc # "down" => accepted_zset \subseteq accepted_ids
    /\ task.pc = "zadd" => task.ticket \in accepted_ids
    /\ \A r \in Requests :
         manual[r].st = "zadd" => manual[r].ticket \in accepted_ids

WorkIsUnrecorded ==
    /\ task.pc \in HoldPc \ {"consume", "srem", "mark_accepted"}
         => task.ticket \notin accepted_zset
    /\ \A r \in Requests : manual[r].st \in HoldSt \ {"mark_accepted"}
         => manual[r].ticket \notin accepted_zset

LateClaimIsTaken ==
    /\ (task.pc = "claim" /\ task.ticket \in accepted_zset)
         => task.ticket \in claims
    /\ \A r \in Requests :
         (manual[r].st = "claim" /\ manual[r].ticket \in accepted_zset)
             => manual[r].ticket \in claims

DedupInv ==
    ClaimCoversWork /\ Layer1CoversZset /\ WorkIsUnrecorded /\ LateClaimIsTaken

\* The channel carries each request at most once and only while its claim is
\* held, and the answer the task is about to give is for the ticket of the
\* request it gives it to, however many requests gave up in between
\* (ManualAcceptRequest, the select! of spawn_account_loop).
ChannelOK ==
    /\ \A i \in 1..Len(queue) :
         manual[queue[i]].st \in {"waiting", "abandoned"}
    /\ \A i, j \in 1..Len(queue) : queue[i] = queue[j] => i = j
    /\ task.pc = "manual" => /\ queue # <<>>
                             /\ task.ticket = manual[Head(queue)].ticket

\* Whatever either layer records as won, SPX gave to this account, except the
\* wins dispatch_booking declares on an inconclusive agency-dup probe.
WinsAreOurs ==
    \A t \in accepted_ids \cup accepted_zset :
        owner[t] = "us" \/ t \in guessed

\* The in-flight marker of Layer 1 has no TTL, so it may only stand for the
\* attempt the poll task is making now, until its outcome is known; a marker
\* left behind would hide the ticket until the process restarts
\* (dispatch_booking's abort_accept calls).
AcceptingIsCurrent ==
    accepting_now \subseteq
        (IF task.pc \in {"claim", "fire", "answered", "verify"}
         THEN {task.ticket} ELSE {})

\* A capped rule's slot is held from the gate until the quota is charged in
\* Postgres, so that no other ticket passes the gate in between
\* (apply_rule_consumption: persist, then release).
SlotUntilCharged ==
    (Cap > 0 /\ task.pc \in {"fire", "answered", "verify", "zadd", "consume"})
        => task.ticket \in inflight

\* Once its attempt is over, a durable win of the poller is shown as accepted:
\* no later sweep, resurrection or expiry takes it back (finalize_win,
\* run_anti_drift).  A crash within finalize_win may leave it pending.
WinIsShown ==
    crashes = 0 => \A t \in accepted_zset : ~AutoHolds(t) => status[t] = "accepted"

\* The rule never wins more tickets than its cap.
CapNeverExceeded == Cap > 0 => Cardinality(accepted_ids) <= Cap

\* A ticket is charged to the quota at most once, however often the process
\* crashes between the steps of finalize_win (record_durable_accept comes
\* before apply_rule_consumption).
ChargedOnce ==
    [][accepted_count' # accepted_count => task.ticket \notin charged]_vars

\* The one writer that may take an accepted row back: the route, which gives
\* the claim of a lost request back before it writes "failed"
\* (routes/bookings.rs:547, 550).
TakenBack(t) ==
    \E r \in Requests : /\ manual[r].st = "mark_failed"
                        /\ manual[r].ticket = t
                        /\ ManualMark(r)

\* A row shown as accepted stays accepted while no call fails, except when a
\* manual request that lost writes its late "failed" over it: no sweep, expiry,
\* resurrection, second dispatch or restart takes it back, since the poller
\* writes under a claim and the sweeps only touch pending and failed rows
\* (dispatch_booking, run_anti_drift, execute_manual_accept).
WinStaysAccepted ==
    [][\A t \in Tickets : status[t] = "accepted"
          => status'[t] = "accepted" \/ TakenBack(t)]_vars

\* An agency-dup answer for a ticket that is ours is never settled as lost to
\* another agency (verify_agency_dup with ensure_self_email).
OwnWinNeverLost ==
    [][VerifyLost => owner[task.ticket] # "us"]_vars

\* The pipeline implements the lease: the one promise behind OneDispatcher and
\* FireOnlyUnrecorded, as a specification of its own.
Poller == "poller"

Holders == [t \in Tickets |->
    {r \in Requests : ManualHolds(r) /\ manual[r].ticket = t}
        \cup (IF AutoHolds(t) THEN {Poller} ELSE {})]

Lease == INSTANCE DispatchLease
             WITH Dispatchers <- Requests \cup {Poller},
                  holders <- Holders, recorded <- accepted_zset

ImplementsLease == Lease!LeaseSpec

-----------------------------------------------------------------------------
(* Liveness *)

\* The poll task is one tokio task that always runs on, and so do the route's
\* handlers; select! is unbiased, so a queued manual request is not passed
\* over for ever.  A TTL runs out although the key is briefly in use again and
\* again (its guard stands for "600 s is longer than an attempt").  SPX lists
\* a free ticket again and again, and does not answer every accept with an
\* error.
Fairness ==
    /\ WF_vars(TaskStep)
    /\ SF_vars(ServeManual)
    /\ \A r \in Requests : WF_vars(RouteStep(r))
    /\ \A t \in Tickets :
         /\ SF_vars(ClaimTTL(t))
         /\ SF_vars(owner[t] = "free" /\ BeginCycle(Tickets))
         /\ SF_vars(Fire /\ task.ticket = t /\ task'.answer # "retry")
    /\ SF_vars(InflightTTL)

LiveSpec == Spec /\ Fairness

\* A free ticket that stays listed is decided: the pipeline cannot lock
\* itself out with a claim, an in-flight marker or a slot it never gives back.
EveryTicketDecided == \A t \in Tickets : <>(owner[t] # "free")
=============================================================================
