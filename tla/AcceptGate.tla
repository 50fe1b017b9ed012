----------------------------- MODULE AcceptGate -----------------------------
(***************************************************************************)
(* The three dedup layers of the executor crate for ONE account: the       *)
(* in-process sets of AccountDedupState (Layer 1), the Redis claim keys    *)
(* and the in-flight set of the account's capped rule (Layer 2), and the   *)
(* durable ZSET of accepted ids (Layer 3).                                 *)
(*                                                                         *)
(* The module has no next-state relation of its own: it gives the          *)
(* executor's operations as actions, and AcceptPipeline composes them into *)
(* the poller's dispatch and the manual-accept route.                      *)
(*                                                                         *)
(* Every Redis operation may fail, while the budget MaxFaults lasts.  A    *)
(* failed call has two outcomes: the server never saw the command, or it   *)
(* ran it and the reply was lost (the 500 ms response timeout of           *)
(* RedisPool::conn).                                                       *)
(***************************************************************************)
EXTENDS Naturals, FiniteSets

CONSTANTS
    Tickets,    \* the spx_ids of the account
    Cap,        \* max_accept_count of the matching rule, 0 = unlimited
    MaxFaults   \* bound: how many Redis, Postgres or probe calls may fail

ASSUME CapAssumption == Cap \in Nat
ASSUME MaxFaultsAssumption == MaxFaults \in Nat

VARIABLES
    accepting_now,  \* Layer 1: tickets being accepted by the poller
    accepted_ids,   \* Layer 1: tickets known to be won
    claims,         \* Layer 2: tickets whose key spx:claim:<acct>:<id> exists
    inflight,       \* Layer 2: members of spx:inflight:<acct>:<rule>
    accepted_zset,  \* Layer 3: members of spx:accepted:<acct>
    faults          \* calls that have failed so far

layer1 == <<accepting_now, accepted_ids>>
redis  == <<claims, inflight, accepted_zset>>

GateTypeOK ==
    /\ accepting_now \subseteq Tickets
    /\ accepted_ids \subseteq Tickets
    /\ claims \subseteq Tickets
    /\ inflight \subseteq Tickets
    /\ accepted_zset \subseteq Tickets
    /\ faults \in Nat

GateInit ==
    /\ accepting_now = {}
    /\ accepted_ids = {}
    /\ claims = {}
    /\ inflight = {}
    /\ accepted_zset = {}
    /\ faults = 0

Succeeds == faults' = faults
Fails    == faults < MaxFaults /\ faults' = faults + 1

-----------------------------------------------------------------------------
(* Layer 1 *)

IsKnown(t) == t \in accepting_now \cup accepted_ids

TryBeginAccept(t) ==
    /\ ~IsKnown(t)
    /\ accepting_now' = accepting_now \cup {t}
    /\ UNCHANGED accepted_ids

AbortAccept(t) ==
    /\ accepting_now' = accepting_now \ {t}
    /\ UNCHANGED accepted_ids

CommitAccept(t) ==
    /\ accepting_now' = accepting_now \ {t}
    /\ accepted_ids' = accepted_ids \cup {t}

-----------------------------------------------------------------------------
(* Layer 2 *)

\* What ACCEPT_GATE_LUA replies for ticket t, called with the rule's
\* accepted_count as the caller last read it.
QuotaFull(t, accepted_count) ==
    /\ Cap > 0
    /\ t \notin inflight
    /\ accepted_count + Cardinality(inflight) >= Cap

GateReply(t, accepted_count) ==
    IF t \in claims THEN "already_claimed"
    ELSE IF QuotaFull(t, accepted_count) THEN "quota_full" ELSE "proceed"

\* The keyspace after the script has run: the claim and the slot are written
\* together, and only when the script lets the ticket through.
GateEffect(t, accepted_count) ==
    IF GateReply(t, accepted_count) = "proceed"
    THEN /\ claims' = claims \cup {t}
         /\ inflight' = IF Cap > 0 THEN inflight \cup {t} ELSE inflight
         /\ UNCHANGED accepted_zset
    ELSE UNCHANGED redis

\* try_claim_auto is fail-closed: an error is a reply of its own, which the
\* caller treats as "do not dispatch" even if the script did run.
TryClaimAuto(t, accepted_count, reply) ==
    \/ /\ Succeeds
       /\ reply = GateReply(t, accepted_count)
       /\ GateEffect(t, accepted_count)
    \/ /\ Fails
       /\ reply = "redis_unavailable"
       /\ GateEffect(t, accepted_count) \/ UNCHANGED redis

\* Variant: a plain SET, without NX.
TryClaimManualWithoutNX(t, reply) ==
    /\ Succeeds
    /\ reply = "ok"
    /\ claims' = claims \cup {t}
    /\ UNCHANGED <<inflight, accepted_zset>>

\* The SET NX EX of try_claim_manual, on the same key.  It is fail-open: an
\* error lets the caller through.  No quota.
TryClaimManual(t, reply) ==
    /\ UNCHANGED <<inflight, accepted_zset>>
    /\ \/ /\ Succeeds
          /\ reply = IF t \in claims THEN "already_accepted" ELSE "ok"
          /\ claims' = claims \cup {t}
       \/ /\ Fails
          /\ reply = "ok"
          /\ claims' \in {claims, claims \cup {t}}

\* release_claim_auto: DEL of the claim, then SREM of the slot when the caller
\* names a rule; each is best effort and neither checks who owns the claim.
ReleaseClaim(t, hasRule) ==
    LET freed == IF hasRule THEN {t} ELSE {}
    IN  /\ UNCHANGED accepted_zset
        /\ \/ /\ Succeeds
              /\ claims' = claims \ {t}
              /\ inflight' = inflight \ freed
           \/ /\ Fails
              /\ claims' \in {claims, claims \ {t}}
              /\ inflight' \in {inflight, inflight \ freed}

\* The SREM that ends apply_rule_consumption.
ReleaseSlot(t) ==
    /\ UNCHANGED <<claims, accepted_zset>>
    /\ \/ Succeeds /\ inflight' = inflight \ {t}
       \/ Fails /\ inflight' \in {inflight, inflight \ {t}}

\* The TTLs of the two keys; AcceptPipeline says when they can have run out.
ClaimExpires(t) ==
    /\ t \in claims
    /\ claims' = claims \ {t}
    /\ UNCHANGED <<inflight, accepted_zset>>

InflightExpires ==
    /\ inflight # {}
    /\ inflight' = {}
    /\ UNCHANGED <<claims, accepted_zset>>

-----------------------------------------------------------------------------
(* Layer 3 *)

RecordDurableAccept(t) ==
    /\ UNCHANGED <<claims, inflight>>
    /\ \/ Succeeds /\ accepted_zset' = accepted_zset \cup {t}
       \/ Fails /\ accepted_zset' \in {accepted_zset, accepted_zset \cup {t}}

\* Variant: the loop starts before the restored ids are in Layer 1.
RestoreNothing ==
    /\ Succeeds
    /\ UNCHANGED <<redis, accepting_now, accepted_ids>>

\* restore_accepted_ids, on the empty Layer 1 of a new process.  An error
\* leaves Layer 1 empty.
RestoreAcceptedIds ==
    /\ UNCHANGED <<redis, accepting_now>>
    /\ \/ Succeeds /\ accepted_ids' = accepted_ids \cup accepted_zset
       \/ Fails /\ UNCHANGED accepted_ids
=============================================================================
