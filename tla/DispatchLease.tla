---------------------------- MODULE DispatchLease ----------------------------
(***************************************************************************)
(* What the accept pipeline promises about a ticket, whatever the number   *)
(* of layers behind it: a ticket is worked on by one dispatcher at a time, *)
(* only its dispatcher can record it as won, and a recorded ticket is      *)
(* never worked on again.  A crash ends all work and forgets no record.    *)
(***************************************************************************)
CONSTANTS
    Tickets,
    Dispatchers   \* who may accept: the poll task, the manual requests

VARIABLES
    holders,  \* the dispatchers working on each ticket
    recorded  \* tickets durably recorded as won

lease == <<holders, recorded>>

LeaseInit ==
    /\ holders = [t \in Tickets |-> {}]
    /\ recorded = {}

Acquire(d, t) ==
    /\ holders[t] = {}
    /\ t \notin recorded
    /\ holders' = [holders EXCEPT ![t] = {d}]
    /\ UNCHANGED recorded

Record(t) ==
    /\ holders[t] # {}
    /\ recorded' = recorded \cup {t}
    /\ UNCHANGED holders

GiveUp(d, t) ==
    /\ holders[t] = {d}
    /\ holders' = [holders EXCEPT ![t] = {}]
    /\ UNCHANGED recorded

AllGiveUp ==
    /\ holders' = [t \in Tickets |-> {}]
    /\ UNCHANGED recorded

LeaseNext ==
    \/ \E t \in Tickets, d \in Dispatchers : Acquire(d, t) \/ GiveUp(d, t)
    \/ \E t \in Tickets : Record(t)
    \/ AllGiveUp

LeaseSpec == LeaseInit /\ [][LeaseNext]_lease
==============================================================================
