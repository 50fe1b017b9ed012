------------------------ MODULE AcceptPipelineProofs ------------------------
(* Proofs about AcceptPipeline, for every set of tickets and requests, with *)
(* any number of failing calls and crashes.                                *)
EXTENDS AcceptPipeline, SequenceTheorems, TLAPS

(***************************************************************************)
(* Type correctness.  ChannelOK is part of the induction: the ticket of a  *)
(* request in the channel is a ticket only because the request is still    *)
(* waiting or abandoned, and Tail(queue) is a sequence only because the    *)
(* task that answers has a request at the head of the channel.             *)
(***************************************************************************)
Types == TypeOK /\ ChannelOK

LEMMA TypesInit == Init => Types
BY NoTicketAssumption
   DEF Init, GateInit, Types, TypeOK, GateTypeOK, ManualOK, ChannelOK, Pc,
       BusyPc, HoldPc, Answers, Owners, Status, ManualSt, HoldSt

(* The two ways a request moves on keep the table of requests well typed. *)
LEMMA UpdateManual ==
    ASSUME ManualOK, NEW r \in Requests, NEW st \in ManualSt,
           manual[r].ticket \in Tickets, Update(r, st)
    PROVE  /\ ManualOK'
           /\ manual'[r].st = st
           /\ manual'[r].ticket = manual[r].ticket
           /\ \A q \in Requests \ {r} : manual'[q] = manual[q]
BY DEF ManualOK, Update

LEMMA FinishManual ==
    ASSUME ManualOK, NEW r \in Requests, Finish(r)
    PROVE  /\ ManualOK'
           /\ manual'[r].st = "done"
           /\ \A q \in Requests \ {r} : manual'[q] = manual[q]
BY DEF ManualOK, Finish, ManualSt

(* A step of a request that is not in the channel, and leaves the channel  *)
(* and the task alone, keeps the channel in order; so does a step that     *)
(* puts it there.                                                          *)
LEMMA ChannelAside ==
    ASSUME Types, NEW r \in Requests,
           manual[r].st \notin {"waiting", "abandoned"},
           \A q \in Requests \ {r} : manual'[q] = manual[q],
           UNCHANGED <<task, queue>>
    PROVE  ChannelOK'
<1>1. /\ queue \in Seq(Requests)
      /\ \A i \in 1..Len(queue) : queue[i] \in Requests
      /\ queue # <<>> => Head(queue) = queue[1] /\ Len(queue) \in Nat \ {0}
  BY EmptySeq, ElementOfSeq DEF Types, TypeOK
<1>2. \A i \in 1..Len(queue) : manual'[queue[i]] = manual[queue[i]]
  BY <1>1 DEF Types, ChannelOK
<1>. QED
  BY <1>1, <1>2 DEF Types, ChannelOK

LEMMA ChannelEnqueue ==
    ASSUME Types, NEW r \in Requests, manual[r].ticket \in Tickets,
           manual[r].st \notin {"waiting", "abandoned"}, Enqueue(r),
           UNCHANGED task
    PROVE  ManualOK' /\ queue' \in Seq(Requests) /\ ChannelOK'
<1>1. /\ queue \in Seq(Requests)
      /\ \A i \in 1..Len(queue) : queue[i] \in Requests
      /\ queue # <<>> => Head(queue) = queue[1] /\ Len(queue) \in Nat \ {0}
      /\ Len(queue) \in Nat
  BY EmptySeq, ElementOfSeq, LenProperties DEF Types, TypeOK
<1>2. /\ queue' \in Seq(Requests)
      /\ queue' # <<>>
      /\ Len(queue') = Len(queue) + 1
      /\ \A i \in 1..Len(queue) : queue'[i] = queue[i]
      /\ queue'[Len(queue) + 1] = r
  BY <1>1, AppendProperties DEF Enqueue
<1>3. queue # <<>> => Head(queue') = Head(queue)
  BY <1>1, <1>2
<1>4. /\ ManualOK'
      /\ manual'[r].st = "waiting"
      /\ \A q \in Requests \ {r} : manual'[q] = manual[q]
  BY UpdateManual DEF Types, TypeOK, Enqueue, ManualSt, HoldSt
<1>5. \A i \in 1..Len(queue) : queue[i] # r /\ manual'[queue[i]] = manual[queue[i]]
  BY <1>1, <1>4 DEF Types, ChannelOK
<1>6. \A i \in 1..Len(queue') : i \in 1..Len(queue) \/ i = Len(queue) + 1
  BY <1>1, <1>2
<1>7. \A i \in 1..Len(queue') : manual'[queue'[i]].st \in {"waiting", "abandoned"}
  BY <1>2, <1>4, <1>5, <1>6 DEF Types, ChannelOK
<1>8. \A i, j \in 1..Len(queue') : queue'[i] = queue'[j] => i = j
  BY <1>2, <1>5, <1>6 DEF Types, ChannelOK
<1>9. task'.pc = "manual" => /\ queue' # <<>>
                             /\ task'.ticket = manual'[Head(queue')].ticket
  BY <1>1, <1>2, <1>3, <1>5 DEF Types, ChannelOK
<1>. QED
  BY <1>2, <1>4, <1>7, <1>8, <1>9 DEF ChannelOK

LEMMA TypesNext == Types /\ [Next]_vars => Types'
<1> SUFFICES ASSUME Types, [Next]_vars PROVE Types'
  OBVIOUS
<1>a. ASSUME UNCHANGED manual PROVE ManualOK'
  BY <1>a DEF Types, TypeOK, ManualOK
<1>b. ASSUME UNCHANGED <<manual, queue>>, task'.pc # "manual" \/ UNCHANGED task
      PROVE  ChannelOK'
  BY <1>b DEF Types, ChannelOK
<1>c. ManualOK /\ ChannelOK
  BY DEF Types, TypeOK
<1> USE NoTicketAssumption, CapAssumption, MaxFaultsAssumption,
        MaxCrashesAssumption
    DEF Types, TypeOK, GateTypeOK, Pc, BusyPc, HoldPc, Answers, Owners, Status,
        ManualSt, HoldSt, layer1, redis, db, hist, Succeeds, Fails
<1>1. CASE Start
  BY <1>1, <1>a, <1>b DEF Start, RestoreAcceptedIds, Leave
<1>2. ASSUME NEW seen \in SUBSET Tickets, BeginCycle(seen) PROVE Types'
  BY <1>2, <1>a, <1>b DEF BeginCycle, Goto
<1>3. ASSUME NEW t \in Tickets, PollTicket(t) PROVE Types'
  BY <1>3, <1>a, <1>b DEF PollTicket, TryBeginAccept, UpsertRow
<1>4. CASE Claim
  BY <1>4, <1>a, <1>b DEF Claim, TryClaimAuto, GateEffect, AbortAccept, Goto, Leave
<1>5. CASE Fire
  <2>1. PICK answer \in Answers :
          /\ SpxAnswers(task.ticket, answer)
          /\ task' = [task EXCEPT !.pc = "answered", !.answer = answer]
    BY <1>5 DEF Fire
  <2>2. /\ task' \in [pc : Pc, ticket : Tickets \cup {NoTicket}, answer : Answers]
        /\ task'.pc = "answered" /\ task'.ticket = task.ticket
    BY <2>1
  <2>3. owner' \in [Tickets -> Owners]
    BY <2>1 DEF SpxAnswers
  <2>. QED
    BY <1>5, <1>a, <1>b, <2>2, <2>3 DEF Fire
<1>6. CASE HandleOk
  BY <1>6, <1>a, <1>b DEF HandleOk, CommitAccept, Goto
<1>7. CASE HandleDup
  BY <1>7, <1>a, <1>b DEF HandleDup, Goto
<1>8. CASE HandleTaken
  BY <1>8, <1>a, <1>b DEF HandleTaken, AbortAccept, Goto
<1>9. CASE HandleRetry
  BY <1>9, <1>a, <1>b DEF HandleRetry, AbortAccept, Goto
<1>10. CASE VerifyWin
  BY <1>10, <1>a, <1>b DEF VerifyWin, CommitAccept, Goto
<1>11. CASE VerifyLost
  BY <1>11, <1>a, <1>b DEF VerifyLost, AbortAccept, Goto
<1>12. CASE RecordWin
  BY <1>12, <1>a, <1>b DEF RecordWin, RecordDurableAccept, Goto
<1>13. CASE Consume
  BY <1>13, <1>a, <1>b DEF Consume, Goto
<1>14. CASE FreeSlot
  BY <1>14, <1>a, <1>b DEF FreeSlot, ReleaseSlot, Goto
<1>15. CASE MarkAccepted
  BY <1>15, <1>a, <1>b DEF MarkAccepted, SetStatus, Leave
<1>16. CASE MarkFailed
  BY <1>16, <1>a, <1>b DEF MarkFailed, SetStatus, Leave
<1>17. CASE Release
  BY <1>17, <1>a, <1>b DEF Release, ReleaseClaim, Leave
<1>18. CASE EndCycle
  BY <1>18, <1>a, <1>b DEF EndCycle, Goto
<1>19. CASE Resurrect
  <2>1. status' \in [Tickets -> Status]
    BY <1>19 DEF Resurrect
  <2>2. task' \in [pc : Pc, ticket : Tickets \cup {NoTicket}, answer : Answers]
        /\ task'.pc \in {"expire", "select"}
    BY <1>19 DEF Resurrect, Goto
  <2>3. sweep' \in [seen : SUBSET Tickets, todo : SUBSET Tickets]
    BY <1>19 DEF Resurrect
  <2>. QED
    BY <1>19, <1>a, <1>b, <2>1, <2>2, <2>3 DEF Resurrect
<1>20. CASE Expire
  <2>1. status' \in [Tickets -> Status]
    BY <1>20 DEF Expire
  <2>2. task' \in [pc : Pc, ticket : Tickets \cup {NoTicket}, answer : Answers]
        /\ task'.pc = "select"
    BY <1>20 DEF Expire, Goto
  <2>3. sweep' \in [seen : SUBSET Tickets, todo : SUBSET Tickets]
    BY <1>20 DEF Expire
  <2>. QED
    BY <1>20, <1>a, <1>b, <2>1, <2>2, <2>3 DEF Expire
<1>21. CASE ServeManual
  <2>1. Head(queue) \in Requests /\ manual[Head(queue)].ticket \in Tickets
    <3>1. Head(queue) = queue[1] /\ 1 \in 1..Len(queue) /\ queue[1] \in Requests
      BY <1>21, EmptySeq, ElementOfSeq DEF ServeManual
    <3>. QED
      BY <1>c, <3>1 DEF ManualOK, ChannelOK
  <2>2. PICK answer \in Answers :
          /\ SpxAnswers(manual[Head(queue)].ticket, answer)
          /\ task' = [pc |-> "manual", ticket |-> manual[Head(queue)].ticket,
                      answer |-> answer]
    BY <1>21 DEF ServeManual
  <2>3. owner' \in [Tickets -> Owners]
    BY <2>1, <2>2 DEF SpxAnswers
  <2>4. ChannelOK'
    BY <1>21, <1>c, <2>2 DEF ServeManual, ChannelOK
  <2>. QED
    BY <1>21, <1>a, <2>1, <2>2, <2>3, <2>4 DEF ServeManual
<1>22. CASE ReplyManual
  <2> DEFINE r == Head(queue)
  <2>1. /\ r \in Requests
        /\ r = queue[1]
        /\ queue' \in Seq(Requests)
        /\ Len(queue) \in Nat \ {0}
        /\ Len(queue') = Len(queue) - 1
        /\ \A i \in 1..Len(queue') : queue'[i] = queue[i + 1]
    BY <1>22, <1>c, HeadTailProperties, EmptySeq DEF ReplyManual, ChannelOK
  <2>2. manual[r].st \in {"waiting", "abandoned"}
    BY <1>c, <2>1 DEF ChannelOK
  <2>3. /\ ManualOK'
        /\ \A q \in Requests \ {r} : manual'[q] = manual[q]
    <3>1. manual[r].ticket \in Tickets
      BY <1>c, <2>1, <2>2 DEF ManualOK
    <3>. QED
      BY <1>22, <1>c, <2>1, <3>1, UpdateManual, FinishManual DEF ReplyManual
  <2>4. \A i \in 1..Len(queue') : queue'[i] \in Requests \ {r}
    <3>1. \A i \in 1..Len(queue') : i + 1 \in 1..Len(queue) /\ i + 1 # 1
      BY <2>1
    <3>2. \A j \in 1..Len(queue) : queue[j] \in Requests
      BY ElementOfSeq
    <3>. QED
      BY <1>c, <2>1, <3>1, <3>2 DEF ChannelOK
  <2>5. ChannelOK'
    <3>1. \A i \in 1..Len(queue') : i + 1 \in 1..Len(queue) /\ i \in Nat
      BY <2>1
    <3>2. \A i \in 1..Len(queue') : manual'[queue'[i]].st \in {"waiting", "abandoned"}
      BY <1>c, <2>1, <2>3, <2>4, <3>1 DEF ChannelOK
    <3>3. \A i, j \in 1..Len(queue') : queue'[i] = queue'[j] => i = j
      <4> TAKE i, j \in 1..Len(queue')
      <4> HAVE queue'[i] = queue'[j]
      <4>1. i + 1 = j + 1
        BY <1>c, <2>1, <3>1 DEF ChannelOK
      <4>. QED
        BY <3>1, <4>1
    <3>4. task'.pc # "manual"
      BY <1>22 DEF ReplyManual, Leave
    <3>. QED
      BY <3>2, <3>3, <3>4 DEF ChannelOK
  <2>. QED
    BY <1>22, <2>1, <2>3, <2>5 DEF ReplyManual, Leave
<1>23. ASSUME NEW r \in Requests, CheckKnown(r) PROVE Types'
  <2>1. /\ r \in Requests /\ manual[r].ticket \in Tickets
        /\ manual[r].st \notin {"waiting", "abandoned"}
        /\ UNCHANGED <<task, queue>>
    BY <1>23, <1>c DEF CheckKnown, ManualOK
  <2>2. ManualOK' /\ \A q \in Requests \ {r} : manual'[q] = manual[q]
    BY <1>23, <1>c, <2>1, UpdateManual, FinishManual DEF CheckKnown
  <2>3. ChannelOK'
    BY <2>1, <2>2, ChannelAside
  <2>. QED
    BY <1>23, <2>1, <2>2, <2>3 DEF CheckKnown
<1>24. ASSUME NEW r \in Requests, CheckDurable(r) PROVE Types'
  <2>1. r \in Requests /\ manual[r].ticket \in Tickets
    BY <1>24, <1>c DEF CheckDurable, ManualOK
  <2>2. ManualOK' /\ queue' \in Seq(Requests) /\ ChannelOK'
    <3>1. CASE Enqueue(r)
      BY <1>24, <2>1, <3>1, ChannelEnqueue DEF CheckDurable
    <3>2. CASE (Finish(r) \/ Update(r, "claim")) /\ UNCHANGED queue
      <4>1. ManualOK' /\ \A q \in Requests \ {r} : manual'[q] = manual[q]
        BY <1>c, <2>1, <3>2, UpdateManual, FinishManual
      <4>2. ChannelOK'
        BY <1>24, <2>1, <3>2, <4>1, ChannelAside DEF CheckDurable
      <4>. QED
        BY <3>2, <4>1, <4>2
    <3>. QED
      BY <1>24, <3>1, <3>2 DEF CheckDurable
  <2>. QED
    BY <1>24, <2>2 DEF CheckDurable
<1>25. ASSUME NEW r \in Requests, ClaimManual(r) PROVE Types'
  <2>1. r \in Requests /\ manual[r].ticket \in Tickets
    BY <1>25, <1>c DEF ClaimManual, ManualOK
  <2>2. ManualOK' /\ queue' \in Seq(Requests) /\ ChannelOK'
    <3>1. CASE Enqueue(r)
      BY <1>25, <2>1, <3>1, ChannelEnqueue DEF ClaimManual
    <3>2. CASE Finish(r) /\ UNCHANGED queue
      <4>1. ManualOK' /\ \A q \in Requests \ {r} : manual'[q] = manual[q]
        BY <1>c, <2>1, <3>2, FinishManual
      <4>2. ChannelOK'
        BY <1>25, <2>1, <3>2, <4>1, ChannelAside DEF ClaimManual
      <4>. QED
        BY <3>2, <4>1, <4>2
    <3>. QED
      BY <1>25, <3>1, <3>2 DEF ClaimManual
  <2>. QED
    BY <1>25, <2>1, <2>2 DEF ClaimManual, TryClaimManual
<1>26. ASSUME NEW r \in Requests, ManualCommit(r) PROVE Types'
  <2>1. /\ r \in Requests /\ manual[r].ticket \in Tickets
        /\ manual[r].st \notin {"waiting", "abandoned"}
        /\ UNCHANGED <<task, queue>>
    BY <1>26, <1>c DEF ManualCommit, ManualOK
  <2>2. ManualOK' /\ \A q \in Requests \ {r} : manual'[q] = manual[q]
    BY <1>26, <1>c, <2>1, UpdateManual, FinishManual DEF ManualCommit
  <2>3. ChannelOK'
    BY <2>1, <2>2, ChannelAside
  <2>. QED
    BY <1>26, <2>1, <2>2, <2>3 DEF ManualCommit, CommitAccept
<1>27. ASSUME NEW r \in Requests, ManualRecord(r) PROVE Types'
  <2>1. /\ r \in Requests /\ manual[r].ticket \in Tickets
        /\ manual[r].st \notin {"waiting", "abandoned"}
        /\ UNCHANGED <<task, queue>>
    BY <1>27, <1>c DEF ManualRecord, ManualOK
  <2>2. ManualOK' /\ \A q \in Requests \ {r} : manual'[q] = manual[q]
    BY <1>27, <1>c, <2>1, UpdateManual, FinishManual DEF ManualRecord
  <2>3. ChannelOK'
    BY <2>1, <2>2, ChannelAside
  <2>. QED
    BY <1>27, <2>1, <2>2, <2>3 DEF ManualRecord, RecordDurableAccept
<1>28. ASSUME NEW r \in Requests, ManualRelease(r) PROVE Types'
  <2>1. /\ r \in Requests /\ manual[r].ticket \in Tickets
        /\ manual[r].st \notin {"waiting", "abandoned"}
        /\ UNCHANGED <<task, queue>>
    BY <1>28, <1>c DEF ManualRelease, ManualOK
  <2>2. ManualOK' /\ \A q \in Requests \ {r} : manual'[q] = manual[q]
    BY <1>28, <1>c, <2>1, UpdateManual, FinishManual DEF ManualRelease
  <2>3. ChannelOK'
    BY <2>1, <2>2, ChannelAside
  <2>. QED
    BY <1>28, <2>1, <2>2, <2>3 DEF ManualRelease, ReleaseClaim
<1>29. ASSUME NEW r \in Requests, ManualAbort(r) PROVE Types'
  <2>1. /\ r \in Requests /\ manual[r].ticket \in Tickets
        /\ manual[r].st \notin {"waiting", "abandoned"}
        /\ UNCHANGED <<task, queue>>
    BY <1>29, <1>c DEF ManualAbort, ManualOK
  <2>2. ManualOK' /\ \A q \in Requests \ {r} : manual'[q] = manual[q]
    BY <1>29, <1>c, <2>1, UpdateManual, FinishManual DEF ManualAbort
  <2>3. ChannelOK'
    BY <2>1, <2>2, ChannelAside
  <2>. QED
    BY <1>29, <2>1, <2>2, <2>3 DEF ManualAbort, AbortAccept
<1>30. ASSUME NEW r \in Requests, ManualMark(r) PROVE Types'
  <2>1. /\ r \in Requests /\ manual[r].ticket \in Tickets
        /\ manual[r].st \notin {"waiting", "abandoned"}
        /\ UNCHANGED <<task, queue>>
    BY <1>30, <1>c DEF ManualMark, ManualOK
  <2>2. ManualOK' /\ \A q \in Requests \ {r} : manual'[q] = manual[q]
    BY <1>30, <1>c, <2>1, UpdateManual, FinishManual DEF ManualMark
  <2>3. ChannelOK'
    BY <2>1, <2>2, ChannelAside
  <2>. QED
    BY <1>30, <2>1, <2>2, <2>3 DEF ManualMark, SetStatus
<1>31. ASSUME NEW r \in Requests, Timeout(r) PROVE Types'
  <2>1. /\ ManualOK'
        /\ manual'[r].st = "abandoned"
        /\ manual'[r].ticket = manual[r].ticket
        /\ \A q \in Requests \ {r} : manual'[q] = manual[q]
    BY <1>31, <1>c, UpdateManual DEF Timeout, ManualOK
  <2>2. /\ \A i \in 1..Len(queue) : queue[i] \in Requests
        /\ queue # <<>> => Head(queue) \in Requests
    BY ElementOfSeq, HeadTailProperties
  <2>3. ChannelOK'
    BY <1>31, <1>c, <2>1, <2>2 DEF Timeout, ChannelOK
  <2>. QED
    BY <1>31, <2>1, <2>3 DEF Timeout
<1>32. ASSUME NEW r \in Requests, NEW t \in Tickets, Click(r, t) PROVE Types'
  <2>1. ManualOK' /\ \A q \in Requests \ {r} : manual'[q] = manual[q]
    BY <1>32, <1>c DEF Click, ManualOK
  <2>2. ChannelOK'
    BY <1>32, <2>1, ChannelAside DEF Click
  <2>. QED
    BY <1>32, <2>1, <2>2 DEF Click
<1>33. ASSUME NEW t \in Tickets, OthersTake(t) PROVE Types'
  BY <1>33, <1>a, <1>b DEF OthersTake
<1>34. ASSUME NEW t \in Tickets, ClaimTTL(t) PROVE Types'
  BY <1>34, <1>a, <1>b DEF ClaimTTL, ClaimExpires
<1>35. CASE InflightTTL
  BY <1>35, <1>a, <1>b DEF InflightTTL, InflightExpires
<1>36. CASE Crash
  <2>1. ManualOK' /\ ChannelOK'
    BY <1>36, <1>c DEF Crash, Leave, ManualOK, ChannelOK
  <2>. QED
    BY <1>36, <2>1 DEF Crash, Leave
<1>37. CASE UNCHANGED vars
  BY <1>37, <1>a, <1>b DEF vars
<1>. QED
  BY <1>1, <1>2, <1>3, <1>4, <1>5, <1>6, <1>7, <1>8, <1>9, <1>10, <1>11,
     <1>12, <1>13, <1>14, <1>15, <1>16, <1>17, <1>18, <1>19, <1>20,
     <1>21, <1>22, <1>23, <1>24, <1>25, <1>26, <1>27, <1>28, <1>29,
     <1>30, <1>31, <1>32, <1>33, <1>34, <1>35, <1>36, <1>37
     DEF Next, TaskStep, RouteStep

(* Every variable keeps its type: in particular the poll task and the route *)
(* never act on a request or a booking that is not there.                   *)
THEOREM TypeCorrect == Spec => []TypeOK
<1>1. Types => TypeOK
  BY DEF Types
<1>. QED
  BY <1>1, TypesInit, TypesNext, PTL DEF Spec

(* The answer the poll task gives is always for the ticket of the request   *)
(* that gets it, although requests give up and leave theirs in the channel. *)
THEOREM ChannelInOrder == Spec => []ChannelOK
<1>1. Types => ChannelOK
  BY DEF Types
<1>. QED
  BY <1>1, TypesInit, TypesNext, PTL DEF Spec

-----------------------------------------------------------------------------
(* What Layer 1 and Layer 3 contain. *)

(***************************************************************************)
(* A win is recorded on an answer given earlier, perhaps through the       *)
(* channel, so the invariant follows the answer from SPX to the layers.    *)
(* ChannelOK, in Types, is what ties the answer to the request's ticket.   *)
(***************************************************************************)
OkIsOurs(t) == owner[t] = "us"

AnswersAreTrue ==
    /\ (task.pc \in {"answered", "manual"} /\ task.answer = "ok")
         => OkIsOurs(task.ticket)
    /\ task.pc = "zadd" => OkIsOurs(task.ticket) \/ task.ticket \in guessed
    /\ \A r \in Requests : manual[r].st \in {"won", "zadd"}
         => OkIsOurs(manual[r].ticket)

Wins == WinsAreOurs /\ AnswersAreTrue /\ AcceptingIsCurrent

LEMMA WinsInit == Init => Wins
BY DEF Init, GateInit, Wins, WinsAreOurs, AnswersAreTrue, AcceptingIsCurrent

LEMMA WinsNext == ASSUME Types, Wins, [Next]_vars PROVE Wins'
<1>m. ManualOK
  BY DEF Types, TypeOK
<1>o. owner \in [Tickets -> Owners] /\ accepted_ids \cup accepted_zset \subseteq Tickets
  BY DEF Types, TypeOK, GateTypeOK
<1>t. /\ task = [pc |-> task.pc, ticket |-> task.ticket, answer |-> task.answer]
      /\ task.pc \in BusyPc \cup {"manual"} => task.ticket \in Tickets
      /\ \A r \in Requests : manual[r].st \in {"won", "zadd"}
           => manual[r].ticket \in Tickets
  BY DEF Types, TypeOK, ManualOK
<1> USE DEF Wins, WinsAreOurs, AnswersAreTrue, AcceptingIsCurrent, OkIsOurs,
            BusyPc, HoldPc, layer1, redis, db, hist
<1>1. CASE Start
  BY <1>1, <1>t, <1>o DEF Start, RestoreAcceptedIds, Leave
<1>2. ASSUME NEW seen \in SUBSET Tickets, BeginCycle(seen) PROVE Wins'
  BY <1>2, <1>t, <1>o DEF BeginCycle, Goto
<1>3. ASSUME NEW t \in Tickets, PollTicket(t) PROVE Wins'
  BY <1>3, <1>t, <1>o DEF PollTicket, TryBeginAccept
<1>4. CASE Claim
  BY <1>4, <1>t, <1>o DEF Claim, TryClaimAuto, GateEffect, AbortAccept, Goto, Leave
<1>5. CASE Fire
  <2>1. PICK answer \in Answers :
          /\ SpxAnswers(task.ticket, answer)
          /\ task' = [task EXCEPT !.pc = "answered", !.answer = answer]
    BY <1>5 DEF Fire
  <2>2. /\ \A t \in Tickets : owner[t] = "us" => owner'[t] = "us"
        /\ answer = "ok" => owner'[task.ticket] = "us"
    BY <1>5, <1>t, <1>o, <2>1 DEF Fire, SpxAnswers, Owners
  <2>. QED
    BY <1>5, <1>t, <1>o, <2>1, <2>2 DEF Fire
<1>6. CASE HandleOk
  BY <1>6, <1>t, <1>o DEF HandleOk, CommitAccept, Goto
<1>7. CASE HandleDup
  BY <1>7, <1>t, <1>o DEF HandleDup, Goto
<1>8. CASE HandleTaken
  BY <1>8, <1>t, <1>o DEF HandleTaken, AbortAccept, Goto
<1>9. CASE HandleRetry
  BY <1>9, <1>t, <1>o DEF HandleRetry, AbortAccept, Goto
<1>10. CASE VerifyWin
  BY <1>10, <1>t, <1>o DEF VerifyWin, CommitAccept, Goto
<1>11. CASE VerifyLost
  BY <1>11, <1>t, <1>o DEF VerifyLost, AbortAccept, Goto
<1>12. CASE RecordWin
  BY <1>12, <1>t, <1>o DEF RecordWin, RecordDurableAccept, Goto
<1>13. CASE Consume
  BY <1>13, <1>t, <1>o DEF Consume, Goto
<1>14. CASE FreeSlot
  BY <1>14, <1>t, <1>o DEF FreeSlot, ReleaseSlot, Goto
<1>15. CASE MarkAccepted
  BY <1>15, <1>t, <1>o DEF MarkAccepted, Leave
<1>16. CASE MarkFailed
  BY <1>16, <1>t, <1>o DEF MarkFailed, Leave
<1>17. CASE Release
  BY <1>17, <1>t, <1>o DEF Release, ReleaseClaim, Leave
<1>18. CASE EndCycle
  BY <1>18, <1>t, <1>o DEF EndCycle, Goto
<1>19. CASE Resurrect
  BY <1>19, <1>t, <1>o DEF Resurrect, Goto
<1>20. CASE Expire
  BY <1>20, <1>t, <1>o DEF Expire, Goto
<1>21. CASE ServeManual
  <2>1. PICK answer \in Answers :
          /\ SpxAnswers(manual[Head(queue)].ticket, answer)
          /\ task' = [pc |-> "manual", ticket |-> manual[Head(queue)].ticket,
                      answer |-> answer]
    BY <1>21 DEF ServeManual
  <2>2. manual[Head(queue)].ticket \in Tickets
    BY <1>21, TypesNext DEF Types, TypeOK, ServeManual
  <2>3. /\ \A t \in Tickets : owner[t] = "us" => owner'[t] = "us"
        /\ answer = "ok" => owner'[manual[Head(queue)].ticket] = "us"
    BY <1>21, <1>o, <2>1, <2>2 DEF SpxAnswers, Owners
  <2>. QED
    BY <1>21, <1>t, <1>o, <2>1, <2>2, <2>3 DEF ServeManual
<1>22. CASE ReplyManual
  <2>1. PICK r \in Requests : r = Head(queue)
    <3>1. queue \in Seq(Requests) /\ queue # <<>>
      BY <1>22 DEF Types, TypeOK, ChannelOK, ReplyManual
    <3>. QED
      BY <3>1, HeadTailProperties
  <2>2. task.ticket = manual[r].ticket
    BY <1>22, <2>1 DEF Types, ChannelOK, ReplyManual
  <2>3. /\ manual'[r].st = "won" => /\ task.answer = "ok"
                                   /\ manual'[r].ticket = manual[r].ticket
        /\ manual'[r].st # "zadd"
        /\ \A q \in Requests \ {r} : manual'[q] = manual[q]
    BY <1>22, <1>m, <2>1 DEF ReplyManual, Update, Finish, ManualOK
  <2>. QED
    BY <1>22, <1>t, <1>o, <2>1, <2>2, <2>3 DEF ReplyManual, Leave
<1>23. ASSUME NEW r \in Requests, CheckKnown(r) PROVE Wins'
  <2>1. /\ manual'[r].st \in {"won", "zadd"}
              => manual[r].st = "won" /\ manual'[r].ticket = manual[r].ticket
        /\ \A q \in Requests \ {r} : manual'[q] = manual[q]
    BY <1>23, <1>m DEF CheckKnown, Update, Finish, ManualOK
  <2>. QED
    BY <1>23, <1>t, <1>o, <2>1 DEF CheckKnown
<1>24. ASSUME NEW r \in Requests, CheckDurable(r) PROVE Wins'
  <2>1. /\ manual'[r].st \in {"won", "zadd"}
              => manual[r].st = "won" /\ manual'[r].ticket = manual[r].ticket
        /\ \A q \in Requests \ {r} : manual'[q] = manual[q]
    BY <1>24, <1>m DEF CheckDurable, Enqueue, Update, Finish, ManualOK
  <2>. QED
    BY <1>24, <1>t, <1>o, <2>1 DEF CheckDurable
<1>25. ASSUME NEW r \in Requests, ClaimManual(r) PROVE Wins'
  <2>1. /\ manual'[r].st \in {"won", "zadd"}
              => manual[r].st = "won" /\ manual'[r].ticket = manual[r].ticket
        /\ \A q \in Requests \ {r} : manual'[q] = manual[q]
    BY <1>25, <1>m DEF ClaimManual, Enqueue, Update, Finish, ManualOK
  <2>. QED
    BY <1>25, <1>t, <1>o, <2>1 DEF ClaimManual, TryClaimManual
<1>26. ASSUME NEW r \in Requests, ManualCommit(r) PROVE Wins'
  <2>1. /\ manual'[r].st \in {"won", "zadd"}
              => manual[r].st = "won" /\ manual'[r].ticket = manual[r].ticket
        /\ \A q \in Requests \ {r} : manual'[q] = manual[q]
    BY <1>26, <1>m DEF ManualCommit, Update, Finish, ManualOK
  <2>. QED
    BY <1>26, <1>t, <1>o, <2>1 DEF ManualCommit, CommitAccept
<1>27. ASSUME NEW r \in Requests, ManualRecord(r) PROVE Wins'
  <2>1. /\ manual'[r].st \in {"won", "zadd"}
              => manual[r].st = "won" /\ manual'[r].ticket = manual[r].ticket
        /\ \A q \in Requests \ {r} : manual'[q] = manual[q]
    BY <1>27, <1>m DEF ManualRecord, Update, Finish, ManualOK
  <2>. QED
    BY <1>27, <1>t, <1>o, <2>1 DEF ManualRecord, RecordDurableAccept
<1>28. ASSUME NEW r \in Requests, ManualRelease(r) PROVE Wins'
  <2>1. /\ manual'[r].st \in {"won", "zadd"}
              => manual[r].st = "won" /\ manual'[r].ticket = manual[r].ticket
        /\ \A q \in Requests \ {r} : manual'[q] = manual[q]
    BY <1>28, <1>m DEF ManualRelease, Update, Finish, ManualOK
  <2>. QED
    BY <1>28, <1>t, <1>o, <2>1 DEF ManualRelease, ReleaseClaim
<1>29. ASSUME NEW r \in Requests, ManualAbort(r) PROVE Wins'
  <2>1. /\ manual'[r].st \in {"won", "zadd"}
              => manual[r].st = "won" /\ manual'[r].ticket = manual[r].ticket
        /\ \A q \in Requests \ {r} : manual'[q] = manual[q]
    BY <1>29, <1>m DEF ManualAbort, Update, Finish, ManualOK
  <2>. QED
    BY <1>29, <1>t, <1>o, <2>1 DEF ManualAbort, AbortAccept
<1>30. ASSUME NEW r \in Requests, ManualMark(r) PROVE Wins'
  <2>1. /\ manual'[r].st \in {"won", "zadd"}
              => manual[r].st = "won" /\ manual'[r].ticket = manual[r].ticket
        /\ \A q \in Requests \ {r} : manual'[q] = manual[q]
    BY <1>30, <1>m DEF ManualMark, Update, Finish, ManualOK
  <2>. QED
    BY <1>30, <1>t, <1>o, <2>1 DEF ManualMark
<1>31. ASSUME NEW r \in Requests, Timeout(r) PROVE Wins'
  <2>1. /\ manual'[r].st \in {"won", "zadd"}
              => manual[r].st = "won" /\ manual'[r].ticket = manual[r].ticket
        /\ \A q \in Requests \ {r} : manual'[q] = manual[q]
    BY <1>31, <1>m DEF Timeout, Update, Finish, ManualOK
  <2>. QED
    BY <1>31, <1>t, <1>o, <2>1 DEF Timeout
<1>32. ASSUME NEW r \in Requests, NEW t \in Tickets, Click(r, t) PROVE Wins'
  <2>1. /\ manual'[r].st = "known"
        /\ \A q \in Requests \ {r} : manual'[q] = manual[q]
    BY <1>32, <1>m DEF Click, ManualOK
  <2>. QED
    BY <1>32, <1>t, <1>o, <2>1 DEF Click
<1>33. ASSUME NEW t \in Tickets, OthersTake(t) PROVE Wins'
  <2>1. \A u \in Tickets : owner[u] = "us" => owner'[u] = "us"
    BY <1>33, <1>o DEF OthersTake
  <2>. QED
    BY <1>33, <1>t, <1>o, <2>1 DEF OthersTake
<1>34. ASSUME NEW t \in Tickets, ClaimTTL(t) PROVE Wins'
  BY <1>34, <1>t, <1>o DEF ClaimTTL, ClaimExpires
<1>35. CASE InflightTTL
  BY <1>35, <1>t, <1>o DEF InflightTTL, InflightExpires
<1>36. CASE Crash
  BY <1>36, <1>m, <1>o DEF Crash, Leave
<1>37. CASE UNCHANGED vars
  BY <1>37, <1>t, <1>o DEF vars
<1>. QED
  BY <1>1, <1>2, <1>3, <1>4, <1>5, <1>6, <1>7, <1>8, <1>9, <1>10, <1>11,
     <1>12, <1>13, <1>14, <1>15, <1>16, <1>17, <1>18, <1>19, <1>20,
     <1>21, <1>22, <1>23, <1>24, <1>25, <1>26, <1>27, <1>28, <1>29,
     <1>30, <1>31, <1>32, <1>33, <1>34, <1>35, <1>36, <1>37
     DEF Next, TaskStep, RouteStep

LEMMA WinsAlways == Spec => [](Types /\ Wins)
<1>1. Types /\ Wins /\ [Next]_vars => (Types /\ Wins)'
  BY TypesNext, WinsNext
<1>. QED
  BY <1>1, TypesInit, WinsInit, PTL DEF Spec

(* Whatever Layer 1 or the durable set records as won, SPX gave to this       *)
(* account, or dispatch_booking declared it on an inconclusive probe.         *)
THEOREM RecordedWinsAreOurs == Spec => []WinsAreOurs
<1>1. Wins => WinsAreOurs
  BY DEF Wins
<1>. QED
  BY <1>1, WinsAlways, PTL

(* Every path of dispatch_booking takes the ticket out of the in-flight       *)
(* markers of Layer 1 before the task turns to another ticket.                *)
THEOREM NoMarkerLeft == Spec => []AcceptingIsCurrent
<1>1. Wins => AcceptingIsCurrent
  BY DEF Wins
<1>. QED
  BY <1>1, WinsAlways, PTL

-----------------------------------------------------------------------------
(* The slot of a capped rule. *)

(***************************************************************************)
(* SlotUntilCharged is inductive with the types: the only reply that lets  *)
(* the poller fire is that of a script that ran, which put the ticket into *)
(* the in-flight set, and nothing but the poller itself and the TTL takes  *)
(* one out.  So it needs no bound on failing calls.                        *)
(***************************************************************************)
LEMMA SlotNext ==
    ASSUME Types, SlotUntilCharged, [Next]_vars
    PROVE  SlotUntilCharged'
<1>t. /\ task = [pc |-> task.pc, ticket |-> task.ticket, answer |-> task.answer]
      /\ task.pc \in BusyPc => task.ticket \in Tickets
      /\ inflight \subseteq Tickets
  BY DEF Types, TypeOK, GateTypeOK
<1>s. ASSUME UNCHANGED <<task, inflight>> PROVE SlotUntilCharged'
  BY <1>s DEF SlotUntilCharged
<1>p. ASSUME task'.pc \notin {"fire", "answered", "verify", "zadd", "consume"}
      PROVE  SlotUntilCharged'
  BY <1>p DEF SlotUntilCharged
<1>q. ASSUME task.pc \in {"fire", "answered", "verify", "zadd"},
             task'.ticket = task.ticket, UNCHANGED inflight
      PROVE  SlotUntilCharged'
  BY <1>q DEF SlotUntilCharged
<1>1. CASE Start \/ \E seen \in SUBSET Tickets : BeginCycle(seen)
  BY <1>1, <1>t, <1>p DEF Start, BeginCycle, Leave, Goto
<1>2. ASSUME NEW t \in Tickets, PollTicket(t) PROVE SlotUntilCharged'
  BY <1>2, <1>t, <1>s, <1>p DEF PollTicket, redis
<1>3. CASE Claim
  <2>1. CASE task'.pc = "cycle"
    BY <2>1, <1>p
  <2>2. CASE task'.pc # "cycle"
    <3>1. /\ Succeeds /\ GateReply(task.ticket, rule_meta) = "proceed"
          /\ GateEffect(task.ticket, rule_meta)
          /\ task'.ticket = task.ticket
      BY <1>3, <1>t, <2>2 DEF Claim, TryClaimAuto, Goto, Leave
    <3>2. Cap > 0 => task.ticket \in inflight'
      BY <3>1 DEF GateEffect
    <3>. QED
      BY <3>1, <3>2 DEF SlotUntilCharged
  <2>. QED
    BY <2>1, <2>2
<1>4. CASE Fire
  BY <1>4, <1>t, <1>q DEF Fire, redis
<1>5. CASE HandleOk \/ HandleDup \/ VerifyWin
  BY <1>5, <1>t, <1>q DEF HandleOk, HandleDup, VerifyWin, Goto, redis
<1>6. CASE HandleTaken \/ HandleRetry \/ VerifyLost
  BY <1>6, <1>t, <1>p DEF HandleTaken, HandleRetry, VerifyLost, Goto
<1>7. CASE RecordWin
  BY <1>7, <1>t, <1>q DEF RecordWin, RecordDurableAccept, Goto
<1>8. CASE Consume \/ FreeSlot
  BY <1>8, <1>t, <1>p DEF Consume, FreeSlot, Goto
<1>9. CASE MarkAccepted \/ MarkFailed \/ Release
  <2>1. Leave("cycle")
    BY <1>9 DEF MarkAccepted, MarkFailed, Release
  <2>. QED
    BY <2>1, <1>p DEF Leave
<1>10. CASE EndCycle \/ Resurrect \/ Expire
  BY <1>10, <1>t, <1>p DEF EndCycle, Resurrect, Expire, Goto
<1>11. CASE ServeManual \/ ReplyManual
  BY <1>11, <1>t, <1>p DEF ServeManual, ReplyManual, Leave
<1>12. ASSUME NEW r \in Requests, RouteStep(r) PROVE SlotUntilCharged'
  <2>1. UNCHANGED task
    BY <1>12 DEF RouteStep, CheckKnown, CheckDurable, ClaimManual, ManualCommit,
                 ManualRecord, ManualRelease, ManualAbort, ManualMark
  <2>2. UNCHANGED inflight
    BY <1>12 DEF RouteStep, CheckKnown, CheckDurable, ClaimManual, ManualCommit,
                 ManualRecord, ManualRelease, ManualAbort, ManualMark,
                 TryClaimManual, RecordDurableAccept, ReleaseClaim, redis
  <2>. QED
    BY <1>s, <2>1, <2>2
<1>13. ASSUME NEW r \in Requests,
              Timeout(r) \/ \E t \in Tickets : Click(r, t)
       PROVE  SlotUntilCharged'
  BY <1>13, <1>s DEF Timeout, Click, redis
<1>14. ASSUME NEW t \in Tickets, OthersTake(t) \/ ClaimTTL(t)
       PROVE  SlotUntilCharged'
  BY <1>14, <1>s DEF OthersTake, ClaimTTL, ClaimExpires, redis
<1>15. CASE InflightTTL
  BY <1>15, <1>t DEF InflightTTL, SlotUntilCharged, AutoHolds, HoldPc
<1>16. CASE Crash
  BY <1>16, <1>t, <1>p DEF Crash, Leave
<1>17. CASE UNCHANGED vars
  BY <1>17, <1>s DEF vars, redis
<1>. QED
  BY <1>1, <1>2, <1>3, <1>4, <1>5, <1>6, <1>7, <1>8, <1>9, <1>10, <1>11,
     <1>12, <1>13, <1>14, <1>15, <1>16, <1>17 DEF Next, TaskStep

(* The slot the gate gave a ticket stays taken until the quota is charged,   *)
(* whatever calls fail and however often the process crashes, so that no     *)
(* other ticket of the capped rule passes the gate in between                *)
(* (apply_rule_consumption: persist, then release).                          *)
THEOREM SlotsAreHeld == Spec => []SlotUntilCharged
<1>1. Init => SlotUntilCharged
  BY DEF Init, SlotUntilCharged
<1>2. Types /\ SlotUntilCharged /\ [Next]_vars => (Types /\ SlotUntilCharged)'
  BY TypesNext, SlotNext
<1>. QED
  BY <1>1, <1>2, TypesInit, PTL DEF Spec

-----------------------------------------------------------------------------
(* The dedup layers: when no call fails, one dispatcher a ticket, and no    *)
(* ticket dispatched again once recorded.                                   *)

(***************************************************************************)
(* The inductive invariant is DedupInv with OneDispatcher.  MaxFaults = 0  *)
(* is needed: try_claim_manual lets a request through when Redis fails.    *)
(***************************************************************************)
Dedup == DedupInv /\ OneDispatcher

LEMMA DedupInit == Init => Dedup
BY DEF Init, GateInit, Dedup, DedupInv, OneDispatcher, ClaimCoversWork,
       Layer1CoversZset, WorkIsUnrecorded, LateClaimIsTaken, ManualHolds,
       AutoHolds, HoldPc, HoldSt

LEMMA HeadOfChannel ==
    ASSUME Types, task.pc = "manual"
    PROVE  /\ Head(queue) \in Requests
           /\ manual[Head(queue)].st \in {"waiting", "abandoned"}
<1>1. /\ queue \in Seq(Requests) /\ queue # <<>>
  BY DEF Types, TypeOK, ChannelOK
<1>2. Head(queue) = queue[1] /\ 1 \in 1..Len(queue)
  BY <1>1, EmptySeq
<1>3. Head(queue) \in Requests
  BY <1>1, HeadTailProperties
<1>4. \A i \in 1..Len(queue) : manual[queue[i]].st \in {"waiting", "abandoned"}
  BY DEF Types, ChannelOK
<1>. QED
  BY <1>2, <1>3, <1>4

LEMMA DedupNext ==
    ASSUME MaxFaults = 0, Types, Dedup, [Next]_vars
    PROVE  Dedup'
<1>f. ~Fails
  BY DEF Types, TypeOK, GateTypeOK, Fails
<1>t. task = [pc |-> task.pc, ticket |-> task.ticket, answer |-> task.answer]
  BY DEF Types, TypeOK
<1>m. ManualOK
  BY DEF Types, TypeOK
<1> USE <1>f
    DEF Dedup, DedupInv, OneDispatcher, ClaimCoversWork, Layer1CoversZset,
        WorkIsUnrecorded, LateClaimIsTaken, ManualHolds, AutoHolds, HoldPc,
        HoldSt, BusyPc, layer1, redis, db, hist
<1>1. CASE Start
  BY <1>1 DEF Start, RestoreAcceptedIds, Leave
<1>2. ASSUME NEW seen \in SUBSET Tickets, BeginCycle(seen) PROVE Dedup'
  BY <1>2, <1>t DEF BeginCycle, Goto
<1>3. ASSUME NEW t \in Tickets, PollTicket(t) PROVE Dedup'
  BY <1>3 DEF PollTicket, TryBeginAccept, IsKnown
<1>4. CASE Claim
  BY <1>4, <1>t DEF Claim, TryClaimAuto, GateEffect, GateReply, AbortAccept, Goto, Leave
<1>5. CASE Fire
  BY <1>5, <1>t DEF Fire
<1>6. CASE HandleOk
  BY <1>6, <1>t DEF HandleOk, CommitAccept, Goto
<1>7. CASE HandleDup
  BY <1>7, <1>t DEF HandleDup, Goto
<1>8. CASE HandleTaken
  BY <1>8, <1>t DEF HandleTaken, AbortAccept, Goto
<1>9. CASE HandleRetry
  BY <1>9, <1>t DEF HandleRetry, AbortAccept, Goto
<1>10. CASE VerifyWin
  BY <1>10, <1>t DEF VerifyWin, CommitAccept, Goto
<1>11. CASE VerifyLost
  BY <1>11, <1>t DEF VerifyLost, AbortAccept, Goto
<1>12. CASE RecordWin
  BY <1>12, <1>t DEF RecordWin, RecordDurableAccept, Goto
<1>13. CASE Consume
  BY <1>13, <1>t DEF Consume, Goto
<1>14. CASE FreeSlot
  BY <1>14, <1>t DEF FreeSlot, ReleaseSlot, Goto
<1>15. CASE MarkAccepted
  BY <1>15, <1>t DEF MarkAccepted, Leave
<1>16. CASE MarkFailed
  BY <1>16, <1>t DEF MarkFailed, Leave
<1>17. CASE Release
  BY <1>17, <1>t DEF Release, ReleaseClaim, Leave
<1>18. CASE EndCycle
  BY <1>18, <1>t DEF EndCycle, Goto
<1>19. CASE Resurrect
  BY <1>19, <1>t DEF Resurrect, Goto
<1>20. CASE Expire
  BY <1>20, <1>t DEF Expire, Goto
<1>21. CASE ServeManual
  BY <1>21 DEF ServeManual
<1>22. CASE ReplyManual
  <2> DEFINE r == Head(queue)
  <2>1. r \in Requests /\ manual[r].st \in {"waiting", "abandoned"}
    BY <1>22, HeadOfChannel DEF ReplyManual
  <2>2. /\ manual'[r].st \in {"won", "lost", "done"}
        /\ manual'[r].st # "done" => manual'[r].ticket = manual[r].ticket
        /\ \A q \in Requests \ {r} : manual'[q] = manual[q]
    BY <1>22, <1>m, <2>1, UpdateManual, FinishManual
       DEF ReplyManual, ManualOK, ManualSt
  <2>. QED
    BY <1>22, <2>1, <2>2 DEF ReplyManual, Leave
<1>23. ASSUME NEW r \in Requests, CheckKnown(r) PROVE Dedup'
  <2>1. /\ manual'[r].st \in {"durable", "done"}
        /\ manual'[r].st # "done" => manual'[r].ticket = manual[r].ticket
        /\ \A q \in Requests \ {r} : manual'[q] = manual[q]
    BY <1>23, <1>m, UpdateManual, FinishManual
       DEF CheckKnown, ManualOK, ManualSt
  <2>. QED
    BY <1>23, <2>1 DEF CheckKnown
<1>24. ASSUME NEW r \in Requests, CheckDurable(r) PROVE Dedup'
  <2>1. /\ manual'[r].st \in {"claim", "done"}
        /\ manual'[r].st # "done" => manual'[r].ticket = manual[r].ticket
        /\ \A q \in Requests \ {r} : manual'[q] = manual[q]
        /\ manual'[r].st = "claim" => manual[r].ticket \notin accepted_zset
    BY <1>24, <1>m, UpdateManual, FinishManual
       DEF CheckDurable, ManualOK, ManualSt
  <2>. QED
    BY <1>24, <2>1 DEF CheckDurable
<1>25. ASSUME NEW r \in Requests, ClaimManual(r) PROVE Dedup'
  <2>1. /\ manual'[r].st \in {"waiting", "done"}
        /\ manual'[r].st # "done" => manual'[r].ticket = manual[r].ticket
        /\ \A q \in Requests \ {r} : manual'[q] = manual[q]
        /\ manual'[r].st = "waiting" => manual[r].ticket \notin claims
    BY <1>25, <1>m, UpdateManual, FinishManual
       DEF ClaimManual, TryClaimManual, Enqueue, ManualOK, ManualSt
  <2>. QED
    BY <1>25, <2>1 DEF ClaimManual, TryClaimManual
<1>26. ASSUME NEW r \in Requests, ManualCommit(r) PROVE Dedup'
  <2>1. /\ manual'[r].st \in {"zadd"}
        /\ manual'[r].st # "done" => manual'[r].ticket = manual[r].ticket
        /\ \A q \in Requests \ {r} : manual'[q] = manual[q]
    BY <1>26, <1>m, UpdateManual, FinishManual
       DEF ManualCommit, ManualOK, ManualSt
  <2>. QED
    BY <1>26, <2>1 DEF ManualCommit, CommitAccept
<1>27. ASSUME NEW r \in Requests, ManualRecord(r) PROVE Dedup'
  <2>1. /\ manual'[r].st \in {"mark_accepted"}
        /\ manual'[r].st # "done" => manual'[r].ticket = manual[r].ticket
        /\ \A q \in Requests \ {r} : manual'[q] = manual[q]
    BY <1>27, <1>m, UpdateManual, FinishManual
       DEF ManualRecord, ManualOK, ManualSt
  <2>. QED
    BY <1>27, <2>1 DEF ManualRecord, RecordDurableAccept
<1>28. ASSUME NEW r \in Requests, ManualRelease(r) PROVE Dedup'
  <2>1. /\ manual'[r].st \in {"abort"}
        /\ manual'[r].st # "done" => manual'[r].ticket = manual[r].ticket
        /\ \A q \in Requests \ {r} : manual'[q] = manual[q]
    BY <1>28, <1>m, UpdateManual, FinishManual
       DEF ManualRelease, ManualOK, ManualSt
  <2>. QED
    BY <1>28, <2>1 DEF ManualRelease, ReleaseClaim
<1>29. ASSUME NEW r \in Requests, ManualAbort(r) PROVE Dedup'
  <2>1. /\ manual'[r].st \in {"mark_failed"}
        /\ manual'[r].st # "done" => manual'[r].ticket = manual[r].ticket
        /\ \A q \in Requests \ {r} : manual'[q] = manual[q]
    BY <1>29, <1>m, UpdateManual, FinishManual
       DEF ManualAbort, ManualOK, ManualSt
  <2>. QED
    BY <1>29, <2>1 DEF ManualAbort, AbortAccept
<1>30. ASSUME NEW r \in Requests, ManualMark(r) PROVE Dedup'
  <2>1. /\ manual'[r].st \in {"done"}
        /\ manual'[r].st # "done" => manual'[r].ticket = manual[r].ticket
        /\ \A q \in Requests \ {r} : manual'[q] = manual[q]
    BY <1>30, <1>m, UpdateManual, FinishManual
       DEF ManualMark, ManualOK, ManualSt
  <2>. QED
    BY <1>30, <2>1 DEF ManualMark
<1>31. ASSUME NEW r \in Requests, Timeout(r) PROVE Dedup'
  <2>1. /\ manual'[r].st \in {"abandoned"}
        /\ manual'[r].st # "done" => manual'[r].ticket = manual[r].ticket
        /\ \A q \in Requests \ {r} : manual'[q] = manual[q]
    BY <1>31, <1>m, UpdateManual, FinishManual
       DEF Timeout, ManualOK, ManualSt
  <2>. QED
    BY <1>31, <2>1 DEF Timeout
<1>32. ASSUME NEW r \in Requests, NEW t \in Tickets, Click(r, t) PROVE Dedup'
  <2>1. /\ manual'[r].st = "known"
        /\ \A q \in Requests \ {r} : manual'[q] = manual[q]
    BY <1>32, <1>m DEF Click, ManualOK
  <2>. QED
    BY <1>32, <2>1 DEF Click
<1>33. ASSUME NEW t \in Tickets, OthersTake(t) PROVE Dedup'
  BY <1>33 DEF OthersTake
<1>34. ASSUME NEW t \in Tickets, ClaimTTL(t) PROVE Dedup'
  BY <1>34 DEF ClaimTTL, ClaimExpires
<1>35. CASE InflightTTL
  BY <1>35 DEF InflightTTL, InflightExpires
<1>36. CASE Crash
  BY <1>36, <1>m DEF Crash, Leave
<1>37. CASE UNCHANGED vars
  BY <1>37 DEF vars
<1>. QED
  BY <1>1, <1>2, <1>3, <1>4, <1>5, <1>6, <1>7, <1>8, <1>9, <1>10, <1>11,
     <1>12, <1>13, <1>14, <1>15, <1>16, <1>17, <1>18, <1>19, <1>20,
     <1>21, <1>22, <1>23, <1>24, <1>25, <1>26, <1>27, <1>28, <1>29,
     <1>30, <1>31, <1>32, <1>33, <1>34, <1>35, <1>36, <1>37
     DEF Next, TaskStep, RouteStep

LEMMA DedupAlways == ASSUME MaxFaults = 0 PROVE Spec => [](Types /\ Dedup)
<1>1. Types /\ Dedup /\ [Next]_vars => (Types /\ Dedup)'
  BY TypesNext, DedupNext
<1>. QED
  BY <1>1, TypesInit, DedupInit, PTL DEF Spec

\* When no call fails, the claims, Layer 1 and the durable set stay consistent
\* with what the poller and the manual requests are doing (the order of the
\* layers in try_claim_auto, try_claim_manual and finalize_win).
THEOREM LayersHold == ASSUME MaxFaults = 0 PROVE Spec => []DedupInv
<1>1. Dedup => DedupInv
  BY DEF Dedup
<1>. QED
  BY <1>1, DedupAlways, PTL

(* While no call fails, the poller and the people clicking accept never work *)
(* on the same ticket at once.                                               *)
THEOREM Serialised == ASSUME MaxFaults = 0 PROVE Spec => []OneDispatcher
<1>1. Dedup => OneDispatcher
  BY DEF Dedup
<1>. QED
  BY <1>1, DedupAlways, PTL

(* While no call fails, no ticket of the durable set is sent to SPX again,   *)
(* across any number of crashes, restarts and claim expiries.                *)
THEOREM NeverAgain == ASSUME MaxFaults = 0 PROVE Spec => []FireOnlyUnrecorded
<1>1. Dedup => FireOnlyUnrecorded
  BY DEF Dedup, DedupInv, WorkIsUnrecorded, FireOnlyUnrecorded, HoldPc, HoldSt
<1>. QED
  BY <1>1, DedupAlways, PTL

-----------------------------------------------------------------------------
(***************************************************************************)
(* The books: what the quota and bookings.status say of a win.  The durable *)
(* record comes first in finalize_win and in the route, so whatever was    *)
(* charged or shown as accepted is in the durable set, and WorkIsUnrecorded *)
(* keeps those tickets away from another attempt.                          *)
(***************************************************************************)
WonPc == {"consume", "srem", "mark_accepted"}

Recorded ==
    /\ charged \subseteq accepted_zset
    /\ task.pc = "consume" => task.ticket \notin charged
    /\ task.pc \in WonPc => task.ticket \in accepted_zset
    /\ \A r \in Requests : manual[r].st = "mark_accepted"
         => manual[r].ticket \in accepted_zset
    /\ \A t \in Tickets : status[t] = "accepted" => t \in accepted_zset

AcceptedRowsKept ==
    \A t \in Tickets : status[t] = "accepted"
        => status'[t] = "accepted" \/ TakenBack(t)

(* What a step of a request does to the request. *)
LEMMA RouteMoves ==
    ASSUME Types, NEW r \in Requests, RouteStep(r)
    PROVE  /\ UNCHANGED <<task, charged>>
           /\ \A q \in Requests \ {r} : manual'[q] = manual[q]
           /\ \/ ManualMark(r)
              \/ /\ UNCHANGED status
                 /\ manual'[r].st = "mark_accepted" =>
                      ManualRecord(r) /\ manual'[r].ticket = manual[r].ticket
           /\ ManualRecord(r) \/ UNCHANGED accepted_zset
<1>m. ManualOK
  BY DEF Types, TypeOK
<1>t. manual[r].st \notin {"idle", "done"} => manual[r].ticket \in Tickets
  BY <1>m DEF ManualOK
<1> USE DEF redis, db, hist, layer1
<1>1. CASE CheckKnown(r)
  BY <1>1, <1>m, <1>t, UpdateManual, FinishManual DEF CheckKnown, ManualSt
<1>2. CASE CheckDurable(r)
  BY <1>2, <1>m, <1>t, UpdateManual, FinishManual
     DEF CheckDurable, Enqueue, ManualSt, HoldSt
<1>3. CASE ClaimManual(r)
  BY <1>3, <1>m, <1>t, UpdateManual, FinishManual
     DEF ClaimManual, TryClaimManual, Enqueue, ManualSt, HoldSt
<1>4. CASE ManualCommit(r)
  BY <1>4, <1>m, <1>t, UpdateManual DEF ManualCommit, ManualSt, HoldSt
<1>5. CASE ManualRecord(r)
  BY <1>5, <1>m, <1>t, UpdateManual DEF ManualRecord, ManualSt, HoldSt
<1>6. CASE ManualRelease(r)
  BY <1>6, <1>m, <1>t, UpdateManual
     DEF ManualRelease, ReleaseClaim, ManualSt, HoldSt
<1>7. CASE ManualAbort(r)
  BY <1>7, <1>m, <1>t, UpdateManual DEF ManualAbort, ManualSt
<1>8. CASE ManualMark(r)
  BY <1>8, <1>m, <1>t, FinishManual DEF ManualMark
<1>. QED
  BY <1>1, <1>2, <1>3, <1>4, <1>5, <1>6, <1>7, <1>8 DEF RouteStep

(* A step that charges, records and wins nothing. *)
LEMMA RecordedQuiet ==
    ASSUME Recorded, UNCHANGED <<charged, accepted_zset>>,
           task'.pc \notin WonPc \/ UNCHANGED task,
           \A r \in Requests : manual'[r].st = "mark_accepted"
               => manual'[r] = manual[r],
           \A t \in Tickets : status'[t] = "accepted" => status[t] = "accepted"
    PROVE  Recorded'
BY DEF Recorded, WonPc

LEMMA RecordedNext ==
    ASSUME MaxFaults = 0, Types, Dedup, Recorded, [Next]_vars
    PROVE  Recorded'
<1>f. ~Fails
  BY DEF Types, TypeOK, GateTypeOK, Fails
<1>t. /\ task = [pc |-> task.pc, ticket |-> task.ticket, answer |-> task.answer]
      /\ status \in [Tickets -> Status]
      /\ task.pc \in BusyPc => task.ticket \in Tickets
      /\ \A r \in Requests : manual[r].st \notin {"idle", "done"}
           => manual[r].ticket \in Tickets
  BY DEF Types, TypeOK, ManualOK
<1> USE <1>f, RecordedQuiet DEF redis, db, hist
<1>1. CASE Start \/ \E seen \in SUBSET Tickets : BeginCycle(seen)
  BY <1>1, <1>t DEF Start, RestoreAcceptedIds, BeginCycle, Leave, Goto, WonPc
<1>2. ASSUME NEW t \in Tickets, PollTicket(t) PROVE Recorded'
  <2>1. task'.pc \notin WonPc
    BY <1>2, <1>t DEF PollTicket, WonPc
  <2>2. \A u \in Tickets : status'[u] = "accepted" => status[u] = "accepted"
    BY <1>2, <1>t DEF PollTicket, UpsertRow
  <2>. QED
    BY <1>2, <2>1, <2>2 DEF PollTicket
<1>3. CASE Claim
  BY <1>3, <1>t DEF Claim, TryClaimAuto, GateEffect, Goto, Leave, WonPc
<1>4. CASE Fire
  BY <1>4, <1>t DEF Fire, WonPc
<1>5. CASE HandleOk \/ HandleDup \/ HandleTaken \/ HandleRetry
  BY <1>5, <1>t DEF HandleOk, HandleDup, HandleTaken, HandleRetry, Goto, WonPc
<1>6. CASE VerifyWin \/ VerifyLost
  BY <1>6, <1>t DEF VerifyWin, VerifyLost, Goto, WonPc
<1>7. CASE RecordWin
  <2>1. /\ task.pc = "zadd" /\ task'.pc = "consume" /\ task'.ticket = task.ticket
        /\ accepted_zset' = accepted_zset \cup {task.ticket}
        /\ UNCHANGED <<charged, status, manual>>
    BY <1>7, <1>t DEF RecordWin, RecordDurableAccept, Goto
  <2>2. task.ticket \notin charged
    BY <2>1 DEF Dedup, DedupInv, WorkIsUnrecorded, HoldPc, Recorded
  <2>. QED
    BY <2>1, <2>2 DEF Recorded, WonPc
<1>8. CASE Consume
  <2>1. /\ task.pc = "consume" /\ task'.pc \in {"srem", "mark_accepted"}
        /\ task'.ticket = task.ticket
        /\ charged' \subseteq charged \cup {task.ticket}
        /\ UNCHANGED <<accepted_zset, status, manual>>
    BY <1>8, <1>t DEF Consume, Goto
  <2>. QED
    BY <2>1 DEF Recorded, WonPc
<1>9. CASE FreeSlot
  <2>1. /\ task.pc = "srem" /\ task'.pc = "mark_accepted"
        /\ task'.ticket = task.ticket
        /\ UNCHANGED <<accepted_zset, charged, status, manual>>
    BY <1>9, <1>t DEF FreeSlot, ReleaseSlot, Goto
  <2>. QED
    BY <2>1 DEF Recorded, WonPc
<1>10. CASE MarkAccepted
  <2>1. /\ task.pc = "mark_accepted" /\ task'.pc = "cycle"
        /\ UNCHANGED <<accepted_zset, charged, manual>>
        /\ \A t \in Tickets : status'[t] = "accepted"
             => status[t] = "accepted" \/ t = task.ticket
    BY <1>10, <1>t DEF MarkAccepted, SetStatus, Leave
  <2>. QED
    BY <2>1 DEF Recorded, WonPc
<1>11. CASE MarkFailed
  BY <1>11, <1>t DEF MarkFailed, SetStatus, Leave, WonPc
<1>12. CASE Release
  BY <1>12, <1>t DEF Release, ReleaseClaim, Leave, WonPc
<1>13. CASE EndCycle
  BY <1>13, <1>t DEF EndCycle, Goto, WonPc
<1>14. CASE Resurrect \/ Expire
  <2>1. task'.pc \notin WonPc
    BY <1>14, <1>t DEF Resurrect, Expire, Goto, WonPc
  <2>2. \A u \in Tickets : status'[u] = "accepted" => status[u] = "accepted"
    BY <1>14, <1>t DEF Resurrect, Expire
  <2>. QED
    BY <1>14, <2>1, <2>2 DEF Resurrect, Expire
<1>15. CASE ServeManual
  BY <1>15 DEF ServeManual, WonPc
<1>16. CASE ReplyManual
  <2> DEFINE r == Head(queue)
  <2>1. r \in Requests
    BY <1>16, HeadOfChannel DEF ReplyManual
  <2>2. /\ manual'[r].st # "mark_accepted"
        /\ \A q \in Requests \ {r} : manual'[q] = manual[q]
    BY <1>16, <2>1 DEF ReplyManual, Update, Finish, Types, TypeOK, ManualOK
  <2>. QED
    BY <1>16, <2>2 DEF ReplyManual, Leave, WonPc
<1>17. ASSUME NEW r \in Requests, RouteStep(r) PROVE Recorded'
  <2>1. /\ UNCHANGED <<task, charged>>
        /\ \A q \in Requests \ {r} : manual'[q] = manual[q]
    BY <1>17, RouteMoves
  <2>2. CASE ManualRecord(r)
    <3>1. /\ accepted_zset' = accepted_zset \cup {manual[r].ticket}
          /\ manual'[r].ticket = manual[r].ticket
          /\ UNCHANGED status
      BY <2>2 DEF ManualRecord, RecordDurableAccept, Update, Types, TypeOK, ManualOK
    <3>. QED
      BY <2>1, <3>1 DEF Recorded
  <2>3. CASE ManualMark(r)
    <3>1. /\ manual'[r].st = "done" /\ UNCHANGED accepted_zset
          /\ \A t \in Tickets : status'[t] = "accepted"
               => \/ status[t] = "accepted"
                  \/ manual[r].st = "mark_accepted" /\ t = manual[r].ticket
      BY <2>3, <1>t DEF ManualMark, SetStatus, Finish, Types, TypeOK, ManualOK
    <3>. QED
      BY <2>1, <3>1 DEF Recorded
  <2>4. CASE ~ManualRecord(r) /\ ~ManualMark(r)
    <3>1. /\ UNCHANGED <<status, accepted_zset>>
          /\ manual'[r].st # "mark_accepted"
      BY <1>17, <2>4, RouteMoves
    <3>. QED
      BY <2>1, <3>1
  <2>. QED
    BY <2>2, <2>3, <2>4
<1>18. ASSUME NEW r \in Requests,
              Timeout(r) \/ \E t \in Tickets : Click(r, t)
       PROVE  Recorded'
  <2>1. /\ manual'[r].st \in {"abandoned", "known"}
        /\ \A q \in Requests \ {r} : manual'[q] = manual[q]
    BY <1>18 DEF Timeout, Click, Update, Types, TypeOK, ManualOK
  <2>. QED
    BY <1>18, <2>1 DEF Timeout, Click
<1>19. ASSUME NEW t \in Tickets, OthersTake(t) \/ ClaimTTL(t) PROVE Recorded'
  BY <1>19 DEF OthersTake, ClaimTTL, ClaimExpires
<1>20. CASE InflightTTL
  BY <1>20 DEF InflightTTL, InflightExpires
<1>21. CASE Crash
  <2>1. \A r \in Requests : manual'[r].st # "mark_accepted"
    BY <1>21 DEF Crash, Types, TypeOK, ManualOK
  <2>. QED
    BY <1>21, <2>1 DEF Crash, Leave, WonPc
<1>22. CASE UNCHANGED vars
  BY <1>22 DEF vars
<1>. QED
  BY <1>1, <1>2, <1>3, <1>4, <1>5, <1>6, <1>7, <1>8, <1>9, <1>10, <1>11,
     <1>12, <1>13, <1>14, <1>15, <1>16, <1>17, <1>18, <1>19, <1>20,
     <1>21, <1>22 DEF Next, TaskStep

LEMMA RecordedAlways ==
    ASSUME MaxFaults = 0 PROVE Spec => [](Types /\ Dedup /\ Recorded)
<1>1. Init => Recorded
  BY DEF Init, GateInit, Recorded, WonPc
<1>2. Types /\ Dedup /\ Recorded /\ [Next]_vars => (Types /\ Dedup /\ Recorded)'
  BY TypesNext, DedupNext, RecordedNext
<1>. QED
  BY <1>1, <1>2, TypesInit, DedupInit, PTL DEF Spec

(* While no call fails, no ticket is charged to the quota twice, however     *)
(* often the process crashes between the steps of finalize_win.              *)
THEOREM QuotaChargedOnce == ASSUME MaxFaults = 0 PROVE Spec => ChargedOnce
<1>1. ASSUME Types, Recorded, [Next]_vars, accepted_count' # accepted_count
      PROVE  task.ticket \notin charged
  <2>1. Consume
    BY <1>1, RouteMoves, Zenon
       DEF Next, TaskStep, Start, BeginCycle, PollTicket, Claim, Fire, HandleOk,
           HandleDup, HandleTaken, HandleRetry, VerifyWin, VerifyLost, RecordWin,
           FreeSlot, MarkAccepted, MarkFailed, Release, EndCycle, Resurrect,
           Expire, ServeManual, ReplyManual, RouteStep, CheckKnown, CheckDurable,
           ClaimManual, ManualCommit, ManualRecord, ManualRelease, ManualAbort,
           ManualMark, Timeout, Click, OthersTake, ClaimTTL, InflightTTL, Crash,
           vars, db
  <2>2. task.pc = "consume"
    BY <2>1 DEF Consume
  <2>3. task.pc = "consume" => task.ticket \notin charged
    BY <1>1 DEF Recorded
  <2>. QED
    BY <2>2, <2>3
<1>2. Types /\ Recorded /\ [Next]_vars
        => [accepted_count' # accepted_count => task.ticket \notin charged]_vars
  BY <1>1
<1>. QED
  BY <1>2, RecordedAlways, PTL DEF Spec, ChargedOnce

(* Where a row changes. *)
LEMMA AcceptedKept ==
    ASSUME MaxFaults = 0, Types, Dedup, Recorded, [Next]_vars
    PROVE  AcceptedRowsKept
<1>f. ~Fails
  BY DEF Types, TypeOK, GateTypeOK, Fails
<1>t. /\ status \in [Tickets -> Status]
      /\ task.pc \in BusyPc => task.ticket \in Tickets
  BY DEF Types, TypeOK
<1>q. ASSUME UNCHANGED status PROVE AcceptedRowsKept
  BY <1>q DEF AcceptedRowsKept
<1>1. ASSUME NEW t \in Tickets, PollTicket(t) PROVE AcceptedRowsKept
  BY <1>1, <1>t, <1>f DEF PollTicket, UpsertRow, AcceptedRowsKept
<1>2. CASE MarkAccepted
  BY <1>2, <1>t, <1>f DEF MarkAccepted, SetStatus, AcceptedRowsKept
<1>3. CASE MarkFailed
  <2>1. task.pc = "mark_failed" /\ task.ticket \notin accepted_zset
    BY <1>3 DEF MarkFailed, Dedup, DedupInv, WorkIsUnrecorded, HoldPc
  <2>2. status[task.ticket] # "accepted"
    BY <2>1, <1>t DEF Recorded, BusyPc, HoldPc
  <2>. QED
    BY <1>3, <1>t, <1>f, <2>2 DEF MarkFailed, SetStatus, AcceptedRowsKept
<1>4. CASE Resurrect \/ Expire
  BY <1>4, <1>t DEF Resurrect, Expire, AcceptedRowsKept
<1>5. ASSUME NEW r \in Requests, ManualMark(r) PROVE AcceptedRowsKept
  <2>1. manual[r].ticket \in Tickets /\ \A t \in Tickets \ {manual[r].ticket} :
          status'[t] = status[t]
    BY <1>5, <1>t, <1>f DEF ManualMark, SetStatus, Types, TypeOK, ManualOK
  <2>2. CASE manual[r].st = "mark_accepted"
    <3>1. status[manual[r].ticket] = "accepted"
            => status'[manual[r].ticket] = "accepted"
      BY <1>5, <1>t, <1>f, <2>1, <2>2 DEF ManualMark, SetStatus
    <3>. QED
      BY <2>1, <3>1 DEF AcceptedRowsKept
  <2>3. CASE manual[r].st = "mark_failed"
    BY <1>5, <2>1, <2>3 DEF AcceptedRowsKept, TakenBack
  <2>. QED
    BY <1>5, <2>2, <2>3 DEF ManualMark
<1>6. CASE \/ Start \/ \E seen \in SUBSET Tickets : BeginCycle(seen)
           \/ Claim \/ Fire \/ HandleOk \/ HandleDup \/ HandleTaken
           \/ HandleRetry \/ VerifyWin \/ VerifyLost \/ RecordWin \/ Consume
           \/ FreeSlot \/ Release \/ EndCycle \/ ServeManual \/ ReplyManual
  BY <1>6, <1>q
     DEF Start, BeginCycle, Claim, Fire, HandleOk, HandleDup, HandleTaken,
         HandleRetry, VerifyWin, VerifyLost, RecordWin, Consume, FreeSlot,
         Release, EndCycle, ServeManual, ReplyManual, db
<1>7. ASSUME NEW r \in Requests,
             RouteStep(r) \/ Timeout(r) \/ \E t \in Tickets : Click(r, t)
      PROVE  AcceptedRowsKept
  BY <1>7, <1>5, <1>q, RouteMoves DEF Timeout, Click, db
<1>8. ASSUME NEW t \in Tickets, OthersTake(t) \/ ClaimTTL(t)
      PROVE  AcceptedRowsKept
  BY <1>8, <1>q DEF OthersTake, ClaimTTL, db
<1>9. CASE InflightTTL \/ Crash \/ UNCHANGED vars
  BY <1>9, <1>q DEF InflightTTL, Crash, vars, db
<1>. QED
  BY <1>1, <1>2, <1>3, <1>4, <1>6, <1>7, <1>8, <1>9 DEF Next, TaskStep

(* While no call fails, an accepted row is only ever taken back by a manual  *)
(* request that lost: it has given its claim back, another dispatcher has    *)
(* won the ticket since, and the request then writes "failed" over the win   *)
(* (routes/bookings.rs:544-552).                                             *)
THEOREM OnlyALostClickTakesBack ==
    ASSUME MaxFaults = 0 PROVE Spec => WinStaysAccepted
<1>1. AcceptedRowsKept
        => \A t \in Tickets : status[t] = "accepted"
              => status'[t] = "accepted" \/ TakenBack(t)
  BY DEF AcceptedRowsKept
<1>2. Types /\ Dedup /\ Recorded /\ [Next]_vars
        => [\A t \in Tickets : status[t] = "accepted"
              => status'[t] = "accepted" \/ TakenBack(t)]_vars
  BY <1>1, AcceptedKept
<1>. QED
  BY <1>2, RecordedAlways, PTL DEF Spec, WinStaysAccepted

(* A ticket the task works on has a row, since its upsert did not fail; that *)
(* is why the status of its win is not lost on a row that is missing.        *)
Listed == task.pc \in BusyPc => status[task.ticket] # "unseen"

Shown == Listed /\ WinIsShown

LEMMA ShownNext ==
    ASSUME MaxFaults = 0, Requests = {}, Types, Dedup, Recorded, Shown,
           [Next]_vars
    PROVE  Shown'
<1>f. ~Fails
  BY DEF Types, TypeOK, GateTypeOK, Fails
<1>t. /\ task = [pc |-> task.pc, ticket |-> task.ticket, answer |-> task.answer]
      /\ status \in [Tickets -> Status]
      /\ task.pc \in BusyPc => task.ticket \in Tickets
      /\ accepted_zset \subseteq Tickets
      /\ crashes \in Nat
  BY DEF Types, TypeOK, GateTypeOK
<1>k. AcceptedRowsKept /\ \A t \in Tickets : ~TakenBack(t)
  BY AcceptedKept DEF TakenBack
<1>s. \A t \in Tickets : status[t] = "accepted" => status'[t] = "accepted"
  BY <1>k DEF AcceptedRowsKept
<1>u. ASSUME UNCHANGED <<crashes, accepted_zset>>,
             \A t \in accepted_zset : AutoHolds(t) => AutoHolds(t)'
      PROVE  WinIsShown'
  BY <1>u, <1>s, <1>t DEF Shown, WinIsShown
<1>h. ASSUME task'.ticket = task.ticket, task'.pc \in HoldPc
      PROVE  \A t \in accepted_zset : AutoHolds(t) => AutoHolds(t)'
  BY <1>h DEF AutoHolds
<1>l. ASSUME task.pc \in BusyPc, task'.ticket = task.ticket, UNCHANGED status
      PROVE  Listed'
  BY <1>l DEF Shown, Listed
<1>n. ASSUME task'.pc \notin BusyPc PROVE Listed'
  BY <1>n DEF Listed
<1>a. ASSUME task.pc \notin HoldPc
      PROVE  \A t \in accepted_zset : AutoHolds(t) => AutoHolds(t)'
  BY <1>a DEF AutoHolds
<1>w. ASSUME task.pc \in {"release", "mark_failed"}
      PROVE  \A t \in accepted_zset : AutoHolds(t) => AutoHolds(t)'
  BY <1>w DEF AutoHolds, Dedup, DedupInv, WorkIsUnrecorded, HoldPc
<1> USE <1>f DEF Shown, redis, db, hist, BusyPc
<1>1. CASE Start \/ \E seen \in SUBSET Tickets : BeginCycle(seen)
  <2>1. /\ task.pc \notin HoldPc /\ task'.pc \in {"poll", "cycle"}
        /\ UNCHANGED <<crashes, accepted_zset>>
    BY <1>1, <1>t DEF Start, BeginCycle, RestoreAcceptedIds, Leave, Goto, HoldPc
  <2>. QED
    BY <2>1, <1>u, <1>a, <1>n DEF HoldPc
<1>2. ASSUME NEW t \in Tickets, PollTicket(t) PROVE Shown'
  <2>1. /\ task.pc \notin HoldPc
        /\ UNCHANGED <<crashes, accepted_zset>>
    BY <1>2, <1>t DEF PollTicket, HoldPc
  <2>2. status'[t] # "unseen"
    BY <1>2, <1>t DEF PollTicket, UpsertRow
  <2>3. Listed'
    BY <1>2, <2>2 DEF PollTicket, Listed, HoldPc
  <2>. QED
    BY <2>1, <2>3, <1>u, <1>a
<1>3. CASE Claim
  <2>1. /\ task.pc = "claim" /\ UNCHANGED <<crashes, accepted_zset, status>>
        /\ \/ task'.pc = "fire" /\ task'.ticket = task.ticket
           \/ task'.pc = "cycle"
    BY <1>3, <1>t DEF Claim, TryClaimAuto, GateEffect, Goto, Leave
  <2>. QED
    BY <2>1, <1>u, <1>a, <1>l, <1>n DEF HoldPc
<1>4. CASE \/ Fire \/ HandleOk \/ HandleDup \/ HandleTaken \/ HandleRetry
           \/ VerifyWin \/ VerifyLost \/ Consume \/ FreeSlot
  <2>1. task.pc \in HoldPc /\ task'.pc \in HoldPc /\ task'.ticket = task.ticket
    BY <1>4, <1>t DEF Fire, HandleOk, HandleDup, HandleTaken, HandleRetry,
                      VerifyWin, VerifyLost, Consume, FreeSlot, Goto, HoldPc
  <2>2. UNCHANGED <<crashes, accepted_zset, status>>
    BY <1>4 DEF Fire, HandleOk, HandleDup, HandleTaken, HandleRetry,
                VerifyWin, VerifyLost, Consume, FreeSlot, ReleaseSlot
  <2>. QED
    BY <2>1, <2>2, <1>u, <1>h, <1>l
<1>5. CASE RecordWin
  <2>1. /\ task.pc = "zadd" /\ task'.pc = "consume" /\ task'.ticket = task.ticket
        /\ accepted_zset' = accepted_zset \cup {task.ticket}
        /\ UNCHANGED <<crashes, status>>
    BY <1>5, <1>t DEF RecordWin, RecordDurableAccept, Goto
  <2>2. WinIsShown'
    BY <2>1, <1>s, <1>t DEF WinIsShown, AutoHolds, HoldPc
  <2>. QED
    BY <2>1, <2>2, <1>l DEF HoldPc
<1>6. CASE MarkAccepted
  <2>1. /\ task.pc = "mark_accepted" /\ task'.pc = "cycle"
        /\ UNCHANGED <<crashes, accepted_zset>>
        /\ status'[task.ticket] = "accepted"
    BY <1>6, <1>t DEF MarkAccepted, SetStatus, Leave, Listed, HoldPc
  <2>2. WinIsShown'
    BY <2>1, <1>s, <1>t DEF WinIsShown, AutoHolds
  <2>. QED
    BY <2>1, <2>2, <1>n DEF HoldPc
<1>7. CASE MarkFailed \/ Release
  <2>1. /\ task.pc \in {"release", "mark_failed"} /\ task'.pc = "cycle"
        /\ UNCHANGED <<crashes, accepted_zset>>
    BY <1>7 DEF MarkFailed, Release, ReleaseClaim, Leave
  <2>. QED
    BY <2>1, <1>u, <1>w, <1>n DEF HoldPc
<1>8. CASE EndCycle \/ Resurrect \/ Expire \/ ServeManual \/ ReplyManual
  <2>1. /\ task.pc \in {"cycle", "resurrect", "expire", "select", "manual"}
        /\ task'.pc \in {"resurrect", "expire", "select", "manual", "poll"}
    BY <1>8, <1>t DEF EndCycle, Resurrect, Expire, ServeManual, ReplyManual,
                      Leave, Goto
  <2>2. UNCHANGED <<crashes, accepted_zset>>
    BY <1>8 DEF EndCycle, Resurrect, Expire, ServeManual, ReplyManual
  <2>. QED
    BY <2>1, <2>2, <1>u, <1>a, <1>n DEF HoldPc
<1>9. ASSUME NEW t \in Tickets, OthersTake(t) \/ ClaimTTL(t) PROVE Shown'
  <2>1. UNCHANGED <<task, crashes, accepted_zset, status>>
    BY <1>9 DEF OthersTake, ClaimTTL, ClaimExpires
  <2>. QED
    BY <2>1, <1>u DEF Listed, AutoHolds
<1>10. CASE InflightTTL \/ UNCHANGED vars
  <2>1. UNCHANGED <<task, crashes, accepted_zset, status>>
    BY <1>10 DEF InflightTTL, InflightExpires, vars
  <2>. QED
    BY <2>1, <1>u DEF Listed, AutoHolds
<1>11. CASE Crash
  <2>1. crashes' # 0 /\ task'.pc = "down"
    BY <1>11, <1>t DEF Crash, Leave
  <2>. QED
    BY <2>1, <1>n DEF WinIsShown, HoldPc
<1>. QED
  BY <1>1, <1>2, <1>3, <1>4, <1>5, <1>6, <1>7, <1>8, <1>9, <1>10, <1>11
     DEF Next, TaskStep

(* While no call fails and nobody clicks, a durable win of the poller is     *)
(* shown as accepted from the end of its attempt on, in every process that   *)
(* never crashed (finalize_win, run_anti_drift).                             *)
THEOREM WinsAreShown ==
    ASSUME MaxFaults = 0, Requests = {} PROVE Spec => []WinIsShown
<1>1. Init => Shown
  BY DEF Init, GateInit, Shown, Listed, WinIsShown, BusyPc, HoldPc
<1>2. Types /\ Dedup /\ Recorded /\ Shown /\ [Next]_vars => Shown'
  BY ShownNext
<1>3. Shown => WinIsShown
  BY DEF Shown
<1>. QED
  BY <1>1, <1>2, <1>3, RecordedAlways, PTL DEF Spec

-----------------------------------------------------------------------------
(***************************************************************************)
(* The refinement: each step of the pipeline takes, gives up or records a  *)
(* ticket, or does none of it.  The three lemmas say how Holders changes   *)
(* when one dispatcher does.                                               *)
(***************************************************************************)
AutoSame   == \A t \in Tickets : AutoHolds(t)' <=> AutoHolds(t)
ManualSame(Rs) ==
    \A r \in Rs : /\ (ManualHolds(r)' <=> ManualHolds(r))
                  /\ ManualHolds(r) => manual'[r].ticket = manual[r].ticket

LEMMA HoldersSame ==
    ASSUME AutoSame, ManualSame(Requests)
    PROVE  Holders' = Holders
BY DEF AutoSame, ManualSame, Holders

LEMMA Stutters ==
    ASSUME AutoSame, ManualSame(Requests), UNCHANGED accepted_zset
    PROVE  UNCHANGED Lease!lease
BY HoldersSame DEF Lease!lease

LEMMA Records ==
    ASSUME NEW t \in Tickets, AutoSame, ManualSame(Requests),
           accepted_zset' = accepted_zset \cup {t},
           AutoHolds(t) \/ \E r \in Requests :
                               ManualHolds(r) /\ manual[r].ticket = t
    PROVE  Lease!LeaseNext
<1>1. Holders' = Holders
  BY HoldersSame
<1>2. Holders[t] # {}
  BY DEF Holders
<1>. QED
  BY <1>1, <1>2 DEF Lease!LeaseNext, Lease!Record

LEMMA PollerTakes ==
    ASSUME NEW t \in Tickets, ManualSame(Requests), UNCHANGED accepted_zset,
           \A u \in Tickets : ~AutoHolds(u),
           \A u \in Tickets : AutoHolds(u)' <=> (u = t),
           \A r \in Requests : ManualHolds(r) => manual[r].ticket # t,
           t \notin accepted_zset
    PROVE  Lease!LeaseNext
<1>1. Holders[t] = {}
  BY DEF Holders
<1>2. Holders' = [Holders EXCEPT ![t] = {Poller}]
  BY DEF Holders, ManualSame
<1>. QED
  BY <1>1, <1>2 DEF Lease!LeaseNext, Lease!Acquire

LEMMA PollerGivesUp ==
    ASSUME NEW t \in Tickets, ManualSame(Requests), UNCHANGED accepted_zset,
           \A u \in Tickets : AutoHolds(u) <=> (u = t),
           \A u \in Tickets : ~AutoHolds(u)',
           \A r \in Requests : ManualHolds(r) => manual[r].ticket # t
    PROVE  Lease!LeaseNext
<1>1. Holders[t] = {Poller}
  BY DEF Holders
<1>2. Holders' = [Holders EXCEPT ![t] = {}]
  BY DEF Holders, ManualSame
<1>. QED
  BY <1>1, <1>2 DEF Lease!LeaseNext, Lease!GiveUp

LEMMA RequestTakes ==
    ASSUME NEW r \in Requests, NEW t \in Tickets, AutoSame,
           ManualSame(Requests \ {r}), UNCHANGED accepted_zset,
           ~ManualHolds(r), ManualHolds(r)', manual'[r].ticket = t,
           ~AutoHolds(t),
           \A q \in Requests : ManualHolds(q) => manual[q].ticket # t,
           t \notin accepted_zset
    PROVE  Lease!LeaseNext
<1>1. Holders[t] = {}
  BY DEF Holders
<1>2. Holders' = [Holders EXCEPT ![t] = {r}]
  BY DEF Holders, ManualSame, AutoSame
<1>. QED
  BY <1>1, <1>2 DEF Lease!LeaseNext, Lease!Acquire

LEMMA RequestGivesUp ==
    ASSUME NEW r \in Requests, NEW t \in Tickets, AutoSame,
           ManualSame(Requests \ {r}), UNCHANGED accepted_zset,
           ManualHolds(r), ~ManualHolds(r)', manual[r].ticket = t,
           OneDispatcher
    PROVE  Lease!LeaseNext
<1>1. Holders[t] = {r}
  BY DEF Holders, OneDispatcher
<1>2. Holders'[t] = {}
  BY DEF Holders, ManualSame, AutoSame, OneDispatcher
<1>3. ASSUME NEW u \in Tickets \ {t} PROVE Holders'[u] = Holders[u]
  BY DEF Holders, ManualSame, AutoSame
<1>4. Holders' = [Holders EXCEPT ![t] = {}]
  BY <1>2, <1>3 DEF Holders
<1>. QED
  BY <1>1, <1>4 DEF Lease!LeaseNext, Lease!GiveUp

LEMMA LeaseStep ==
    ASSUME MaxFaults = 0, Types, Dedup, [Next]_vars
    PROVE  [Lease!LeaseNext]_(Lease!lease)
<1>f. ~Fails
  BY DEF Types, TypeOK, GateTypeOK, Fails
<1>m. ManualOK
  BY DEF Types, TypeOK
<1>t. /\ task = [pc |-> task.pc, ticket |-> task.ticket, answer |-> task.answer]
      /\ task.pc \in BusyPc => task.ticket \in Tickets
  BY DEF Types, TypeOK
<1>q. ASSUME UNCHANGED manual PROVE ManualSame(Requests)
  BY <1>q DEF ManualSame, ManualHolds
<1>a. ASSUME UNCHANGED task PROVE AutoSame
  BY <1>a DEF AutoSame, AutoHolds
<1>b. ASSUME UNCHANGED task, NEW r \in Requests, UNCHANGED accepted_zset,
             (ManualHolds(r)' <=> ManualHolds(r)),
             manual'[r].ticket = manual[r].ticket \/ ~ManualHolds(r),
             \A q \in Requests \ {r} : manual'[q] = manual[q]
      PROVE  UNCHANGED Lease!lease
  BY <1>a, <1>b, Stutters DEF ManualSame, ManualHolds
<1>1. CASE Start
  <2>1. AutoSame
    BY <1>1, <1>f, <1>t DEF Start, RestoreAcceptedIds, Leave, AutoSame, AutoHolds, HoldPc, layer1, redis
  <2>. QED
    BY <1>1, <1>f, <1>q, <2>1, Stutters DEF Start, RestoreAcceptedIds, Leave, layer1, redis
<1>2. ASSUME NEW seen \in SUBSET Tickets, BeginCycle(seen)
      PROVE  UNCHANGED Lease!lease
  <2>1. AutoSame
    BY <1>2, <1>f, <1>t DEF BeginCycle, Goto, AutoSame, AutoHolds, HoldPc, layer1, redis
  <2>. QED
    BY <1>2, <1>f, <1>q, <2>1, Stutters DEF BeginCycle, Goto, layer1, redis
<1>3. ASSUME NEW t \in Tickets, PollTicket(t)
      PROVE  UNCHANGED Lease!lease
  <2>1. AutoSame
    BY <1>3, <1>f, <1>t DEF PollTicket, AutoSame, AutoHolds, HoldPc, layer1, redis
  <2>. QED
    BY <1>3, <1>f, <1>q, <2>1, Stutters DEF PollTicket, layer1, redis
<1>4. CASE Claim
  <2>1. UNCHANGED <<manual, accepted_zset>> /\ task.pc = "claim"
    BY <1>4 DEF Claim, TryClaimAuto, GateEffect, redis
  <2>2. CASE task'.pc = "fire"
    <3>1. /\ task.ticket \in Tickets
          /\ task.ticket \notin claims
          /\ task'.ticket = task.ticket
      BY <1>4, <1>f, <1>t, <2>2
         DEF Claim, TryClaimAuto, GateReply, Goto, Leave, BusyPc
    <3>2. /\ task.ticket \notin accepted_zset
          /\ \A r \in Requests : ManualHolds(r) => manual[r].ticket # task.ticket
      BY <2>1, <3>1 DEF Dedup, DedupInv, LateClaimIsTaken, ClaimCoversWork
    <3>3. /\ \A u \in Tickets : ~AutoHolds(u)
          /\ \A u \in Tickets : AutoHolds(u)' <=> (u = task.ticket)
      BY <2>1, <2>2, <3>1 DEF AutoHolds, HoldPc
    <3>. QED
      BY <1>q, <2>1, <3>1, <3>2, <3>3, PollerTakes
  <2>3. CASE task'.pc # "fire"
    <3>1. task'.pc = "cycle"
      BY <1>4, <1>t, <2>3 DEF Claim, Goto, Leave
    <3>2. AutoSame
      BY <2>1, <3>1 DEF AutoSame, AutoHolds, HoldPc
    <3>. QED
      BY <1>q, <2>1, <3>2, Stutters
  <2>. QED
    BY <2>2, <2>3
<1>5. CASE Fire
  <2>1. AutoSame
    BY <1>5, <1>f, <1>t DEF Fire, AutoSame, AutoHolds, HoldPc, layer1, redis
  <2>. QED
    BY <1>5, <1>f, <1>q, <2>1, Stutters DEF Fire, layer1, redis
<1>6. CASE HandleOk
  <2>1. AutoSame
    BY <1>6, <1>f, <1>t DEF HandleOk, Goto, AutoSame, AutoHolds, HoldPc, layer1, redis
  <2>. QED
    BY <1>6, <1>f, <1>q, <2>1, Stutters DEF HandleOk, Goto, layer1, redis
<1>7. CASE HandleDup
  <2>1. AutoSame
    BY <1>7, <1>f, <1>t DEF HandleDup, Goto, AutoSame, AutoHolds, HoldPc, layer1, redis
  <2>. QED
    BY <1>7, <1>f, <1>q, <2>1, Stutters DEF HandleDup, Goto, layer1, redis
<1>8. CASE HandleTaken
  <2>1. AutoSame
    BY <1>8, <1>f, <1>t DEF HandleTaken, Goto, AutoSame, AutoHolds, HoldPc, layer1, redis
  <2>. QED
    BY <1>8, <1>f, <1>q, <2>1, Stutters DEF HandleTaken, Goto, layer1, redis
<1>9. CASE HandleRetry
  <2>1. AutoSame
    BY <1>9, <1>f, <1>t DEF HandleRetry, Goto, AutoSame, AutoHolds, HoldPc, layer1, redis
  <2>. QED
    BY <1>9, <1>f, <1>q, <2>1, Stutters DEF HandleRetry, Goto, layer1, redis
<1>10. CASE VerifyWin
  <2>1. AutoSame
    BY <1>10, <1>f, <1>t DEF VerifyWin, Goto, AutoSame, AutoHolds, HoldPc, layer1, redis
  <2>. QED
    BY <1>10, <1>f, <1>q, <2>1, Stutters DEF VerifyWin, Goto, layer1, redis
<1>11. CASE VerifyLost
  <2>1. AutoSame
    BY <1>11, <1>f, <1>t DEF VerifyLost, Goto, AutoSame, AutoHolds, HoldPc, layer1, redis
  <2>. QED
    BY <1>11, <1>f, <1>q, <2>1, Stutters DEF VerifyLost, Goto, layer1, redis
<1>12. CASE RecordWin
  <2>1. /\ task.pc = "zadd" /\ task'.pc = "consume" /\ task'.ticket = task.ticket
        /\ task.ticket \in Tickets
        /\ accepted_zset' = accepted_zset \cup {task.ticket}
        /\ UNCHANGED manual
    BY <1>12, <1>f, <1>t DEF RecordWin, RecordDurableAccept, Goto, BusyPc, HoldPc
  <2>2. AutoSame /\ AutoHolds(task.ticket)
    BY <2>1 DEF AutoSame, AutoHolds, HoldPc
  <2>. QED
    BY <1>q, <2>1, <2>2, Records
<1>13. CASE Consume
  <2>1. AutoSame
    BY <1>13, <1>f, <1>t DEF Consume, Goto, AutoSame, AutoHolds, HoldPc, layer1, redis
  <2>. QED
    BY <1>13, <1>f, <1>q, <2>1, Stutters DEF Consume, Goto, layer1, redis
<1>14. CASE FreeSlot
  <2>1. AutoSame
    BY <1>14, <1>f, <1>t DEF FreeSlot, ReleaseSlot, Goto, AutoSame, AutoHolds, HoldPc, layer1, redis
  <2>. QED
    BY <1>14, <1>f, <1>q, <2>1, Stutters DEF FreeSlot, ReleaseSlot, Goto, layer1, redis
<1>15. CASE MarkAccepted
  <2>1. /\ task.pc \in HoldPc /\ task'.pc = "cycle" /\ task.ticket \in Tickets
        /\ UNCHANGED <<manual, accepted_zset>>
    BY <1>15, <1>t DEF MarkAccepted, Leave, BusyPc, HoldPc, redis
  <2>2. \A r \in Requests : ManualHolds(r) => manual[r].ticket # task.ticket
    BY <2>1 DEF Dedup, OneDispatcher, AutoHolds
  <2>3. /\ \A u \in Tickets : AutoHolds(u) <=> (u = task.ticket)
        /\ \A u \in Tickets : ~AutoHolds(u)'
    BY <2>1 DEF AutoHolds, HoldPc
  <2>. QED
    BY <1>q, <2>1, <2>2, <2>3, PollerGivesUp
<1>16. CASE MarkFailed
  <2>1. /\ task.pc \in HoldPc /\ task'.pc = "cycle" /\ task.ticket \in Tickets
        /\ UNCHANGED <<manual, accepted_zset>>
    BY <1>16, <1>t DEF MarkFailed, Leave, BusyPc, HoldPc, redis
  <2>2. \A r \in Requests : ManualHolds(r) => manual[r].ticket # task.ticket
    BY <2>1 DEF Dedup, OneDispatcher, AutoHolds
  <2>3. /\ \A u \in Tickets : AutoHolds(u) <=> (u = task.ticket)
        /\ \A u \in Tickets : ~AutoHolds(u)'
    BY <2>1 DEF AutoHolds, HoldPc
  <2>. QED
    BY <1>q, <2>1, <2>2, <2>3, PollerGivesUp
<1>17. CASE Release
  <2>1. /\ task.pc \in HoldPc /\ task'.pc = "cycle" /\ task.ticket \in Tickets
        /\ UNCHANGED <<manual, accepted_zset>>
    BY <1>17, <1>t DEF Release, ReleaseClaim, Leave, BusyPc, HoldPc, redis
  <2>2. \A r \in Requests : ManualHolds(r) => manual[r].ticket # task.ticket
    BY <2>1 DEF Dedup, OneDispatcher, AutoHolds
  <2>3. /\ \A u \in Tickets : AutoHolds(u) <=> (u = task.ticket)
        /\ \A u \in Tickets : ~AutoHolds(u)'
    BY <2>1 DEF AutoHolds, HoldPc
  <2>. QED
    BY <1>q, <2>1, <2>2, <2>3, PollerGivesUp
<1>18. CASE EndCycle
  <2>1. AutoSame
    BY <1>18, <1>f, <1>t DEF EndCycle, Goto, AutoSame, AutoHolds, HoldPc, layer1, redis
  <2>. QED
    BY <1>18, <1>f, <1>q, <2>1, Stutters DEF EndCycle, Goto, layer1, redis
<1>19. CASE Resurrect
  <2>1. AutoSame
    BY <1>19, <1>f, <1>t DEF Resurrect, Goto, AutoSame, AutoHolds, HoldPc, layer1, redis
  <2>. QED
    BY <1>19, <1>f, <1>q, <2>1, Stutters DEF Resurrect, Goto, layer1, redis
<1>20. CASE Expire
  <2>1. AutoSame
    BY <1>20, <1>f, <1>t DEF Expire, Goto, AutoSame, AutoHolds, HoldPc, layer1, redis
  <2>. QED
    BY <1>20, <1>f, <1>q, <2>1, Stutters DEF Expire, Goto, layer1, redis
<1>21. CASE ServeManual
  <2>1. AutoSame
    BY <1>21, <1>f, <1>t DEF ServeManual, AutoSame, AutoHolds, HoldPc, layer1, redis
  <2>. QED
    BY <1>21, <1>f, <1>q, <2>1, Stutters DEF ServeManual, layer1, redis
<1>22. CASE ReplyManual
  <2>0. PICK r : r = Head(queue)
    OBVIOUS
  <2>1. r \in Requests /\ manual[r].st \in {"waiting", "abandoned"}
    BY <1>22, <2>0, HeadOfChannel DEF ReplyManual
  <2>2. /\ manual[r].st = "waiting" =>
             /\ manual'[r].st \in {"won", "lost"}
             /\ manual'[r].ticket = manual[r].ticket
        /\ manual[r].st = "abandoned" => manual'[r].st = "done"
        /\ \A q \in Requests \ {r} : manual'[q] = manual[q]
        /\ manual[r].ticket \in Tickets
    BY <1>22, <1>m, <2>0, <2>1, UpdateManual, FinishManual
       DEF ReplyManual, ManualOK, ManualSt, HoldSt
  <2>3. AutoSame /\ UNCHANGED accepted_zset
    BY <1>22 DEF ReplyManual, Leave, AutoSame, AutoHolds, HoldPc, redis
  <2>4. CASE manual[r].st = "waiting"
    <3>1. ManualSame(Requests)
      BY <2>1, <2>2, <2>4 DEF ManualSame, ManualHolds, HoldSt
    <3>. QED
      BY <2>3, <3>1, Stutters
  <2>5. CASE manual[r].st = "abandoned"
    <3>1. ManualSame(Requests \ {r})
      BY <2>1, <2>2 DEF ManualSame, ManualHolds
    <3>2. ManualHolds(r) /\ ~ManualHolds(r)'
      BY <2>2, <2>5 DEF ManualHolds, HoldSt
    <3>. QED
      BY <2>1, <2>2, <2>3, <3>1, <3>2, RequestGivesUp DEF Dedup
  <2>. QED
    BY <2>1, <2>4, <2>5
<1>23. ASSUME NEW r \in Requests, CheckKnown(r) PROVE UNCHANGED Lease!lease
  <2>1. /\ manual'[r].ticket = manual[r].ticket \/ ~ManualHolds(r)
        /\ (ManualHolds(r)' <=> ManualHolds(r))
        /\ \A q \in Requests \ {r} : manual'[q] = manual[q]
    BY <1>23, <1>f, <1>m, UpdateManual, FinishManual
       DEF CheckKnown, ManualOK, ManualHolds, HoldSt, ManualSt
  <2>. QED
    BY <1>23, <1>f, <1>b, <2>1 DEF CheckKnown, redis
<1>24. ASSUME NEW r \in Requests, CheckDurable(r) PROVE UNCHANGED Lease!lease
  <2>1. /\ manual'[r].ticket = manual[r].ticket \/ ~ManualHolds(r)
        /\ (ManualHolds(r)' <=> ManualHolds(r))
        /\ \A q \in Requests \ {r} : manual'[q] = manual[q]
    BY <1>24, <1>f, <1>m, UpdateManual, FinishManual
       DEF CheckDurable, ManualOK, ManualHolds, HoldSt, ManualSt
  <2>. QED
    BY <1>24, <1>f, <1>b, <2>1 DEF CheckDurable, redis
<1>25. ASSUME NEW r \in Requests, ClaimManual(r) PROVE [Lease!LeaseNext]_(Lease!lease)
  <2>1. /\ manual[r].st = "claim" /\ manual[r].ticket \in Tickets
        /\ UNCHANGED <<task, accepted_zset>>
    BY <1>25, <1>m DEF ClaimManual, TryClaimManual, ManualOK
  <2>2. /\ manual'[r].st \in {"waiting", "done"}
        /\ manual'[r].st = "waiting" => /\ manual'[r].ticket = manual[r].ticket
                                       /\ manual[r].ticket \notin claims
        /\ \A q \in Requests \ {r} : manual'[q] = manual[q]
    BY <1>25, <1>f, <1>m, UpdateManual, FinishManual
       DEF ClaimManual, TryClaimManual, Enqueue, ManualOK, ManualSt, HoldSt
  <2>3. CASE manual'[r].st = "waiting"
    <3>1. /\ ~ManualHolds(r) /\ ManualHolds(r)'
          /\ ManualSame(Requests \ {r})
      BY <2>1, <2>2, <2>3 DEF ManualHolds, ManualSame, HoldSt
    <3>2. /\ manual[r].ticket \notin accepted_zset
          /\ ~AutoHolds(manual[r].ticket)
          /\ \A q \in Requests : ManualHolds(q) => manual[q].ticket # manual[r].ticket
      BY <2>1, <2>2, <2>3
         DEF Dedup, DedupInv, ClaimCoversWork, LateClaimIsTaken, AutoHolds
    <3>. QED
      BY <1>a, <2>1, <2>2, <2>3, <3>1, <3>2, RequestTakes
  <2>4. CASE manual'[r].st = "done"
    <3>1. ~ManualHolds(r) /\ ~ManualHolds(r)'
      BY <2>1, <2>4 DEF ManualHolds, HoldSt
    <3>. QED
      BY <1>b, <2>1, <2>2, <3>1
  <2>. QED
    BY <2>2, <2>3, <2>4
<1>26. ASSUME NEW r \in Requests, ManualCommit(r) PROVE UNCHANGED Lease!lease
  <2>1. /\ manual'[r].ticket = manual[r].ticket \/ ~ManualHolds(r)
        /\ (ManualHolds(r)' <=> ManualHolds(r))
        /\ \A q \in Requests \ {r} : manual'[q] = manual[q]
    BY <1>26, <1>f, <1>m, UpdateManual, FinishManual
       DEF ManualCommit, ManualOK, ManualHolds, HoldSt, ManualSt
  <2>. QED
    BY <1>26, <1>f, <1>b, <2>1 DEF ManualCommit, redis
<1>27. ASSUME NEW r \in Requests, ManualRecord(r) PROVE [Lease!LeaseNext]_(Lease!lease)
  <2>1. /\ manual[r].st = "zadd" /\ manual[r].ticket \in Tickets
        /\ manual'[r].st = "mark_accepted"
        /\ manual'[r].ticket = manual[r].ticket
        /\ \A q \in Requests \ {r} : manual'[q] = manual[q]
    BY <1>27, <1>m, UpdateManual DEF ManualRecord, ManualOK, ManualSt, HoldSt
  <2>2. UNCHANGED task /\ accepted_zset' = accepted_zset \cup {manual[r].ticket}
    BY <1>27, <1>f DEF ManualRecord, RecordDurableAccept
  <2>3. ManualSame(Requests) /\ ManualHolds(r)
    BY <2>1 DEF ManualSame, ManualHolds, HoldSt
  <2>. QED
    BY <1>a, <2>1, <2>2, <2>3, Records
<1>28. ASSUME NEW r \in Requests, ManualRelease(r) PROVE [Lease!LeaseNext]_(Lease!lease)
  <2>1. /\ manual[r].st = "lost" /\ manual[r].ticket \in Tickets
        /\ manual'[r].st = "abort"
        /\ \A q \in Requests \ {r} : manual'[q] = manual[q]
    BY <1>28, <1>m, UpdateManual DEF ManualRelease, ManualOK, ManualSt
  <2>2. UNCHANGED <<task, accepted_zset>>
    BY <1>28 DEF ManualRelease, ReleaseClaim
  <2>3. ManualSame(Requests \ {r}) /\ ManualHolds(r) /\ ~ManualHolds(r)'
    BY <2>1 DEF ManualSame, ManualHolds, HoldSt
  <2>. QED
    BY <1>a, <2>1, <2>2, <2>3, RequestGivesUp DEF Dedup
<1>29. ASSUME NEW r \in Requests, ManualAbort(r) PROVE UNCHANGED Lease!lease
  <2>1. /\ manual'[r].ticket = manual[r].ticket \/ ~ManualHolds(r)
        /\ (ManualHolds(r)' <=> ManualHolds(r))
        /\ \A q \in Requests \ {r} : manual'[q] = manual[q]
    BY <1>29, <1>f, <1>m, UpdateManual, FinishManual
       DEF ManualAbort, ManualOK, ManualHolds, HoldSt, ManualSt
  <2>. QED
    BY <1>29, <1>f, <1>b, <2>1 DEF ManualAbort, redis
<1>30. ASSUME NEW r \in Requests, ManualMark(r) PROVE [Lease!LeaseNext]_(Lease!lease)
  <2>1. /\ manual[r].st \in {"mark_accepted", "mark_failed"}
        /\ manual[r].ticket \in Tickets
        /\ manual'[r].st = "done"
        /\ \A q \in Requests \ {r} : manual'[q] = manual[q]
        /\ UNCHANGED <<task, accepted_zset>>
    BY <1>30, <1>m, FinishManual DEF ManualMark, ManualOK, redis
  <2>2. ManualSame(Requests \ {r}) /\ ~ManualHolds(r)'
    BY <2>1 DEF ManualSame, ManualHolds, HoldSt
  <2>3. CASE ManualHolds(r)
    BY <1>a, <2>1, <2>2, <2>3, RequestGivesUp DEF Dedup
  <2>4. CASE ~ManualHolds(r)
    BY <1>b, <2>1, <2>2, <2>4
  <2>. QED
    BY <2>3, <2>4
<1>31. ASSUME NEW r \in Requests, Timeout(r) PROVE UNCHANGED Lease!lease
  <2>1. /\ manual'[r].ticket = manual[r].ticket \/ ~ManualHolds(r)
        /\ (ManualHolds(r)' <=> ManualHolds(r))
        /\ \A q \in Requests \ {r} : manual'[q] = manual[q]
    BY <1>31, <1>f, <1>m, UpdateManual, FinishManual
       DEF Timeout, ManualOK, ManualHolds, HoldSt, ManualSt
  <2>. QED
    BY <1>31, <1>f, <1>b, <2>1 DEF Timeout, redis
<1>32. ASSUME NEW r \in Requests, NEW t \in Tickets, Click(r, t)
      PROVE  UNCHANGED Lease!lease
  <2>1. /\ ~ManualHolds(r) /\ ~ManualHolds(r)'
        /\ \A q \in Requests \ {r} : manual'[q] = manual[q]
    BY <1>32, <1>m DEF Click, ManualOK, ManualHolds, HoldSt
  <2>. QED
    BY <1>32, <1>b, <2>1 DEF Click, redis
<1>33. ASSUME NEW t \in Tickets, OthersTake(t)
      PROVE  UNCHANGED Lease!lease
  <2>1. AutoSame
    BY <1>33, <1>f, <1>t DEF OthersTake, AutoSame, AutoHolds, HoldPc, layer1, redis
  <2>. QED
    BY <1>33, <1>f, <1>q, <2>1, Stutters DEF OthersTake, layer1, redis
<1>34. ASSUME NEW t \in Tickets, ClaimTTL(t)
      PROVE  UNCHANGED Lease!lease
  <2>1. AutoSame
    BY <1>34, <1>f, <1>t DEF ClaimTTL, ClaimExpires, AutoSame, AutoHolds, HoldPc, layer1, redis
  <2>. QED
    BY <1>34, <1>f, <1>q, <2>1, Stutters DEF ClaimTTL, ClaimExpires, layer1, redis
<1>35. CASE InflightTTL
  <2>1. AutoSame
    BY <1>35, <1>f, <1>t DEF InflightTTL, InflightExpires, AutoSame, AutoHolds, HoldPc, layer1, redis
  <2>. QED
    BY <1>35, <1>f, <1>q, <2>1, Stutters DEF InflightTTL, InflightExpires, layer1, redis
<1>36. CASE Crash
  <2>1. /\ task'.pc = "down" /\ UNCHANGED accepted_zset
        /\ \A r \in Requests : manual'[r].st \in {"idle", "done"}
    BY <1>36, <1>m DEF Crash, Leave, ManualOK, redis
  <2>2. Holders' = [t \in Tickets |-> {}]
    BY <2>1 DEF Holders, ManualHolds, AutoHolds, HoldPc, HoldSt
  <2>. QED
    BY <2>1, <2>2 DEF Lease!LeaseNext, Lease!AllGiveUp
<1>37. CASE UNCHANGED vars
  BY <1>37, <1>q, <1>a, Stutters DEF vars, redis
<1>. QED
  BY <1>1, <1>2, <1>3, <1>4, <1>5, <1>6, <1>7, <1>8, <1>9, <1>10, <1>11,
     <1>12, <1>13, <1>14, <1>15, <1>16, <1>17, <1>18, <1>19, <1>20,
     <1>21, <1>22, <1>23, <1>24, <1>25, <1>26, <1>27, <1>28, <1>29,
     <1>30, <1>31, <1>32, <1>33, <1>34, <1>35, <1>36, <1>37
     DEF Next, TaskStep, RouteStep

LEMMA LeaseStart == Init => Lease!LeaseInit
BY DEF Init, GateInit, Lease!LeaseInit, Holders, ManualHolds, AutoHolds, HoldPc,
       HoldSt

(* While no call fails, the whole pipeline, with its three layers, restarts  *)
(* and expiries, is a lease on each ticket that ends once it is recorded.    *)
THEOREM PipelineIsLease == ASSUME MaxFaults = 0 PROVE Spec => ImplementsLease
<1>1. Types /\ Dedup /\ [Next]_vars => [Lease!LeaseNext]_(Lease!lease)
  BY LeaseStep
<1>. QED
  BY <1>1, LeaseStart, DedupAlways, PTL DEF Spec, ImplementsLease, Lease!LeaseSpec
==============================================================================
