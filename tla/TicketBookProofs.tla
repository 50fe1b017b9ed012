--------------------------- MODULE TicketBookProofs ---------------------------
(* Proofs about TicketBook, for every book of tickets, any number of        *)
(* handlers, readers' filters and links, and every size of a page.          *)
EXTENDS TicketBook, FiniteSetTheorems, SequenceTheorems, WellFoundedInduction, TLAPS

(***************************************************************************)
(* Types.  created stays below the number of rows because saved counts the *)
(* rows that were inserted, and the place of a handler names a row of its  *)
(* ticket from the moment it has found one.                                *)
(***************************************************************************)
Columns == [status : {"none", "pending", "accepted", "failed"},
            auto : BOOLEAN, accept : Reasons \ {"expired"},
            drift : Reasons \ {"manual_accept_failed"},
            created : 0..Cardinality(Rows), day : 0..MaxDays]

BookOK ==
    /\ book \in [Rows -> Columns]
    /\ saved \in 0..Cardinality(Rows) /\ today \in 0..MaxDays
    /\ saved = Cardinality(Present)

DeskOK ==
    /\ usedUp \subseteq Tickets
    /\ known \subseteq Rows /\ claims \subseteq Rows /\ opened \subseteq Rows
    /\ desk \in [Desks -> [pc : {"idle", "find", "claim", "fired", "open", "won", "lost", "used"},
                    ticket : Tickets \cup {None}, row : Rows \cup {None},
                    code : BOOLEAN]]
    /\ wins \in [Rows -> Nat]
    /\ writes \in 0..MaxWrites /\ faults \in 0..MaxFaults

ReaderOK ==
    reader \in [pc : {"away", "read", "end"}, list : {"live", "history"},
                filter : Filters \cup {None}, page : Nat \ {0}, got : SUBSET Rows, due : SUBSET Rows]

Found ==
    \A d \in Desks : desk[d].pc \in {"claim", "fired", "open", "won", "lost", "used"}
        => desk[d].row \in Rows /\ desk[d].row[2] = desk[d].ticket

Types == BookOK /\ DeskOK /\ ReaderOK /\ Found

LEMMA RowsFinite ==
    /\ IsFiniteSet(Rows)
    /\ Cardinality(Rows) \in Nat
    /\ \A S \in SUBSET Rows : /\ IsFiniteSet(S)
                              /\ Cardinality(S) \in Nat
                              /\ Cardinality(S) <= Cardinality(Rows)
BY BookAssumption, FS_CardinalityType, FS_Subset

LEMMA TypesInit == Init => Types
<1> SUFFICES ASSUME Init PROVE Types
  OBVIOUS
<1>1. Present = {} /\ Cardinality({}) = 0
  BY FS_EmptySet DEF Init, Present, Absent
<1>2. 0 \in 0..Cardinality(Rows) /\ 0 \in 0..MaxDays /\ 0 \in 0..MaxWrites
      /\ 0 \in 0..MaxFaults
  BY RowsFinite, BookAssumption
<1>3. BookOK
  BY <1>1, <1>2, BookAssumption DEF Init, BookOK, Columns, Absent, Reasons
<1>4. DeskOK /\ ReaderOK /\ Found
  BY <1>2 DEF Init, DeskOK, ReaderOK, Found, Idle, Away
<1>. QED
  BY <1>3, <1>4 DEF Types

(* What happens to the book under a reader takes nothing but what was due. *)
LEMMA ReadingTypes ==
    ASSUME ReaderOK, Reading
    PROVE  ReaderOK'
<1>1. reader' = reader \/ reader' = [reader EXCEPT !.due = {}]
  BY DEF Reading
<1>. QED
  BY <1>1 DEF ReaderOK

(* A step that changes the columns of rows that are there, and no others. *)
LEMMA BookTypes ==
    ASSUME BookOK, UNCHANGED <<saved, today>>,
           book' \in [Rows -> Columns],
           \A k \in Rows : book'[k].status = "none" <=> book[k].status = "none"
    PROVE  BookOK'
<1>1. Present' = Present
  BY DEF Present
<1>. QED
  BY <1>1 DEF BookOK

LEMMA StatusTypes ==
    ASSUME BookOK, UNCHANGED <<saved, today>>, NEW t, NEW auto \in BOOLEAN,
           NEW status \in {"pending", "accepted", "failed"},
           NEW reason \in Reasons \ {"expired"},
           UpdateStatus(t, status, auto, reason)
    PROVE  BookOK'
<1>1. book' \in [Rows -> Columns]
  <2>1. \A k \in Rows : [book[k] EXCEPT !.status = status, !.auto = auto,
          !.accept = IF reason = None THEN @ ELSE reason] \in Columns
    BY DEF BookOK, Columns
  <2>. QED
    BY <2>1, Zenon DEF BookOK, UpdateStatus
<1>2. \A k \in Rows : book'[k].status = "none" <=> book[k].status = "none"
  <2> TAKE k \in Rows
  <2>1. CASE k[2] = t /\ k \in Present
    <3>1. book'[k].status = status
      BY <2>1, Zenon DEF BookOK, Columns, UpdateStatus
    <3>. QED
      BY <2>1, <3>1 DEF Present
  <2>2. CASE ~(k[2] = t /\ k \in Present)
    BY <2>2, Zenon DEF BookOK, UpdateStatus
  <2>. QED
    BY <2>1, <2>2
<1>. QED
  BY <1>1, <1>2, BookTypes

LEMMA SaveTypes ==
    ASSUME Types, NEW k \in Rows, Save(k)
    PROVE  BookOK'
<1>1. /\ Present' = Present \cup {k} /\ k \notin Present
  BY DEF Save, Present, Types, BookOK, Absent
<1>2. IsFiniteSet(Present) /\ Present' \subseteq Rows
  BY RowsFinite DEF Present
<1>3. Cardinality(Present') = Cardinality(Present) + 1
  BY <1>1, <1>2, FS_AddElement
<1>4. saved' = Cardinality(Present') /\ saved' \in 0..Cardinality(Rows)
  BY <1>2, <1>3, RowsFinite DEF Save, Types, BookOK
<1>5. book' \in [Rows -> Columns]
  <2> DEFINE new == [Absent EXCEPT !.status = "pending", !.created = saved + 1,
                                   !.day = today]
  <2>1. new \in Columns
    BY <1>4, BookAssumption DEF Save, Types, BookOK, Columns, Absent, Reasons
  <2>2. book' = [book EXCEPT ![k] = new]
    BY DEF Save
  <2> HIDE DEF new
  <2>. QED
    BY <2>1, <2>2 DEF Types, BookOK
<1>. QED
  BY <1>4, <1>5 DEF Save, Types, BookOK

Places == [pc : {"idle", "find", "claim", "fired", "open", "won", "lost", "used"},
           ticket : Tickets \cup {None}, row : Rows \cup {None},
           code : BOOLEAN]

(* The places of the handlers, and the columns that go with them. *)
LEMMA DeskTypes ==
    ASSUME Types, [Next]_vars
    PROVE  DeskOK' /\ Found'
<1>d. \A d \in Desks : desk[d] \in Places
  BY DEF Types, DeskOK, Places
<1>w. /\ writes \in 0..MaxWrites /\ faults \in 0..MaxFaults
      /\ Write => writes' \in 0..MaxWrites
      /\ Fault => faults' \in 0..MaxFaults
  BY BookAssumption DEF Types, DeskOK, Write, Fault
<1> DEFINE Goal == DeskOK' /\ Found'
<1>q. ASSUME UNCHANGED <<desk, usedUp, dedup, hist, faults>>,
             writes' \in 0..MaxWrites
      PROVE  Goal
  BY <1>q DEF Types, DeskOK, Found, dedup, hist
<1>1. ASSUME NEW k \in Rows, Save(k) PROVE Goal
  BY <1>1, <1>q, <1>w DEF Save
<1>2. CASE Expire
  BY <1>2, <1>q, <1>w, Zenon DEF Expire
<1>3. ASSUME NEW t \in Tickets, Resurrect(t) PROVE Goal
  BY <1>3, <1>q, <1>w, Zenon DEF Resurrect
<1>4. ASSUME NEW k \in Rows, AutoAccept(k) PROVE Goal
  <2>1. /\ UNCHANGED <<desk, usedUp, opened>> /\ writes' \in 0..MaxWrites
        /\ faults' \in 0..MaxFaults
        /\ claims' = claims \cup {k} /\ known' \subseteq known \cup {k}
        /\ wins' = [wins EXCEPT ![k] = @ + 1] \/ wins' = wins
    BY <1>4, <1>w DEF AutoAccept
  <2>. QED
    BY <2>1 DEF Types, DeskOK, Found
<1>5. ASSUME NEW k \in Rows, ClaimLapses(k) PROVE Goal
  <2>1. claims' \subseteq claims /\ UNCHANGED <<desk, usedUp, known, hist, writes, faults>>
    BY <1>5 DEF ClaimLapses
  <2>. QED
    BY <2>1, <1>w DEF Types, DeskOK, Found, hist
<1>6. CASE NextDay \/ ReadStep
  BY <1>6, <1>q, <1>w, Zenon DEF NextDay, ReadStep, OpenList, ReadPage, CloseList
(* A handler moves to a place that names a row of its ticket. *)
<1> DEFINE Pcs == {"idle", "find", "claim", "fired", "open", "won", "lost", "used"}
           Rest == /\ usedUp' \subseteq Tickets /\ claims' \subseteq Rows
                   /\ known' \subseteq Rows /\ opened' \subseteq Rows
                   /\ wins' \in [Rows -> Nat]
                   /\ writes' \in 0..MaxWrites /\ faults' \in 0..MaxFaults
<1>7. ASSUME NEW d \in Desks, NEW place \in Places,
             desk' = [desk EXCEPT ![d] = place],
             place.pc \in {"claim", "fired", "open", "won", "lost", "used"}
                 => place.row \in Rows /\ place.row[2] = place.ticket,
             Rest
      PROVE  Goal
  BY <1>7 DEF Types, DeskOK, Found, Places
<1>8. ASSUME NEW d \in Desks, Leave(d), Rest PROVE Goal
  <2>1. Idle \in Places /\ Idle.pc = "idle"
    BY DEF Idle, Places
  <2>. QED
    BY <1>8, <1>7, <2>1 DEF Leave
<1>9. ASSUME NEW d \in Desks, NEW pc \in Pcs, Goto(d, pc), Rest,
             desk[d].pc \in {"claim", "fired", "open", "won", "lost", "used"}
      PROVE  Goal
  <2> DEFINE place == [desk[d] EXCEPT !.pc = pc]
  <2>1. desk[d].row \in Rows /\ desk[d].row[2] = desk[d].ticket
    BY <1>9 DEF Types, Found
  <2>2. desk' = [desk EXCEPT ![d] = place]
    BY <1>9 DEF Goto
  <2>3. place \in Places /\ place.row = desk[d].row /\ place.ticket = desk[d].ticket
    <3>1. desk[d] \in Places /\ pc \in Pcs
      BY <1>d, <1>9
    <3>. QED
      BY <3>1 DEF Places
  <2> HIDE DEF place
  <2>. QED
    BY <1>7, <1>9, <2>1, <2>2, <2>3
<1>r. UNCHANGED <<usedUp, dedup, hist, writes, faults>> => Rest
  BY <1>w DEF Types, DeskOK, dedup, hist
<1>10. ASSUME NEW d \in Desks, NEW k \in Rows, PostRow(d, k) PROVE Goal
  <2>1. k[2] \in Tickets
    BY DEF Tickets
  <2> DEFINE place == [pc |-> "claim", ticket |-> k[2], row |-> k, code |-> FALSE]
  <2>2. place \in Places /\ place.pc = "claim" /\ place.row = k /\ place.ticket = k[2]
    BY <2>1 DEF Places
  <2>3. desk' = [desk EXCEPT ![d] = place] /\ Rest
    BY <1>10, <1>r DEF PostRow, Begin
  <2> HIDE DEF place
  <2>. QED
    BY <2>2, <2>3, <1>7
<1>11. ASSUME NEW d \in Desks, NEW token \in Tokens, PostToken(d, token) PROVE Goal
  <2>1. token.ticket \in Tickets
    BY BookAssumption DEF Tickets
  <2> DEFINE place == [pc |-> "find", ticket |-> token.ticket, row |-> None, code |-> FALSE]
  <2>2. place \in Places /\ place.pc = "find" /\ place.row = None /\ place.ticket = token.ticket
    BY <2>1 DEF Places
  <2>3. desk' = [desk EXCEPT ![d] = place] /\ Rest
    BY <1>11, <1>r DEF PostToken, Begin
  <2> HIDE DEF place
  <2>. QED
    BY <2>2, <2>3, <1>7
<1>12. ASSUME NEW d \in Desks, NEW t \in Coded, PostCode(d, t) PROVE Goal
  <2>1. t \in Tickets
    BY BookAssumption DEF Tickets
  <2> DEFINE place == [pc |-> "find", ticket |-> t, row |-> None, code |-> TRUE]
  <2>2. place \in Places /\ place.pc = "find" /\ place.row = None /\ place.ticket = t
    BY <2>1 DEF Places
  <2>3. desk' = [desk EXCEPT ![d] = place] /\ Rest
    BY <1>12, <1>r DEF PostCode, Begin
  <2> HIDE DEF place
  <2>. QED
    BY <2>2, <2>3, <1>7
<1>13. ASSUME NEW d \in Desks, Find(d) PROVE Goal
  <2>1. Rest /\ desk[d].pc = "find"
    BY <1>13, <1>r DEF Find
  <2>2. CASE Leave(d)
    BY <2>1, <2>2, <1>8
  <2>3. ASSUME NEW k \in RowsOf(desk[d].ticket) \cap Present,
               desk' = [desk EXCEPT ![d].pc = "claim", ![d].row = k]
        PROVE  Goal
    <3>1. k \in Rows /\ k[2] = desk[d].ticket
      BY DEF RowsOf
    <3> DEFINE place == [desk[d] EXCEPT !.pc = "claim", !.row = k]
    <3>2. desk' = [desk EXCEPT ![d] = place]
      BY <2>3, Zenon
    <3>3. place \in Places /\ place.row = k /\ place.ticket = desk[d].ticket
      <4>1. desk[d] \in Places /\ k \in Rows /\ "claim" \in Pcs
        BY <1>d, <3>1
      <4>. QED
        BY <4>1 DEF Places
    <3> HIDE DEF place
    <3>. QED
      BY <1>7, <2>1, <3>1, <3>2, <3>3
  <2>. QED
    BY <1>13, <2>2, <2>3 DEF Find
<1>14. ASSUME NEW d \in Desks, Claim(d) PROVE Goal
  <2>1. desk[d].pc = "claim" /\ desk[d].row \in Rows
    BY <1>14 DEF Claim, TryClaimManual, Types, Found
  <2>2. Rest
    BY <1>14, <1>w, <2>1 DEF Claim, TryClaimManual, Types, DeskOK
  <2>3. Goto(d, "fired") \/ Goto(d, "open") \/ Leave(d)
    BY <1>14 DEF Claim, TryClaimManual
  <2>. QED
    BY <2>1, <2>2, <2>3, <1>8, <1>9
<1>15. ASSUME NEW d \in Desks, Answer(d) PROVE Goal
  <2>1. desk[d].pc \in {"fired", "open"} /\ desk[d].row \in Rows
    BY <1>15 DEF Answer, Types, Found
  <2>2. /\ wins' = wins \/ wins' = [wins EXCEPT ![desk[d].row] = @ + 1]
        /\ claims' \subseteq claims /\ known' \subseteq known \cup {desk[d].row}
        /\ UNCHANGED <<usedUp, writes, opened>> /\ faults' \in 0..MaxFaults
    BY <1>15, <1>w DEF Answer
  <2>3. Rest
    BY <2>1, <2>2, <1>w DEF Types, DeskOK
  <2>4. Goto(d, "won") \/ Goto(d, "lost") \/ Leave(d)
    BY <1>15 DEF Answer
  <2>. QED
    BY <2>1, <2>3, <2>4, <1>8, <1>9
<1>16. ASSUME NEW d \in Desks, Record(d) PROVE Goal
  <2>1. UNCHANGED <<usedUp, dedup, writes, hist>> /\ faults' \in 0..MaxFaults
    BY <1>16, <1>w DEF Record
  <2>2. Rest
    BY <2>1, <1>w DEF Types, DeskOK, dedup, hist
  <2>3. Leave(d) \/ (Goto(d, "used") /\ desk[d].pc = "won")
    BY <1>16 DEF Record
  <2>. QED
    BY <2>2, <2>3, <1>8, <1>9
<1>17. ASSUME NEW d \in Desks, UseUp(d) PROVE Goal
  <2>1. desk[d].ticket \in Tickets
    BY <1>17 DEF UseUp, Types, Found, Tickets
  <2>2. /\ usedUp' \subseteq usedUp \cup {desk[d].ticket}
        /\ UNCHANGED <<dedup, writes, hist>> /\ faults' \in 0..MaxFaults
    BY <1>17, <1>w DEF UseUp
  <2>3. Rest
    BY <2>1, <2>2, <1>w DEF Types, DeskOK, dedup, hist
  <2>. QED
    BY <1>17, <2>3, <1>8 DEF UseUp
<1>18. CASE UNCHANGED vars
  BY <1>18, <1>q, <1>w DEF vars
<1>. QED
  BY <1>1, <1>2, <1>3, <1>4, <1>5, <1>6, <1>10, <1>11, <1>12, <1>13, <1>14,
     <1>15, <1>16, <1>17, <1>18 DEF Next, PollStep, PostStep

LEMMA BookNext ==
    ASSUME Types, [Next]_vars
    PROVE  BookOK'
<1>q. ASSUME UNCHANGED <<book, saved>>, today' \in 0..MaxDays PROVE BookOK'
  BY <1>q DEF Types, BookOK, Present
<1>d. today \in 0..MaxDays
  BY DEF Types, BookOK
<1>1. ASSUME NEW k \in Rows, Save(k) PROVE BookOK'
  BY <1>1, SaveTypes
<1>2. CASE Expire
  <2>1. PICK gone \in SUBSET {k \in Present : book[k].status = "pending"},
             why \in {"expired", "taken_by_other"} :
          book' = [k \in Rows |-> IF k \in gone
                     THEN [book[k] EXCEPT !.status = "failed", !.drift = why] ELSE book[k]]
    BY <1>2, Zenon DEF Expire
  <2>2. book' \in [Rows -> Columns]
    <3>0. book \in [Rows -> Columns] /\ why \in Reasons \ {"manual_accept_failed"}
      BY DEF Types, BookOK, Reasons
    <3>1. \A k \in Rows : [book[k] EXCEPT !.status = "failed", !.drift = why] \in Columns
      BY <3>0 DEF Columns
    <3>. QED
      BY <2>1, <3>1, Zenon DEF Types, BookOK
  <2>3. \A k \in Rows : book'[k].status = "none" <=> book[k].status = "none"
    <3> TAKE k \in Rows
    <3>1. CASE k \in gone
      <4>1. book'[k].status = "failed"
        BY <2>1, <3>1, Zenon DEF Types, BookOK, Columns
      <4>. QED
        BY <3>1, <4>1
    <3>2. CASE k \notin gone
      BY <2>1, <3>2, Zenon
    <3>. QED
      BY <3>1, <3>2
  <2>. QED
    BY <1>2, <2>2, <2>3, BookTypes, Zenon DEF Expire, Types
<1>3. ASSUME NEW t \in Tickets, Resurrect(t) PROVE BookOK'
  <2>1. book' = [k \in Rows |-> IF k \in RowsOf(t) /\ book[k].status = "failed"
                  THEN [book[k] EXCEPT !.status = "pending", !.drift = None] ELSE book[k]]
    BY <1>3, Zenon DEF Resurrect
  <2>2. book' \in [Rows -> Columns]
    <3>0. None \in Reasons \ {"manual_accept_failed"}
      BY BookAssumption DEF Reasons
    <3>1. \A k \in Rows : [book[k] EXCEPT !.status = "pending", !.drift = None] \in Columns
      BY <3>0 DEF Types, BookOK, Columns
    <3>. QED
      BY <2>1, <3>1, Zenon DEF Types, BookOK
  <2>3. \A k \in Rows : book'[k].status = "none" <=> book[k].status = "none"
    <3> TAKE k \in Rows
    <3>1. CASE k \in RowsOf(t) /\ book[k].status = "failed"
      <4>1. book'[k].status = "pending"
        BY <2>1, <3>1, Zenon DEF Types, BookOK, Columns
      <4>. QED
        BY <3>1, <4>1
    <3>2. CASE ~(k \in RowsOf(t) /\ book[k].status = "failed")
      BY <2>1, <3>2, Zenon
    <3>. QED
      BY <3>1, <3>2
  <2>. QED
    BY <1>3, <2>2, <2>3, BookTypes, Zenon DEF Resurrect, Types
<1>4. ASSUME NEW k \in Rows, AutoAccept(k) PROVE BookOK'
  <2>1. UNCHANGED <<saved, today>>
    BY <1>4 DEF AutoAccept
  <2>2. UpdateStatus(k[2], "accepted", TRUE, None)
          \/ UpdateStatus(k[2], "failed", FALSE, "taken_by_other")
          \/ UNCHANGED book
    BY <1>4 DEF AutoAccept
  <2>3. {None, "taken_by_other"} \subseteq Reasons \ {"expired"}
    BY BookAssumption DEF Reasons
  <2>. QED
    BY <2>1, <2>2, <2>3, <1>q, <1>d, StatusTypes DEF Types
<1>5. CASE NextDay
  <2>1. today' \in 0..MaxDays
    BY <1>5, <1>d, BookAssumption DEF NextDay
  <2>. QED
    BY <1>5, <1>q, <2>1 DEF NextDay
<1>6. ASSUME NEW k \in Rows, ClaimLapses(k) PROVE BookOK'
  BY <1>6, <1>q, <1>d, Zenon DEF ClaimLapses
<1>7. CASE ReadStep
  BY <1>7, <1>q, <1>d, Zenon DEF ReadStep, OpenList, ReadPage, CloseList
<1>8. ASSUME NEW d \in Desks,
             \/ \E k \in Rows : PostRow(d, k)
             \/ \E token \in Tokens : PostToken(d, token)
             \/ \E t \in Coded : PostCode(d, t)
             \/ Find(d) \/ Claim(d) \/ Answer(d) \/ UseUp(d)
      PROVE  BookOK'
  BY <1>8, <1>q, <1>d, Zenon DEF PostRow, PostToken, PostCode, Begin, Find, Claim, TryClaimManual, Answer, UseUp
<1>9. ASSUME NEW d \in Desks, Record(d) PROVE BookOK'
  <2>1. UNCHANGED <<saved, today>>
    BY <1>9 DEF Record
  <2>2. \/ UpdateStatus(desk[d].ticket, "accepted", FALSE, None)
        \/ UpdateStatus(desk[d].ticket, "failed", FALSE, "manual_accept_failed")
        \/ UNCHANGED book
    BY <1>9, Zenon DEF Record
  <2>3. {None, "manual_accept_failed"} \subseteq Reasons \ {"expired"}
    BY BookAssumption DEF Reasons
  <2>. QED
    BY <2>1, <2>2, <2>3, <1>q, <1>d, StatusTypes DEF Types
<1>10. CASE UNCHANGED vars
  BY <1>10, <1>q, <1>d DEF vars
<1>. QED
  BY <1>1, <1>2, <1>3, <1>4, <1>5, <1>6, <1>7, <1>8, <1>9, <1>10
     DEF Next, PollStep, PostStep

(* A list in order: each row of it once, none before one it comes after. *)
InOrder(s, S, f) ==
    /\ s \in Seq(Rows) /\ Len(s) \in Nat
    /\ \A i \in 1..Len(s) : s[i] \in S
    /\ \A k \in S : \E i \in 1..Len(s) : s[i] = k
    /\ \A i, j \in 1..Len(s) : i # j => s[i] # s[j]
    /\ \A i, j \in 1..Len(s) : i < j => ~Before(s[j], s[i], f)

LEMMA SortedRows ==
    ASSUME NEW S \in SUBSET Rows, NEW f, NEW s \in Sorted(S, f)
    PROVE  InOrder(s, S, f)
<1> DEFINE n == Cardinality(S)
<1>1. IsFiniteSet(S) /\ n \in Nat
  BY RowsFinite
<1>2. /\ s \in [1..n -> S]
      /\ \A i, j \in 1..n : i # j => s[i] # s[j]
      /\ \A i, j \in DOMAIN s : i < j => ~Before(s[j], s[i], f)
  BY DEF Sorted, SetToSeqs
<1> HIDE DEF n
<1>3. s \in Seq(S) /\ s \in Seq(Rows) /\ Len(s) = n
  BY <1>1, <1>2
<1>4. s \in Injection(1..n, S)
  BY <1>2 DEF Injection, IsInjective
<1>5. Cardinality(1..n) = n
  BY <1>1, FS_Interval
<1>6. s \in Surjection(1..n, S)
  BY <1>1, <1>4, <1>5, FS_Injection DEF n
<1>7. \A k \in S : \E i \in 1..n : s[i] = k
  BY <1>6 DEF Surjection
<1>. QED
  BY <1>1, <1>2, <1>3, <1>7 DEF InOrder

(* A page: the rows behind the offset, at most PageSize of them. *)
Off == Offset(reader.page)
MoreThan(s) == Len(s) > Off + PageSize
PageOf(s) == {s[i] : i \in {j \in 1..Len(s) : Off < j /\ j <= Off + PageSize}}

LEMMA Sizes ==
    /\ PageSize \in Nat \ {0} /\ MaxLimit \in Nat /\ PageSize + 1 <= MaxLimit
    /\ ReaderOK => Off \in Nat
<1>1. PageSize \in Nat \ {0} /\ MaxLimit \in Nat /\ PageSize + 1 <= MaxLimit
  BY BookAssumption
<1>2. ASSUME ReaderOK PROVE Off \in Nat
  <2>1. reader.page - 1 \in Nat
    BY <1>2 DEF ReaderOK
  <2>. QED
    BY <1>1, <2>1 DEF Off, Offset
<1>. QED
  BY <1>1, <1>2

LEMMA Cut ==
    ASSUME NEW q \in Seq(Rows), NEW a \in Nat \ {0}, NEW b \in Nat, b <= Len(q)
    PROVE  /\ SubSeq(q, a, b) \in Seq(Rows)
           /\ Len(SubSeq(q, a, b)) = IF a <= b THEN b - a + 1 ELSE 0
           /\ \A i \in 1..(b - a + 1) : SubSeq(q, a, b)[i] = q[a + i - 1]
<1>1. a \in Int /\ b \in Int
  OBVIOUS
<1>2. \A i \in a..b : q[i] \in Rows
  OBVIOUS
<1>. QED
  BY <1>1, <1>2, SubSeqProperties

LEMMA PageIsCut ==
    ASSUME ReaderOK, NEW s \in Seq(Rows), NEW rows, NEW page,
           rows = Window(s, PageSize + 1, Off),
           page = IF Len(rows) > PageSize THEN SubSeq(rows, 1, PageSize) ELSE rows
    PROVE  /\ Len(rows) > PageSize <=> MoreThan(s)
           /\ ToSet(page) = PageOf(s)
<1> DEFINE last == IF Off + (PageSize + 1) > Len(s) THEN Len(s) ELSE Off + (PageSize + 1)
           n == IF last - Off > 0 THEN last - Off ELSE 0
<1>1. /\ PageSize \in Nat \ {0} /\ MaxLimit \in Nat /\ PageSize + 1 <= MaxLimit
      /\ Len(s) \in Nat /\ Off \in Nat
  BY Sizes
<1>2. ClampOffset(Off) = Off /\ ClampLimit(PageSize + 1) = PageSize + 1
  BY <1>1 DEF ClampOffset, ClampLimit
<1>3. rows = SubSeq(s, Off + 1, last)
  BY <1>2 DEF Window
<1>4. /\ last \in Nat /\ last <= Len(s) /\ last <= Off + PageSize + 1
      /\ (last = Len(s) \/ last = Off + PageSize + 1)
  BY <1>1
<1> HIDE DEF last
<1>5. /\ rows \in Seq(Rows) /\ Len(rows) = n
      /\ \A i \in 1..n : rows[i] = s[i + Off]
  <2> DEFINE first == Off + 1
  <2>a. first \in Nat \ {0} /\ last \in Nat /\ last <= Len(s)
    BY <1>1, <1>4
  <2> HIDE DEF first
  <2>c. /\ SubSeq(s, first, last) \in Seq(Rows)
        /\ Len(SubSeq(s, first, last)) = IF first <= last THEN last - first + 1 ELSE 0
        /\ \A i \in 1..(last - first + 1) : SubSeq(s, first, last)[i] = s[first + i - 1]
    BY <2>a, Cut
  <2>2. /\ rows \in Seq(Rows)
        /\ Len(rows) = IF Off + 1 <= last THEN last - (Off + 1) + 1 ELSE 0
        /\ \A i \in 1..(last - (Off + 1) + 1) : rows[i] = s[Off + 1 + i - 1]
    BY <1>3, <2>c, Zenon DEF first
  <2>. QED
    BY <1>1, <1>4, <2>2
<1>6. Len(rows) > PageSize <=> MoreThan(s)
  BY <1>1, <1>4, <1>5 DEF MoreThan
<1> DEFINE m == IF MoreThan(s) THEN PageSize ELSE n
<1>7. page \in Seq(Rows) /\ Len(page) = m /\ \A i \in 1..m : page[i] = s[i + Off]
  <2>1. CASE MoreThan(s)
    <3>1. n > PageSize /\ n \in Nat
      BY <1>1, <1>4, <1>5, <1>6, <2>1
    <3>3. /\ SubSeq(rows, 1, PageSize) \in Seq(Rows)
          /\ Len(SubSeq(rows, 1, PageSize))
               = IF 1 <= PageSize THEN PageSize - 1 + 1 ELSE 0
          /\ \A i \in 1..(PageSize - 1 + 1) : SubSeq(rows, 1, PageSize)[i] = rows[1 + i - 1]
      BY <1>1, <1>5, <3>1, Cut
    <3>. QED
      BY <1>1, <1>5, <1>6, <2>1, <3>1, <3>3
  <2>2. CASE ~MoreThan(s)
    BY <1>5, <1>6, <2>2
  <2>. QED
    BY <2>1, <2>2
<1>8. m \in Nat /\ \A j \in Nat : (1 <= j /\ j <= m)
                     <=> (j + Off \in 1..Len(s) /\ Off < j + Off /\ j + Off <= Off + PageSize)
  BY <1>1, <1>4 DEF MoreThan
<1> HIDE DEF n, m
<1>9. ToSet(page) = {page[i] : i \in 1..m}
  <2>1. DOMAIN page = 1..m
    BY <1>7, <1>8
  <2>. QED
    BY <2>1 DEF ToSet
<1>10. ASSUME NEW i \in 1..m PROVE page[i] \in PageOf(s)
  <2>1. page[i] = s[i + Off]
    BY <1>7
  <2>2. i + Off \in {j \in 1..Len(s) : Off < j /\ j <= Off + PageSize}
    BY <1>1, <1>8
  <2>. QED
    BY <2>1, <2>2 DEF PageOf
<1>11. ASSUME NEW j \in 1..Len(s), Off < j, j <= Off + PageSize
       PROVE  s[j] \in {page[i] : i \in 1..m}
  <2>1. j - Off \in 1..m /\ (j - Off) + Off = j
    BY <1>1, <1>8, <1>11
  <2>2. page[j - Off] = s[j]
    BY <1>7, <2>1
  <2>. QED
    BY <2>1, <2>2
<1>12. ToSet(page) = PageOf(s)
  BY <1>9, <1>10, <1>11 DEF PageOf
<1>. QED
  BY <1>6, <1>12

(* What a reader gets by asking for a page. *)
LEMMA PageIsRead ==
    ASSUME ReaderOK, ReadPage
    PROVE  \E s \in Sorted(Shown(reader.list, reader.filter), reader.filter) :
             /\ s \in Seq(Rows) /\ PageOf(s) \subseteq Rows
             /\ reader'.pc = IF MoreThan(s) THEN "read" ELSE "end"
             /\ reader'.page = IF MoreThan(s) THEN reader.page + 1 ELSE reader.page
             /\ reader'.got = reader.got \cup PageOf(s)
             /\ reader'.list = reader.list /\ reader'.filter = reader.filter
             /\ reader'.due = reader.due
             /\ ReaderOK'
<1> DEFINE rows(s) == Window(s, PageSize + 1, Off)
           page(s) == IF Len(rows(s)) > PageSize THEN SubSeq(rows(s), 1, PageSize) ELSE rows(s)
<1>1. PICK s \in Sorted(Shown(reader.list, reader.filter), reader.filter) :
        reader' = [reader EXCEPT !.pc = IF Len(rows(s)) > PageSize THEN "read" ELSE "end",
                          !.page = IF Len(rows(s)) > PageSize THEN @ + 1 ELSE @,
                          !.got = @ \cup ToSet(page(s))]
  BY Zenon DEF ReadPage, Off
<1>2. Shown(reader.list, reader.filter) \subseteq Rows
  BY DEF Shown, Present
<1>3. s \in Seq(Rows)
  BY <1>2, SortedRows DEF InOrder
<1>4. /\ Len(rows(s)) > PageSize <=> MoreThan(s)
      /\ ToSet(page(s)) = PageOf(s)
  BY <1>3, PageIsCut
<1> DEFINE more == MoreThan(s)  seen == PageOf(s)
<1>5. reader' = [reader EXCEPT !.pc = IF more THEN "read" ELSE "end",
                          !.page = IF more THEN @ + 1 ELSE @,
                          !.got = @ \cup seen]
  <2> HIDE DEF rows, page, more, seen
  <2>1. (Len(rows(s)) > PageSize) = more /\ ToSet(page(s)) = seen
    BY <1>4 DEF more, seen, MoreThan
  <2>. QED
    BY <1>1, <2>1
<1>6. seen \subseteq Rows /\ more \in BOOLEAN
  BY <1>3 DEF PageOf, MoreThan
<1> HIDE DEF more, seen
<1>7. reader.page + 1 \in Nat \ {0} /\ reader.got \cup seen \in SUBSET Rows
  BY <1>6 DEF ReaderOK
<1>8. /\ reader'.pc = IF more THEN "read" ELSE "end"
      /\ reader'.page = IF more THEN reader.page + 1 ELSE reader.page
      /\ reader'.got = reader.got \cup seen
      /\ reader'.list = reader.list /\ reader'.filter = reader.filter
      /\ reader'.due = reader.due
      /\ ReaderOK'
  <2>1. CASE more
    <3>1. reader' = [reader EXCEPT !.pc = "read", !.page = @ + 1, !.got = @ \cup seen]
      BY <1>5, <2>1
    <3>. QED
      BY <3>1, <2>1, <1>7 DEF ReaderOK
  <2>2. CASE ~more
    <3>1. reader' = [reader EXCEPT !.pc = "end", !.page = @, !.got = @ \cup seen]
      BY <1>5, <2>2
    <3>. QED
      BY <3>1, <2>2, <1>7 DEF ReaderOK
  <2>. QED
    BY <2>1, <2>2
<1>. QED
  BY <1>3, <1>6, <1>8 DEF more, seen

LEMMA ReaderNext ==
    ASSUME Types, [Next]_vars
    PROVE  ReaderOK'
<1>q. ASSUME UNCHANGED reader \/ Reading PROVE ReaderOK'
  BY <1>q, ReadingTypes DEF Types, ReaderOK
<1>1. CASE PollStep
  BY <1>1, <1>q, Zenon DEF PollStep, Save, AutoAccept, ClaimLapses, Resurrect, Expire
<1>2. CASE PostStep
  BY <1>2, <1>q, Zenon
     DEF PostStep, PostRow, PostToken, PostCode, Begin, Find, Claim, TryClaimManual, Answer, Record, UseUp
<1>3. CASE NextDay \/ UNCHANGED vars
  BY <1>3, <1>q, Zenon DEF NextDay, vars
<1>4. ASSUME NEW list \in {"live", "history"}, NEW f \in Filters, OpenList(list, f)
      PROVE  ReaderOK'
  <2>1. Shown(list, f) \subseteq Rows
    BY DEF Shown, Present
  <2>. QED
    BY <1>4, <2>1 DEF OpenList, ReaderOK
<1>5. CASE ReadPage
  BY <1>5, PageIsRead DEF Types
<1>6. CASE CloseList
  BY <1>6 DEF CloseList, Away, ReaderOK
<1>. QED
  BY <1>1, <1>2, <1>3, <1>4, <1>5, <1>6 DEF Next, ReadStep

LEMMA TypesNext ==
    ASSUME Types, [Next]_vars
    PROVE  Types'
BY BookNext, DeskTypes, ReaderNext DEF Types

LEMMA TypesHold == Spec => []Types
BY TypesInit, TypesNext, PTL DEF Spec

\* The book's type invariant (TypeOK): created numbers stay within the number
\* of rows, and a handler past its search holds a row of the ticket it was
\* asked for (routes/quick_accept.rs:262-298).
THEOREM BookTypesHold == Spec => []TypeOK
<1>1. Types => TypeOK
  BY DEF Types, BookOK, DeskOK, ReaderOK, TypeOK, Columns
<1>. QED
  BY <1>1, TypesHold, PTL

(***************************************************************************)
(* The dashboard.  The filter of a list and the condition of a counter     *)
(* hold of the same rows: a day is never NULL, and a status that is asked  *)
(* for is the one status of the list.                                      *)
(***************************************************************************)
Today(status, equal) ==
    [status |-> status, prefix |-> <<>>, equal |-> equal,
     least |-> [created_at |-> today], most |-> <<>>, sort |-> "newest"]

Counted(statuses, equal) ==
    {k \in Present : /\ book[k].status \in statuses
                     /\ book[k].day >= today
                     /\ \A c \in DOMAIN equal : Column(k, c) = equal[c]}

LEMMA TodaysList ==
    ASSUME BookOK, NEW list, NEW status, NEW equal
    PROVE  Shown(list, Today(status, equal))
             = Counted(StatusesOf(list, Today(status, equal)), equal)
<1> DEFINE f == Today(status, equal)
<1>1. /\ f.prefix = <<>> /\ f.equal = equal /\ f.most = <<>>
      /\ f.least = [created_at |-> today]
  BY DEF Today
<1> HIDE DEF f
<1>2. \A k \in Present : Column(k, "created_at") = book[k].day /\ book[k].day # None
  BY BookAssumption DEF Column, BookOK, Columns, Present
<1>3. \A k \in Present : Passes(k, f) <=>
        book[k].day >= today /\ \A c \in DOMAIN equal : Column(k, c) = equal[c]
  BY <1>1, <1>2 DEF Passes
<1>. QED
  BY <1>3 DEF Shown, Counted, f

LEMMA DashboardAgrees ==
    ASSUME BookOK
    PROVE  DashboardMatchesLists
<1> DEFINE Listed(list, status, equal) ==
             Cardinality(Shown(list, Today(status, equal)))
<1>1. \A statuses, equal : Count(statuses, equal) = Cardinality(Counted(statuses, equal))
  BY DEF Count, Counted
<1>2. \A list, equal : \A status \in {"accepted", "failed"} :
        Listed(list, status, equal) = Count({status}, equal)
  <2> TAKE list, equal
  <2> TAKE status \in {"accepted", "failed"}
  <2>1. StatusesOf(list, Today(status, equal)) = {status}
    BY BookAssumption DEF StatusesOf, Today
  <2>2. Shown(list, Today(status, equal)) = Counted({status}, equal)
    BY <2>1, TodaysList
  <2>. QED
    BY <1>1, <2>2
<1>3. Count({"pending", "accepted", "failed"}, <<>>)
        = Listed("live", None, <<>>) + Listed("history", None, <<>>)
  <2> DEFINE live == Counted({"pending"}, <<>>)
             history == Counted({"accepted", "failed"}, <<>>)
  <2>1. /\ StatusesOf("live", Today(None, <<>>)) = {"pending"}
        /\ StatusesOf("history", Today(None, <<>>)) = {"accepted", "failed"}
    BY DEF StatusesOf, Today
  <2>2. Listed("live", None, <<>>) = Cardinality(live)
        /\ Listed("history", None, <<>>) = Cardinality(history)
    BY <2>1, TodaysList
  <2>3. /\ Counted({"pending", "accepted", "failed"}, <<>>) = live \cup history
        /\ live \cap history = {} /\ live \subseteq Rows /\ history \subseteq Rows
    <3>1. \A k : /\ k \in live => k \in Rows /\ book[k].status = "pending"
                 /\ k \in history => k \in Rows /\ book[k].status \in {"accepted", "failed"}
                 /\ k \in Counted({"pending", "accepted", "failed"}, <<>>)
                      <=> k \in live \/ k \in history
      BY DEF Counted, Present
    <3> HIDE DEF live, history
    <3>. QED
      BY <3>1
  <2> HIDE DEF live, history
  <2>4. Cardinality(live \cup history)
          = Cardinality(live) + Cardinality(history) - Cardinality(live \cap history)
    BY <2>3, RowsFinite, FS_Union
  <2>5. Cardinality(live \cap history) = 0 /\ Cardinality(live) \in Nat
        /\ Cardinality(history) \in Nat
    BY <2>3, RowsFinite, FS_EmptySet
  <2>6. Count({"pending", "accepted", "failed"}, <<>>) = Cardinality(live \cup history)
    BY <1>1, <2>3, Zenon
  <2> HIDE DEF Listed
  <2>. QED
    BY <2>2, <2>4, <2>5, <2>6
<1>4. /\ Summary.incoming = Count({"pending", "accepted", "failed"}, <<>>)
      /\ Summary.auto = Count({"accepted"}, [auto_accepted |-> TRUE])
      /\ Summary.manual = Count({"accepted"}, [auto_accepted |-> FALSE])
      /\ Summary.taken = Count({"failed"}, [accept_reason |-> "taken_by_other"])
  BY DEF Summary
<1>. QED
  BY <1>2, <1>3, <1>4 DEF DashboardMatchesLists, Today

\* The counters of the dashboard are the lengths of the lists a person would
\* ask for, whatever the poll loops and handlers have written
\* (store/bookings.rs:111-124, 585-615).
THEOREM DashboardAgreesWithLists == Spec => []DashboardMatchesLists
<1>1. Types => DashboardMatchesLists
  BY DashboardAgrees DEF Types
<1>. QED
  BY <1>1, TypesHold, PTL

(***************************************************************************)
(* Wins.  What is won is known to Layer 1, so that no claim is granted for *)
(* it any more.  On a row no request was let through to, a handler that    *)
(* waits for an answer holds the claim, alone, and nobody has won the row: *)
(* a lost answer deletes no claim but the handler's own, and a claim that  *)
(* runs out is nobody's.  The row of a used code is won.                   *)
(***************************************************************************)
FiringAlone ==
    \A d \in Desks : desk[d].pc = "fired" /\ desk[d].row \notin opened =>
        /\ desk[d].row \in claims /\ wins[desk[d].row] = 0
        /\ \A e \in Desks : desk[e].pc = "fired" /\ desk[e].row = desk[d].row => e = d

OpenIsOpened ==
    \A d \in Desks : desk[d].pc = "open" => desk[d].row \in opened

WinnersWon ==
    \A d \in Desks : desk[d].pc \in {"won", "used"} => wins[desk[d].row] > 0

WonIsKnown ==
    \A k \in Rows : /\ wins[k] > 0 <=> k \in known
                    /\ wins[k] > 1 => k \in opened

UsedIsWon ==
    \A t \in usedUp : \E k \in RowsOf(t) : wins[k] > 0

Won == FiringAlone /\ OpenIsOpened /\ WinnersWon /\ WonIsKnown /\ UsedIsWon

Aside == <<dedup, hist, usedUp>>

(* A handler moves and the counts and claims stay: only a firing handler   *)
(* may not be new.                                                         *)
LEMMA WonMoves ==
    ASSUME Types, Won, NEW d \in Desks, NEW place,
           desk' = [desk EXCEPT ![d] = place],
           UNCHANGED Aside,
           place.pc \notin {"fired", "open"},
           place.pc \in {"won", "used"} => wins[place.row] > 0
    PROVE  Won'
<1>1. \A e \in Desks : e # d => desk'[e] = desk[e]
  BY DEF Types, DeskOK
<1>2. desk'[d] = place
  BY DEF Types, DeskOK
<1>3. UNCHANGED <<known, claims, wins, opened, usedUp>>
  BY DEF Aside, dedup, hist
<1>4. FiringAlone' /\ OpenIsOpened'
  BY <1>1, <1>2, <1>3 DEF Won, FiringAlone, OpenIsOpened
<1>5. WinnersWon' /\ WonIsKnown' /\ UsedIsWon'
  BY <1>1, <1>2, <1>3 DEF Won, WinnersWon, WonIsKnown, UsedIsWon
<1>. QED
  BY <1>4, <1>5 DEF Won

(* A row is won once more, by a firing handler or by a poll loop that took *)
(* the claim: if it was won before, a request had been let through to it.  *)
LEMMA WonOnce ==
    ASSUME Types, Won, NEW k \in Rows,
           wins' = [wins EXCEPT ![k] = @ + 1], known' = known \cup {k},
           UNCHANGED <<opened, usedUp>>,
           wins[k] = 0 \/ k \in opened
    PROVE  /\ WonIsKnown' /\ UsedIsWon'
           /\ wins'[k] > 0 /\ \A l \in Rows : l # k => wins'[l] = wins[l]
           /\ \A l \in Rows : wins[l] > 0 => wins'[l] > 0
<1>1. /\ wins'[k] = wins[k] + 1 /\ wins[k] \in Nat
      /\ \A l \in Rows : l # k => wins'[l] = wins[l]
  BY DEF Types, DeskOK
<1>2. \A l \in Rows : wins[l] > 0 => wins'[l] > 0
  BY <1>1
<1>3. WonIsKnown'
  BY <1>1 DEF Won, WonIsKnown
<1>4. UsedIsWon'
  BY <1>2 DEF Won, UsedIsWon, RowsOf
<1>. QED
  BY <1>1, <1>2, <1>3, <1>4

LEMMA WonNext ==
    ASSUME Types, Won, [Next]_vars
    PROVE  Won'
<1> USE DEF Won
<1>q. ASSUME UNCHANGED <<desk, dedup, hist, usedUp>> PROVE Won'
  <2>1. UNCHANGED <<desk, known, claims, wins, opened, usedUp>>
    BY <1>q DEF dedup, hist
  <2>. QED
    BY <2>1 DEF FiringAlone, OpenIsOpened, WinnersWon, WonIsKnown, UsedIsWon
<1>l. ASSUME NEW d \in Desks, Leave(d), UNCHANGED Aside PROVE Won'
  <2>1. Idle.pc = "idle"
    BY DEF Idle
  <2>. QED
    BY <1>l, <2>1, WonMoves DEF Leave
<1>f. \A d \in Desks : desk[d].pc \in {"fired", "open", "won", "used"} => desk[d].row \in Rows
  BY DEF Types, Found
<1>1. ASSUME NEW k \in Rows, AutoAccept(k) PROVE Won'
  <2>1. /\ k \notin claims /\ k \notin known /\ claims' = claims \cup {k}
        /\ UNCHANGED <<desk, usedUp, opened>>
    BY <1>1 DEF AutoAccept
  <2>2. wins[k] = 0
    BY <2>1 DEF WonIsKnown, Types, DeskOK
  <2>3. \/ wins' = [wins EXCEPT ![k] = @ + 1] /\ known' = known \cup {k}
        \/ UNCHANGED <<wins, known>>
    BY <1>1 DEF AutoAccept
  <2>4. /\ WonIsKnown' /\ UsedIsWon'
        /\ \A l \in Rows : l # k => wins'[l] = wins[l]
        /\ \A l \in Rows : wins[l] > 0 => wins'[l] > 0
    <3>1. CASE UNCHANGED <<wins, known>>
      BY <2>1, <3>1 DEF WonIsKnown, UsedIsWon
    <3>. QED
      BY <2>1, <2>2, <2>3, <3>1, WonOnce
  <2>5. FiringAlone' /\ OpenIsOpened' /\ WinnersWon'
    BY <2>1, <2>4, <1>f DEF FiringAlone, OpenIsOpened, WinnersWon
  <2>. QED
    BY <2>4, <2>5
<1>2. ASSUME NEW k \in Rows, ClaimLapses(k) PROVE Won'
  <2>1. /\ claims' = claims \ {k} /\ UNCHANGED <<desk, known, wins, opened, usedUp>>
        /\ \A d \in Desks : desk[d].row = k => desk[d].pc # "fired"
    BY <1>2 DEF ClaimLapses, hist
  <2>. QED
    BY <2>1 DEF FiringAlone, OpenIsOpened, WinnersWon, WonIsKnown, UsedIsWon
<1>3. ASSUME NEW k \in Rows, Save(k) PROVE Won'
  BY <1>3, <1>q DEF Save
<1>4. ASSUME NEW t \in Tickets, Resurrect(t) PROVE Won'
  BY <1>4, <1>q, Zenon DEF Resurrect
<1>5. CASE Expire \/ NextDay \/ ReadStep \/ UNCHANGED vars
  BY <1>5, <1>q, Zenon DEF Expire, NextDay, ReadStep, OpenList, ReadPage, CloseList, vars
<1>6. ASSUME NEW d \in Desks, NEW pc, NEW t, NEW k, NEW code, Begin(d, pc, t, k, code),
             pc \in {"claim", "find"}
      PROVE  Won'
  <2> DEFINE place == [pc |-> pc, ticket |-> t, row |-> k, code |-> code]
  <2>1. desk' = [desk EXCEPT ![d] = place] /\ UNCHANGED Aside /\ place.pc = pc
    BY <1>6 DEF Begin, Aside
  <2> HIDE DEF place
  <2>. QED
    BY <1>6, <2>1, WonMoves
<1>7. ASSUME NEW d \in Desks,
             \/ \E k \in Rows : PostRow(d, k)
             \/ \E token \in Tokens : PostToken(d, token)
             \/ \E t \in Coded : PostCode(d, t)
      PROVE  Won'
  BY <1>6, <1>7 DEF PostRow, PostToken, PostCode
<1>8. ASSUME NEW d \in Desks, Find(d) PROVE Won'
  <2>1. UNCHANGED Aside
    BY <1>8 DEF Find, Aside
  <2>2. Leave(d) \/ \E k \in Rows : desk' = [desk EXCEPT ![d].pc = "claim", ![d].row = k]
    BY <1>8 DEF Find, RowsOf
  <2>3. ASSUME NEW k \in Rows, desk' = [desk EXCEPT ![d].pc = "claim", ![d].row = k]
        PROVE  Won'
    <3> DEFINE place == [desk[d] EXCEPT !.pc = "claim", !.row = k]
    <3>1. desk' = [desk EXCEPT ![d] = place]
      BY <2>3, Zenon
    <3>2. place.pc = "claim"
      <4>1. desk[d] \in Places
        BY DEF Types, DeskOK, Places
      <4>. QED
        BY <4>1 DEF Places
    <3> HIDE DEF place
    <3>. QED
      BY <2>1, <3>1, <3>2, WonMoves
  <2>. QED
    BY <2>1, <2>2, <2>3, <1>l
(* A handler goes on to another place with its row. *)
<1>g. ASSUME NEW d \in Desks, NEW pc \in {"fired", "open", "won", "lost", "used"}, Goto(d, pc)
      PROVE  /\ desk' = [desk EXCEPT ![d] = [desk[d] EXCEPT !.pc = pc]]
             /\ desk'[d].pc = pc /\ desk'[d].row = desk[d].row
             /\ [desk[d] EXCEPT !.pc = pc].pc = pc
             /\ [desk[d] EXCEPT !.pc = pc].row = desk[d].row
             /\ \A e \in Desks : e # d => desk'[e] = desk[e]
  <2>1. desk[d] \in Places /\ desk \in [Desks -> Places]
    BY DEF Types, DeskOK, Places
  <2>2. desk' = [desk EXCEPT ![d] = [desk[d] EXCEPT !.pc = pc]]
    BY <1>g DEF Goto
  <2>3. /\ [desk[d] EXCEPT !.pc = pc].pc = pc
        /\ [desk[d] EXCEPT !.pc = pc].row = desk[d].row
    BY <2>1 DEF Places
  <2>. QED
    BY <2>1, <2>2, <2>3
<1>9. ASSUME NEW d \in Desks, Claim(d) PROVE Won'
  <2>0. /\ desk[d].pc = "claim" /\ desk[d].row \in Rows /\ UNCHANGED <<known, wins, usedUp>>
    BY <1>9 DEF Claim, TryClaimManual, Types, Found
  <2>1. CASE Leave(d) /\ UNCHANGED <<claims, writes, faults, opened>>
    BY <2>0, <2>1, <1>l DEF Aside, dedup, hist
  <2>2. CASE /\ desk[d].row \notin known /\ desk[d].row \notin claims
             /\ claims' = claims \cup {desk[d].row}
             /\ Goto(d, "fired")
             /\ UNCHANGED opened
    <3>1. /\ desk'[d].pc = "fired" /\ desk'[d].row = desk[d].row
          /\ \A e \in Desks : e # d => desk'[e] = desk[e]
      BY <2>2, <1>g
    <3>2. wins[desk[d].row] = 0
      BY <2>0, <2>2 DEF WonIsKnown, Types, DeskOK
    <3>3. FiringAlone' /\ OpenIsOpened'
      BY <2>0, <2>2, <3>1, <3>2 DEF FiringAlone, OpenIsOpened
    <3>4. WinnersWon' /\ WonIsKnown' /\ UsedIsWon'
      BY <2>0, <2>2, <3>1 DEF WinnersWon, WonIsKnown, UsedIsWon
    <3>. QED
      BY <3>3, <3>4
  <2>3. CASE /\ claims' \in {claims, claims \cup {desk[d].row}}
             /\ opened' = opened \cup {desk[d].row}
             /\ Goto(d, "open")
    <3>1. /\ desk'[d].pc = "open" /\ desk'[d].row = desk[d].row
          /\ \A e \in Desks : e # d => desk'[e] = desk[e]
      BY <2>3, <1>g
    <3>2. claims \subseteq claims' /\ opened \subseteq opened' /\ desk[d].row \in opened'
      BY <2>3
    <3>3. FiringAlone' /\ OpenIsOpened'
      BY <2>0, <3>1, <3>2 DEF FiringAlone, OpenIsOpened
    <3>4. WinnersWon' /\ WonIsKnown' /\ UsedIsWon'
      BY <2>0, <3>1, <3>2 DEF WinnersWon, WonIsKnown, UsedIsWon
    <3>. QED
      BY <3>3, <3>4
  <2>. QED
    BY <1>9, <2>1, <2>2, <2>3 DEF Claim, TryClaimManual
<1>10. ASSUME NEW d \in Desks, Answer(d) PROVE Won'
  <2>1. /\ desk[d].row \in Rows /\ desk[d].pc \in {"fired", "open"}
        /\ UNCHANGED <<usedUp, opened>>
    BY <1>10 DEF Answer, Types, Found
  <2>a. desk[d].row \notin opened =>
            /\ wins[desk[d].row] = 0
            /\ \A e \in Desks : desk[e].pc = "fired" /\ desk[e].row = desk[d].row => e = d
    BY <2>1 DEF FiringAlone, OpenIsOpened
  <2>2. CASE /\ Goto(d, "won") /\ known' = known \cup {desk[d].row}
             /\ wins' = [wins EXCEPT ![desk[d].row] = @ + 1]
             /\ UNCHANGED claims
    <3> DEFINE k == desk[d].row
    <3>1. /\ WonIsKnown' /\ UsedIsWon'
          /\ wins'[k] > 0 /\ \A l \in Rows : l # k => wins'[l] = wins[l]
          /\ \A l \in Rows : wins[l] > 0 => wins'[l] > 0
      BY <2>1, <2>2, <2>a, WonOnce
    <3>2. /\ desk'[d].pc = "won" /\ desk'[d].row = k
          /\ \A e \in Desks : e # d => desk'[e] = desk[e]
      BY <2>2, <1>g
    <3>3. FiringAlone' /\ OpenIsOpened'
      BY <2>1, <2>2, <2>a, <3>1, <3>2, <1>f DEF FiringAlone, OpenIsOpened
    <3>4. WinnersWon'
      BY <3>1, <3>2, <1>f DEF WinnersWon
    <3>. QED
      BY <3>1, <3>3, <3>4
  <2>3. CASE /\ Goto(d, "lost") /\ claims' \in {claims, claims \ {desk[d].row}}
             /\ UNCHANGED <<known, wins>>
    <3>2. /\ desk'[d].pc = "lost" /\ desk'[d].row = desk[d].row
          /\ \A e \in Desks : e # d => desk'[e] = desk[e]
      BY <2>3, <1>g
    <3>3. FiringAlone' /\ OpenIsOpened'
      BY <2>1, <2>3, <2>a, <3>2 DEF FiringAlone, OpenIsOpened
    <3>4. WinnersWon' /\ WonIsKnown' /\ UsedIsWon'
      BY <2>1, <2>3, <3>2 DEF WinnersWon, WonIsKnown, UsedIsWon
    <3>. QED
      BY <3>3, <3>4
  <2>4. CASE Leave(d) /\ UNCHANGED <<known, claims, wins>>
    BY <2>1, <2>4, <1>l DEF Aside, dedup, hist
  <2>. QED
    BY <1>10, <2>2, <2>3, <2>4 DEF Answer
<1>11. ASSUME NEW d \in Desks, Record(d) PROVE Won'
  <2>1. UNCHANGED Aside
    BY <1>11 DEF Record, Aside
  <2>2. Leave(d) \/ (desk[d].pc = "won" /\ Goto(d, "used"))
    BY <1>11 DEF Record
  <2>3. CASE desk[d].pc = "won" /\ Goto(d, "used")
    <3>1. wins[desk[d].row] > 0
      BY <2>3 DEF WinnersWon
    <3> DEFINE place == [desk[d] EXCEPT !.pc = "used"]
    <3>2. desk' = [desk EXCEPT ![d] = place] /\ place.pc = "used" /\ place.row = desk[d].row
      BY <2>3, <1>g
    <3> HIDE DEF place
    <3>. QED
      BY <2>1, <3>1, <3>2, WonMoves
  <2>. QED
    BY <2>1, <2>2, <2>3, <1>l
<1>12. ASSUME NEW d \in Desks, UseUp(d) PROVE Won'
  <2>1. /\ desk[d].pc = "used" /\ Leave(d) /\ UNCHANGED <<known, claims, wins, opened>>
        /\ usedUp' = usedUp \/ usedUp' = usedUp \cup {desk[d].ticket}
    BY <1>12 DEF UseUp, dedup, hist
  <2>2. wins[desk[d].row] > 0 /\ desk[d].row \in RowsOf(desk[d].ticket)
    BY <2>1 DEF WinnersWon, Types, Found, RowsOf
  <2>3. UsedIsWon'
    BY <2>1, <2>2 DEF UsedIsWon, RowsOf
  <2>4. desk'[d].pc = "idle" /\ \A e \in Desks : e # d => desk'[e] = desk[e]
    BY <2>1 DEF Leave, Idle, Types, DeskOK
  <2>5. FiringAlone' /\ OpenIsOpened' /\ WinnersWon' /\ WonIsKnown'
    BY <2>1, <2>4 DEF FiringAlone, OpenIsOpened, WinnersWon, WonIsKnown
  <2>. QED
    BY <2>3, <2>5
<1>. QED
  BY <1>1, <1>2, <1>3, <1>4, <1>5, <1>7, <1>8, <1>9, <1>10, <1>11, <1>12
     DEF Next, PollStep, PostStep

\* A row is won a second time only if a failing Redis command had let a
\* request through to it, whatever claims lapse or are deleted and however
\* many sessions, links, codes and poll loops go for it; and a short code is
\* used up only by the win of a row of its ticket (executor/src/gate.rs:185-213,
\* routes/bookings.rs:438-550, routes/quick_accept.rs:375-378).
THEOREM LinksWinRowsOnce == Spec => []LinksWinOnce
<1>1. Init => Won
  BY DEF Init, Idle, Won, FiringAlone, OpenIsOpened, WinnersWon, WonIsKnown, UsedIsWon
<1>2. Types /\ Won /\ [Next]_vars => Won'
  BY WonNext
<1>3. Won => LinksWinOnce
  BY DEF Won, WonIsKnown, UsedIsWon, LinksWinOnce
<1>. QED
  BY <1>1, <1>2, <1>3, TypesHold, PTL DEF Spec

(***************************************************************************)
(* Pages.  A row that is due and was not on the pages read so far has at   *)
(* least as many rows before it in the list as these pages held: rows that *)
(* come into the list only move it on, and while the list has no ties its  *)
(* place among the rows before it is its place in every answer.            *)
(***************************************************************************)
Ahead(k, list, f) == {l \in Shown(list, f) : Before(l, k, f)}

Pages ==
    reader.due # {} => \A list \in {reader.list}, f \in {reader.filter} :
        /\ reader.pc # "away" /\ f # None
        /\ reader.due \subseteq Shown(list, f) /\ ~Ties(Shown(list, f), f)
        /\ reader.pc = "read" => \A k \in reader.due \ reader.got :
                                    Cardinality(Ahead(k, list, f)) >= Off
        /\ reader.pc = "end" => reader.due \subseteq reader.got

LEMMA PlaceInList ==
    ASSUME BookOK, NEW S \in SUBSET Rows, NEW f, NEW s \in Sorted(S, f), ~Ties(S, f),
           NEW i \in 1..Len(s)
    PROVE  Cardinality({l \in S : Before(l, s[i], f)}) = i - 1
<1>1. /\ Len(s) \in Nat
      /\ \A j \in 1..Len(s) : s[j] \in S
      /\ \A k \in S : \E j \in 1..Len(s) : s[j] = k
      /\ \A j, l \in 1..Len(s) : j # l => s[j] # s[l]
      /\ \A j, l \in 1..Len(s) : j < l => ~Before(s[l], s[j], f)
  <2>1. InOrder(s, S, f)
    BY SortedRows
  <2>. QED
    BY <2>1 DEF InOrder
<1>2. ~Before(s[i], s[i], f)
  <2>1. s[i] \in Rows
    BY <1>1
  <2>2. book[s[i]].created \in Int
    BY <2>1, RowsFinite DEF BookOK, Columns
  <2>3. Facts[s[i][2]].deadline \in Int \cup {None}
    BY <2>1, BookAssumption
  <2>. QED
    BY <2>2, <2>3 DEF Before
<1>3. \A j \in 1..Len(s) : Before(s[j], s[i], f) <=> j < i
  <2> TAKE j \in 1..Len(s)
  <2>1. CASE j < i
    BY <1>1, <2>1 DEF Ties
  <2>2. CASE j = i
    BY <1>2, <2>2
  <2>3. CASE i < j
    BY <1>1, <2>3
  <2>. QED
    BY <1>1, <2>1, <2>2, <2>3
<1> DEFINE T == {l \in S : Before(l, s[i], f)}
           D == 1..(i - 1)
           g == [j \in D |-> s[j]]
<1>4. D \subseteq 1..Len(s) /\ \A j \in 1..Len(s) : j \in D <=> j < i
  BY <1>1
<1>5. g \in [D -> T] /\ \A j, l \in D : g[j] = g[l] => j = l
  BY <1>1, <1>3, <1>4
<1>6. \A k \in T : \E j \in D : g[j] = k
  <2> TAKE k \in T
  <2>1. PICK j \in 1..Len(s) : s[j] = k
    BY <1>1
  <2>2. j \in D
    BY <1>3, <1>4, <2>1
  <2>. QED
    BY <2>1, <2>2
<1> HIDE DEF g, T
<1>7. ExistsBijection(D, T)
  BY <1>5, <1>6 DEF ExistsBijection, Bijection, Injection, Surjection, IsInjective
<1> HIDE DEF D
<1>8. IsFiniteSet(D) /\ Cardinality(D) = i - 1
  <2>1. i - 1 \in Nat
    BY <1>1
  <2>. QED
    BY <2>1, FS_Interval DEF D
<1>9. Cardinality(T) = Cardinality(D)
  BY <1>7, <1>8, FS_Bijection
<1>. QED
  BY <1>8, <1>9 DEF T

LEMMA StillShown ==
    ASSUME UNCHANGED book, NEW list, NEW f
    PROVE  /\ Shown(list, f)' = Shown(list, f)
           /\ Ties(Shown(list, f), f)' = Ties(Shown(list, f), f)
           /\ \A k : Ahead(k, list, f)' = Ahead(k, list, f)
BY DEF Shown, Present, StatusesOf, Passes, Column, Reason, Ties, Ahead, Before

(* A row keeps its place in the order of created_at. *)
LEMMA CreatedStays ==
    ASSUME Types, [Next]_vars
    PROVE  \A k \in Present : book'[k].created = book[k].created
<1> DEFINE Goal == \A k \in Present : book'[k].created = book[k].created
<1>c. \A k \in Present : k \in Rows /\ book[k] \in Columns /\ book[k].status # "none"
  BY DEF Present, Types, BookOK
<1>q. UNCHANGED book => Goal
  OBVIOUS
<1>u. ASSUME NEW t, NEW status, NEW auto, NEW reason, UpdateStatus(t, status, auto, reason)
      PROVE  Goal
  <2> SUFFICES ASSUME NEW k \in Present PROVE book'[k].created = book[k].created
    OBVIOUS
  <2>1. CASE k[2] = t
    <3> DEFINE new == IF reason = None THEN book[k].accept ELSE reason
    <3>1. book'[k] = [book[k] EXCEPT !.status = status, !.auto = auto, !.accept = new]
      BY <1>u, <1>c, <2>1, Zenon DEF UpdateStatus
    <3> HIDE DEF new
    <3>. QED
      BY <3>1, <1>c DEF Columns
  <2>2. CASE k[2] # t
    BY <1>u, <1>c, <2>2, Zenon DEF UpdateStatus
  <2>. QED
    BY <2>1, <2>2
<1>1. ASSUME NEW k \in Rows, Save(k) PROVE Goal
  BY <1>1, <1>c DEF Save, Types, BookOK
<1>2. CASE Expire
  <2>1. PICK gone \in SUBSET {k \in Present : book[k].status = "pending"},
             why \in {"expired", "taken_by_other"} :
          book' = [k \in Rows |-> IF k \in gone
                     THEN [book[k] EXCEPT !.status = "failed", !.drift = why] ELSE book[k]]
    BY <1>2 DEF Expire
  <2>. QED
    BY <2>1, <1>c, Zenon DEF Columns
<1>3. ASSUME NEW t \in Tickets, Resurrect(t) PROVE Goal
  <2>1. book' = [k \in Rows |-> IF k \in RowsOf(t) /\ book[k].status = "failed"
                  THEN [book[k] EXCEPT !.status = "pending", !.drift = None] ELSE book[k]]
    BY <1>3, Zenon DEF Resurrect
  <2>. QED
    BY <2>1, <1>c, Zenon DEF Columns
<1>4. ASSUME NEW k \in Rows, AutoAccept(k) PROVE Goal
  BY <1>4, <1>u, <1>q, Zenon DEF AutoAccept
<1>5. ASSUME NEW k \in Rows, ClaimLapses(k) PROVE Goal
  BY <1>5, <1>q, Zenon DEF ClaimLapses
<1>6. CASE ReadStep \/ NextDay \/ UNCHANGED vars
  BY <1>6, <1>q, Zenon DEF ReadStep, OpenList, ReadPage, CloseList, NextDay, vars
<1>7. ASSUME NEW d \in Desks,
             \/ \E k \in Rows : PostRow(d, k)
             \/ \E token \in Tokens : PostToken(d, token)
             \/ \E t \in Coded : PostCode(d, t)
             \/ Find(d) \/ Claim(d) \/ Answer(d) \/ UseUp(d)
      PROVE  Goal
  BY <1>7, <1>q, Zenon DEF PostRow, PostToken, PostCode, Begin, Find, Claim, TryClaimManual, Answer, UseUp
<1>8. ASSUME NEW d \in Desks, Record(d) PROVE Goal
  <2>1. \/ UpdateStatus(desk[d].ticket, "accepted", FALSE, None)
        \/ UpdateStatus(desk[d].ticket, "failed", FALSE, "manual_accept_failed")
        \/ UNCHANGED book
    BY <1>8, Zenon DEF Record
  <2>. QED
    BY <2>1, <1>u, <1>q, Zenon
<1>. QED
  BY <1>1, <1>2, <1>3, <1>4, <1>5, <1>6, <1>7, <1>8 DEF Next, PollStep, PostStep

(* What was listed and still is has as many rows before it as it had. *)
LEMMA UnderReader ==
    ASSUME Types, Pages, Reading,
           \A k \in Present : book'[k].created = book[k].created
    PROVE  Pages'
<1> SUFFICES ASSUME reader'.due # {},
                    NEW list \in {reader'.list}, NEW f \in {reader'.filter}
             PROVE  /\ reader'.pc # "away" /\ f # None
                    /\ reader'.due \subseteq Shown(list, f)' /\ ~Ties(Shown(list, f), f)'
                    /\ reader'.pc = "read" => \A k \in reader'.due \ reader'.got :
                                    Cardinality(Ahead(k, list, f)') >= Off'
                    /\ reader'.pc = "end" => reader'.due \subseteq reader'.got
  BY DEF Pages
<1>1. [reader EXCEPT !.due = {}].due = {}
  BY DEF Types, ReaderOK
<1>2. PICK list1 \in {reader.list}, f1 \in {reader.filter} :
        reader' = IF f1 = None \/ /\ Shown(list1, f1) \subseteq Shown(list1, f1)'
                                  /\ ~Ties(Shown(list1, f1), f1)'
                  THEN reader ELSE [reader EXCEPT !.due = {}]
  BY DEF Reading
<1>3. reader' = reader /\ list1 = list /\ f1 = f
  BY <1>1, <1>2
<1>4. /\ reader.pc # "away" /\ f # None
      /\ reader.due \subseteq Shown(list, f)
      /\ reader.pc = "read" => \A k \in reader.due \ reader.got :
                                    Cardinality(Ahead(k, list, f)) >= Off
      /\ reader.pc = "end" => reader.due \subseteq reader.got
  BY <1>3, Zenon DEF Pages
<1>5. Shown(list, f) \subseteq Shown(list, f)' /\ ~Ties(Shown(list, f), f)'
  BY <1>1, <1>2, <1>3, <1>4
<1>6. Off' = Off /\ Off \in Nat
  BY <1>3, Sizes DEF Off, Offset, Types
<1>7. ASSUME reader.pc = "read", NEW k \in reader.due \ reader.got
      PROVE  Cardinality(Ahead(k, list, f)') >= Off
  <2>1. Cardinality(Ahead(k, list, f)) >= Off
    BY <1>4, <1>7
  <2>2. \A l \in Present : Before(l, k, f)' <=> Before(l, k, f)
    <3>1. k \in Present
      BY <1>4 DEF Shown
    <3>. QED
      BY <3>1 DEF Before
  <2>3. Ahead(k, list, f) \subseteq Ahead(k, list, f)'
    <3>1. Shown(list, f) \subseteq Present
      BY DEF Shown
    <3>. QED
      BY <1>5, <2>2, <3>1 DEF Ahead
  <2>4. Ahead(k, list, f)' \subseteq Rows
    BY DEF Ahead, Shown, Present
  <2>5. /\ Cardinality(Ahead(k, list, f)) <= Cardinality(Ahead(k, list, f)')
        /\ Cardinality(Ahead(k, list, f)) \in Nat
        /\ Cardinality(Ahead(k, list, f)') \in Nat
    BY <2>3, <2>4, RowsFinite, FS_Subset, FS_CardinalityType
  <2>. QED
    BY <1>6, <2>1, <2>5
<1>. QED
  BY <1>3, <1>4, <1>5, <1>6, <1>7

LEMMA PagesStay ==
    ASSUME Pages, UNCHANGED <<book, reader>>
    PROVE  Pages'
<1> SUFFICES ASSUME reader'.due # {},
                    NEW list \in {reader'.list}, NEW f \in {reader'.filter}
             PROVE  /\ reader'.pc # "away" /\ f # None
                    /\ reader'.due \subseteq Shown(list, f)' /\ ~Ties(Shown(list, f), f)'
                    /\ reader'.pc = "read" => \A k \in reader'.due \ reader'.got :
                                    Cardinality(Ahead(k, list, f)') >= Off'
                    /\ reader'.pc = "end" => reader'.due \subseteq reader'.got
  BY DEF Pages
<1>1. /\ reader.due # {} /\ list \in {reader.list} /\ f \in {reader.filter}
      /\ reader' = reader
  OBVIOUS
<1>2. /\ Shown(list, f)' = Shown(list, f)
      /\ Ties(Shown(list, f), f)' = Ties(Shown(list, f), f)
      /\ \A k : Ahead(k, list, f)' = Ahead(k, list, f)
  BY StillShown
<1>3. Off' = Off
  BY <1>1 DEF Off, Offset
<1>4. /\ reader.pc # "away" /\ f # None
      /\ reader.due \subseteq Shown(list, f) /\ ~Ties(Shown(list, f), f)
      /\ reader.pc = "read" => \A k \in reader.due \ reader.got :
                                    Cardinality(Ahead(k, list, f)) >= Off
      /\ reader.pc = "end" => reader.due \subseteq reader.got
  BY <1>1, Zenon DEF Pages
<1>. QED
  BY <1>1, <1>2, <1>3, <1>4

(* A page shows the rows behind the offset, and what is due and not on it  *)
(* has a whole page more before it.                                        *)
LEMMA PagesRead ==
    ASSUME Types, Pages, ReadPage
    PROVE  Pages'
<1> SUFFICES ASSUME reader'.due # {},
                    NEW list \in {reader'.list}, NEW f \in {reader'.filter}
             PROVE  /\ reader'.pc # "away" /\ f # None
                    /\ reader'.due \subseteq Shown(list, f)' /\ ~Ties(Shown(list, f), f)'
                    /\ reader'.pc = "read" => \A k \in reader'.due \ reader'.got :
                                    Cardinality(Ahead(k, list, f)') >= Off'
                    /\ reader'.pc = "end" => reader'.due \subseteq reader'.got
  BY DEF Pages
<1>1. PICK s \in Sorted(Shown(reader.list, reader.filter), reader.filter) :
        /\ reader'.pc = IF MoreThan(s) THEN "read" ELSE "end"
        /\ reader'.page = IF MoreThan(s) THEN reader.page + 1 ELSE reader.page
        /\ reader'.got = reader.got \cup PageOf(s)
        /\ reader'.list = reader.list /\ reader'.filter = reader.filter
        /\ reader'.due = reader.due
  BY PageIsRead DEF Types
<1>2. reader.due # {} /\ list = reader.list /\ f = reader.filter /\ reader.pc = "read"
  BY <1>1 DEF ReadPage
<1>3. /\ f # None
      /\ reader.due \subseteq Shown(list, f) /\ ~Ties(Shown(list, f), f)
      /\ \A k \in reader.due \ reader.got : Cardinality(Ahead(k, list, f)) >= Off
  BY <1>2 DEF Pages
<1>4. /\ Shown(list, f)' = Shown(list, f)
      /\ Ties(Shown(list, f), f)' = Ties(Shown(list, f), f)
      /\ \A k : Ahead(k, list, f)' = Ahead(k, list, f)
  <2>1. UNCHANGED book
    BY DEF ReadPage
  <2>. QED
    BY <2>1, StillShown
<1>5. Shown(list, f) \in SUBSET Rows /\ s \in Sorted(Shown(list, f), f)
  BY <1>1, <1>2 DEF Shown, Present
<1>6. InOrder(s, Shown(list, f), f)
  BY <1>5, SortedRows
<1>7. \A i \in 1..Len(s) : Cardinality(Ahead(s[i], list, f)) = i - 1
  BY <1>3, <1>5, PlaceInList DEF Ahead, Types
(* Where a row is that was due and has not been seen. *)
<1>8. ASSUME NEW k \in reader.due \ reader'.got
      PROVE  Cardinality(Ahead(k, list, f)) >= Off + PageSize /\ MoreThan(s)
  <2>1. k \in Shown(list, f) /\ k \notin reader.got /\ k \notin PageOf(s)
    BY <1>1, <1>3
  <2>2. PICK i \in 1..Len(s) : s[i] = k
    BY <1>6, <2>1 DEF InOrder
  <2>3. Cardinality(Ahead(k, list, f)) = i - 1 /\ Cardinality(Ahead(k, list, f)) >= Off
    BY <1>3, <1>7, <2>1, <2>2
  <2>4. Off \in Nat /\ PageSize \in Nat /\ Len(s) \in Nat
    BY <1>6, Sizes DEF Types, InOrder
  <2>5. ~(Off < i /\ i <= Off + PageSize)
    BY <2>1, <2>2 DEF PageOf
  <2>6. i > Off + PageSize
    BY <2>3, <2>4, <2>5
  <2>. QED
    BY <2>3, <2>4, <2>6 DEF MoreThan
<1>9. ASSUME MoreThan(s) PROVE Off' = Off + PageSize
  <2>1. reader'.page = reader.page + 1 /\ reader.page \in Nat
    BY <1>1, <1>9 DEF Types, ReaderOK
  <2>. QED
    BY <2>1, Sizes DEF Off, Offset
<1>10. CASE MoreThan(s)
  BY <1>1, <1>2, <1>3, <1>4, <1>8, <1>9, <1>10
<1>11. CASE ~MoreThan(s)
  BY <1>1, <1>2, <1>3, <1>4, <1>8, <1>11
<1>. QED
  BY <1>10, <1>11

LEMMA PagesOpen ==
    ASSUME Types, NEW list \in {"live", "history"}, NEW f \in Filters, OpenList(list, f)
    PROVE  Pages'
<1>1. /\ reader'.pc = "read" /\ reader'.list = list /\ reader'.filter = f
      /\ reader'.page = 1
      /\ reader'.due = IF Ties(Shown(list, f), f) THEN {} ELSE Shown(list, f)
      /\ UNCHANGED book
  BY DEF OpenList
<1>2. /\ Shown(list, f)' = Shown(list, f)
      /\ Ties(Shown(list, f), f)' = Ties(Shown(list, f), f)
      /\ \A k : Ahead(k, list, f)' = Ahead(k, list, f)
  BY <1>1, StillShown
<1>3. f # None
  BY BookAssumption
<1>4. Off' = 0
  BY <1>1, Sizes DEF Off, Offset
<1>5. \A k : Cardinality(Ahead(k, list, f)') \in Nat
  <2>1. \A k : Ahead(k, list, f)' \subseteq Rows
    BY DEF Ahead, Shown, Present
  <2>. QED
    BY <2>1, RowsFinite
<1>6. \A list1 \in {reader'.list}, f1 \in {reader'.filter} : list1 = list /\ f1 = f
  BY <1>1
<1> SUFFICES ASSUME reader'.due # {},
                    NEW list1 \in {reader'.list}, NEW f1 \in {reader'.filter}
             PROVE  /\ reader'.pc # "away" /\ f1 # None
                    /\ reader'.due \subseteq Shown(list1, f1)' /\ ~Ties(Shown(list1, f1), f1)'
                    /\ reader'.pc = "read" => \A k \in reader'.due \ reader'.got :
                                    Cardinality(Ahead(k, list1, f1)') >= Off'
                    /\ reader'.pc = "end" => reader'.due \subseteq reader'.got
  BY DEF Pages
<1>. QED
  BY <1>1, <1>2, <1>3, <1>4, <1>5, <1>6

LEMMA PagesNext ==
    ASSUME Types, Pages, [Next]_vars
    PROVE  Pages'
<1>r. Reading => Pages'
  BY CreatedStays, UnderReader
<1>q. UNCHANGED <<book, reader>> => Pages'
  BY PagesStay
<1>1. CASE PollStep
  BY <1>1, <1>r, <1>q, Zenon DEF PollStep, Save, AutoAccept, ClaimLapses, Resurrect, Expire
<1>2. CASE PostStep
  BY <1>2, <1>r, <1>q, Zenon
     DEF PostStep, PostRow, PostToken, PostCode, Begin, Find, Claim, TryClaimManual, Answer, Record, UseUp
<1>3. CASE NextDay \/ UNCHANGED vars
  BY <1>3, <1>q, Zenon DEF NextDay, vars
<1>4. ASSUME NEW list \in {"live", "history"}, NEW f \in Filters, OpenList(list, f)
      PROVE  Pages'
  BY <1>4, PagesOpen
<1>5. CASE ReadPage
  BY <1>5, PagesRead
<1>6. CASE CloseList
  BY <1>6 DEF CloseList, Away, Pages
<1>. QED
  BY <1>1, <1>2, <1>3, <1>4, <1>5, <1>6 DEF Next, ReadStep

\* Whoever reads a list to its end page by page has seen every row that was in
\* the list all the time, whatever was inserted above or moved in meanwhile
\* (store/bookings.rs:173-176, src/Frontend/src/lib/api-tickets.ts:108-122).
THEOREM PagesShowEverything == Spec => []PagesMissNothing
<1>1. Init => Pages
  BY DEF Init, Away, Pages
<1>2. Types /\ Pages /\ [Next]_vars => Pages'
  BY PagesNext
<1>3. Pages => PagesMissNothing
  BY DEF Pages, PagesMissNothing
<1>. QED
  BY <1>1, <1>2, <1>3, TypesHold, PTL DEF Spec

(***************************************************************************)
(* Search.  The library's induction theorems take an operator, which the   *)
(* provers cannot instantiate: StepByStep takes a set.                     *)
(***************************************************************************)
LEMMA StepByStep ==
    ASSUME NEW T, NEW N \in Nat, 0 \in T, \A n \in 1..N : n - 1 \in T => n \in T
    PROVE  \A n \in 0..N : n \in T
<1>. DEFINE missed == {n \in 0..N : n \notin T}
            R == OpToRel(<, Nat)
<1>1. SUFFICES ASSUME missed # {} PROVE FALSE
  OBVIOUS
<1>2. missed \subseteq Nat
  OBVIOUS
<1>3. IsWellFoundedOn(R, Nat)
  BY NatLessThanWellFounded, Zenon
<1>. HIDE DEF R, missed
<1>4. PICK m \in missed : \A k \in missed : ~(<<k, m>> \in R)
  BY <1>1, <1>2, <1>3, WFMin, Zenon
<1>5. \A k \in missed : ~(k < m)
  BY <1>2, <1>4 DEF R, OpToRel
<1>6. m \in 1..N /\ m - 1 \in 0..N /\ m \notin T
  BY DEF missed
<1>7. m - 1 \notin missed
  BY <1>2, <1>5, <1>6
<1>. QED
  BY <1>6, <1>7 DEF missed

Char == STRING \cup {Back, "%", "_"}

EscapedBy(c, x) == IF x = c THEN <<Back, c>> ELSE <<x>>

\* g[n] is the first n characters of the word with each c escaped.
Escapes(g, word, c) ==
    /\ g \in [0..Len(word) -> Seq(Char)]
    /\ g[0] = <<>>
    /\ \A n \in 1..Len(word) : g[n] = g[n - 1] \o EscapedBy(c, word[n])

EscapeFits(g, word, c) ==
    g = [n \in 0..Len(word) |->
            IF n = 0 THEN <<>> ELSE g[n - 1] \o (IF word[n] = c THEN <<Back, c>> ELSE <<word[n]>>)]

LEMMA EscapeSteps ==
    ASSUME NEW word \in Seq(Char), NEW c \in Char
    PROVE  \E g : Escapes(g, word, c) /\ Escape(word, c) = g[Len(word)]
<1>. DEFINE N == Len(word)
            new == [n \in 1..N |-> EscapedBy(c, word[n])]
            T == {m \in 0..N : \E g \in [0..m -> Seq(Char)] :
                     g[0] = <<>> /\ \A n \in 1..m : g[n] = g[n - 1] \o new[n]}
            to == CHOOSE g : EscapeFits(g, word, c)
<1>1. N \in Nat
  OBVIOUS
<1>2. new \in [1..N -> Seq(Char)]
  <2>1. ASSUME NEW x \in Char PROVE EscapedBy(c, x) \in Seq(Char)
    <3>1. Back \in Char
      BY Zenon DEF Char
    <3>. HIDE DEF Char
    <3>. QED
      BY <3>1 DEF EscapedBy
  <2>2. \A n \in 1..N : word[n] \in Char
    OBVIOUS
  <2>. QED
    BY <2>1, <2>2
<1>. HIDE DEF new
<1>3. 0 \in T
  <2>. DEFINE g == [n \in 0..0 |-> <<>>]
  <2>1. g \in [0..0 -> Seq(Char)] /\ g[0] = <<>> /\ 0 \in 0..N /\ 1..0 = {}
    BY <1>1
  <2>. HIDE DEF g
  <2>. QED
    BY <2>1
<1>4. ASSUME NEW m \in 1..N, m - 1 \in T PROVE m \in T
  <2>. DEFINE l == m - 1
  <2>0. /\ l \in 0..N /\ l \in Nat /\ m \in 0..N /\ m \in Nat /\ m = l + 1 /\ m \notin 0..l
        /\ 0..m = 0..l \cup {m} /\ 1..m = 1..l \cup {m} /\ m - 1 = l /\ l \in 0..l /\ 0 \in 0..l
        /\ \A n \in 1..l : n \in 0..l /\ n - 1 \in 0..l
    BY <1>1
  <2>. HIDE DEF l
  <2>1. PICK g \in [0..l -> Seq(Char)] : g[0] = <<>> /\ \A n \in 1..l : g[n] = g[n - 1] \o new[n]
    BY <1>4, <2>0
  <2>. DEFINE h == [n \in 0..m |-> IF n = m THEN g[l] \o new[m] ELSE g[n]]
  <2>2. g[l] \o new[m] \in Seq(Char)
    BY <1>2, <2>0, <2>1
  <2>3. h \in [0..m -> Seq(Char)]
    BY <2>0, <2>1, <2>2
  <2>4. h[0] = <<>> /\ h[m] = h[l] \o new[m] /\ \A n \in 1..l : h[n] = g[n] /\ h[n - 1] = g[n - 1]
    BY <2>0, <2>1
  <2>. HIDE DEF h
  <2>5. \A n \in 1..m : h[n] = h[n - 1] \o new[n]
    BY <2>0, <2>1, <2>4
  <2>. QED
    BY <2>0, <2>3, <2>4, <2>5
<1>5. PICK f \in [0..N -> Seq(Char)] : f[0] = <<>> /\ \A n \in 1..N : f[n] = f[n - 1] \o new[n]
  <2>. HIDE DEF T
  <2>1. \A m \in 0..N : m \in T
    BY <1>1, <1>3, <1>4, StepByStep
  <2>2. N \in T
    BY <1>1, <2>1
  <2>. QED
    BY <2>2 DEF T
<1>6. \A n \in 1..N : new[n] = IF word[n] = c THEN <<Back, c>> ELSE <<word[n]>>
  BY DEF new, EscapedBy
<1>. HIDE DEF N
<1>7. EscapeFits(f, word, c)
  <2>1. f = [n \in 0..N |-> f[n]]
    OBVIOUS
  <2>2. \A n \in 0..N : n # 0 => n \in 1..N
    BY <1>1
  <2>3. \A n \in 0..N : f[n] =
            IF n = 0 THEN <<>>
            ELSE f[n - 1] \o (IF word[n] = c THEN <<Back, c>> ELSE <<word[n]>>)
    BY <1>5, <1>6, <2>2
  <2>. QED
    BY <2>1, <2>3 DEF EscapeFits, N
<1>8. EscapeFits(to, word, c)
  BY <1>7, Zenon
<1>9. Escape(word, c) = to[N]
  BY Zenon DEF Escape, EscapeFits, N
<1>. HIDE DEF to
<1>10. to[0] = <<>> /\ \A n \in 1..N : to[n] = to[n - 1] \o new[n]
  <2>1. \A n \in 0..N : to[n] =
            IF n = 0 THEN <<>>
            ELSE to[n - 1] \o (IF word[n] = c THEN <<Back, c>> ELSE <<word[n]>>)
    BY <1>8 DEF EscapeFits, N
  <2>2. 0 \in 0..N /\ \A n \in 1..N : n \in 0..N /\ n # 0
    BY <1>1
  <2>. QED
    BY <1>6, <2>1, <2>2
<1>11. \A n \in 0..N : to[n] \in Seq(Char)
  <2>. DEFINE U == {n \in 0..N : to[n] \in Seq(Char)}
  <2>0. \A n \in 1..N : n \in 0..N
    BY <1>1
  <2>1. 0 \in U
    <3>1. 0 \in 0..N /\ <<>> \in Seq(Char)
      BY <1>1
    <3>. QED
      BY <1>10, <3>1, Zenon
  <2>2. ASSUME NEW n \in 1..N, n - 1 \in U PROVE n \in U
    <3>1. to[n - 1] \in Seq(Char) /\ new[n] \in Seq(Char)
      BY <1>2, <2>2
    <3>2. to[n - 1] \o new[n] \in Seq(Char)
      BY <3>1
    <3>. QED
      BY <1>10, <2>0, <3>2, Zenon
  <2>. HIDE DEF U
  <2>3. \A n \in 0..N : n \in U
    BY <1>1, <2>1, <2>2, StepByStep
  <2>. QED
    BY <2>3 DEF U
<1>12. Escapes(to, word, c)
  <2>1. to \in [0..N -> Seq(Char)]
    <3>1. to = [n \in 0..N |-> to[n]]
      BY <1>8 DEF EscapeFits, N
    <3>. QED
      BY <1>11, <3>1
  <2>2. \A n \in 1..N : new[n] = EscapedBy(c, word[n])
    BY DEF new
  <2>. QED
    BY <1>10, <2>1, <2>2 DEF Escapes, N
<1>. QED
  BY <1>9, <1>12 DEF N

\* Escaping goes character by character.
LEMMA EscapeAppend ==
    ASSUME NEW u \in Seq(Char), NEW x \in Char, NEW c \in Char
    PROVE  /\ Escape(u, c) \in Seq(Char) /\ Escape(<<>>, c) = <<>>
           /\ Escape(Append(u, x), c) = Escape(u, c) \o EscapedBy(c, x)
<1>. DEFINE w == Append(u, x)  N == Len(u)
<1>1. /\ w \in Seq(Char) /\ Len(w) = N + 1 /\ N \in Nat /\ w[N + 1] = x
      /\ \A n \in 1..N : w[n] = u[n]
  OBVIOUS
<1>2. Escape(<<>>, c) = <<>>
  <2>1. <<>> \in Seq(Char) /\ Len(<<>>) = 0
    OBVIOUS
  <2>2. PICK g : Escapes(g, <<>>, c) /\ Escape(<<>>, c) = g[Len(<<>>)]
    BY <2>1, EscapeSteps
  <2>. QED
    BY <2>1, <2>2, Zenon DEF Escapes
<1>3. PICK g : Escapes(g, u, c) /\ Escape(u, c) = g[N]
  BY EscapeSteps
<1>. HIDE DEF w
<1>4. PICK h : Escapes(h, w, c) /\ Escape(w, c) = h[N + 1]
  BY <1>1, EscapeSteps
<1>. HIDE DEF N
<1>5. /\ g[0] = h[0] /\ \A n \in 1..N : g[n] = g[n - 1] \o EscapedBy(c, u[n])
      /\ g \in [0..N -> Seq(Char)]
  BY <1>3, <1>4, Zenon DEF Escapes, N
<1>6. \A n \in 1..(N + 1) : h[n] = h[n - 1] \o EscapedBy(c, w[n])
  BY <1>1, <1>4, Zenon DEF Escapes
<1>. DEFINE T == {n \in 0..N : g[n] = h[n]}
<1>7. 0 \in T
  <2>1. 0 \in 0..N
    BY <1>1
  <2>. QED
    BY <1>5, <2>1, Zenon
<1>8. ASSUME NEW n \in 1..N, n - 1 \in T PROVE n \in T
  <2>1. n \in 0..N /\ n \in 1..(N + 1) /\ w[n] = u[n]
    BY <1>1
  <2>2. g[n] = h[n]
    BY <1>5, <1>6, <1>8, <2>1, Zenon
  <2>. QED
    BY <2>1, <2>2
<1>9. g[N] = h[N]
  <2>1. N \in 0..N
    BY <1>1
  <2>. HIDE DEF T
  <2>2. N \in T
    BY <1>1, <1>7, <1>8, <2>1, StepByStep, Zenon
  <2>. QED
    BY <2>2 DEF T
<1>10. Escape(u, c) \in Seq(Char)
  <2>1. N \in 0..N
    BY <1>1
  <2>. QED
    BY <1>3, <1>5, <2>1
<1>11. h[N + 1] = h[N] \o EscapedBy(c, x)
  <2>1. N + 1 \in 1..(N + 1) /\ (N + 1) - 1 = N
    BY <1>1
  <2>. QED
    BY <1>1, <1>6, <2>1, Zenon
<1>. QED
  BY <1>2, <1>3, <1>4, <1>9, <1>10, <1>11, Zenon DEF w

Typed(x) == IF x \in {Back, "%", "_"} THEN <<Back, x>> ELSE <<x>>

LEMMA Wildcards == /\ Back # "%" /\ Back # "_" /\ "%" # "_"
                   /\ Back \in Char /\ "%" \in Char /\ "_" \in Char
<1>1. Back # "%" /\ Back # "_" /\ "%" # "_"
  BY DEF Back
<1>2. Back \in Char /\ "%" \in Char /\ "_" \in Char
  BY Zenon DEF Char
<1>. QED
  BY <1>1, <1>2, Zenon

LEMMA EscapeLikeAppend ==
    ASSUME NEW u \in Seq(Char), NEW x \in Char
    PROVE  /\ EscapeLike(u) \in Seq(Char) /\ EscapeLike(<<>>) = <<>>
           /\ EscapeLike(Append(u, x)) = EscapeLike(u) \o Typed(x)
<1>. DEFINE percent == "%"  under == "_"
            first == Escape(u, Back)
            second == Escape(first, percent)
            third == Escape(second, under)
<1>1. /\ Back # percent /\ Back # under /\ percent # under
      /\ Back \in Char /\ percent \in Char /\ under \in Char
  BY Wildcards, Zenon
<1>2. \A v : EscapeLike(v) = Escape(Escape(Escape(v, Back), percent), under)
  BY DEF EscapeLike
<1>3. Typed(x) = IF x \in {Back, percent, under} THEN <<Back, x>> ELSE <<x>>
  BY DEF Typed
<1>. HIDE DEF percent, under
<1>4. first \in Seq(Char) /\ second \in Seq(Char) /\ third \in Seq(Char)
  <2>1. first \in Seq(Char)
    BY <1>1, EscapeAppend
  <2>. HIDE DEF first
  <2>2. second \in Seq(Char)
    BY <1>1, <2>1, EscapeAppend
  <2>. HIDE DEF second
  <2>3. third \in Seq(Char)
    BY <1>1, <2>2, EscapeAppend
  <2>. QED
    BY <2>1, <2>2, <2>3
<1>5. EscapeLike(<<>>) = <<>>
  BY <1>1, <1>2, EscapeAppend, Zenon
<1>6. \A v \in Seq(Char), c \in Char, y \in Char : Escape(Append(v, y), c) =
          IF y = c THEN Append(Append(Escape(v, c), Back), y) ELSE Append(Escape(v, c), y)
  <2>1. SUFFICES ASSUME NEW v \in Seq(Char), NEW c \in Char, NEW y \in Char
                 PROVE  Escape(Append(v, y), c) =
                            IF y = c THEN Append(Append(Escape(v, c), Back), y)
                            ELSE Append(Escape(v, c), y)
    OBVIOUS
  <2>2. Escape(v, c) \in Seq(Char) /\ Escape(Append(v, y), c) = Escape(v, c) \o EscapedBy(c, y)
    BY EscapeAppend
  <2>. DEFINE e == Escape(v, c)
  <2>. HIDE DEF e
  <2>3. \A e1 \in Seq(Char) : /\ e1 \o <<y>> = Append(e1, y)
                              /\ e1 \o <<Back, y>> = Append(Append(e1, Back), y)
    BY <1>1
  <2>. QED
    BY <2>2, <2>3 DEF EscapedBy
<1>7. EscapeLike(Append(u, x)) =
          IF x \in {Back, percent, under} THEN Append(Append(third, Back), x) ELSE Append(third, x)
  <2>1. Escape(Append(u, x), Back) =
            IF x = Back THEN Append(Append(first, Back), x) ELSE Append(first, x)
    BY <1>1, <1>6
  <2>. HIDE DEF first
  <2>2. /\ Escape(Append(first, x), percent) =
                IF x = percent THEN Append(Append(second, Back), x) ELSE Append(second, x)
        /\ Escape(Append(first, Back), percent) = Append(second, Back)
        /\ x = Back => Escape(Append(Append(first, Back), x), percent)
                           = Append(Append(second, Back), x)
    <3>1. Append(first, Back) \in Seq(Char)
      BY <1>1, <1>4
    <3>2. Escape(Append(first, x), percent) =
              IF x = percent THEN Append(Append(second, Back), x) ELSE Append(second, x)
      <4>1. first \in Seq(Char) /\ percent \in Char
        BY <1>1, <1>4
      <4>. HIDE DEF second
      <4>. QED
        BY <1>6, <4>1 DEF second
    <3>3. Escape(Append(first, Back), percent) = Append(second, Back)
      BY <1>1, <1>4, <1>6
    <3>4. Escape(Append(Append(first, Back), Back), percent)
              = Append(Escape(Append(first, Back), percent), Back)
      BY <1>1, <1>6, <3>1
    <3>. QED
      BY <3>2, <3>3, <3>4
  <2>. HIDE DEF second
  <2>3. /\ Escape(Append(second, x), under) =
                IF x = under THEN Append(Append(third, Back), x) ELSE Append(third, x)
        /\ Escape(Append(second, Back), under) = Append(third, Back)
        /\ x # under => Escape(Append(Append(second, Back), x), under)
                            = Append(Append(third, Back), x)
    <3>1. Append(second, Back) \in Seq(Char)
      BY <1>1, <1>4
    <3>2. Escape(Append(second, x), under) =
              IF x = under THEN Append(Append(third, Back), x) ELSE Append(third, x)
      <4>1. second \in Seq(Char) /\ under \in Char
        BY <1>1, <1>4
      <4>. QED
        BY <1>6, <4>1
    <3>3. Escape(Append(second, Back), under) = Append(third, Back)
      BY <1>1, <1>4, <1>6
    <3>4. x # under => Escape(Append(Append(second, Back), x), under)
                           = Append(Escape(Append(second, Back), under), x)
      BY <1>1, <1>6, <3>1
    <3>. QED
      BY <3>2, <3>3, <3>4
  <2>. HIDE DEF third
  <2>4. CASE x = Back
    BY <1>1, <1>2, <2>1, <2>2, <2>3, <2>4
  <2>5. CASE x = percent
    BY <1>1, <1>2, <2>1, <2>2, <2>3, <2>5
  <2>6. CASE x \notin {Back, percent}
    BY <1>1, <1>2, <2>1, <2>2, <2>3, <2>6
  <2>. QED
    BY <2>4, <2>5, <2>6
<1>8. EscapeLike(u) = third
  BY <1>2
<1>. HIDE DEF third
<1>9. /\ third \o <<x>> = Append(third, x)
       /\ third \o <<Back, x>> = Append(Append(third, Back), x)
  BY <1>1, <1>4
<1>. QED
  BY <1>3, <1>4, <1>5, <1>7, <1>8, <1>9

\* What From holds at i, from what it holds at the places after i.
LikeStep(f, p, s, i) ==
    IF i > Len(p) THEN {Len(s) + 1}
    ELSE CASE p[i] = "%" -> {j \in 1..(Len(s) + 1) : \E k \in f[i + 1] : j <= k}
           [] p[i] = Back /\ i < Len(p) ->
                  {j \in DOMAIN s : s[j] = p[i + 1] /\ j + 1 \in f[i + 2]}
           [] OTHER -> {j \in DOMAIN s : p[i] \in {"_", s[j]} /\ j + 1 \in f[i + 1]}

LikeFits(f, p, s) == f = [i \in 1..(Len(p) + 1) |-> LikeStep(f, p, s, i)]

AlikeAfter(f, g, p, i) == f[i + 1] = g[i + 1] /\ (i < Len(p) => f[i + 2] = g[i + 2])

Percent == "%"
Under == "_"

\* The arms of LikeStep.
Arms(h, p, s, i) ==
    /\ i > Len(p) => LikeStep(h, p, s, i) = {Len(s) + 1}
    /\ ~(i > Len(p)) /\ p[i] = Percent => LikeStep(h, p, s, i) =
           {j \in 1..(Len(s) + 1) : \E k \in h[i + 1] : j <= k}
    /\ ~(i > Len(p)) /\ p[i] = Back /\ i < Len(p) => LikeStep(h, p, s, i) =
           {j \in DOMAIN s : s[j] = p[i + 1] /\ j + 1 \in h[i + 2]}
    /\ ~(i > Len(p)) /\ p[i] # Percent /\ ~(p[i] = Back /\ i < Len(p)) =>
           LikeStep(h, p, s, i) =
               {j \in DOMAIN s : p[i] \in {Under, s[j]} /\ j + 1 \in h[i + 1]}

LEMMA LikeStepArms ==
    ASSUME NEW h, NEW p, NEW s, NEW i
    PROVE  Arms(h, p, s, i)
<1>. DEFINE run == {j \in 1..(Len(s) + 1) : \E k \in h[i + 1] : j <= k}
            escaped == {j \in DOMAIN s : s[j] = p[i + 1] /\ j + 1 \in h[i + 2]}
            one == {j \in DOMAIN s : p[i] \in {Under, s[j]} /\ j + 1 \in h[i + 1]}
            last == i < Len(p)
            beyond == i > Len(p)
<1>1. Back # Percent
  BY Wildcards, Zenon DEF Percent
<1>2. LikeStep(h, p, s, i) = IF beyond THEN {Len(s) + 1}
                             ELSE CASE p[i] = Percent -> run
                                    [] p[i] = Back /\ last -> escaped
                                    [] OTHER -> one
  BY Zenon DEF LikeStep, Percent, Under
<1>. HIDE DEF run, escaped, one, last, beyond
<1>3. CASE beyond
  BY <1>2, <1>3 DEF beyond, Arms
<1>4. CASE ~beyond /\ p[i] = Percent
  BY <1>1, <1>2, <1>4 DEF beyond, run, Arms
<1>5. CASE ~beyond /\ p[i] = Back /\ last
  BY <1>1, <1>2, <1>5 DEF beyond, escaped, last, Arms
<1>6. CASE ~beyond /\ p[i] # Percent /\ ~(p[i] = Back /\ last)
  BY <1>1, <1>2, <1>6 DEF beyond, one, last, Arms
<1>. QED
  BY <1>3, <1>4, <1>5, <1>6 DEF beyond, last, Arms

LEMMA LikeStepIs ==
    ASSUME NEW p, NEW s \in Seq(Char), NEW f, NEW g, NEW i, AlikeAfter(f, g, p, i)
    PROVE  /\ LikeStep(f, p, s, i) \in SUBSET Nat
           /\ LikeStep(g, p, s, i) = LikeStep(f, p, s, i)
<1>1. \A h : Arms(h, p, s, i)
  BY LikeStepArms
<1>2. LikeStep(f, p, s, i) \in SUBSET Nat
  <2>1. DOMAIN s \subseteq Nat /\ 1..(Len(s) + 1) \subseteq Nat /\ Len(s) + 1 \in Nat
    OBVIOUS
  <2>. QED
    BY <1>1, <2>1 DEF Arms
<1>3. LikeStep(g, p, s, i) = LikeStep(f, p, s, i)
  <2>1. CASE i > Len(p)
    BY <1>1, <2>1 DEF Arms
  <2>2. CASE ~(i > Len(p)) /\ p[i] = Percent
    BY <2>2, <1>1 DEF Arms, AlikeAfter
  <2>3. CASE ~(i > Len(p)) /\ p[i] # Percent /\ p[i] = Back /\ i < Len(p)
    BY <2>3, <1>1 DEF Arms, AlikeAfter
  <2>4. CASE ~(i > Len(p)) /\ p[i] # Percent /\ ~(p[i] = Back /\ i < Len(p))
    BY <2>4, <1>1 DEF Arms, AlikeAfter
  <2>. QED
    BY <2>1, <2>2, <2>3, <2>4
<1>. QED
  BY <1>2, <1>3

LEMMA LikeStepAgrees ==
    ASSUME NEW p, NEW s \in Seq(Char), NEW f, NEW g, NEW i, AlikeAfter(f, g, p, i)
    PROVE  LikeStep(g, p, s, i) = LikeStep(f, p, s, i)
BY LikeStepIs

Read(f, p, s) == \A i \in 1..(Len(p) + 1) : f[i] = LikeStep(f, p, s, i)

LEMMA LikeSteps ==
    ASSUME NEW p \in Seq(Char), NEW s \in Seq(Char)
    PROVE  \E f : Read(f, p, s) /\ (Like(p, s) <=> 1 \in f[1])
<1>. DEFINE N == Len(p)
            T == {n \in 0..N : \E f \in [(N + 1) - n .. N + 1 -> SUBSET Nat] :
                     \A i \in (N + 1) - n .. N + 1 : f[i] = LikeStep(f, p, s, i)}
            from == CHOOSE f : LikeFits(f, p, s)
<1>1. N \in Nat
  OBVIOUS
<1>2. 0 \in T
  <2>. DEFINE f == [i \in (N + 1) - 0 .. N + 1 |-> {Len(s) + 1}]
  <2>1. f \in [(N + 1) - 0 .. N + 1 -> SUBSET Nat] /\ 0 \in 0..N
    OBVIOUS
  <2>2. \A i \in (N + 1) - 0 .. N + 1 : i > N /\ f[i] = {Len(s) + 1}
    BY <1>1
  <2>3. \A i \in (N + 1) - 0 .. N + 1 : f[i] = LikeStep(f, p, s, i)
    <3>. HIDE DEF f
    <3>1. \A i : i > N => LikeStep(f, p, s, i) = {Len(s) + 1}
      BY Zenon DEF LikeStep
    <3>. QED
      BY <2>2, <3>1
  <2>. HIDE DEF f, N
  <2>. QED
    BY <2>1, <2>3
<1>3. ASSUME NEW n \in 1..N, n - 1 \in T PROVE n \in T
  <2>. DEFINE a == (N + 1) - n  b == (N + 1) - (n - 1)
  <2>1. /\ a \in 1..N /\ b = a + 1 /\ n \in 0..N /\ a .. N + 1 = {a} \cup (b .. N + 1)
        /\ a \notin b .. N + 1
    <3>. HIDE DEF N
    <3>1. a \in 1..N /\ b = a + 1 /\ n \in 0..N
      BY <1>1
    <3>. HIDE DEF a, b
    <3>. QED
      BY <1>1, <3>1
  <2>2. PICK f \in [b .. N + 1 -> SUBSET Nat] :
            \A i \in b .. N + 1 : f[i] = LikeStep(f, p, s, i)
    BY <1>3
  <2>3. LikeStep(f, p, s, a) \in SUBSET Nat
    BY LikeStepIs, Zenon DEF AlikeAfter
  <2>4. PICK g \in [a .. N + 1 -> SUBSET Nat] :
            g[a] = LikeStep(f, p, s, a) /\ \A i \in b .. N + 1 : g[i] = f[i]
    <3>. DEFINE h == [i \in a .. N + 1 |-> IF i = a THEN LikeStep(f, p, s, a) ELSE f[i]]
    <3>1. h \in [a .. N + 1 -> SUBSET Nat] /\ h[a] = LikeStep(f, p, s, a)
      BY <2>1, <2>2, <2>3
    <3>2. \A i \in b .. N + 1 : h[i] = f[i]
      BY <2>1, <2>2
    <3>. HIDE DEF h
    <3>. QED
      BY <3>1, <3>2
  <2>. HIDE DEF a, b
  <2>5. ASSUME NEW i \in a .. N + 1 PROVE LikeStep(g, p, s, i) = LikeStep(f, p, s, i)
    <3>1. CASE i > N
      BY <3>1 DEF LikeStep, N
    <3>2. CASE i <= N
      <4>1. i + 1 \in b .. N + 1 /\ (i < N => i + 2 \in b .. N + 1)
        BY <1>1, <2>1, <3>2
      <4>2. g[i + 1] = f[i + 1] /\ (i < N => g[i + 2] = f[i + 2])
        BY <2>4, <4>1
      <4>. QED
        <5>1. AlikeAfter(f, g, p, i)
          BY <4>2 DEF N, AlikeAfter
        <5>. QED
          BY <5>1, LikeStepAgrees
    <3>3. i \in Int /\ N \in Int
      BY <1>1, <2>1
    <3>. QED
      BY <3>1, <3>2, <3>3
  <2>6. \A i \in a .. N + 1 : g[i] = LikeStep(g, p, s, i)
    BY <2>1, <2>2, <2>4, <2>5
  <2>. HIDE DEF N
  <2>. QED
    BY <2>1, <2>4, <2>6 DEF a
<1>4. PICK f \in [1 .. N + 1 -> SUBSET Nat] : \A i \in 1 .. N + 1 : f[i] = LikeStep(f, p, s, i)
  <2>. HIDE DEF T, N
  <2>1. N \in T
    <3>1. N \in 0..N
      BY <1>1
    <3>. QED
      BY <1>1, <1>2, <1>3, <3>1, StepByStep, Zenon
  <2>2. (N + 1) - N = 1
    BY <1>1
  <2>. QED
    BY <2>1, <2>2 DEF T
<1>5. LikeFits(f, p, s)
  <2>1. f = [i \in 1 .. N + 1 |-> f[i]]
    OBVIOUS
  <2>. QED
    BY <1>4, <2>1 DEF LikeFits
<1>6. LikeFits(from, p, s)
  BY <1>5, Zenon
<1>7. Like(p, s) <=> 1 \in from[1]
  BY Zenon DEF Like, LikeFits, LikeStep
<1>. HIDE DEF from
<1>8. Read(from, p, s)
  BY <1>6 DEF LikeFits, Read
<1>. QED
  BY <1>7, <1>8

\* e[k] is the pattern of the first k characters of the word.
Patterns(e, word) ==
    /\ e \in [0..Len(word) -> Seq(Char)]
    /\ e[0] = <<>> /\ e[Len(word)] = EscapeLike(word)
    /\ \A k \in 1..Len(word) : e[k] = e[k - 1] \o Typed(word[k])

LEMMA TypedIs ==
    ASSUME NEW x \in Char
    PROVE  /\ Typed(x) \in Seq(Char) /\ Typed(x) \in {<<Back, x>>, <<x>>}
           /\ Typed(x) = <<x>> <=> x \notin {Back, Percent, Under}
<1>1. Back \in Char
  BY Wildcards, Zenon
<1>2. Typed(x) = IF x \in {Back, Percent, Under} THEN <<Back, x>> ELSE <<x>>
  BY Zenon DEF Typed, Percent, Under
<1>. HIDE DEF Char
<1>. QED
  BY <1>1, <1>2

LEMMA EscapeLikeSteps ==
    ASSUME NEW word \in Seq(Char)
    PROVE  \E e : Patterns(e, word)
<1>. DEFINE N == Len(word)
            upto == [k \in 0..N |-> SubSeq(word, 1, k)]
            e == [k \in 0..N |-> EscapeLike(upto[k])]
<1>1. N \in Nat
  OBVIOUS
<1>2. /\ upto \in [0..N -> Seq(Char)] /\ upto[0] = <<>> /\ upto[N] = word
      /\ \A k \in 1..N : k - 1 \in 0..N /\ word[k] \in Char
                         /\ upto[k] = Append(upto[k - 1], word[k])
  <2>. HIDE DEF Char
  <2>1. upto \in [0..N -> Seq(Char)] /\ upto[0] = <<>> /\ upto[N] = word
    OBVIOUS
  <2>2. ASSUME NEW k \in 1..N
        PROVE  k - 1 \in 0..N /\ word[k] \in Char /\ upto[k] = Append(upto[k - 1], word[k])
    OBVIOUS
  <2>. QED
    BY <2>1, <2>2
<1>. HIDE DEF upto
<1>3. \A u \in Seq(Char) : EscapeLike(u) \in Seq(Char)
  BY EscapeLikeAppend, Wildcards, Zenon
<1>4. e \in [0..N -> Seq(Char)]
  <2>1. \A k \in 0..N : upto[k] \in Seq(Char)
    BY <1>2
  <2>. QED
    BY <1>3, <2>1
<1>5. e[0] = <<>> /\ e[N] = EscapeLike(word)
  <2>1. EscapeLike(<<>>) = <<>>
    <3>1. <<>> \in Seq(Char)
      OBVIOUS
    <3>. QED
      BY <3>1, EscapeLikeAppend, Wildcards, Zenon
  <2>2. 0 \in 0..N /\ N \in 0..N
    BY <1>1
  <2>. QED
    BY <1>2, <2>1, <2>2
<1>6. ASSUME NEW k \in 1..N PROVE e[k] = e[k - 1] \o Typed(word[k])
  <2>1. upto[k - 1] \in Seq(Char) /\ word[k] \in Char
    BY <1>2
  <2>2. EscapeLike(Append(upto[k - 1], word[k])) = EscapeLike(upto[k - 1]) \o Typed(word[k])
    BY <2>1, EscapeLikeAppend, Zenon
  <2>3. e[k] = EscapeLike(upto[k]) /\ e[k - 1] = EscapeLike(upto[k - 1])
    BY <1>2
  <2>4. upto[k] = Append(upto[k - 1], word[k])
    BY <1>2
  <2>. HIDE DEF e
  <2>. QED
    BY <2>2, <2>3, <2>4, Zenon
<1>. HIDE DEF e
<1>. QED
  BY <1>4, <1>5, <1>6 DEF Patterns

LEMMA PatternsGrow ==
    ASSUME NEW word \in Seq(Char), NEW e, Patterns(e, word), NEW k \in 0..Len(word)
    PROVE  /\ Len(e[k]) <= Len(e[Len(word)])
           /\ \A i \in 1..Len(e[k]) : e[Len(word)][i] = e[k][i]
<1>. DEFINE N == Len(word) - k
            T == {m \in 0..N : /\ Len(e[k]) <= Len(e[k + m])
                               /\ \A i \in 1..Len(e[k]) : e[k + m][i] = e[k][i]}
<1>1. N \in Nat /\ \A m \in 0..N : e[k + m] \in Seq(Char)
  BY DEF Patterns
<1>2. 0 \in T
  BY <1>1
<1>3. ASSUME NEW m \in 1..N, m - 1 \in T PROVE m \in T
  <2>1. word[k + m] \in Char /\ k + m \in 1..Len(word) /\ (k + m) - 1 = k + (m - 1)
        /\ m - 1 \in 0..N /\ m \in 0..N
    BY <1>1
  <2>2. e[k + m] = e[k + (m - 1)] \o Typed(word[k + m])
    BY <2>1 DEF Patterns
  <2>3. Typed(word[k + m]) \in Seq(Char)
    BY <2>1, TypedIs, Zenon
  <2>4. e[k + (m - 1)] \in Seq(Char) /\ e[k] \in Seq(Char)
    BY <1>1, <2>1 DEF Patterns
  <2>5. /\ Len(e[k]) <= Len(e[k + (m - 1)])
        /\ \A i \in 1..Len(e[k]) : e[k + (m - 1)][i] = e[k][i]
    BY <1>3
  <2>6. /\ Len(e[k + m]) >= Len(e[k + (m - 1)])
        /\ \A i \in 1..Len(e[k + (m - 1)]) : e[k + m][i] = e[k + (m - 1)][i]
    <3>. DEFINE old == e[k + (m - 1)]  more == Typed(word[k + m])
    <3>1. old \in Seq(Char) /\ more \in Seq(Char) /\ e[k + m] = old \o more
      BY <2>2, <2>3, <2>4
    <3>. HIDE DEF old, more, Char
    <3>2. Len(old \o more) >= Len(old) /\ \A i \in 1..Len(old) : (old \o more)[i] = old[i]
      BY <3>1
    <3>. QED
      BY <3>1, <3>2 DEF old
  <2>. QED
    BY <1>1, <2>1, <2>4, <2>5, <2>6
<1>4. N \in T
  <2>1. N \in 0..N
    BY <1>1
  <2>. HIDE DEF T, N
  <2>. QED
    BY <1>1, <1>2, <1>3, <2>1, StepByStep, Zenon
<1>. QED
  BY <1>4

\* s goes on from k as the word does.
GoesOn(s, word, k) == Len(word) <= Len(s) /\ \A l \in (k + 1)..Len(word) : s[l] = word[l]

\* One character of the word, and what is left of it.
LEMMA GoesOnStep ==
    ASSUME NEW word \in Seq(Char), NEW s \in Seq(Char), NEW k \in 0..(Len(word) - 1)
    PROVE  GoesOn(s, word, k) <=>
               k + 1 <= Len(s) /\ s[k + 1] = word[k + 1] /\ GoesOn(s, word, k + 1)
<1>1. (k + 1)..Len(word) = {k + 1} \cup ((k + 1) + 1)..Len(word) /\ k + 1 <= Len(word)
  OBVIOUS
<1>. QED
  BY <1>1 DEF GoesOn

\* The pattern p starts with new, which has one character more than old.
OneMore(old, x, new, p) ==
    new = old \o Typed(x) /\ Len(new) < Len(p) /\ \A i \in 1..Len(new) : p[i] = new[i]

\* What From holds before one more character of the word.
LEMMA FromStep ==
    ASSUME NEW old \in Seq(Char), NEW x \in Char, NEW p \in Seq(Char), NEW s \in Seq(Char),
           NEW new, OneMore(old, x, new, p), NEW f, Read(f, p, s), NEW j
    PROVE  j \in f[Len(old) + 1] <=>
               j \in DOMAIN s /\ s[j] = x /\ j + 1 \in f[Len(new) + 1]
<1>. DEFINE L == Len(old)
            i == L + 1
<1>. HIDE DEF Char
<1>1. L \in Nat /\ i \in Nat \ {0} /\ Len(p) \in Nat
  OBVIOUS
<1>2. Back \in Char /\ Back # Percent /\ Back # Under
  BY Wildcards, Zenon DEF Percent, Under
<1>3. Arms(f, p, s, i)
  BY LikeStepArms
<1>4. i \in 1..(Len(p) + 1) => f[i] = LikeStep(f, p, s, i)
  BY DEF Read
<1>5. CASE x \in {Back, Percent, Under}
  <2>1. Typed(x) = <<Back, x>>
    BY <1>5, Zenon DEF Typed, Percent, Under
  <2>2. Len(new) = L + 2 /\ new[L + 1] = Back /\ new[L + 2] = x
    BY <1>2, <2>1 DEF OneMore
  <2>3. p[i] = Back /\ p[i + 1] = x /\ i < Len(p) /\ ~(i > Len(p)) /\ i \in 1..(Len(p) + 1)
    <3>1. L + 1 \in 1..Len(new) /\ L + 2 \in 1..Len(new) /\ i + 1 = L + 2
      BY <1>1, <2>2
    <3>2. p[L + 1] = new[L + 1] /\ p[L + 2] = new[L + 2]
      BY <3>1 DEF OneMore
    <3>3. i < Len(p)
      BY <1>1, <2>2 DEF OneMore
    <3>4. ~(i > Len(p)) /\ i \in 1..(Len(p) + 1)
      BY <1>1, <3>3
    <3>. HIDE DEF i
    <3>. QED
      BY <2>2, <3>1, <3>2, <3>3, <3>4 DEF i
  <2>4. f[i] = {k \in DOMAIN s : s[k] = x /\ k + 1 \in f[i + 2]}
    BY <1>3, <1>4, <2>3 DEF Arms
  <2>5. Len(new) + 1 = i + 2
    BY <1>1, <2>2
  <2>. HIDE DEF i
  <2>. QED
    BY <2>4, <2>5 DEF i
<1>6. CASE x \notin {Back, Percent, Under}
  <2>1. Typed(x) = <<x>>
    BY <1>6, Zenon DEF Typed, Percent, Under
  <2>2. Len(new) = L + 1 /\ new[L + 1] = x
    BY <2>1 DEF OneMore
  <2>3. p[i] = x /\ ~(i > Len(p)) /\ i \in 1..(Len(p) + 1)
    <3>1. p[L + 1] = new[L + 1]
      <4>1. L + 1 \in 1..Len(new)
        BY <1>1, <2>2
      <4>. QED
        BY <4>1 DEF OneMore
    <3>2. i < Len(p)
      BY <1>1, <2>2 DEF OneMore
    <3>3. ~(i > Len(p)) /\ i \in 1..(Len(p) + 1)
      BY <1>1, <3>2
    <3>. HIDE DEF i
    <3>. QED
      BY <2>2, <3>1, <3>3 DEF i
  <2>4. f[i] = {k \in DOMAIN s : x \in {Under, s[k]} /\ k + 1 \in f[i + 1]}
    BY <1>3, <1>4, <1>6, <2>3 DEF Arms
  <2>5. Len(new) + 1 = i + 1
    BY <1>1, <2>2
  <2>. HIDE DEF i
  <2>. QED
    BY <1>6, <2>4, <2>5 DEF i
<1>. QED
  BY <1>5, <1>6

\* What From holds at the last wildcard.
LEMMA FromEnd ==
    ASSUME NEW p, NEW s \in Seq(Char), NEW L \in Nat, Len(p) = L + 1, p[L + 1] = Percent,
           NEW f, Read(f, p, s), NEW N \in Nat
    PROVE  N + 1 \in f[L + 1] <=> N <= Len(s)
<1>1. ~(L + 1 > Len(p)) /\ L + 1 \in 1..(Len(p) + 1)
      /\ L + 2 \in 1..(Len(p) + 1) /\ L + 2 > Len(p) /\ (L + 1) + 1 = L + 2
  OBVIOUS
<1>2. Arms(f, p, s, L + 1) /\ Arms(f, p, s, L + 2)
  BY LikeStepArms
<1>3. f[L + 2] = {Len(s) + 1}
  BY <1>1, <1>2 DEF Arms, Read
<1>4. f[L + 1] = {j \in 1..(Len(s) + 1) : \E k \in f[L + 2] : j <= k}
  BY <1>1, <1>2 DEF Arms, Read
<1>5. Len(s) \in Nat
  OBVIOUS
<1>. QED
  BY <1>3, <1>4, <1>5

LEMMA StartsWithGoesOn ==
    ASSUME NEW word \in Seq(Char), NEW s \in Seq(Char)
    PROVE  StartsWith(s, word) <=> GoesOn(s, word, 0)
<1>. DEFINE N == Len(word)
<1>1. PICK e : Patterns(e, word)
  BY EscapeLikeSteps
<1>. DEFINE p == Append(e[N], Percent)
            L == Len(e[N])
            at(k) == Len(e[k]) + 1
<1>2. /\ N \in Nat /\ \A k \in 0..N : e[k] \in Seq(Char)
      /\ e[0] = <<>> /\ e[N] = EscapeLike(word) /\ e[N] \in Seq(Char)
  BY <1>1 DEF Patterns
<1>3. /\ p \in Seq(Char) /\ L \in Nat /\ Len(p) = L + 1 /\ p[L + 1] = Percent
      /\ \A i \in 1..L : p[i] = e[N][i]
  <2>1. Percent \in Char
    BY Wildcards, Zenon DEF Percent
  <2>. DEFINE whole == e[N]
  <2>2. whole \in Seq(Char)
    BY <1>2
  <2>. HIDE DEF Char, whole
  <2>3. /\ Append(whole, Percent) \in Seq(Char) /\ Len(whole) \in Nat
        /\ Len(Append(whole, Percent)) = Len(whole) + 1
        /\ Append(whole, Percent)[Len(whole) + 1] = Percent
        /\ \A i \in 1..Len(whole) : Append(whole, Percent)[i] = whole[i]
    BY <2>1, <2>2
  <2>. QED
    BY <2>3 DEF whole
<1>4. PICK f : Read(f, p, s) /\ (Like(p, s) <=> 1 \in f[1])
  BY <1>3, LikeSteps
<1>. DEFINE T == {m \in 0..N : (N - m) + 1 \in f[at(N - m)] <=> GoesOn(s, word, N - m)}
<1>. HIDE DEF p
<1>5. 0 \in T
  <2>1. N + 1 \in f[L + 1] <=> N <= Len(s)
    BY <1>2, <1>3, <1>4, FromEnd
  <2>2. GoesOn(s, word, N) <=> N <= Len(s)
    BY <1>2 DEF GoesOn
  <2>3. N - 0 = N /\ 0 \in 0..N
    BY <1>2
  <2>. HIDE DEF N
  <2>. QED
    BY <2>1, <2>2, <2>3
<1>6. ASSUME NEW m \in 1..N, m - 1 \in T PROVE m \in T
  <2>. DEFINE k == N - m
              x == word[k + 1]
              old == e[k]
              new == e[k + 1]
  <2>1. k \in 0..(N - 1) /\ N - (m - 1) = k + 1 /\ m \in 0..N
        /\ k \in 0..N /\ k + 1 \in 0..N /\ k + 1 \in 1..N /\ (k + 1) - 1 = k
    BY <1>2
  <2>2. x \in Char /\ old \in Seq(Char) /\ new \in Seq(Char) /\ new = old \o Typed(x)
    <3>1. new = e[(k + 1) - 1] \o Typed(x)
      BY <1>1, <2>1 DEF Patterns
    <3>2. x \in Char
      BY <2>1
    <3>. QED
      BY <1>2, <2>1, <3>1, <3>2
  <2>3. Len(new) < Len(p) /\ \A i \in 1..Len(new) : p[i] = new[i]
    <3>1. Len(new) <= L /\ \A i \in 1..Len(new) : e[N][i] = new[i]
      BY <1>1, <2>1, PatternsGrow
    <3>2. Len(new) \in Nat
      <4>1. new \in Seq(Char)
        BY <2>2
      <4>. HIDE DEF new, Char
      <4>. QED
        BY <4>1
    <3>. HIDE DEF new, L
    <3>. QED
      BY <1>3, <3>1, <3>2
  <2>4. k + 1 \in f[Len(old) + 1] <=>
            k + 1 \in DOMAIN s /\ s[k + 1] = x /\ (k + 1) + 1 \in f[Len(new) + 1]
    <3>1. OneMore(old, x, new, p)
      BY <2>2, <2>3 DEF OneMore
    <3>2. p \in Seq(Char) /\ Read(f, p, s)
      BY <1>3, <1>4
    <3>3. x \in Char /\ old \in Seq(Char)
      BY <2>2
    <3>. HIDE DEF x, old, new, k, Char, N
    <3>4. \A j : j \in f[Len(old) + 1] <=>
                    j \in DOMAIN s /\ s[j] = x /\ j + 1 \in f[Len(new) + 1]
      BY <3>1, <3>2, <3>3, FromStep
    <3>. QED
      BY <3>4
  <2>5. GoesOn(s, word, k) <=>
            k + 1 <= Len(s) /\ s[k + 1] = x /\ GoesOn(s, word, k + 1)
    BY <2>1, GoesOnStep
  <2>6. (k + 1) + 1 \in f[Len(new) + 1] <=> GoesOn(s, word, k + 1)
    BY <1>6, <2>1
  <2>7. k + 1 \in DOMAIN s <=> k + 1 <= Len(s)
    BY <2>1
  <2>8. k + 1 \in f[at(k)] <=> GoesOn(s, word, k)
    BY <2>4, <2>5, <2>6, <2>7
  <2>. QED
    BY <2>1, <2>8
<1>7. N \in T
  <2>1. N \in 0..N
    BY <1>2
  <2>. HIDE DEF T, N
  <2>. QED
    BY <1>2, <1>5, <1>6, <2>1, StepByStep, Zenon
<1>8. 1 \in f[1] <=> GoesOn(s, word, 0)
  <2>1. N - N = 0 /\ at(0) = 1
    BY <1>2
  <2>. HIDE DEF N, at
  <2>. QED
    BY <1>7, <2>1
<1>9. StartsWith(s, word) <=> Like(p, s)
  BY <1>2, Zenon DEF StartsWith, Percent, p
<1>. QED
  BY <1>4, <1>8, <1>9

LEMMA Wider ==
    ASSUME NEW A, NEW B, A \subseteq B, NEW s \in Seq(A)
    PROVE  s \in Seq(B)
OBVIOUS

\* What is typed in a search field is text: a row is found exactly when its
\* column starts with it, whatever wildcards and escape characters it has.
THEOREM SearchIsLiteral == Spec => []SearchFindsPrefixes
<1>1. ASSUME NEW s \in Seq(STRING), NEW term \in Seq(STRING)
      PROVE  StartsWith(s, term) <=> IsPrefix(term, s)
  <2>1. STRING \subseteq Char
    BY Zenon DEF Char
  <2>2. s \in Seq(Char) /\ term \in Seq(Char)
    BY <2>1, Wider
  <2>3. StartsWith(s, term) <=> GoesOn(s, term, 0)
    BY <2>2, StartsWithGoesOn
  <2>. HIDE DEF Char
  <2>4. GoesOn(s, term, 0) <=> IsPrefix(term, s)
    BY <2>2 DEF GoesOn, IsPrefix
  <2>. QED
    BY <2>3, <2>4
<1>2. Present \subseteq Rows
  BY DEF Present
<1>3. SearchFindsPrefixes
  BY <1>1, <1>2, BookAssumption DEF SearchFindsPrefixes
<1>. QED
  BY <1>3, PTL
==============================================================================
