--------------------------- MODULE RetentionProofs ---------------------------
(***************************************************************************)
(* Proofs about RetentionCycle, for any tables, rows, processes, batch and *)
(* bounds: only a run that was armed and verified deletes; no row is       *)
(* deleted that is not in the archive; what a completed run reports is     *)
(* what it deleted; and the lock keeps runners apart.                      *)
(***************************************************************************)
EXTENDS RetentionCycle, FiniteSetTheorems, TLAPS

RunRec  == [status : {"none", "running", "completed", "failed"}, captured : Nat,
            archived : Nat, deleted : Nat, path : Cycle, dry : BOOLEAN]
FileRec == [rows : SUBSET Rows, st : {"none", "open", "cached", "durable"}]
JobRec  == [pc : Pc, pos : Positions, cycle : Cycle, stamp : Cycle,
            cutoff : SUBSET Rows, ids : SUBSET Rows, rest : SUBSET Rows,
            archived : Nat, deleted : Nat]

\* A process inside run_one_table is at a table.
AtTable == \A p \in Runners : ~At(p, "idle") /\ ~At(p, "table") => job[p].pos <= Len(Windows)

Types == TypeOK /\ AtTable

LEMMA WindowsAreTables ==
    /\ Len(Windows) \in Nat
    /\ \A i \in 1 .. Len(Windows) : Windows[i] \in Tables
BY WindowsAssumption DEF Tables

LEMMA RowsCount ==
    ASSUME NEW S \in SUBSET Rows
    PROVE  IsFiniteSet(S) /\ Cardinality(S) \in Nat
BY RowsAssumption, FS_Subset, FS_CardinalityType

LEMMA RowOfARun ==
    ASSUME Types, NEW p \in Runners, ~At(p, "idle"), job[p].pos <= Len(Windows)
    PROVE  /\ Table(p) \in Tables
           /\ job[p].cycle \in Cycle
           /\ Run(p) \in RunRec
           /\ job[p].pos + 1 \in Positions
<1>1. /\ job[p].pos \in 1 .. Len(Windows) + 1
      /\ job[p].cycle \in Cycle
      /\ runs \in [Tables -> [Cycle -> RunRec]]
  BY DEF Types, TypeOK, RunRec, Positions
<1>2. Table(p) \in Tables
  BY <1>1, WindowsAreTables DEF Table
<1> QED
  BY <1>1, <1>2, WindowsAreTables DEF Run, Positions

LEMMA UpdateRunTypes ==
    ASSUME Types, NEW p \in Runners, ~At(p, "idle"), job[p].pos <= Len(Windows),
           NEW run \in RunRec, UpdateRun(p, run)
    PROVE  runs' \in [Tables -> [Cycle -> RunRec]]
<1>1. Table(p) \in Tables /\ job[p].cycle \in Cycle
  BY RowOfARun
<1>2. runs \in [Tables -> [Cycle -> RunRec]]
  BY DEF Types, TypeOK, RunRec
<1> QED
  BY <1>1, <1>2 DEF UpdateRun

LEMMA TypesInit == Init => Types
<1> SUFFICES ASSUME Init PROVE Types
  OBVIOUS
<1>1. Idle \in JobRec
  BY WindowsAreTables, BoundsAssumption DEF Idle, JobRec, Pc, Cycle, Positions
<1>2. NoRun \in RunRec /\ NoFile \in FileRec
  BY BoundsAssumption DEF NoRun, RunRec, NoFile, FileRec, Cycle
<1>3. TypeOK
  BY <1>1, <1>2, BoundsAssumption DEF Init, TypeOK, JobRec, RunRec, FileRec, Cycle
<1>4. AtTable
  BY DEF Init, AtTable, At, Idle
<1> QED
  BY <1>3, <1>4 DEF Types

LEMMA TypesStep == Types /\ [Next]_vars => Types'
<1> SUFFICES ASSUME Types, [Next]_vars PROVE Types'
  OBVIOUS
<1>a. /\ live \subseteq Rows /\ born \subseteq Rows /\ aged \subseteq Rows
      /\ lock \in Runners \cup {NoRunner}
      /\ cycles \in Cycle /\ second \in Cycle
      /\ purgedBy \in [Rows -> Cycle]
      /\ faults \in 0 .. MaxFaults /\ crashes \in 0 .. MaxCrashes
  BY DEF Types, TypeOK
<1>g. runs \in [Tables -> [Cycle -> RunRec]]
  BY DEF Types, TypeOK, RunRec
<1>h. files \in [Tables -> [Cycle -> FileRec]]
  BY DEF Types, TypeOK, FileRec
<1>j. job \in [Runners -> JobRec]
  BY DEF Types, TypeOK, JobRec
<1>k. \A p \in Runners : ~At(p, "idle") /\ ~At(p, "table") => job[p].pos <= Len(Windows)
  BY DEF Types, AtTable
<1>b. (/\ live' \subseteq Rows /\ born' \subseteq Rows /\ aged' \subseteq Rows
       /\ runs' \in [Tables -> [Cycle -> RunRec]]
       /\ files' \in [Tables -> [Cycle -> FileRec]]
       /\ lock' \in Runners \cup {NoRunner}
       /\ job' \in [Runners -> JobRec]
       /\ cycles' \in Cycle /\ second' \in Cycle
       /\ purgedBy' \in [Rows -> Cycle]
       /\ faults' \in 0 .. MaxFaults /\ crashes' \in 0 .. MaxCrashes
       /\ AtTable')
      => Types'
  BY DEF Types, TypeOK, RunRec, FileRec, JobRec
<1>c. Idle \in JobRec /\ Idle.pc = "idle"
  BY WindowsAreTables, BoundsAssumption DEF Idle, JobRec, Pc, Cycle, Positions
<1>d. \A p \in Runners : ~At(p, "idle") /\ job[p].pos <= Len(Windows) =>
         /\ Table(p) \in Tables
         /\ job[p].cycle \in Cycle
         /\ Run(p) \in RunRec
         /\ job[p].pos + 1 \in Positions
  BY RowOfARun
<1>e. \A p \in Runners, run \in RunRec :
         ~At(p, "idle") /\ job[p].pos <= Len(Windows) /\ UpdateRun(p, run) =>
            runs' \in [Tables -> [Cycle -> RunRec]]
  BY UpdateRunTypes
<1>f. \A S \in SUBSET Rows : Cardinality(S) \in Nat
  BY RowsCount
<1>1. ASSUME NEW r \in Rows, Insert(r) \/ Age(r) \/ Cascade(r) PROVE Types'
  BY <1>1, BoundsAssumption, <1>a, <1>b, <1>g, <1>h, <1>j, <1>k DEF Insert, Age, Cascade, AtTable, At
<1>2. ASSUME NEW p \in Runners, StartCycle(p) PROVE Types'
  <2>1. cycles + 1 \in Cycle /\ second' \in Cycle
    BY <1>2, <1>a, BoundsAssumption DEF StartCycle, Cycle
  <2>2. PICK j \in JobRec : j.pc = "table" /\ job' = [job EXCEPT ![p] = j]
    <3>1. [Idle EXCEPT !.pc = "table", !.cycle = cycles + 1, !.stamp = second',
                       !.cutoff = live \cap aged] \in JobRec
      <4>1. live \cap aged \in SUBSET Rows
        BY <1>a
      <4>2. \A j \in JobRec, c, d \in Cycle, S \in SUBSET Rows :
              [j EXCEPT !.pc = "table", !.cycle = c, !.stamp = d, !.cutoff = S] \in JobRec
        BY DEF JobRec, Pc
      <4> QED
        BY <1>c, <2>1, <4>1, <4>2
    <3> QED
      BY <1>2, <3>1 DEF StartCycle, Idle
  <2>3. job' \in [Runners -> JobRec] /\ AtTable'
    BY <1>j, <1>k, <2>2 DEF AtTable, At
  <2> QED
    BY <1>2, BoundsAssumption, <1>a, <1>b, <1>g, <1>h, <2>1, <2>3 DEF StartCycle, env
<1>3. ASSUME NEW p \in Runners, EndCycle(p) PROVE Types'
  <2>1. job' \in [Runners -> JobRec] /\ AtTable'
    BY <1>3, <1>c, <1>j, <1>k DEF EndCycle, AtTable, At
  <2> QED
    BY <1>3, BoundsAssumption, <1>a, <1>b, <1>g, <1>h, <2>1 DEF EndCycle, env, Unlocked
<1>4. ASSUME NEW p \in Runners, InsertRun(p) PROVE Types'
  <2>1. ~At(p, "idle") /\ job[p].pos <= Len(Windows)
    BY <1>4, <1>k DEF InsertRun, At
  <2>2. [NoRun EXCEPT !.status = "running", !.dry = IsDry(p)] \in RunRec
    <3>1. NoRun \in RunRec
      BY BoundsAssumption DEF NoRun, RunRec, Cycle
    <3>2. \A run \in RunRec, b \in BOOLEAN : [run EXCEPT !.status = "running", !.dry = b] \in RunRec
      BY DEF RunRec
    <3>3. IsDry(p) \in BOOLEAN
      BY DEF IsDry
    <3> QED
      BY <3>1, <3>2, <3>3
  <2>3. runs' \in [Tables -> [Cycle -> RunRec]]
    BY <1>4, <1>e, <1>g, <2>1, <2>2 DEF InsertRun, MayUpdateRun
  <2>4. \/ job' = [job EXCEPT ![p].pc = "capture", ![p].deleted = 0]
        \/ job' = [job EXCEPT ![p].pc = "table", ![p].pos = job[p].pos + 1]
    BY <1>4 DEF InsertRun, Fails, Goto, NextTable
  <2>8. job[p].pos + 1 \in Positions
    BY <1>d, <2>1
  <2>9. job' \in [Runners -> JobRec] /\ AtTable'
    <3>1. job' \in [Runners -> JobRec]
      BY <1>j, <2>4, <2>8 DEF JobRec, Pc
    <3>2. AtTable'
      BY <1>k, <2>1, <2>4, <3>1 DEF JobRec, AtTable, At
    <3> QED
      BY <3>1, <3>2
  <2> QED
    BY <1>4, BoundsAssumption, <1>a, <1>b, <1>h, <2>3, <2>9 DEF InsertRun, env, Succeeds, Fails
<1>5. ASSUME NEW p \in Runners, Capture(p) PROVE Types'
  <2>1. ~At(p, "idle") /\ job[p].pos <= Len(Windows)
    BY <1>5, <1>k DEF Capture, At
  <2>2. [Run(p) EXCEPT !.captured = Cardinality(Captured(p))] \in RunRec
    BY <1>a, <1>d, <1>f, <2>1 DEF Captured, RunRec
  <2>3. runs' \in [Tables -> [Cycle -> RunRec]]
    BY <1>5, <1>e, <1>g, <2>1, <2>2 DEF Capture, MayUpdateRun
  <2>4. Captured(p) \in SUBSET Rows
    BY <1>a DEF Captured
  <2>5. PICK S \in SUBSET Rows, pc \in {"complete", "open", "error"} :
          \/ job' = [job EXCEPT ![p].ids = S, ![p].rest = S, ![p].pc = pc]
          \/ job' = [job EXCEPT ![p].pc = pc]
    BY <1>5, <2>4 DEF Capture, Fails, Goto
  <2>9. job' \in [Runners -> JobRec] /\ AtTable'
    <3>1. job' \in [Runners -> JobRec]
      BY <1>j, <2>5 DEF JobRec, Pc
    <3>2. AtTable'
      BY <1>k, <2>1, <2>5, <3>1 DEF JobRec, AtTable, At
    <3> QED
      BY <3>1, <3>2
  <2> QED
    BY <1>5, BoundsAssumption, <1>a, <1>b, <1>h, <2>3, <2>9 DEF Capture, env, Succeeds, Fails
<1>6. ASSUME NEW p \in Runners, OpenArchive(p) PROVE Types'
  <2>1. ~At(p, "idle") /\ job[p].pos <= Len(Windows)
    BY <1>6, <1>k DEF OpenArchive, At
  <2>2. [rows |-> {}, st |-> "open"] \in FileRec
    BY DEF FileRec
  <2>3. files' \in [Tables -> [Cycle -> FileRec]]
    BY <1>6, <1>d, <1>h, <2>1, <2>2 DEF OpenArchive
  <2>4. job' \in [Runners -> JobRec] /\ AtTable'
    <3>0. PICK pc \in {"copy", "error"} : job' = [job EXCEPT ![p].pc = pc]
      BY <1>6 DEF OpenArchive, Fails, Goto
    <3>1. job' \in [Runners -> JobRec]
      BY <1>j, <3>0 DEF JobRec, Pc
    <3>2. AtTable'
      BY <1>6, <1>j, <1>k, <2>1 DEF OpenArchive, Fails, Goto, JobRec, Pc, AtTable, At
    <3> QED
      BY <3>1, <3>2
  <2> QED
    BY <1>6, BoundsAssumption, <1>a, <1>b, <1>g, <2>3, <2>4 DEF OpenArchive, env, Succeeds, Fails
<1>7. ASSUME NEW p \in Runners, CopyRows(p) PROVE Types'
  <2>1. ~At(p, "idle") /\ job[p].pos <= Len(Windows)
    BY <1>7, <1>k DEF CopyRows, At
  <2>2. /\ job[p].ids \cap live \in SUBSET Rows
        /\ \A S \in SUBSET Rows : [rows |-> S, st |-> "cached"] \in FileRec
    BY <1>a DEF FileRec
  <2>3. files' \in [Tables -> [Cycle -> FileRec]]
    <3>1. PICK S \in SUBSET Rows :
            files' = [files EXCEPT ![Table(p)][job[p].stamp] = [rows |-> S, st |-> "cached"]]
      BY <1>7, <2>2 DEF CopyRows
    <3> QED
      BY <1>h, <2>2, <3>1
  <2>4. Cardinality(job[p].ids \cap live) \in Nat
    BY <1>f, <2>2
  <2>5. PICK n \in Nat :
          \/ job' = [job EXCEPT ![p].pc = "mark", ![p].archived = n]
          \/ job' = [job EXCEPT ![p].pc = "error"]
    BY <1>7, <2>4 DEF CopyRows, Fails, Goto
  <2>6. job' \in [Runners -> JobRec] /\ AtTable'
    <3>1. job' \in [Runners -> JobRec]
      BY <1>j, <2>5 DEF JobRec, Pc
    <3>2. AtTable'
      BY <1>j, <1>k, <2>1, <2>4, <2>5 DEF JobRec, Pc, AtTable, At
    <3> QED
      BY <3>1, <3>2
  <2> QED
    BY <1>7, BoundsAssumption, <1>a, <1>b, <1>g, <2>3, <2>6 DEF CopyRows, env, Succeeds, Fails
<1>8. ASSUME NEW p \in Runners, MarkArchived(p) PROVE Types'
  <2>1. ~At(p, "idle") /\ job[p].pos <= Len(Windows)
    BY <1>8, <1>k DEF MarkArchived, At
  <2>2. [Run(p) EXCEPT !.archived = job[p].archived, !.path = job[p].stamp] \in RunRec
    BY <1>d, <1>j, <2>1 DEF RunRec, JobRec
  <2>3. runs' \in [Tables -> [Cycle -> RunRec]]
    BY <1>8, <1>e, <1>g, <2>1, <2>2 DEF MarkArchived, MayUpdateRun
  <2>4. \/ job' = [job EXCEPT ![p].pc = Verdict(p)]
        \/ job' = [job EXCEPT ![p].pc = "error"]
    BY <1>8 DEF MarkArchived, Fails, Goto, NextTable
  <2>5. Verdict(p) \in {"reject", "complete", "delete"}
    BY DEF Verdict
  <2>9. job' \in [Runners -> JobRec] /\ AtTable'
    <3>1. job' \in [Runners -> JobRec]
      BY <1>j, <2>4, <2>5 DEF JobRec, Pc
    <3>2. AtTable'
      BY <1>k, <2>1, <2>4, <3>1 DEF JobRec, AtTable, At
    <3> QED
      BY <3>1, <3>2
  <2> QED
    BY <1>8, BoundsAssumption, <1>a, <1>b, <1>h, <2>3, <2>9 DEF MarkArchived, env, Succeeds, Fails
<1>9. ASSUME NEW p \in Runners, Reject(p) PROVE Types'
  <2>1. ~At(p, "idle") /\ job[p].pos <= Len(Windows)
    BY <1>9, <1>k DEF Reject, At
  <2>2. [Run(p) EXCEPT !.status = "failed"] \in RunRec
    BY <1>d, <2>1 DEF RunRec
  <2>3. runs' \in [Tables -> [Cycle -> RunRec]]
    BY <1>9, <1>e, <1>g, <2>1, <2>2 DEF Reject, MayUpdateRun
  <2>4. \/ job' = [job EXCEPT ![p].pc = "table", ![p].pos = job[p].pos + 1]
        \/ job' = [job EXCEPT ![p].pc = "error"]
    BY <1>9 DEF Reject, Fails, Goto, NextTable
  <2>8. job[p].pos + 1 \in Positions
    BY <1>d, <2>1
  <2>9. job' \in [Runners -> JobRec] /\ AtTable'
    <3>1. job' \in [Runners -> JobRec]
      BY <1>j, <2>4, <2>8 DEF JobRec, Pc
    <3>2. AtTable'
      BY <1>k, <2>1, <2>4, <3>1 DEF JobRec, AtTable, At
    <3> QED
      BY <3>1, <3>2
  <2> QED
    BY <1>9, BoundsAssumption, <1>a, <1>b, <1>h, <2>3, <2>9 DEF Reject, env, Succeeds, Fails
<1>10. ASSUME NEW p \in Runners, DeleteBatch(p) PROVE Types'
  <2>1. ~At(p, "idle") /\ job[p].pos <= Len(Windows) /\ job[p].cycle \in Cycle
    BY <1>10, <1>j, <1>k DEF DeleteBatch, At, JobRec
  <2>2. live' \subseteq Rows /\ purgedBy' \in [Rows -> Cycle]
    BY <1>10, <1>a, <2>1 DEF DeleteBatch, Purge
  <2>3. PICK chunk \in SUBSET job[p].rest :
          \/ job' = [job EXCEPT ![p].rest = @ \ chunk, ![p].deleted = @ + Affected(chunk),
                       ![p].pc = IF chunk = job[p].rest THEN "vacuum" ELSE "delete"]
          \/ job' = [job EXCEPT ![p].pc = "error"]
    BY <1>10 DEF DeleteBatch, Fails, Goto
  <2>4. Affected(chunk) \in Nat
    BY <1>a, <1>f DEF Affected
  <2>5. job' \in [Runners -> JobRec] /\ AtTable'
    <3>a. job[p] \in JobRec
      BY <1>j
    <3>b. job[p].deleted + Affected(chunk) \in Nat /\ job[p].rest \ chunk \in SUBSET Rows
      BY <3>a, <2>4 DEF JobRec
    <3>0. PICK S \in SUBSET Rows, n \in Nat, pc \in {"vacuum", "delete", "error"} :
            \/ job' = [job EXCEPT ![p].rest = S, ![p].deleted = n, ![p].pc = pc]
            \/ job' = [job EXCEPT ![p].pc = pc]
      BY <2>3, <3>b
    <3>1. job' \in [Runners -> JobRec]
      BY <1>j, <3>0 DEF JobRec, Pc
    <3>2. AtTable'
      <4> SUFFICES ASSUME NEW q \in Runners, ~At(q, "idle")', ~At(q, "table")'
                   PROVE  job'[q].pos <= Len(Windows)
        BY DEF AtTable, At
      <4>1. job'[q].pos = job[q].pos
        BY <1>j, <3>0 DEF JobRec
      <4>2. q # p => job'[q] = job[q]
        BY <1>j, <3>0
      <4> QED
        BY <1>k, <2>1, <4>1, <4>2 DEF At
    <3> QED
      BY <3>1, <3>2
  <2> QED
    BY <1>10, BoundsAssumption, <1>a, <1>b, <1>g, <1>h, <2>2, <2>5 DEF DeleteBatch, Succeeds, Fails
<1>11. ASSUME NEW p \in Runners, Vacuum(p) PROVE Types'
  <2>1. job' \in [Runners -> JobRec] /\ AtTable'
    <3>1. job' \in [Runners -> JobRec]
      BY <1>11, <1>j, <1>k DEF Vacuum, Fails, Goto, JobRec, Pc
    <3>2. AtTable'
      BY <1>11, <1>j, <1>k DEF Vacuum, Fails, Goto, JobRec, Pc, AtTable, At
    <3> QED
      BY <3>1, <3>2
  <2> QED
    BY <1>11, BoundsAssumption, <1>a, <1>b, <1>g, <1>h, <2>1 DEF Vacuum, env, Succeeds, Fails
<1>12. ASSUME NEW p \in Runners, Complete(p) PROVE Types'
  <2>1. ~At(p, "idle") /\ job[p].pos <= Len(Windows)
    BY <1>12, <1>k DEF Complete, At
  <2>2. [Run(p) EXCEPT !.status = "completed", !.deleted = job[p].deleted] \in RunRec
    BY <1>d, <1>j, <2>1 DEF RunRec, JobRec
  <2>3. runs' \in [Tables -> [Cycle -> RunRec]]
    BY <1>12, <1>e, <1>g, <2>1, <2>2 DEF Complete, MayUpdateRun
  <2>4. \/ job' = [job EXCEPT ![p].pc = "table", ![p].pos = job[p].pos + 1]
        \/ job' = [job EXCEPT ![p].pc = "error"]
    BY <1>12 DEF Complete, Fails, Goto, NextTable
  <2>8. job[p].pos + 1 \in Positions
    BY <1>d, <2>1
  <2>9. job' \in [Runners -> JobRec] /\ AtTable'
    <3>1. job' \in [Runners -> JobRec]
      BY <1>j, <2>4, <2>8 DEF JobRec, Pc
    <3>2. AtTable'
      BY <1>k, <2>1, <2>4, <3>1 DEF JobRec, AtTable, At
    <3> QED
      BY <3>1, <3>2
  <2> QED
    BY <1>12, BoundsAssumption, <1>a, <1>b, <1>h, <2>3, <2>9 DEF Complete, env, Succeeds, Fails
<1>13. ASSUME NEW p \in Runners, MarkFailed(p) PROVE Types'
  <2>1. ~At(p, "idle") /\ job[p].pos <= Len(Windows)
    BY <1>13, <1>k DEF MarkFailed, At
  <2>2. [Run(p) EXCEPT !.status = "failed"] \in RunRec
    BY <1>d, <2>1 DEF RunRec
  <2>3. runs' \in [Tables -> [Cycle -> RunRec]]
    BY <1>13, <1>e, <1>g, <2>1, <2>2 DEF MarkFailed, MayUpdateRun
  <2>4. job' = [job EXCEPT ![p].pc = "table", ![p].pos = job[p].pos + 1]
    BY <1>13 DEF MarkFailed, Fails, Goto, NextTable
  <2>8. job[p].pos + 1 \in Positions
    BY <1>d, <2>1
  <2>9. job' \in [Runners -> JobRec] /\ AtTable'
    <3>a. [job[p] EXCEPT !.pc = "table", !.pos = job[p].pos + 1] \in JobRec
      BY <1>j, <2>8 DEF JobRec, Pc
    <3>0. PICK j \in JobRec : j.pc = "table" /\ job' = [job EXCEPT ![p] = j]
      <4>1. [job[p] EXCEPT !.pc = "table", !.pos = job[p].pos + 1].pc = "table"
        BY <1>j DEF JobRec
      <4>2. job' = [job EXCEPT ![p] = [job[p] EXCEPT !.pc = "table", !.pos = job[p].pos + 1]]
        BY <2>4
      <4> QED
        BY <3>a, <4>1, <4>2
    <3>1. job' \in [Runners -> JobRec]
      BY <1>j, <3>0
    <3>2. AtTable'
      BY <1>k, <3>0, <3>1 DEF JobRec, AtTable, At
    <3> QED
      BY <3>1, <3>2
  <2> QED
    BY <1>13, BoundsAssumption, <1>a, <1>b, <1>h, <2>3, <2>9 DEF MarkFailed, env, Succeeds, Fails
<1>14. ASSUME NEW p \in Runners, Crash(p) PROVE Types'
  <2>1. job' \in [Runners -> JobRec] /\ AtTable'
    BY <1>14, <1>c, <1>j, <1>k DEF Crash, AtTable, At
  <2> QED
    BY <1>14, BoundsAssumption, <1>a, <1>b, <1>g, <1>h, <2>1 DEF Crash, env, Unlocked
<1>15. ASSUME NEW p \in Runners, LoseLock(p) PROVE Types'
  BY <1>15, BoundsAssumption, <1>a, <1>b, <1>g, <1>h, <1>j, <1>k DEF LoseLock, env, AtTable, At
<1>16. ASSUME NEW t \in Tables, NEW s \in Cycle, Writeback(t, s) PROVE Types'
  <2>1. files[t][s] \in FileRec
    BY <1>h
  <2>2. [files[t][s] EXCEPT !.st = "durable"] \in FileRec
    BY <2>1 DEF FileRec
  <2>3. files' \in [Tables -> [Cycle -> FileRec]]
    <3>1. files' = [files EXCEPT ![t][s] = [files[t][s] EXCEPT !.st = "durable"]]
      BY <1>16, <1>h DEF Writeback
    <3> QED
      BY <1>h, <2>2, <3>1
  <2> QED
    BY <1>16, BoundsAssumption, <1>a, <1>b, <1>g, <1>j, <1>k, <2>3 DEF Writeback, env, AtTable, At
<1>17. CASE LosePower
  <2>1. \A f \in FileRec : [f EXCEPT !.rows = {}] \in FileRec
    BY DEF FileRec
  <2>2. files' \in [Tables -> [Cycle -> FileRec]]
    BY <1>17, <1>h, <2>1 DEF LosePower
  <2>3. job' \in [Runners -> JobRec] /\ AtTable'
    BY <1>17, <1>c DEF LosePower, AtTable, At
  <2> QED
    BY <1>17, BoundsAssumption, <1>a, <1>b, <1>g, <2>2, <2>3 DEF LosePower, env
<1>18. CASE UNCHANGED vars
  BY <1>18, BoundsAssumption, <1>a, <1>b, <1>g, <1>h, <1>j, <1>k DEF vars, AtTable, At
<1> QED
  BY <1>1, <1>2, <1>3, <1>4, <1>5, <1>6, <1>7, <1>8, <1>9, <1>10, <1>11, <1>12, <1>13,
     <1>14, <1>15, <1>16, <1>17, <1>18 DEF Next, Step

\* The retention worker's variables keep their types, and a process inside
\* run_one_table is at a table of the configuration (retention.rs:355-408).
THEOREM RetentionTypes == Spec => []Types
<1>1. Init => Types
  BY TypesInit
<1>2. Types /\ [Next]_vars => Types'
  BY TypesStep
<1> QED
  BY <1>1, <1>2, PTL DEF Spec
-----------------------------------------------------------------------------
(* The lock. *)

\* Who is in a cycle holds the lock.
LockInv == \A p \in Runners : ~At(p, "idle") => lock = p

\* The steps of a process inside its cycle.
Inner(p) ==
    \/ InsertRun(p) \/ Capture(p) \/ OpenArchive(p) \/ CopyRows(p) \/ MarkArchived(p)
    \/ Reject(p) \/ DeleteBatch(p) \/ Vacuum(p) \/ Complete(p) \/ MarkFailed(p)

\* They touch the process's own place only, and neither start nor end a cycle.
LEMMA InnerFrame ==
    ASSUME Types, NEW p \in Runners, Inner(p)
    PROVE  /\ \A q \in Runners : q # p => job'[q] = job[q]
           /\ ~At(p, "idle") /\ ~At(p, "idle")'
           /\ job'[p].cycle = job[p].cycle /\ job'[p].stamp = job[p].stamp
           /\ job[p].pos <= Len(Windows)
           /\ UNCHANGED <<lock, cycles, second>>
<1>1. job \in [Runners -> JobRec]
  BY DEF Types, TypeOK, JobRec
<1>2. \A q \in Runners : ~At(q, "idle") /\ ~At(q, "table") => job[q].pos <= Len(Windows)
  BY DEF Types, AtTable
<1>3. \A pc \in Pc \ {"idle"} : Goto(p, pc) =>
        /\ \A q \in Runners : q # p => job'[q] = job[q]
        /\ job'[p].pc = pc
        /\ job'[p].cycle = job[p].cycle /\ job'[p].stamp = job[p].stamp
  BY <1>1 DEF Goto, JobRec
<1>4. NextTable(p) =>
        /\ \A q \in Runners : q # p => job'[q] = job[q]
        /\ job'[p].pc = "table"
        /\ job'[p].cycle = job[p].cycle /\ job'[p].stamp = job[p].stamp
  BY <1>1 DEF NextTable, JobRec
<1>5. Fails(p) =>
        /\ \A q \in Runners : q # p => job'[q] = job[q]
        /\ job'[p].pc = "error"
        /\ job'[p].cycle = job[p].cycle /\ job'[p].stamp = job[p].stamp
  BY <1>3 DEF Fails, Pc
<1>6. CASE InsertRun(p)
  BY <1>1, <1>4, <1>6 DEF InsertRun, At, JobRec
<1>7. CASE Capture(p)
  BY <1>1, <1>2, <1>5, <1>7 DEF Capture, At, JobRec
<1>8. CASE OpenArchive(p)
  BY <1>2, <1>3, <1>5, <1>8 DEF OpenArchive, At, Pc
<1>9. CASE CopyRows(p)
  BY <1>1, <1>2, <1>5, <1>9 DEF CopyRows, At, JobRec
<1>10. CASE MarkArchived(p)
  BY <1>2, <1>3, <1>5, <1>10 DEF MarkArchived, Verdict, At, Pc
<1>11. CASE Reject(p)
  BY <1>2, <1>4, <1>5, <1>11 DEF Reject, At
<1>12. CASE DeleteBatch(p)
  <2>1. PICK chunk \in SUBSET job[p].rest :
          \/ job' = [job EXCEPT ![p].rest = @ \ chunk, ![p].deleted = @ + Affected(chunk),
                       ![p].pc = IF chunk = job[p].rest THEN "vacuum" ELSE "delete"]
          \/ Fails(p)
    BY <1>12 DEF DeleteBatch
  <2> QED
    BY <1>1, <1>2, <1>5, <1>12, <2>1 DEF DeleteBatch, At, JobRec
<1>13. CASE Vacuum(p)
  BY <1>2, <1>3, <1>5, <1>13 DEF Vacuum, At, Pc
<1>14. CASE Complete(p)
  BY <1>2, <1>4, <1>5, <1>14 DEF Complete, At
<1>15. CASE MarkFailed(p)
  BY <1>2, <1>4, <1>15 DEF MarkFailed, At
<1> QED
  BY <1>6, <1>7, <1>8, <1>9, <1>10, <1>11, <1>12, <1>13, <1>14, <1>15 DEF Inner

LEMMA LockStep ==
    ASSUME ~LockLoss, Types, LockInv, [Next]_vars
    PROVE  LockInv'
<1>1. ASSUME NEW r \in Rows, Insert(r) \/ Age(r) \/ Cascade(r) PROVE LockInv'
  BY <1>1 DEF Insert, Age, Cascade, LockInv, At
<1>2. ASSUME NEW p \in Runners, StartCycle(p) PROVE LockInv'
  <2>1. \A q \in Runners : q # p => job'[q] = job[q]
    BY <1>2 DEF StartCycle, Types, TypeOK
  <2>2. \A q \in Runners : At(q, "idle")
    BY <1>2, RunnersAssumption DEF StartCycle, LockIsFree, LockInv
  <2> QED
    BY <1>2, <2>1, <2>2 DEF StartCycle, LockInv, At
<1>3. ASSUME NEW p \in Runners, EndCycle(p) \/ Crash(p) PROVE LockInv'
  <2>1. /\ \A q \in Runners : q # p => job'[q] = job[q]
        /\ job'[p].pc = "idle"
        /\ lock' = Unlocked(p)
    BY <1>3 DEF EndCycle, Crash, Types, TypeOK, Idle
  <2> QED
    BY <2>1 DEF LockInv, At, Unlocked
<1>4. ASSUME NEW p \in Runners, Inner(p) PROVE LockInv'
  BY <1>4, InnerFrame DEF LockInv, At
<1>5. ASSUME NEW p \in Runners, LoseLock(p) PROVE LockInv'
  BY <1>5 DEF LoseLock, Types, TypeOK
<1>6. ASSUME NEW t \in Tables, NEW s \in Cycle, Writeback(t, s) PROVE LockInv'
  BY <1>6 DEF Writeback, LockInv, At
<1>7. CASE LosePower
  BY <1>7 DEF LosePower, LockInv, At, Idle
<1>8. CASE UNCHANGED vars
  BY <1>8 DEF vars, LockInv, At
<1> QED
  BY <1>1, <1>2, <1>3, <1>4, <1>5, <1>6, <1>7, <1>8 DEF Next, Step, Inner

\* While the lock's own connection does not break, the advisory lock
\* (retention.rs:293-315) keeps two processes from being in a cycle at once,
\* whatever else fails or crashes.
THEOREM LockKeepsRunnersApart == ASSUME ~LockLoss PROVE Spec => []SingleRunner
<1>1. Init => LockInv
  BY DEF Init, LockInv, At, Idle
<1>2. Types /\ LockInv /\ [Next]_vars => LockInv'
  BY LockStep
<1>3. LockInv => SingleRunner
  BY DEF LockInv, SingleRunner
<1> QED
  BY <1>1, <1>2, <1>3, RetentionTypes, PTL DEF Spec

-----------------------------------------------------------------------------
(* The verification. *)

\* Before the table at hand has been verified.
Early == {"table", "capture", "open", "copy", "mark", "reject"}

\* A cycle has deleted nothing from the tables it has not come to.
NothingPurgedYet(p) ==
    \A i \in DOMAIN Windows, r \in Rows :
        /\ i > job[p].pos \/ (i = job[p].pos /\ job[p].pc \in Early)
        /\ TableOf[r] = Windows[i]
        => purgedBy[r] # job[p].cycle

\* What the archive_runs row says at each point, and what has been captured.
RunSoFar(p) ==
    /\ job[p].pc \in {"capture", "open", "copy", "mark"} => Run(p).dry = IsDry(p)
    /\ job[p].pc \in {"open", "copy", "mark"} =>
          Run(p).captured = Cardinality(job[p].ids) /\ job[p].rest = job[p].ids
    /\ job[p].pc \in {"open", "copy", "mark", "delete"} =>
          \A r \in job[p].ids : TableOf[r] = Table(p)
    /\ job[p].pc = "delete" =>
          job[p].rest \subseteq job[p].ids /\ ~Run(p).dry /\ Run(p).archived = Run(p).captured

InCycle(p) == job[p].cycle \in 1 .. cycles /\ NothingPurgedYet(p) /\ RunSoFar(p)

\* Cycle numbers are not shared, not even with a cycle of the past.
CyclesApart ==
    /\ \A p, q \in Runners :
          ~At(p, "idle") /\ ~At(q, "idle") /\ job[p].cycle = job[q].cycle => p = q
    /\ \A r \in Rows : purgedBy[r] <= cycles

GateInv ==
    /\ CyclesApart
    /\ \A p \in Runners : ~At(p, "idle") => InCycle(p)
    /\ OnlyVerifiedRunsPurge

\* A step that writes for cycle c only does not disturb a process of another.
LEMMA OthersUndisturbed ==
    ASSUME Types, GateInv, NEW q \in Runners, ~At(q, "idle"), NEW c \in Cycle,
           job[q].cycle # c, job'[q] = job[q], cycles' \in Cycle, cycles' >= cycles,
           \A r \in Rows : purgedBy'[r] = purgedBy[r] \/ purgedBy'[r] = c,
           \A t \in Tables, d \in Cycle : d # c => runs'[t][d] = runs[t][d]
    PROVE  InCycle(q)'
<1>1. InCycle(q) /\ job[q].cycle \in Cycle /\ job[q].pc \in Pc /\ cycles \in Cycle
  BY DEF GateInv, Types, TypeOK
<1>2. (job[q].cycle \in 1 .. cycles)'
  BY <1>1, BoundsAssumption DEF InCycle, Cycle
<1>3. NothingPurgedYet(q)'
  BY <1>1 DEF InCycle, NothingPurgedYet
<1>4. ~At(q, "table") => Table(q) \in Tables
  BY RowOfARun DEF Types, AtTable
<1>5. ~At(q, "table") => Run(q)' = Run(q)
  BY <1>1, <1>4 DEF Run, Table
<1>6. RunSoFar(q)'
  BY <1>1, <1>5 DEF InCycle, RunSoFar, At, Table, IsDry
<1> QED
  BY <1>2, <1>3, <1>6 DEF InCycle

\* The same for the verdict on rows already deleted.
LEMMA VerdictsKept ==
    ASSUME Types, GateInv, NEW p \in Runners, ~At(p, "idle"), job[p].pos <= Len(Windows),
           UNCHANGED purgedBy,
           NEW run \in RunRec, UpdateRun(p, run),
           \/ job[p].pc \in Early
           \/ run.dry = Run(p).dry /\ run.archived = Run(p).archived
              /\ run.captured = Run(p).captured
    PROVE  OnlyVerifiedRunsPurge'
<1> SUFFICES ASSUME NEW r \in Rows, purgedBy[r] # 0
             PROVE  ~RunOf(r)'.dry /\ RunOf(r)'.archived = RunOf(r)'.captured
  BY DEF OnlyVerifiedRunsPurge
<1>1. /\ runs \in [Tables -> [Cycle -> RunRec]]
      /\ Table(p) \in Tables /\ job[p].cycle \in Cycle
      /\ TableOf[r] \in Tables /\ purgedBy[r] \in Cycle
      /\ job[p].pos \in DOMAIN Windows
  BY RowOfARun, TableOfAssumption, WindowsAssumption DEF Types, TypeOK, RunRec, Positions
<1>2. ~RunOf(r).dry /\ RunOf(r).archived = RunOf(r).captured
  BY DEF GateInv, OnlyVerifiedRunsPurge
<1>3. CASE TableOf[r] = Table(p) /\ purgedBy[r] = job[p].cycle
  <2>1. job[p].pc \notin Early
    BY <1>1, <1>3 DEF GateInv, InCycle, NothingPurgedYet, Table
  <2>2. RunOf(r) = Run(p) /\ RunOf(r)' = run
    BY <1>1, <1>3 DEF RunOf, Run, UpdateRun
  <2> QED
    BY <1>2, <2>1, <2>2
<1>4. CASE ~(TableOf[r] = Table(p) /\ purgedBy[r] = job[p].cycle)
  <2>1. RunOf(r)' = RunOf(r)
    BY <1>1, <1>4 DEF RunOf, UpdateRun
  <2> QED
    BY <1>2, <2>1
<1> QED
  BY <1>3, <1>4

\* So does a step of p that deletes nothing, if it leaves p's own part in order.
LEMMA QuietStep ==
    ASSUME Types, GateInv, NEW p \in Runners, Inner(p), UNCHANGED purgedBy,
           \/ job'[p].pos = job[p].pos + 1
           \/ job'[p].pos = job[p].pos /\ (job'[p].pc \in Early => job[p].pc \in Early),
           \/ UNCHANGED runs
           \/ \E run \in RunRec :
                 /\ UpdateRun(p, run)
                 /\ \/ job[p].pc \in Early
                    \/ run.dry = Run(p).dry /\ run.archived = Run(p).archived
                       /\ run.captured = Run(p).captured,
           RunSoFar(p)'
    PROVE  GateInv'
<1>1. /\ \A q \in Runners : q # p => job'[q] = job[q]
      /\ ~At(p, "idle") /\ ~At(p, "idle")'
      /\ job'[p].cycle = job[p].cycle
      /\ job[p].pos <= Len(Windows)
      /\ cycles' = cycles
  BY InnerFrame
<1>2. InCycle(p) /\ CyclesApart
  BY <1>1 DEF GateInv
<1>3. cycles \in Cycle /\ job[p].cycle \in Cycle /\ job[p].pos \in Positions
  BY DEF Types, TypeOK
<1>4. CyclesApart'
  BY <1>1, <1>2 DEF CyclesApart, At
<1>5. InCycle(p)'
  <2>1. NothingPurgedYet(p)'
    <3> SUFFICES ASSUME NEW i \in DOMAIN Windows, NEW r \in Rows,
                        i > job'[p].pos \/ (i = job'[p].pos /\ job'[p].pc \in Early),
                        TableOf[r] = Windows[i]
                 PROVE  purgedBy[r] # job[p].cycle
      BY <1>1 DEF NothingPurgedYet
    <3>1. i \in Nat /\ job[p].pos \in Nat
      BY <1>3, WindowsAreTables, WindowsAssumption DEF Positions
    <3>2. i > job[p].pos \/ (i = job[p].pos /\ job[p].pc \in Early)
      BY <3>1
    <3> QED
      BY <1>2, <3>2 DEF InCycle, NothingPurgedYet
  <2> QED
    BY <1>1, <1>2, <2>1 DEF InCycle
<1>6. \A t \in Tables, d \in Cycle : d # job[p].cycle => runs'[t][d] = runs[t][d]
  <2>1. runs \in [Tables -> [Cycle -> RunRec]]
    BY DEF Types, TypeOK, RunRec
  <2>2. CASE UNCHANGED runs
    BY <2>2
  <2>3. CASE \E run \in RunRec : UpdateRun(p, run)
    BY <2>1, <2>3 DEF UpdateRun
  <2> QED
    BY <2>2, <2>3
<1>7. ASSUME NEW q \in Runners, ~At(q, "idle")' PROVE InCycle(q)'
  <2>1. CASE q = p
    BY <1>5, <2>1
  <2>2. CASE q # p
    <3>1. job'[q] = job[q] /\ ~At(q, "idle") /\ job[q].cycle # job[p].cycle
      BY <1>1, <1>2, <1>7, <2>2 DEF CyclesApart, At
    <3>2. cycles' \in Cycle /\ cycles' >= cycles
      BY <1>1, <1>3, BoundsAssumption DEF Cycle
    <3> QED
      BY <1>3, <1>6, <3>1, <3>2, OthersUndisturbed
  <2> QED
    BY <2>1, <2>2
<1>8. OnlyVerifiedRunsPurge'
  <2>1. CASE UNCHANGED runs
    BY <2>1 DEF GateInv, OnlyVerifiedRunsPurge, RunOf
  <2>2. CASE ~UNCHANGED runs
    BY <1>1, <2>2, VerdictsKept
  <2> QED
    BY <2>1, <2>2
<1> QED
  BY <1>4, <1>7, <1>8 DEF GateInv

\* The row of the run a step of p has written.
LEMMA RunWritten ==
    ASSUME Types, NEW p \in Runners, ~At(p, "idle"), job[p].pos <= Len(Windows),
           NEW run, UpdateRun(p, run),
           job'[p].pos = job[p].pos, job'[p].cycle = job[p].cycle
    PROVE  Table(p)' = Table(p) /\ Run(p)' = run
<1>1. Table(p) \in Tables /\ job[p].cycle \in Cycle
  BY RowOfARun
<1>2. runs \in [Tables -> [Cycle -> RunRec]]
  BY DEF Types, TypeOK, RunRec
<1> QED
  BY <1>1, <1>2 DEF UpdateRun, Table, Run

\* A place at which RunSoFar says nothing.
LEMMA NothingToSay ==
    ASSUME NEW p \in Runners, job'[p].pc \in {"table", "reject", "vacuum", "complete", "error"}
    PROVE  RunSoFar(p)'
BY DEF RunSoFar

LEMMA InnerGate ==
    ASSUME Types, GateInv, NEW p \in Runners, Inner(p)
    PROVE  GateInv'
<1>a. /\ ~At(p, "idle") /\ job[p].pos <= Len(Windows)
      /\ job'[p].cycle = job[p].cycle
      /\ cycles' = cycles
      /\ \A q \in Runners : q # p => job'[q] = job[q]
  BY InnerFrame
<1>b. job \in [Runners -> JobRec] /\ job[p] \in JobRec
  BY DEF Types, TypeOK, JobRec
<1>c. RunSoFar(p)
  BY <1>a DEF GateInv, InCycle
<1>d. /\ Table(p) \in Tables /\ job[p].cycle \in Cycle
      /\ Run(p) \in RunRec
  BY <1>a, RowOfARun
<1>e. Goto(p, "error") \/ NextTable(p) \/ Goto(p, "complete") =>
        /\ job'[p].pc \in {"table", "complete", "error"}
        /\ job'[p].pos = job[p].pos + 1 \/ job'[p].pos = job[p].pos
        /\ job'[p].pc = "table" => job'[p].pos = job[p].pos + 1
  BY <1>b DEF Goto, NextTable, JobRec
<1>f. Goto(p, "error") \/ NextTable(p) \/ Goto(p, "complete") =>
        /\ \/ job'[p].pos = job[p].pos + 1
           \/ job'[p].pos = job[p].pos /\ (job'[p].pc \in Early => job[p].pc \in Early)
        /\ RunSoFar(p)'
  BY <1>e, NothingToSay DEF Early
<1>g. ASSUME NEW run, UpdateRun(p, run), job'[p].pos = job[p].pos
      PROVE  Table(p)' = Table(p) /\ Run(p)' = run
  BY <1>a, <1>g, RunWritten
<1>1. CASE InsertRun(p)
  <2>1. job[p].pc \in Early /\ UNCHANGED purgedBy
    BY <1>1 DEF InsertRun, At, Early
  <2>0. [NoRun EXCEPT !.status = "running", !.dry = IsDry(p)] \in RunRec
    <3>1. NoRun \in RunRec
      BY BoundsAssumption DEF NoRun, RunRec, Cycle
    <3>2. \A run \in RunRec, b \in BOOLEAN : [run EXCEPT !.status = "running", !.dry = b] \in RunRec
      BY DEF RunRec
    <3> QED
      BY <3>1, <3>2 DEF IsDry
  <2>2. CASE /\ NextTable(p)
             /\ MayUpdateRun(p, [NoRun EXCEPT !.status = "running", !.dry = IsDry(p)])
    BY <1>f, <2>0, <2>1, <2>2, QuietStep DEF MayUpdateRun
  <2>3. CASE /\ UpdateRun(p, [NoRun EXCEPT !.status = "running", !.dry = IsDry(p)])
             /\ job' = [job EXCEPT ![p].pc = "capture", ![p].deleted = 0]
    <3>2. job'[p].pos = job[p].pos /\ job'[p].pc = "capture"
      BY <1>b, <2>3 DEF JobRec
    <3>3. Run(p)'.dry = IsDry(p)
      <4>1. Run(p)' = [NoRun EXCEPT !.status = "running", !.dry = IsDry(p)]
        BY <1>g, <2>3, <3>2
      <4> QED
        BY <4>1 DEF NoRun
    <3>4. RunSoFar(p)'
      BY <3>2, <3>3 DEF RunSoFar, IsDry
    <3> QED
      BY <2>0, <2>1, <2>3, <3>2, <3>4, QuietStep
  <2> QED
    BY <1>1, <2>2, <2>3 DEF InsertRun
<1>2. CASE Capture(p)
  <2>1. job[p].pc \in Early /\ UNCHANGED <<purgedBy>>
    BY <1>2 DEF Capture, At, Early
  <2>0. [Run(p) EXCEPT !.captured = Cardinality(Captured(p))] \in RunRec
    <3>1. Cardinality(Captured(p)) \in Nat
      BY RowsCount DEF Captured, Types, TypeOK
    <3> QED
      BY <1>d, <3>1 DEF RunRec
  <2>2. CASE /\ Goto(p, "error")
             /\ MayUpdateRun(p, [Run(p) EXCEPT !.captured = Cardinality(Captured(p))])
    BY <1>f, <2>0, <2>1, <2>2, QuietStep DEF MayUpdateRun
  <2>3. CASE /\ UpdateRun(p, [Run(p) EXCEPT !.captured = Cardinality(Captured(p))])
             /\ job' = [job EXCEPT ![p].ids = Captured(p), ![p].rest = Captured(p),
                              ![p].pc = IF Captured(p) = {} THEN "complete" ELSE "open"]
    <3>3. /\ job'[p].pos = job[p].pos /\ job'[p].pc \in {"complete", "open"}
          /\ job'[p].ids = Captured(p) /\ job'[p].rest = Captured(p)
      BY <1>b, <2>3 DEF JobRec
    <3>4. Run(p)' = [Run(p) EXCEPT !.captured = Cardinality(Captured(p))] /\ Table(p)' = Table(p)
      BY <1>g, <2>3, <3>3
    <3>5. Run(p)'.captured = Cardinality(Captured(p)) /\ Run(p)'.dry = Run(p).dry
      BY <1>d, <3>4 DEF RunRec
    <3>6. Run(p).dry = IsDry(p)
      BY <1>2, <1>c DEF Capture, At, RunSoFar
    <3>7. RunSoFar(p)'
      BY <3>3, <3>4, <3>5, <3>6 DEF RunSoFar, IsDry, Captured
    <3> QED
      BY <2>0, <2>1, <2>3, <3>3, <3>7, QuietStep
  <2> QED
    BY <1>2, <2>2, <2>3 DEF Capture, Fails
<1>3. CASE OpenArchive(p)
  <2>1. job[p].pc = "open" /\ UNCHANGED <<runs, purgedBy>>
    BY <1>3 DEF OpenArchive, At
  <2>2. CASE Goto(p, "error")
    BY <1>f, <2>1, <2>2, QuietStep
  <2>3. CASE Goto(p, "copy")
    <3>1. job'[p] = [job[p] EXCEPT !.pc = "copy"]
      BY <1>b, <2>3 DEF Goto
    <3>2. RunSoFar(p)'
      BY <1>b, <1>c, <2>1, <3>1 DEF RunSoFar, Run, Table, IsDry, JobRec
    <3>3. job'[p].pos = job[p].pos /\ job[p].pc \in Early
      BY <1>b, <2>1, <3>1 DEF JobRec, Early
    <3> QED
      BY <2>1, <3>2, <3>3, QuietStep
  <2> QED
    BY <1>3, <2>2, <2>3 DEF OpenArchive, Fails
<1>4. CASE CopyRows(p)
  <2>1. job[p].pc = "copy" /\ UNCHANGED <<runs, purgedBy>>
    BY <1>4 DEF CopyRows, At
  <2>2. CASE Goto(p, "error")
    BY <1>f, <2>1, <2>2, QuietStep
  <2>3. CASE job' = [job EXCEPT ![p].pc = "mark", ![p].archived = Cardinality(job[p].ids \cap live)]
    <3>1. /\ job'[p].pc = "mark" /\ job'[p].pos = job[p].pos
          /\ job'[p].ids = job[p].ids /\ job'[p].rest = job[p].rest
      BY <1>b, <2>3 DEF JobRec
    <3>2. RunSoFar(p)'
      <4>1. Run(p)' = Run(p) /\ Table(p)' = Table(p)
        BY <1>a, <2>1, <3>1 DEF Run, Table
      <4>2. /\ Run(p).dry = IsDry(p) /\ Run(p).captured = Cardinality(job[p].ids)
            /\ job[p].rest = job[p].ids
            /\ \A r \in job[p].ids : TableOf[r] = Table(p)
        BY <1>c, <2>1 DEF RunSoFar
      <4> QED
        BY <3>1, <4>1, <4>2 DEF RunSoFar, IsDry
    <3>3. job[p].pc \in Early
      BY <2>1 DEF Early
    <3> QED
      BY <2>1, <3>1, <3>2, <3>3, QuietStep
  <2> QED
    BY <1>4, <2>2, <2>3 DEF CopyRows, Fails
<1>5. CASE MarkArchived(p)
  <2>1. job[p].pc = "mark" /\ UNCHANGED purgedBy
    BY <1>5 DEF MarkArchived, At
  <2>0. /\ [Run(p) EXCEPT !.archived = job[p].archived, !.path = job[p].stamp] \in RunRec
        /\ job[p].pc \in Early
    BY <1>b, <1>d, <2>1 DEF RunRec, JobRec, Early
  <2>2. CASE /\ Goto(p, "error")
             /\ MayUpdateRun(p, [Run(p) EXCEPT !.archived = job[p].archived, !.path = job[p].stamp])
    BY <1>f, <2>0, <2>1, <2>2, QuietStep DEF MayUpdateRun
  <2>3. CASE /\ UpdateRun(p, [Run(p) EXCEPT !.archived = job[p].archived, !.path = job[p].stamp])
             /\ Goto(p, Verdict(p))
    <3>2. job'[p] = [job[p] EXCEPT !.pc = Verdict(p)]
      BY <1>b, <2>3 DEF Goto
    <3>3. /\ job'[p].pc = Verdict(p) /\ job'[p].pos = job[p].pos
          /\ job'[p].ids = job[p].ids /\ job'[p].rest = job[p].rest
      BY <1>b, <3>2 DEF JobRec
    <3>4. Run(p)' = [Run(p) EXCEPT !.archived = job[p].archived, !.path = job[p].stamp]
          /\ Table(p)' = Table(p)
      BY <1>g, <2>3, <3>3
    <3>5. /\ Run(p)'.archived = job[p].archived
          /\ Run(p)'.captured = Run(p).captured /\ Run(p)'.dry = Run(p).dry
      BY <1>d, <3>4 DEF RunRec
    <3>6. /\ Run(p).dry = IsDry(p) /\ Run(p).captured = Cardinality(job[p].ids)
          /\ job[p].rest = job[p].ids
          /\ \A r \in job[p].ids : TableOf[r] = Table(p)
      BY <1>c, <2>1 DEF RunSoFar
    <3>7. RunSoFar(p)'
      <4>1. CASE Verdict(p) = "delete"
        <5>1. job[p].archived = Cardinality(job[p].ids) /\ ~IsDry(p)
          BY <4>1 DEF Verdict
        <5> QED
          BY <3>3, <3>4, <3>5, <3>6, <4>1, <5>1 DEF RunSoFar
      <4>2. CASE Verdict(p) # "delete"
        <5>1. Verdict(p) \in {"reject", "complete"}
          BY <4>2 DEF Verdict
        <5> QED
          BY <3>3, <5>1, NothingToSay
      <4> QED
        BY <4>1, <4>2
    <3> QED
      BY <2>0, <2>1, <2>3, <3>3, <3>7, QuietStep
  <2> QED
    BY <1>5, <2>2, <2>3 DEF MarkArchived, Fails
<1>6. CASE Reject(p)
  <2>1. job[p].pc \in Early /\ UNCHANGED purgedBy
    BY <1>6 DEF Reject, At, Early
  <2>2. [Run(p) EXCEPT !.status = "failed"] \in RunRec
    BY <1>d DEF RunRec
  <2>3. Goto(p, "error") \/ NextTable(p)
    BY <1>6 DEF Reject, Fails
  <2> QED
    BY <1>6, <1>f, <2>1, <2>2, <2>3, QuietStep DEF Reject, Fails, MayUpdateRun
<1>7. CASE Vacuum(p)
  <2>1. UNCHANGED <<runs, purgedBy>>
    BY <1>7 DEF Vacuum
  <2>2. Goto(p, "error") \/ Goto(p, "complete")
    BY <1>7 DEF Vacuum, Fails
  <2> QED
    BY <1>f, <2>1, <2>2, QuietStep
<1>8. CASE Complete(p)
  <2>1. UNCHANGED purgedBy
    BY <1>8 DEF Complete
  <2>2. PICK run \in RunRec :
          /\ run.dry = Run(p).dry /\ run.archived = Run(p).archived
          /\ run.captured = Run(p).captured
          /\ UpdateRun(p, run) \/ UNCHANGED runs
    <3>1. [Run(p) EXCEPT !.status = "completed", !.deleted = job[p].deleted] \in RunRec
      BY <1>b, <1>d DEF RunRec, JobRec
    <3>2. \A run \in RunRec, n \in Nat :
            LET done == [run EXCEPT !.status = "completed", !.deleted = n]
            IN  done.dry = run.dry /\ done.archived = run.archived /\ done.captured = run.captured
      BY DEF RunRec
    <3>3. job[p].deleted \in Nat
      BY <1>b DEF JobRec
    <3> QED
      BY <1>8, <1>d, <3>1, <3>2, <3>3 DEF Complete, MayUpdateRun
  <2>3. Goto(p, "error") \/ NextTable(p)
    BY <1>8 DEF Complete, Fails
  <2> QED
    BY <1>f, <2>1, <2>2, <2>3, QuietStep
<1>9. CASE MarkFailed(p)
  <2>1. UNCHANGED purgedBy
    BY <1>9 DEF MarkFailed
  <2>2. /\ [Run(p) EXCEPT !.status = "failed"] \in RunRec
        /\ [Run(p) EXCEPT !.status = "failed"].dry = Run(p).dry
        /\ [Run(p) EXCEPT !.status = "failed"].archived = Run(p).archived
        /\ [Run(p) EXCEPT !.status = "failed"].captured = Run(p).captured
    BY <1>d DEF RunRec
  <2>3. NextTable(p)
    BY <1>9 DEF MarkFailed
  <2>4. UpdateRun(p, [Run(p) EXCEPT !.status = "failed"]) \/ UNCHANGED runs
    BY <1>9 DEF MarkFailed, MayUpdateRun
  <2> QED
    BY <1>f, <2>1, <2>2, <2>3, <2>4, QuietStep
<1>10. CASE DeleteBatch(p)
  <2>1. job[p].pc = "delete" /\ UNCHANGED runs
    BY <1>10 DEF DeleteBatch, At
  <2>2. /\ job[p].rest \subseteq job[p].ids
        /\ ~Run(p).dry /\ Run(p).archived = Run(p).captured
        /\ \A r \in job[p].ids : TableOf[r] = Table(p)
    BY <1>c, <2>1 DEF RunSoFar
  <2>3. PICK chunk \in SUBSET job[p].rest :
          /\ Purge(p, chunk) \/ UNCHANGED <<live, purgedBy>>
          /\ \/ job' = [job EXCEPT ![p].rest = @ \ chunk, ![p].deleted = @ + Affected(chunk),
                          ![p].pc = IF chunk = job[p].rest THEN "vacuum" ELSE "delete"]
             \/ job' = [job EXCEPT ![p].pc = "error"]
    BY <1>10 DEF DeleteBatch, Fails, Goto
  <2>4. \A r \in Rows : \/ purgedBy'[r] = purgedBy[r]
                        \/ purgedBy'[r] = job[p].cycle /\ TableOf[r] = Table(p)
    BY <2>2, <2>3 DEF Purge
  <2>5. /\ job'[p].pos = job[p].pos /\ job'[p].ids = job[p].ids
        /\ job'[p].pc \in {"vacuum", "delete", "error"}
        /\ job'[p].pc = "delete" => job'[p].rest \subseteq job[p].rest
    BY <1>b, <2>3 DEF JobRec
  <2>6. CyclesApart /\ InCycle(p) /\ cycles \in Cycle /\ job[p].pos \in Positions
    BY <1>a DEF GateInv, Types, TypeOK
  <2>7. CyclesApart'
    <3>1. job[p].cycle <= cycles
      BY <2>6 DEF InCycle
    <3> QED
      BY <1>a, <2>4, <2>6, <3>1, InnerFrame DEF CyclesApart, At
  <2>8. InCycle(p)'
    <3>1. ASSUME NEW i \in DOMAIN Windows, NEW r \in Rows,
                 i > job[p].pos, TableOf[r] = Windows[i]
          PROVE  purgedBy'[r] # job[p].cycle
      <4>1. purgedBy[r] # job[p].cycle
        BY <2>6, <3>1 DEF InCycle, NothingPurgedYet
      <4>2. /\ i \in Nat /\ job[p].pos \in Nat
            /\ job[p].pos \in DOMAIN Windows
        BY <1>a, <2>6, WindowsAreTables, WindowsAssumption DEF Positions
      <4>3. Windows[i] # Table(p)
        BY <3>1, <4>2, WindowsAssumption DEF Table
      <4> QED
        BY <2>4, <3>1, <4>1, <4>3
    <3>2. NothingPurgedYet(p)'
      BY <1>a, <2>5, <3>1 DEF NothingPurgedYet, Early
    <3>3. Table(p)' = Table(p) /\ Run(p)' = Run(p)
      BY <1>a, <2>1, <2>5 DEF Table, Run
    <3>4. RunSoFar(p)'
      BY <2>2, <2>5, <3>3 DEF RunSoFar
    <3> QED
      BY <1>a, <2>6, <3>2, <3>4 DEF InCycle
  <2>9. ASSUME NEW q \in Runners, ~At(q, "idle")' PROVE InCycle(q)'
    <3>1. CASE q = p
      BY <2>8, <3>1
    <3>2. CASE q # p
      <4>1. job'[q] = job[q] /\ ~At(q, "idle") /\ job[q].cycle # job[p].cycle
        BY <1>a, <2>6, <2>9, <3>2 DEF CyclesApart, At
      <4>2. cycles' \in Cycle /\ cycles' >= cycles
        BY <1>a, <2>6, BoundsAssumption DEF Cycle
      <4> QED
        BY <1>d, <2>1, <2>4, <4>1, <4>2, OthersUndisturbed
    <3> QED
      BY <3>1, <3>2
  <2>10. OnlyVerifiedRunsPurge'
    <3> SUFFICES ASSUME NEW r \in Rows, purgedBy'[r] # 0
                 PROVE  ~RunOf(r)'.dry /\ RunOf(r)'.archived = RunOf(r)'.captured
      BY DEF OnlyVerifiedRunsPurge
    <3>1. CASE purgedBy'[r] = purgedBy[r]
      BY <2>1, <3>1 DEF GateInv, OnlyVerifiedRunsPurge, RunOf
    <3>2. CASE purgedBy'[r] = job[p].cycle /\ TableOf[r] = Table(p)
      BY <2>1, <2>2, <3>2 DEF RunOf, Run
    <3> QED
      BY <2>4, <3>1, <3>2
  <2> QED
    BY <2>7, <2>9, <2>10 DEF GateInv
<1> QED
  BY <1>1, <1>2, <1>3, <1>4, <1>5, <1>6, <1>7, <1>8, <1>9, <1>10 DEF Inner

\* A step outside the cycles: it can only end some of them.
LEMMA OuterGate ==
    ASSUME Types, GateInv, UNCHANGED <<runs, purgedBy, cycles>>,
           \A q \in Runners : job'[q] = job[q] \/ At(q, "idle")'
    PROVE  GateInv'
<1>1. CyclesApart'
  BY DEF GateInv, CyclesApart, At
<1>2. ASSUME NEW q \in Runners, ~At(q, "idle")' PROVE InCycle(q)'
  <2>1. job'[q] = job[q] /\ ~At(q, "idle")
    BY <1>2 DEF At
  <2>2. InCycle(q)
    BY <2>1 DEF GateInv
  <2> QED
    BY <2>1, <2>2 DEF InCycle, NothingPurgedYet, RunSoFar, Run, Table, IsDry
<1>3. OnlyVerifiedRunsPurge'
  BY DEF GateInv, OnlyVerifiedRunsPurge, RunOf
<1> QED
  BY <1>1, <1>2, <1>3 DEF GateInv

LEMMA StartGate ==
    ASSUME Types, GateInv, NEW p \in Runners, StartCycle(p)
    PROVE  GateInv'
<1>0. StartCycle(p)
  OBVIOUS
<1>1. /\ \A q \in Runners : q # p => job'[q] = job[q]
      /\ At(p, "idle")
      /\ job'[p].pc = "table" /\ job'[p].cycle = cycles + 1 /\ job'[p].pos = 1
      /\ UNCHANGED <<runs, purgedBy>>
      /\ cycles' = cycles + 1
      /\ cycles \in Nat /\ cycles + 1 \in Cycle
  <2>1. PICK j : j.pc = "table" /\ j.cycle = cycles + 1 /\ j.pos = 1
                 /\ job' = [job EXCEPT ![p] = j]
    BY <1>0 DEF StartCycle, Idle
  <2>2. job \in [Runners -> JobRec]
    BY DEF Types, TypeOK, JobRec
  <2>3. cycles \in Nat /\ cycles < MaxCycles
    BY <1>0, BoundsAssumption DEF StartCycle, Types, TypeOK, Cycle
  <2>4. /\ \A q \in Runners : q # p => job'[q] = job[q]
        /\ job'[p].pc = "table" /\ job'[p].cycle = cycles + 1 /\ job'[p].pos = 1
    BY <2>1, <2>2
  <2>5. cycles + 1 \in Cycle
    BY <2>3, BoundsAssumption DEF Cycle
  <2> QED
    BY <1>0, <2>3, <2>4, <2>5 DEF StartCycle
<1>2. /\ \A r \in Rows : purgedBy[r] \in Nat /\ purgedBy[r] <= cycles
      /\ \A q \in Runners : ~At(q, "idle") => job[q].cycle \in 1 .. cycles
  BY DEF GateInv, CyclesApart, InCycle, Types, TypeOK, Cycle
<1>3. CyclesApart'
  BY <1>1, <1>2 DEF GateInv, CyclesApart, At
<1>4. InCycle(p)'
  <2>1. NothingPurgedYet(p)'
    BY <1>1, <1>2 DEF NothingPurgedYet
  <2>2. RunSoFar(p)'
    BY <1>1, NothingToSay
  <2> QED
    BY <1>1, <2>1, <2>2 DEF InCycle
<1>5. ASSUME NEW q \in Runners, q # p, ~At(q, "idle")' PROVE InCycle(q)'
  <2>1. job'[q] = job[q] /\ ~At(q, "idle")
    BY <1>1, <1>5 DEF At
  <2>2. job[q].cycle # cycles + 1
    BY <1>1, <1>2, <2>1
  <2> QED
    BY <1>1, <2>1, <2>2, OthersUndisturbed
<1>6. OnlyVerifiedRunsPurge'
  BY <1>1 DEF GateInv, OnlyVerifiedRunsPurge, RunOf
<1> QED
  BY <1>3, <1>4, <1>5, <1>6 DEF GateInv

LEMMA GateStep == Types /\ GateInv /\ [Next]_vars => GateInv'
<1> SUFFICES ASSUME Types, GateInv, [Next]_vars PROVE GateInv'
  OBVIOUS
<1>1. ASSUME NEW r \in Rows, Insert(r) \/ Age(r) \/ Cascade(r) PROVE GateInv'
  BY <1>1, OuterGate DEF Insert, Age, Cascade
<1>2. ASSUME NEW p \in Runners, StartCycle(p) PROVE GateInv'
  BY <1>2, StartGate
<1>3. ASSUME NEW p \in Runners, EndCycle(p) \/ Crash(p) PROVE GateInv'
  <2>1. \A q \in Runners : job'[q] = job[q] \/ At(q, "idle")'
    BY <1>3 DEF EndCycle, Crash, Types, TypeOK, Idle, At
  <2>2. UNCHANGED <<runs, purgedBy, cycles>>
    BY <1>3 DEF EndCycle, Crash
  <2> QED
    BY <2>1, <2>2, OuterGate
<1>4. ASSUME NEW p \in Runners, Inner(p) PROVE GateInv'
  BY <1>4, InnerGate
<1>5. ASSUME NEW p \in Runners, LoseLock(p) PROVE GateInv'
  BY <1>5, OuterGate DEF LoseLock
<1>6. ASSUME NEW t \in Tables, NEW s \in Cycle, Writeback(t, s) PROVE GateInv'
  BY <1>6, OuterGate DEF Writeback
<1>7. CASE LosePower
  <2>1. \A q \in Runners : At(q, "idle")'
    BY <1>7 DEF LosePower, Idle, At
  <2> QED
    BY <1>7, <2>1, OuterGate DEF LosePower
<1>8. CASE UNCHANGED vars
  BY <1>8, OuterGate DEF vars
<1> QED
  BY <1>1, <1>2, <1>3, <1>4, <1>5, <1>6, <1>7, <1>8 DEF Next, Step, Inner

LEMMA GateHolds == Spec => []GateInv
<1>1. Init => GateInv
  BY DEF Init, GateInv, CyclesApart, OnlyVerifiedRunsPurge, At, Idle
<1>2. Types /\ GateInv /\ [Next]_vars => GateInv'
  BY GateStep
<1> QED
  BY <1>1, <1>2, RetentionTypes, PTL DEF Spec

\* With any faults, crashes, lost lock sessions and shared file names, a row
\* is deleted only by an armed run that archived as many rows as it captured.
THEOREM OnlyVerifiedDelete == Spec => []OnlyVerifiedRunsPurge
<1>1. GateInv => OnlyVerifiedRunsPurge
  BY DEF GateInv
<1> QED
  BY <1>1, GateHolds, PTL

-----------------------------------------------------------------------------
(* The archive, while file names are not shared and the power stays on. *)

File(p) == files[Table(p)][job[p].cycle]

ArchiveSoFar(p) ==
    /\ job[p].stamp = job[p].cycle
    /\ job[p].pc = "mark" =>
          File(p).rows \subseteq job[p].ids /\ job[p].archived = Cardinality(File(p).rows)
    /\ job[p].pc = "delete" =>
          job[p].ids \subseteq File(p).rows /\ Run(p).path = job[p].cycle

PurgedInOwnFile ==
    \A r \in Rows : purgedBy[r] # 0 =>
        RunOf(r).path = purgedBy[r] /\ r \in files[TableOf[r]][purgedBy[r]].rows

ArchiveInv == (\A p \in Runners : ~At(p, "idle") => ArchiveSoFar(p)) /\ PurgedInOwnFile

LEMMA OthersArchive ==
    ASSUME Types, GateInv, ArchiveInv, NEW q \in Runners, ~At(q, "idle"), NEW c \in Cycle,
           job[q].cycle # c, job'[q] = job[q],
           \A t \in Tables, d \in Cycle : d # c => runs'[t][d] = runs[t][d],
           \A t \in Tables, d \in Cycle : d # c => files'[t][d] = files[t][d]
    PROVE  ArchiveSoFar(q)'
<1>1. ArchiveSoFar(q) /\ job[q].cycle \in Cycle
  BY DEF ArchiveInv, Types, TypeOK
<1>2. ~At(q, "table") => Table(q) \in Tables
  BY RowOfARun DEF Types, AtTable
<1>3. Table(q)' = Table(q)
  BY DEF Table
<1>4. ~At(q, "table") => Run(q)' = Run(q) /\ File(q)' = File(q)
  BY <1>1, <1>2, <1>3 DEF Run, File
<1> QED
  BY <1>1, <1>4 DEF ArchiveSoFar, At

\* A row deleted earlier stays where it was archived.
LEMMA PurgedStaysArchived ==
    ASSUME Types, GateInv, PurgedInOwnFile, NEW p \in Runners,
           ~At(p, "idle"), job[p].pos <= Len(Windows), UNCHANGED purgedBy,
           \/ UNCHANGED runs
           \/ \E run \in RunRec : /\ UpdateRun(p, run)
                                  /\ job[p].pc \in Early \/ run.path = Run(p).path,
           \/ UNCHANGED files
           \/ job[p].pc \in Early /\ \E f : files' = [files EXCEPT ![Table(p)][job[p].cycle] = f]
    PROVE  PurgedInOwnFile'
<1> SUFFICES ASSUME NEW r \in Rows, purgedBy[r] # 0
             PROVE  /\ RunOf(r)'.path = purgedBy[r]
                    /\ r \in files'[TableOf[r]][purgedBy[r]].rows
  BY DEF PurgedInOwnFile
<1>1. /\ runs \in [Tables -> [Cycle -> RunRec]] /\ files \in [Tables -> [Cycle -> FileRec]]
      /\ Table(p) \in Tables /\ job[p].cycle \in Cycle
      /\ TableOf[r] \in Tables /\ purgedBy[r] \in Cycle
      /\ job[p].pos \in DOMAIN Windows
  BY RowOfARun, TableOfAssumption, WindowsAssumption DEF Types, TypeOK, RunRec, FileRec, Positions
<1>2. RunOf(r).path = purgedBy[r] /\ r \in files[TableOf[r]][purgedBy[r]].rows
  BY DEF PurgedInOwnFile
<1>3. CASE TableOf[r] = Table(p) /\ purgedBy[r] = job[p].cycle
  <2>1. job[p].pc \notin Early
    BY <1>1, <1>3 DEF GateInv, InCycle, NothingPurgedYet, Table
  <2>2. RunOf(r) = Run(p)
    BY <1>3 DEF RunOf, Run
  <2>3. RunOf(r)'.path = RunOf(r).path
    <3>1. CASE UNCHANGED runs
      BY <3>1 DEF RunOf
    <3>2. CASE ~UNCHANGED runs
      <4>1. PICK run \in RunRec : UpdateRun(p, run) /\ run.path = Run(p).path
        BY <2>1, <3>2
      <4>2. RunOf(r)' = run
        BY <1>1, <1>3, <4>1 DEF RunOf, UpdateRun
      <4> QED
        BY <2>2, <4>1, <4>2
    <3> QED
      BY <3>1, <3>2
  <2> QED
    BY <1>2, <2>1, <2>3
<1>4. CASE ~(TableOf[r] = Table(p) /\ purgedBy[r] = job[p].cycle)
  <2>1. RunOf(r)' = RunOf(r)
    BY <1>1, <1>4 DEF RunOf, UpdateRun
  <2>2. files'[TableOf[r]][purgedBy[r]] = files[TableOf[r]][purgedBy[r]]
    BY <1>1, <1>4
  <2> QED
    BY <1>2, <2>1, <2>2
<1> QED
  BY <1>3, <1>4

\* A step of p that deletes nothing, if it leaves p's own file in order.
LEMMA QuietArchive ==
    ASSUME Types, GateInv, ArchiveInv, NEW p \in Runners, Inner(p), UNCHANGED purgedBy,
           \/ UNCHANGED runs
           \/ \E run \in RunRec : /\ UpdateRun(p, run)
                                  /\ job[p].pc \in Early \/ run.path = Run(p).path,
           \/ UNCHANGED files
           \/ job[p].pc \in Early /\ \E f : files' = [files EXCEPT ![Table(p)][job[p].cycle] = f],
           ArchiveSoFar(p)'
    PROVE  ArchiveInv'
<1>1. /\ \A q \in Runners : q # p => job'[q] = job[q]
      /\ ~At(p, "idle") /\ job[p].pos <= Len(Windows)
  BY InnerFrame
<1>2. job[p].cycle \in Cycle /\ CyclesApart
  BY DEF Types, TypeOK, GateInv
<1>3. \A t \in Tables, d \in Cycle : d # job[p].cycle => runs'[t][d] = runs[t][d]
  <2>1. runs \in [Tables -> [Cycle -> RunRec]]
    BY DEF Types, TypeOK, RunRec
  <2>2. CASE UNCHANGED runs
    BY <2>2
  <2>3. CASE \E run \in RunRec : UpdateRun(p, run)
    BY <2>1, <2>3 DEF UpdateRun
  <2> QED
    BY <2>2, <2>3
<1>4. \A t \in Tables, d \in Cycle : d # job[p].cycle => files'[t][d] = files[t][d]
  <2>1. files \in [Tables -> [Cycle -> FileRec]]
    BY DEF Types, TypeOK, FileRec
  <2> QED
    BY <2>1
<1>5. ASSUME NEW q \in Runners, ~At(q, "idle")' PROVE ArchiveSoFar(q)'
  <2>1. CASE q # p
    <3>1. job'[q] = job[q] /\ ~At(q, "idle") /\ job[q].cycle # job[p].cycle
      BY <1>1, <1>2, <1>5, <2>1 DEF CyclesApart, At
    <3> QED
      BY <1>2, <1>3, <1>4, <3>1, OthersArchive
  <2> QED
    BY <2>1
<1>6. PurgedInOwnFile'
  BY <1>1, PurgedStaysArchived DEF ArchiveInv
<1> QED
  BY <1>5, <1>6 DEF ArchiveInv

LEMMA InnerArchive ==
    ASSUME Types, GateInv, ArchiveInv, NEW p \in Runners, Inner(p)
    PROVE  ArchiveInv'
<1>a. /\ ~At(p, "idle") /\ job[p].pos <= Len(Windows)
      /\ job'[p].cycle = job[p].cycle /\ job'[p].stamp = job[p].stamp
      /\ \A q \in Runners : q # p => job'[q] = job[q]
  BY InnerFrame
<1>b. job \in [Runners -> JobRec] /\ job[p] \in JobRec
  BY DEF Types, TypeOK, JobRec
<1>c. ArchiveSoFar(p) /\ job[p].stamp = job[p].cycle /\ RunSoFar(p)
  BY <1>a DEF ArchiveInv, ArchiveSoFar, GateInv, InCycle
<1>d. /\ Table(p) \in Tables /\ job[p].cycle \in Cycle
      /\ Run(p) \in RunRec
      /\ files \in [Tables -> [Cycle -> FileRec]]
  BY <1>a, RowOfARun DEF Types, TypeOK, FileRec
<1>e. job'[p].pc \notin {"mark", "delete"} => ArchiveSoFar(p)'
  BY <1>a, <1>c DEF ArchiveSoFar
<1>f. Goto(p, "error") \/ NextTable(p) \/ Goto(p, "complete") \/ Goto(p, "copy") => ArchiveSoFar(p)'
  <2>1. Goto(p, "error") \/ NextTable(p) \/ Goto(p, "complete") \/ Goto(p, "copy")
          => job'[p].pc \in {"table", "complete", "error", "copy"}
    BY <1>b DEF Goto, NextTable, JobRec
  <2> QED
    BY <1>e, <2>1
<1>1. CASE InsertRun(p)
  <2>1. job[p].pc \in Early /\ UNCHANGED <<files, purgedBy>>
    BY <1>1 DEF InsertRun, At, Early
  <2>2. [NoRun EXCEPT !.status = "running", !.dry = IsDry(p)] \in RunRec
    <3>1. NoRun \in RunRec
      BY BoundsAssumption DEF NoRun, RunRec, Cycle
    <3>2. \A run \in RunRec, b \in BOOLEAN : [run EXCEPT !.status = "running", !.dry = b] \in RunRec
      BY DEF RunRec
    <3> QED
      BY <3>1, <3>2 DEF IsDry
  <2>3. job'[p].pc \in {"capture", "table"}
    BY <1>1, <1>b DEF InsertRun, NextTable, JobRec
  <2>4. \/ UNCHANGED runs
        \/ UpdateRun(p, [NoRun EXCEPT !.status = "running", !.dry = IsDry(p)])
    BY <1>1 DEF InsertRun, MayUpdateRun
  <2> QED
    BY <1>e, <2>1, <2>2, <2>3, <2>4, QuietArchive
<1>2. CASE Capture(p)
  <2>1. job[p].pc \in Early /\ UNCHANGED <<files, purgedBy>>
    BY <1>2 DEF Capture, At, Early
  <2>2. [Run(p) EXCEPT !.captured = Cardinality(Captured(p))] \in RunRec
    <3>1. Cardinality(Captured(p)) \in Nat
      BY RowsCount DEF Captured, Types, TypeOK
    <3> QED
      BY <1>d, <3>1 DEF RunRec
  <2>3. job'[p].pc \in {"complete", "open", "error"}
    BY <1>2, <1>b DEF Capture, Fails, Goto, JobRec
  <2>4. UNCHANGED runs \/ UpdateRun(p, [Run(p) EXCEPT !.captured = Cardinality(Captured(p))])
    BY <1>2 DEF Capture, MayUpdateRun
  <2> QED
    BY <1>e, <2>1, <2>2, <2>3, <2>4, QuietArchive
<1>3. CASE OpenArchive(p)
  <2>1. job[p].pc \in Early /\ UNCHANGED <<runs, purgedBy>>
    BY <1>3 DEF OpenArchive, At, Early
  <2>2. \/ UNCHANGED files
        \/ files' = [files EXCEPT ![Table(p)][job[p].cycle] = [rows |-> {}, st |-> "open"]]
    BY <1>3, <1>c DEF OpenArchive
  <2>3. Goto(p, "copy") \/ Goto(p, "error")
    BY <1>3 DEF OpenArchive, Fails
  <2> QED
    BY <1>f, <2>1, <2>2, <2>3, QuietArchive
<1>4. CASE CopyRows(p)
  <2>1. job[p].pc \in Early /\ UNCHANGED <<runs, purgedBy>>
    BY <1>4 DEF CopyRows, At, Early
  <2>2. CASE /\ Goto(p, "error")
             /\ \E f : files' = [files EXCEPT ![Table(p)][job[p].cycle] = f]
    BY <1>f, <2>1, <2>2, QuietArchive
  <2>3. CASE /\ files' = [files EXCEPT ![Table(p)][job[p].cycle] =
                             [rows |-> job[p].ids \cap live, st |-> "cached"]]
             /\ job' = [job EXCEPT ![p].pc = "mark", ![p].archived = Cardinality(job[p].ids \cap live)]
    <3>1. /\ job'[p].pc = "mark" /\ job'[p].pos = job[p].pos /\ job'[p].ids = job[p].ids
          /\ job'[p].archived = Cardinality(job[p].ids \cap live)
      BY <1>b, <2>3 DEF JobRec
    <3>2. File(p)' = [rows |-> job[p].ids \cap live, st |-> "cached"]
      BY <1>a, <1>d, <2>3, <3>1 DEF File, Table
    <3>3. ArchiveSoFar(p)'
      BY <1>a, <1>c, <3>1, <3>2 DEF ArchiveSoFar
    <3> QED
      BY <2>1, <2>3, <3>3, QuietArchive
  <2> QED
    BY <1>4, <1>c, <2>2, <2>3 DEF CopyRows, Fails
<1>5. CASE MarkArchived(p)
  <2>1. job[p].pc = "mark" /\ job[p].pc \in Early /\ UNCHANGED <<files, purgedBy>>
    BY <1>5 DEF MarkArchived, At, Early
  <2>0. [Run(p) EXCEPT !.archived = job[p].archived, !.path = job[p].stamp] \in RunRec
    BY <1>b, <1>d DEF RunRec, JobRec
  <2>2. CASE /\ Goto(p, "error")
             /\ MayUpdateRun(p, [Run(p) EXCEPT !.archived = job[p].archived, !.path = job[p].stamp])
    BY <1>f, <2>0, <2>1, <2>2, QuietArchive DEF MayUpdateRun
  <2>3. CASE /\ UpdateRun(p, [Run(p) EXCEPT !.archived = job[p].archived, !.path = job[p].stamp])
             /\ Goto(p, Verdict(p))
    <3>2. /\ job'[p].pc = Verdict(p) /\ job'[p].pos = job[p].pos
          /\ job'[p].ids = job[p].ids
      BY <1>b, <2>3 DEF Goto, JobRec
    <3>3. Run(p)' = [Run(p) EXCEPT !.archived = job[p].archived, !.path = job[p].stamp]
          /\ Table(p)' = Table(p)
      BY <1>a, <2>3, <3>2, RunWritten
    <3>4. Run(p)'.path = job[p].cycle /\ File(p)' = File(p)
      BY <1>a, <1>c, <1>d, <2>1, <3>3 DEF RunRec, File
    <3>5. /\ File(p).rows \subseteq job[p].ids
          /\ job[p].archived = Cardinality(File(p).rows)
      BY <1>c, <2>1 DEF ArchiveSoFar
    <3>6. ASSUME Verdict(p) = "delete" PROVE File(p).rows = job[p].ids
      <4>1. Cardinality(File(p).rows) = Cardinality(job[p].ids)
        BY <3>5, <3>6 DEF Verdict
      <4>2. IsFiniteSet(job[p].ids)
        BY <1>b, RowsCount DEF JobRec
      <4> QED
        BY <3>5, <4>1, <4>2, FS_Subset
    <3>7. Verdict(p) # "mark"
      BY DEF Verdict
    <3>8. ArchiveSoFar(p)'
      BY <1>a, <1>c, <3>2, <3>3, <3>4, <3>6, <3>7 DEF ArchiveSoFar
    <3> QED
      BY <2>0, <2>1, <2>3, <3>8, QuietArchive
  <2> QED
    BY <1>5, <2>2, <2>3 DEF MarkArchived, Fails
<1>6. CASE Reject(p)
  <2>1. UNCHANGED <<files, purgedBy>>
    BY <1>6 DEF Reject
  <2>2. [Run(p) EXCEPT !.status = "failed"] \in RunRec
        /\ [Run(p) EXCEPT !.status = "failed"].path = Run(p).path
    BY <1>d DEF RunRec
  <2>3. Goto(p, "error") \/ NextTable(p)
    BY <1>6 DEF Reject, Fails
  <2>4. UNCHANGED runs \/ UpdateRun(p, [Run(p) EXCEPT !.status = "failed"])
    BY <1>6 DEF Reject, MayUpdateRun
  <2> QED
    BY <1>f, <2>1, <2>2, <2>3, <2>4, QuietArchive
<1>7. CASE Vacuum(p)
  BY <1>7, <1>f, QuietArchive DEF Vacuum, Fails
<1>8. CASE Complete(p)
  <2>1. UNCHANGED <<files, purgedBy>>
    BY <1>8 DEF Complete
  <2>2. [Run(p) EXCEPT !.status = "completed", !.deleted = job[p].deleted] \in RunRec
        /\ [Run(p) EXCEPT !.status = "completed", !.deleted = job[p].deleted].path = Run(p).path
    BY <1>b, <1>d DEF RunRec, JobRec
  <2>3. Goto(p, "error") \/ NextTable(p)
    BY <1>8 DEF Complete, Fails
  <2>4. \/ UNCHANGED runs
        \/ UpdateRun(p, [Run(p) EXCEPT !.status = "completed", !.deleted = job[p].deleted])
    BY <1>8 DEF Complete, MayUpdateRun
  <2> QED
    BY <1>f, <2>1, <2>2, <2>3, <2>4, QuietArchive
<1>9. CASE MarkFailed(p)
  <2>1. UNCHANGED <<files, purgedBy>> /\ NextTable(p)
    BY <1>9 DEF MarkFailed
  <2>2. [Run(p) EXCEPT !.status = "failed"] \in RunRec
        /\ [Run(p) EXCEPT !.status = "failed"].path = Run(p).path
    BY <1>d DEF RunRec
  <2>3. UNCHANGED runs \/ UpdateRun(p, [Run(p) EXCEPT !.status = "failed"])
    BY <1>9 DEF MarkFailed, MayUpdateRun
  <2> QED
    BY <1>f, <2>1, <2>2, <2>3, QuietArchive
<1>10. CASE DeleteBatch(p)
  <2>1. job[p].pc = "delete" /\ UNCHANGED <<runs, files>>
    BY <1>10 DEF DeleteBatch, At
  <2>2. /\ job[p].rest \subseteq job[p].ids /\ job[p].ids \subseteq File(p).rows
        /\ Run(p).path = job[p].cycle
        /\ \A r \in job[p].ids : TableOf[r] = Table(p)
    BY <1>c, <2>1 DEF RunSoFar, ArchiveSoFar
  <2>3. PICK chunk \in SUBSET job[p].rest :
          /\ Purge(p, chunk) \/ UNCHANGED <<live, purgedBy>>
          /\ \/ job' = [job EXCEPT ![p].rest = @ \ chunk, ![p].deleted = @ + Affected(chunk),
                          ![p].pc = IF chunk = job[p].rest THEN "vacuum" ELSE "delete"]
             \/ job' = [job EXCEPT ![p].pc = "error"]
    BY <1>10 DEF DeleteBatch, Fails, Goto
  <2>4. \A r \in Rows :
          \/ purgedBy'[r] = purgedBy[r]
          \/ purgedBy'[r] = job[p].cycle /\ TableOf[r] = Table(p) /\ r \in File(p).rows
    BY <2>2, <2>3 DEF Purge
  <2>5. /\ job'[p].pos = job[p].pos /\ job'[p].ids = job[p].ids
        /\ job'[p].pc \in {"vacuum", "delete", "error"}
    BY <1>b, <2>3 DEF JobRec
  <2>6. ArchiveSoFar(p)'
    <3>1. File(p)' = File(p) /\ Run(p)' = Run(p)
      BY <1>a, <2>1, <2>5 DEF File, Run, Table
    <3> QED
      BY <1>a, <1>c, <2>2, <2>5, <3>1 DEF ArchiveSoFar
  <2>7. ASSUME NEW q \in Runners, q # p, ~At(q, "idle")' PROVE ArchiveSoFar(q)'
    <3>1. job'[q] = job[q] /\ ~At(q, "idle") /\ job[q].cycle # job[p].cycle
      BY <1>a, <2>7 DEF GateInv, CyclesApart, At
    <3> QED
      BY <1>d, <2>1, <3>1, OthersArchive
  <2>8. PurgedInOwnFile'
    <3> SUFFICES ASSUME NEW r \in Rows, purgedBy'[r] # 0
                 PROVE  /\ RunOf(r)'.path = purgedBy'[r]
                        /\ r \in files'[TableOf[r]][purgedBy'[r]].rows
      BY DEF PurgedInOwnFile
    <3>1. CASE purgedBy'[r] = purgedBy[r]
      BY <2>1, <3>1 DEF ArchiveInv, PurgedInOwnFile, RunOf
    <3>2. CASE purgedBy'[r] = job[p].cycle /\ TableOf[r] = Table(p) /\ r \in File(p).rows
      BY <2>1, <2>2, <3>2 DEF RunOf, Run, File
    <3> QED
      BY <2>4, <3>1, <3>2
  <2> QED
    BY <2>6, <2>7, <2>8 DEF ArchiveInv
<1> QED
  BY <1>1, <1>2, <1>3, <1>4, <1>5, <1>6, <1>7, <1>8, <1>9, <1>10 DEF Inner

LEMMA ArchiveStep ==
    ASSUME ~SameSecond, ~PowerLoss, Types, GateInv, ArchiveInv, [Next]_vars
    PROVE  ArchiveInv'
<1>a. ASSUME UNCHANGED <<runs, files, purgedBy>>,
             \A q \in Runners : job'[q] = job[q] \/ At(q, "idle")'
      PROVE  ArchiveInv'
  <2>1. PurgedInOwnFile'
    BY <1>a DEF ArchiveInv, PurgedInOwnFile, RunOf
  <2>2. ASSUME NEW q \in Runners, ~At(q, "idle")' PROVE ArchiveSoFar(q)'
    <3>1. job'[q] = job[q] /\ ~At(q, "idle")
      BY <1>a, <2>2 DEF At
    <3> QED
      BY <1>a, <3>1 DEF ArchiveInv, ArchiveSoFar, File, Run, Table
  <2> QED
    BY <2>1, <2>2 DEF ArchiveInv
<1>1. ASSUME NEW r \in Rows, Insert(r) \/ Age(r) \/ Cascade(r) PROVE ArchiveInv'
  BY <1>1, <1>a DEF Insert, Age, Cascade
<1>2. ASSUME NEW p \in Runners, StartCycle(p) PROVE ArchiveInv'
  <2>1. UNCHANGED <<runs, files, purgedBy>>
    BY <1>2 DEF StartCycle
  <2>2. PICK j : /\ j.pc = "table" /\ j.cycle = cycles + 1 /\ j.stamp = cycles + 1
                 /\ job' = [job EXCEPT ![p] = j]
    BY <1>2 DEF StartCycle, Idle
  <2>3. job \in [Runners -> JobRec]
    BY DEF Types, TypeOK, JobRec
  <2>4. /\ \A q \in Runners : q # p => job'[q] = job[q]
        /\ job'[p] = j
    BY <2>2, <2>3
  <2>5. PurgedInOwnFile'
    BY <2>1 DEF ArchiveInv, PurgedInOwnFile, RunOf
  <2>6. ASSUME NEW q \in Runners, ~At(q, "idle")' PROVE ArchiveSoFar(q)'
    <3>1. CASE q = p
      BY <2>2, <2>4, <3>1 DEF ArchiveSoFar
    <3>2. CASE q # p
      <4>1. job'[q] = job[q] /\ ~At(q, "idle")
        BY <2>4, <2>6, <3>2 DEF At
      <4> QED
        BY <2>1, <4>1 DEF ArchiveInv, ArchiveSoFar, File, Run, Table
    <3> QED
      BY <3>1, <3>2
  <2> QED
    BY <2>5, <2>6 DEF ArchiveInv
<1>3. ASSUME NEW p \in Runners, EndCycle(p) \/ Crash(p) PROVE ArchiveInv'
  <2>1. \A q \in Runners : job'[q] = job[q] \/ At(q, "idle")'
    BY <1>3 DEF EndCycle, Crash, Types, TypeOK, Idle, At
  <2>2. UNCHANGED <<runs, files, purgedBy>>
    BY <1>3 DEF EndCycle, Crash
  <2> QED
    BY <1>a, <2>1, <2>2
<1>4. ASSUME NEW p \in Runners, Inner(p) PROVE ArchiveInv'
  BY <1>4, InnerArchive
<1>5. ASSUME NEW p \in Runners, LoseLock(p) PROVE ArchiveInv'
  BY <1>5, <1>a DEF LoseLock
<1>6. ASSUME NEW t \in Tables, NEW s \in Cycle, Writeback(t, s) PROVE ArchiveInv'
  BY <1>6 DEF Writeback
<1>7. CASE LosePower
  BY <1>7 DEF LosePower
<1>8. CASE UNCHANGED vars
  BY <1>8, <1>a DEF vars
<1> QED
  BY <1>1, <1>2, <1>3, <1>4, <1>5, <1>6, <1>7, <1>8 DEF Next, Step, Inner

\* Capture, archive, verify, delete (retention.rs:370-395): with any faults,
\* crashes and lost lock sessions, a deleted row is in the file its run names,
\* as long as no two cycles share a second and what was written is not lost.
THEOREM DeletedIsArchived ==
    ASSUME ~SameSecond, ~PowerLoss PROVE Spec => []PurgedIsArchived
<1>1. Init => ArchiveInv
  BY DEF Init, ArchiveInv, PurgedInOwnFile, At, Idle
<1>2. Types /\ GateInv /\ ArchiveInv /\ [Next]_vars => ArchiveInv'
  BY ArchiveStep
<1>3. ArchiveInv => PurgedIsArchived
  BY DEF ArchiveInv, PurgedInOwnFile, PurgedIsArchived
<1> QED
  BY <1>1, <1>2, <1>3, RetentionTypes, GateHolds, PTL DEF Spec

-----------------------------------------------------------------------------
(* The report. *)

\* Before the row of the table at hand has been closed.
Unclosed == Early \cup {"delete", "vacuum", "complete"}

PurgedIn(t, c) == {r \in Rows : TableOf[r] = t /\ purgedBy[r] = c /\ c > 0}

\* A deleted row was there once, and does not come back.
Fates ==
    /\ live \subseteq born
    /\ \A r \in Rows : purgedBy[r] # 0 => r \in born \ live

NoneAhead == \A t \in Tables, c \in Cycle : c > cycles => runs[t][c].status # "completed"

Unreported(p) ==
    \A i \in DOMAIN Windows :
        i > job[p].pos \/ (i = job[p].pos /\ job[p].pc \in Unclosed)
        => runs[Windows[i]][job[p].cycle].status # "completed"

Counted(p) ==
    /\ job[p].pc \in {"capture", "open", "copy", "mark"} => job[p].deleted = 0
    /\ job[p].pc \in {"delete", "vacuum", "complete"} =>
           job[p].deleted = Cardinality(PurgedIn(Table(p), job[p].cycle))

ReportInv ==
    /\ Fates /\ NoneAhead /\ ReportIsTrue
    /\ \A p \in Runners : ~At(p, "idle") => Unreported(p) /\ Counted(p)

\* A step that writes for cycle c only leaves the reports of the others.
LEMMA OthersReport ==
    ASSUME Types, ReportInv, NEW q \in Runners, ~At(q, "idle"), NEW c \in Cycle,
           job[q].cycle # c, job'[q] = job[q],
           \A t \in Tables, d \in Cycle : d # c =>
               runs'[t][d] = runs[t][d] /\ PurgedIn(t, d)' = PurgedIn(t, d)
    PROVE  Unreported(q)' /\ Counted(q)'
<1>1. Unreported(q) /\ Counted(q) /\ job[q].cycle \in Cycle
  BY DEF ReportInv, Types, TypeOK
<1>2. Unreported(q)'
  <2>1. \A i \in DOMAIN Windows : Windows[i] \in Tables
    BY DEF Tables
  <2>. QED
    BY <1>1, <2>1 DEF Unreported
<1>3. Counted(q)'
  <2>1. job[q].pc \in {"delete", "vacuum", "complete"} => Table(q) \in Tables
    BY RowOfARun DEF Types, AtTable, At
  <2>2. Table(q)' = Table(q)
    BY DEF Table
  <2>. QED
    BY <1>1, <2>1, <2>2 DEF Counted
<1>. QED
  BY <1>2, <1>3

\* A step of p that deletes nothing leaves the reports true, if p's own is.
LEMMA QuietReport ==
    ASSUME Types, GateInv, ReportInv, NEW p \in Runners, Inner(p),
           UNCHANGED <<purgedBy, live, born>>,
           \/ job'[p].pos = job[p].pos + 1
           \/ /\ job'[p].pos = job[p].pos
              /\ job'[p].pc \in Unclosed => job[p].pc \in Unclosed,
           \/ UNCHANGED runs
           \/ \E run \in RunRec :
                 /\ UpdateRun(p, run)
                 /\ \/ run.status # "completed"
                    \/ /\ run.deleted = Cardinality(PurgedIn(Table(p), job[p].cycle))
                       /\ job'[p].pos = job[p].pos + 1 \/ job'[p].pc \notin Unclosed,
           Counted(p)'
    PROVE  ReportInv'
<1>1. /\ \A q \in Runners : q # p => job'[q] = job[q]
      /\ ~At(p, "idle") /\ ~At(p, "idle")'
      /\ job'[p].cycle = job[p].cycle
      /\ job[p].pos <= Len(Windows)
      /\ cycles' = cycles
  BY InnerFrame
<1>2. /\ job[p].cycle \in Cycle /\ job[p].cycle <= cycles /\ cycles \in Cycle
      /\ Table(p) \in Tables /\ job[p].pos \in DOMAIN Windows /\ DOMAIN Windows \subseteq Nat
      /\ runs \in [Tables -> [Cycle -> RunRec]]
  <2>1. InCycle(p)
    BY <1>1 DEF GateInv
  <2>2. job[p].cycle <= cycles
    BY <2>1 DEF InCycle
  <2>. QED
    BY <1>1, <2>2, RowOfARun, WindowsAreTables, WindowsAssumption
       DEF Types, TypeOK, RunRec, Positions
<1>3. \A t \in Tables, c \in Cycle :
        \/ runs'[t][c] = runs[t][c]
        \/ /\ t = Table(p) /\ c = job[p].cycle
           /\ \/ runs'[t][c].status # "completed"
              \/ /\ runs'[t][c].deleted = Cardinality(PurgedIn(t, c))
                 /\ job'[p].pos = job[p].pos + 1 \/ job'[p].pc \notin Unclosed
  <2>1. CASE UNCHANGED runs
    BY <2>1
  <2>2. ASSUME NEW run \in RunRec, UpdateRun(p, run)
        PROVE  \A t \in Tables, c \in Cycle :
                   \/ runs'[t][c] = runs[t][c]
                   \/ t = Table(p) /\ c = job[p].cycle /\ runs'[t][c] = run
    BY <1>2, <2>2 DEF UpdateRun
  <2>. QED
    BY <2>1, <2>2
<1>4. \A t, c : PurgedIn(t, c)' = PurgedIn(t, c)
  BY DEF PurgedIn
<1>5. ReportIsTrue'
  <2>. SUFFICES ASSUME NEW t \in Tables, NEW c \in Cycle, runs'[t][c].status = "completed"
                PROVE  runs'[t][c].deleted = Cardinality(PurgedIn(t, c)')
    BY DEF ReportIsTrue, PurgedIn
  <2>1. runs[t][c].status = "completed" => runs[t][c].deleted = Cardinality(PurgedIn(t, c))
    BY DEF ReportInv, ReportIsTrue, PurgedIn
  <2>. QED
    BY <1>3, <1>4, <2>1
<1>6. Fates' /\ NoneAhead'
  <2>1. ASSUME NEW t \in Tables, NEW c \in Cycle, c > cycles
        PROVE  runs'[t][c].status # "completed"
    <3>1. c # job[p].cycle
      BY <1>2, <2>1, BoundsAssumption DEF Cycle
    <3>. QED
      BY <1>3, <2>1, <3>1 DEF ReportInv, NoneAhead
  <2>. QED
    BY <1>1, <2>1 DEF ReportInv, Fates, NoneAhead
<1>7. Unreported(p)'
  <2>. SUFFICES ASSUME NEW i \in DOMAIN Windows,
                       i > job'[p].pos \/ (i = job'[p].pos /\ job'[p].pc \in Unclosed)
                PROVE  runs'[Windows[i]][job[p].cycle].status # "completed"
    BY <1>1 DEF Unreported
  <2>1. i > job[p].pos \/ (i = job[p].pos /\ job[p].pc \in Unclosed)
    BY <1>2
  <2>2. runs[Windows[i]][job[p].cycle].status # "completed" /\ Windows[i] \in Tables
    BY <1>1, <2>1 DEF ReportInv, Unreported, Tables
  <2>3. CASE i = job[p].pos
    BY <1>2, <1>3, <2>2, <2>3
  <2>4. CASE i # job[p].pos
    BY <1>2, <1>3, <2>2, <2>4, WindowsAssumption DEF Table
  <2>. QED
    BY <2>3, <2>4
<1>8. ASSUME NEW q \in Runners, ~At(q, "idle")' PROVE Unreported(q)' /\ Counted(q)'
  <2>1. CASE q = p
    BY <1>7, <2>1
  <2>2. CASE q # p
    <3>1. job'[q] = job[q] /\ ~At(q, "idle") /\ job[q].cycle # job[p].cycle
      BY <1>1, <1>8, <2>2 DEF GateInv, CyclesApart, At
    <3>2. \A t \in Tables, d \in Cycle : d # job[p].cycle =>
            runs'[t][d] = runs[t][d] /\ PurgedIn(t, d)' = PurgedIn(t, d)
      BY <1>3, <1>4
    <3>. QED
      BY <1>2, <3>1, <3>2, OthersReport
  <2>. QED
    BY <2>1, <2>2
<1>. QED
  BY <1>5, <1>6, <1>8 DEF ReportInv

LEMMA InnerReport ==
    ASSUME Types, GateInv, ReportInv, NEW p \in Runners, Inner(p), ~DeleteBatch(p)
    PROVE  ReportInv'
<1>a. /\ ~At(p, "idle") /\ job[p].pos <= Len(Windows)
      /\ job'[p].cycle = job[p].cycle
  BY InnerFrame
<1>b. job \in [Runners -> JobRec] /\ job[p] \in JobRec
  BY DEF Types, TypeOK, JobRec
<1>c. Unreported(p) /\ Counted(p) /\ InCycle(p)
  BY <1>a DEF ReportInv, GateInv
<1>d. /\ Table(p) \in Tables /\ job[p].cycle \in Cycle /\ Run(p) \in RunRec
      /\ job[p].pos \in DOMAIN Windows
  BY <1>a, RowOfARun, WindowsAssumption DEF Types, TypeOK, Positions
<1>e. job[p].pc \in Unclosed => Run(p).status # "completed"
  BY <1>c, <1>d DEF Unreported, Run, Table
<1>f. job[p].pc \in Early => PurgedIn(Table(p), job[p].cycle) = {}
  BY <1>c, <1>d DEF InCycle, NothingPurgedYet, PurgedIn, Table
<1>g. Goto(p, "error") \/ NextTable(p) =>
        /\ \/ job'[p].pos = job[p].pos + 1
           \/ job'[p].pos = job[p].pos /\ job'[p].pc \notin Unclosed
        /\ Counted(p)'
  <2>1. ASSUME Goto(p, "error") \/ NextTable(p)
        PROVE  \/ job'[p].pos = job[p].pos + 1 /\ job'[p].pc = "table"
               \/ job'[p].pos = job[p].pos /\ job'[p].pc = "error"
    BY <1>b, <2>1 DEF Goto, NextTable, JobRec
  <2>. QED
    BY <2>1 DEF Unclosed, Early, Counted
\* A step that fails or goes to the next table has nothing to count.
<1>h. ASSUME Goto(p, "error") \/ NextTable(p), UNCHANGED <<purgedBy, live, born>>,
             \/ UNCHANGED runs
             \/ \E run \in RunRec :
                   /\ UpdateRun(p, run)
                   /\ \/ run.status # "completed"
                      \/ run.deleted = Cardinality(PurgedIn(Table(p), job[p].cycle))
      PROVE  ReportInv'
  <2>1. /\ \/ job'[p].pos = job[p].pos + 1
           \/ job'[p].pos = job[p].pos /\ job'[p].pc \notin Unclosed
        /\ Counted(p)'
    BY <1>g, <1>h
  <2>2. /\ \/ job'[p].pos = job[p].pos + 1
           \/ /\ job'[p].pos = job[p].pos
              /\ job'[p].pc \in Unclosed => job[p].pc \in Unclosed
        /\ job'[p].pos = job[p].pos + 1 \/ job'[p].pc \notin Unclosed
    BY <2>1
  <2>. QED
    BY <1>h, <2>1, <2>2, QuietReport
\* One that goes on at the table at hand.
<1>k. ASSUME job'[p].pos = job[p].pos, job[p].pc \in Unclosed, Counted(p)',
             UNCHANGED <<purgedBy, live, born>>,
             \/ UNCHANGED runs
             \/ \E run \in RunRec : UpdateRun(p, run) /\ run.status # "completed"
      PROVE  ReportInv'
  BY <1>k, QuietReport
<1>1. CASE InsertRun(p)
  <2> DEFINE row == [NoRun EXCEPT !.status = "running", !.dry = IsDry(p)]
  <2>1. row \in RunRec /\ row.status # "completed"
    <3>1. NoRun \in RunRec
      BY BoundsAssumption DEF NoRun, RunRec, Cycle
    <3>. QED
      BY <3>1 DEF RunRec, IsDry
  <2>2. job[p].pc = "table" /\ UNCHANGED <<purgedBy, live, born>>
    BY <1>1 DEF InsertRun, At, env
  <2>3. CASE NextTable(p) /\ (UpdateRun(p, row) \/ UNCHANGED runs)
    BY <1>h, <2>1, <2>2, <2>3
  <2>4. CASE UpdateRun(p, row) /\ job' = [job EXCEPT ![p].pc = "capture", ![p].deleted = 0]
    <3>1. job'[p].pos = job[p].pos /\ job'[p].pc = "capture" /\ job'[p].deleted = 0
      BY <1>b, <2>4 DEF JobRec
    <3>. QED
      BY <1>k, <2>1, <2>2, <2>4, <3>1 DEF Counted, Unclosed, Early
  <2>. QED
    BY <1>1, <2>3, <2>4 DEF InsertRun, MayUpdateRun
<1>2. CASE Capture(p)
  <2> DEFINE row == [Run(p) EXCEPT !.captured = Cardinality(Captured(p))]
  <2>1. job[p].pc = "capture" /\ UNCHANGED <<purgedBy, live, born>>
    BY <1>2 DEF Capture, At, env
  <2>2. row \in RunRec /\ row.status # "completed"
    <3>1. Cardinality(Captured(p)) \in Nat
      BY RowsCount DEF Captured, Types, TypeOK
    <3>. QED
      BY <1>d, <1>e, <2>1, <3>1 DEF RunRec, Unclosed, Early
  <2>3. CASE Goto(p, "error") /\ (UpdateRun(p, row) \/ UNCHANGED runs)
    BY <1>h, <2>1, <2>2, <2>3
  <2>4. CASE /\ UpdateRun(p, row)
             /\ job' = [job EXCEPT ![p].ids = Captured(p), ![p].rest = Captured(p),
                              ![p].pc = IF Captured(p) = {} THEN "complete" ELSE "open"]
    <3>1. /\ job'[p].pos = job[p].pos /\ job'[p].pc \in {"complete", "open"}
          /\ job'[p].deleted = job[p].deleted
      BY <1>b, <2>4 DEF JobRec
    <3>2. job[p].deleted = 0 /\ Cardinality(PurgedIn(Table(p), job[p].cycle)) = 0
      BY <1>c, <1>f, <2>1, FS_EmptySet DEF Counted, Early
    <3>3. PurgedIn(Table(p), job[p].cycle)' = PurgedIn(Table(p), job[p].cycle)
      BY <1>a, <2>1, <3>1 DEF PurgedIn, Table
    <3>4. Counted(p)'
      BY <3>1, <3>2, <3>3 DEF Counted
    <3>. QED
      BY <1>k, <2>1, <2>2, <2>4, <3>1, <3>4 DEF Unclosed, Early
  <2>. QED
    BY <1>2, <2>3, <2>4 DEF Capture, Fails, MayUpdateRun
<1>3. CASE OpenArchive(p)
  <2>1. job[p].pc = "open" /\ UNCHANGED <<runs, purgedBy, live, born>>
    BY <1>3 DEF OpenArchive, At, env
  <2>2. CASE Goto(p, "error")
    BY <1>h, <2>1, <2>2
  <2>3. CASE Goto(p, "copy")
    <3>1. /\ job'[p].pc = "copy" /\ job'[p].pos = job[p].pos
          /\ job'[p].deleted = job[p].deleted
      BY <1>b, <2>3 DEF Goto, JobRec
    <3>. QED
      BY <1>c, <1>k, <2>1, <3>1 DEF Counted, Unclosed, Early
  <2>. QED
    BY <1>3, <2>2, <2>3 DEF OpenArchive, Fails
<1>4. CASE CopyRows(p)
  <2>1. job[p].pc = "copy" /\ UNCHANGED <<runs, purgedBy, live, born>>
    BY <1>4 DEF CopyRows, At, env
  <2>2. CASE Goto(p, "error")
    BY <1>h, <2>1, <2>2
  <2>3. CASE job' = [job EXCEPT ![p].pc = "mark", ![p].archived = Cardinality(job[p].ids \cap live)]
    <3>1. /\ job'[p].pc = "mark" /\ job'[p].pos = job[p].pos
          /\ job'[p].deleted = job[p].deleted
      BY <1>b, <2>3 DEF JobRec
    <3>. QED
      BY <1>c, <1>k, <2>1, <3>1 DEF Counted, Unclosed, Early
  <2>. QED
    BY <1>4, <2>2, <2>3 DEF CopyRows, Fails
<1>5. CASE MarkArchived(p)
  <2> DEFINE row == [Run(p) EXCEPT !.archived = job[p].archived, !.path = job[p].stamp]
  <2>1. job[p].pc = "mark" /\ UNCHANGED <<purgedBy, live, born>>
    BY <1>5 DEF MarkArchived, At, env
  <2>2. row \in RunRec /\ row.status # "completed"
    BY <1>b, <1>d, <1>e, <2>1 DEF RunRec, JobRec, Unclosed, Early
  <2>3. CASE Goto(p, "error") /\ (UpdateRun(p, row) \/ UNCHANGED runs)
    BY <1>h, <2>1, <2>2, <2>3
  <2>4. CASE UpdateRun(p, row) /\ Goto(p, Verdict(p))
    <3>1. /\ job'[p].pc \in {"reject", "complete", "delete"} /\ job'[p].pos = job[p].pos
          /\ job'[p].deleted = job[p].deleted
      BY <1>b, <2>4 DEF Goto, Verdict, JobRec
    <3>2. job[p].deleted = 0 /\ Cardinality(PurgedIn(Table(p), job[p].cycle)) = 0
      BY <1>c, <1>f, <2>1, FS_EmptySet DEF Counted, Early
    <3>3. PurgedIn(Table(p), job[p].cycle)' = PurgedIn(Table(p), job[p].cycle)
      BY <1>a, <2>1, <3>1 DEF PurgedIn, Table
    <3>4. Counted(p)'
      BY <3>1, <3>2, <3>3 DEF Counted
    <3>. QED
      BY <1>k, <2>1, <2>2, <2>4, <3>1, <3>4 DEF Unclosed, Early
  <2>. QED
    BY <1>5, <2>3, <2>4 DEF MarkArchived, Fails, MayUpdateRun
<1>6. CASE Reject(p) \/ MarkFailed(p)
  <2>1. [Run(p) EXCEPT !.status = "failed"] \in RunRec
        /\ [Run(p) EXCEPT !.status = "failed"].status # "completed"
    BY <1>d DEF RunRec
  <2>2. /\ UNCHANGED <<purgedBy, live, born>> /\ (Goto(p, "error") \/ NextTable(p))
        /\ UpdateRun(p, [Run(p) EXCEPT !.status = "failed"]) \/ UNCHANGED runs
    BY <1>6 DEF Reject, MarkFailed, Fails, MayUpdateRun, env
  <2>. QED
    BY <1>h, <2>1, <2>2
<1>7. CASE Vacuum(p)
  <2>1. job[p].pc = "vacuum" /\ UNCHANGED <<runs, purgedBy, live, born>>
    BY <1>7 DEF Vacuum, At, env
  <2>2. CASE Goto(p, "error")
    BY <1>h, <2>1, <2>2
  <2>3. CASE Goto(p, "complete")
    <3>1. /\ job'[p].pc = "complete" /\ job'[p].pos = job[p].pos
          /\ job'[p].deleted = job[p].deleted
      BY <1>b, <2>3 DEF Goto, JobRec
    <3>2. PurgedIn(Table(p), job[p].cycle)' = PurgedIn(Table(p), job[p].cycle)
      BY <1>a, <2>1, <3>1 DEF PurgedIn, Table
    <3>. QED
      BY <1>c, <1>k, <2>1, <3>1, <3>2 DEF Counted, Unclosed
  <2>. QED
    BY <1>7, <2>2, <2>3 DEF Vacuum, Fails
<1>8. CASE Complete(p)
  <2> DEFINE row == [Run(p) EXCEPT !.status = "completed", !.deleted = job[p].deleted]
  <2>1. job[p].pc = "complete" /\ UNCHANGED <<purgedBy, live, born>>
    BY <1>8 DEF Complete, At, env
  <2>2. row \in RunRec /\ row.deleted = Cardinality(PurgedIn(Table(p), job[p].cycle))
    BY <1>b, <1>c, <1>d, <2>1 DEF RunRec, JobRec, Counted
  <2>3. /\ Goto(p, "error") \/ NextTable(p)
        /\ UpdateRun(p, row) \/ UNCHANGED runs
    BY <1>8 DEF Complete, Fails, MayUpdateRun
  <2>. QED
    BY <1>h, <2>1, <2>2, <2>3
<1>. QED
  BY <1>1, <1>2, <1>3, <1>4, <1>5, <1>6, <1>7, <1>8 DEF Inner

\* A batch of deletions is counted, since none of its rows was deleted before.
LEMMA BatchReport ==
    ASSUME Types, GateInv, ReportInv, NEW p \in Runners, DeleteBatch(p)
    PROVE  ReportInv'
<1>a. /\ \A q \in Runners : q # p => job'[q] = job[q]
      /\ ~At(p, "idle") /\ job[p].pos <= Len(Windows)
      /\ job'[p].cycle = job[p].cycle /\ cycles' = cycles
  BY InnerFrame DEF Inner
<1>b. job \in [Runners -> JobRec] /\ job[p] \in JobRec
  BY DEF Types, TypeOK, JobRec
<1>c. Unreported(p) /\ Counted(p) /\ InCycle(p)
  BY <1>a DEF ReportInv, GateInv
<1>d. /\ Table(p) \in Tables /\ job[p].cycle \in Cycle /\ job[p].pos \in DOMAIN Windows
      /\ job[p].cycle > 0 /\ live \subseteq Rows
  BY <1>a, <1>c, RowOfARun, WindowsAssumption DEF Types, TypeOK, Positions, InCycle
<1>1. job[p].pc = "delete" /\ UNCHANGED <<runs, born>>
  BY DEF DeleteBatch, At
<1>2. PICK chunk \in SUBSET job[p].rest :
        /\ Purge(p, chunk) \/ UNCHANGED <<live, purgedBy>>
        /\ \/ /\ Purge(p, chunk)
              /\ job' = [job EXCEPT ![p].rest = @ \ chunk, ![p].deleted = @ + Affected(chunk),
                            ![p].pc = IF chunk = job[p].rest THEN "vacuum" ELSE "delete"]
           \/ job' = [job EXCEPT ![p].pc = "error"]
  BY Zenon DEF DeleteBatch, Fails, Goto
<1>3. \A r \in chunk : r \in Rows /\ TableOf[r] = Table(p)
  BY <1>b, <1>c, <1>1 DEF InCycle, RunSoFar, JobRec
<1>4. /\ job'[p].pos = job[p].pos /\ Table(p)' = Table(p)
      /\ job'[p].pc \in {"vacuum", "delete", "error"}
  BY <1>b, <1>2 DEF JobRec, Table
<1>5. \A r \in Rows : /\ purgedBy[r] \in Cycle
                      /\ \/ purgedBy'[r] = purgedBy[r]
                         \/ /\ r \in chunk \cap live /\ purgedBy[r] = 0
                            /\ purgedBy'[r] = job[p].cycle
  BY <1>2, <1>3 DEF Purge, ReportInv, Fates, Types, TypeOK
<1>6. Fates' /\ NoneAhead'
  BY <1>a, <1>1, <1>2, <1>5 DEF ReportInv, Fates, NoneAhead, Purge
<1>7. ASSUME NEW t \in Tables, NEW c \in Cycle, t # Table(p) \/ c # job[p].cycle
      PROVE  PurgedIn(t, c)' = PurgedIn(t, c)
  BY <1>3, <1>5, <1>7 DEF PurgedIn
<1>8. runs[Table(p)][job[p].cycle].status # "completed"
  BY <1>c, <1>d, <1>1 DEF Unreported, Unclosed, Table
<1>9. ReportIsTrue'
  <2>. SUFFICES ASSUME NEW t \in Tables, NEW c \in Cycle, runs[t][c].status = "completed"
                PROVE  runs[t][c].deleted = Cardinality(PurgedIn(t, c)')
    BY <1>1 DEF ReportIsTrue, PurgedIn
  <2>1. runs[t][c].deleted = Cardinality(PurgedIn(t, c))
    BY DEF ReportInv, ReportIsTrue, PurgedIn
  <2>. QED
    BY <1>7, <1>8, <2>1
<1>10. Unreported(p)'
  BY <1>a, <1>c, <1>1, <1>4 DEF Unreported, Unclosed
<1>11. Counted(p)'
  <2>1. CASE job' = [job EXCEPT ![p].pc = "error"]
    <3>1. job'[p].pc = "error"
      BY <1>b, <2>1 DEF JobRec
    <3>. QED
      BY <3>1 DEF Counted
  <2>2. CASE /\ Purge(p, chunk)
             /\ job' = [job EXCEPT ![p].rest = @ \ chunk, ![p].deleted = @ + Affected(chunk),
                            ![p].pc = IF chunk = job[p].rest THEN "vacuum" ELSE "delete"]
    <3> DEFINE old == PurgedIn(Table(p), job[p].cycle)
               now == chunk \cap live
    <3>1. PurgedIn(Table(p), job[p].cycle)' = old \cup now
      BY <1>a, <1>d, <1>3, <1>4, <2>2 DEF PurgedIn, Purge
    <3>2. old \cap now = {}
      BY <1>d DEF PurgedIn, ReportInv, Fates
    <3>3. old \in SUBSET Rows /\ now \in SUBSET Rows
      BY <1>d DEF PurgedIn
    <3>4. job'[p].deleted = job[p].deleted + Cardinality(now)
      BY <1>b, <2>2 DEF JobRec, Affected
    <3>5. job[p].deleted = Cardinality(old)
      BY <1>c, <1>1 DEF Counted
    <3>. HIDE DEF old, now
    <3>6. Cardinality(old \cup now) = Cardinality(old) + Cardinality(now)
      <4>1. /\ IsFiniteSet(old) /\ IsFiniteSet(now)
            /\ Cardinality(old) \in Nat /\ Cardinality(now) \in Nat
        BY <3>3, RowsCount
      <4>. QED
        BY <3>2, <4>1, FS_Union, FS_EmptySet
    <3>7. job'[p].deleted = Cardinality(PurgedIn(Table(p), job[p].cycle)')
      BY <3>1, <3>4, <3>5, <3>6
    <3>. QED
      BY <1>a, <1>4, <3>7 DEF Counted, PurgedIn
  <2>. QED
    BY <1>2, <2>1, <2>2
<1>12. ASSUME NEW q \in Runners, ~At(q, "idle")' PROVE Unreported(q)' /\ Counted(q)'
  <2>1. CASE q = p
    BY <1>10, <1>11, <2>1
  <2>2. CASE q # p
    <3>1. job'[q] = job[q] /\ ~At(q, "idle") /\ job[q].cycle # job[p].cycle
      BY <1>a, <1>12, <2>2 DEF GateInv, CyclesApart, At
    <3>. QED
      BY <1>d, <1>1, <1>7, <3>1, OthersReport
  <2>. QED
    BY <2>1, <2>2
<1>. QED
  BY <1>6, <1>9, <1>12 DEF ReportInv

\* A step outside the cycles that ends none of them but as a crash does.
LEMMA OuterReport ==
    ASSUME Types, ReportInv, UNCHANGED <<runs, purgedBy, cycles>>,
           \A q \in Runners : job'[q] = job[q] \/ At(q, "idle")',
           Fates'
    PROVE  ReportInv'
<1>1. ReportIsTrue' /\ NoneAhead'
  BY DEF ReportInv, ReportIsTrue, NoneAhead
<1>2. ASSUME NEW q \in Runners, ~At(q, "idle")' PROVE Unreported(q)' /\ Counted(q)'
  <2>1. job'[q] = job[q] /\ ~At(q, "idle")
    BY <1>2 DEF At
  <2>2. Unreported(q) /\ Counted(q)
    BY <2>1 DEF ReportInv
  <2>. QED
    BY <2>1, <2>2 DEF Unreported, Counted, Table, PurgedIn
<1>. QED
  BY <1>1, <1>2 DEF ReportInv

LEMMA StartReport ==
    ASSUME Types, GateInv, ReportInv, NEW p \in Runners, StartCycle(p)
    PROVE  ReportInv'
<1>0. StartCycle(p)
  OBVIOUS
<1>1. /\ cycles' = cycles + 1 /\ cycles \in Nat /\ cycles + 1 \in Cycle
      /\ UNCHANGED <<runs, purgedBy, live, born>>
  <2>1. cycles' = cycles + 1 /\ cycles < MaxCycles /\ cycles \in 0 .. MaxCycles
    BY <1>0 DEF StartCycle, Types, TypeOK, Cycle
  <2>2. UNCHANGED <<runs, purgedBy, live, born>>
    BY <1>0 DEF StartCycle, env
  <2>. QED
    BY <2>1, <2>2, BoundsAssumption DEF Cycle
<1>2. job'[p].pc = "table" /\ job'[p].cycle = cycles + 1
  BY <1>0 DEF StartCycle, Types, TypeOK, Idle
<1>3. \A q \in Runners : q # p => job'[q] = job[q]
  BY <1>0 DEF StartCycle, Types, TypeOK
<1>4. NoneAhead'
  BY <1>1, BoundsAssumption DEF ReportInv, NoneAhead, Cycle
<1>5. Unreported(p)' /\ Counted(p)'
  <2>1. \A t \in Tables : runs[t][cycles + 1].status # "completed"
    BY <1>1 DEF ReportInv, NoneAhead
  <2>2. \A i \in DOMAIN Windows : Windows[i] \in Tables
    BY DEF Tables
  <2>. QED
    BY <1>1, <1>2, <2>1, <2>2 DEF Unreported, Counted
<1>6. ASSUME NEW q \in Runners, ~At(q, "idle")' PROVE Unreported(q)' /\ Counted(q)'
  <2>1. CASE q = p
    BY <1>5, <2>1
  <2>2. CASE q # p
    <3>1. job'[q] = job[q] /\ ~At(q, "idle")
      BY <1>3, <1>6, <2>2 DEF At
    <3>2. Unreported(q) /\ Counted(q)
      BY <3>1 DEF ReportInv
    <3>. QED
      BY <1>1, <3>1, <3>2 DEF Unreported, Counted, Table, PurgedIn
  <2>. QED
    BY <2>1, <2>2
<1>7. ReportIsTrue' /\ Fates'
  BY <1>1 DEF ReportInv, ReportIsTrue, Fates
<1>. QED
  BY <1>4, <1>6, <1>7 DEF ReportInv

LEMMA ReportStep == ASSUME Types, GateInv, ReportInv, [Next]_vars PROVE ReportInv'
<1>f. UNCHANGED <<live, born, purgedBy>> => Fates'
  BY DEF ReportInv, Fates
<1>1. ASSUME NEW r \in Rows, Insert(r) \/ Age(r) \/ Cascade(r) PROVE ReportInv'
  <2>1. Fates'
    BY <1>1 DEF ReportInv, Fates, Insert, Age, Cascade
  <2>. QED
    BY <1>1, <2>1, OuterReport DEF Insert, Age, Cascade
<1>2. ASSUME NEW p \in Runners, StartCycle(p) PROVE ReportInv'
  BY <1>2, StartReport
<1>3. ASSUME NEW p \in Runners, EndCycle(p) \/ Crash(p) PROVE ReportInv'
  <2>1. \A q \in Runners : job'[q] = job[q] \/ At(q, "idle")'
    BY <1>3 DEF EndCycle, Crash, Types, TypeOK, Idle, At
  <2>2. UNCHANGED <<runs, purgedBy, cycles, live, born>>
    BY <1>3 DEF EndCycle, Crash, env
  <2>. QED
    BY <1>f, <2>1, <2>2, OuterReport
<1>4. ASSUME NEW p \in Runners, Inner(p) PROVE ReportInv'
  BY <1>4, InnerReport, BatchReport
<1>5. CASE LosePower \/ (\E p \in Runners : LoseLock(p))
           \/ (\E t \in Tables, s \in Cycle : Writeback(t, s)) \/ UNCHANGED vars
  <2>1. \A q \in Runners : job'[q] = job[q] \/ At(q, "idle")'
    BY <1>5 DEF LosePower, LoseLock, Writeback, vars, Idle, At
  <2>2. UNCHANGED <<runs, purgedBy, cycles, live, born>>
    BY <1>5 DEF LosePower, LoseLock, Writeback, vars, env
  <2>. QED
    BY <1>f, <2>1, <2>2, OuterReport
<1>. QED
  BY <1>1, <1>2, <1>3, <1>4, <1>5 DEF Next, Step, Inner

\* archive_runs is what an operator reads: with any faults and crashes, with
\* rows that leave by other ways meanwhile, with lost lock sessions and any
\* number of processes, a run that says it completed deleted as many rows as
\* it says.
THEOREM ReportsAreTrue == Spec => []ReportIsTrue
<1>1. Init => ReportInv
  BY DEF Init, ReportInv, Fates, NoneAhead, ReportIsTrue, NoRun, At, Idle
<1>2. Types /\ GateInv /\ ReportInv /\ [Next]_vars => ReportInv'
  BY ReportStep
<1>3. ReportInv => ReportIsTrue
  BY DEF ReportInv
<1>. QED
  BY <1>1, <1>2, <1>3, RetentionTypes, GateHolds, PTL DEF Spec
=============================================================================
