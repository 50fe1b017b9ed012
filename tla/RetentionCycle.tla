--------------------------- MODULE RetentionCycle ---------------------------
(***************************************************************************)
(* The retention worker (store/src/retention.rs): once per cycle, under an *)
(* advisory lock, each table's aged rows are captured, archived to a file, *)
(* counted, and deleted by the captured ids.                               *)
(*                                                                         *)
(* Several processes may run cycles: the scheduled container and one-shot  *)
(* runs.  The portal goes on inserting rows, and deleting a tenant removes *)
(* rows at any moment.  Database calls and file operations may fail; a     *)
(* process may be killed between any two of them.                          *)
(***************************************************************************)
EXTENDS Naturals, FiniteSets, Sequences

CONSTANTS
    Rows,        \* primary keys
    Windows,     \* the tables with a positive window, in the configured order
    TableOf,     \* the table of a row
    Runners,     \* processes that run cycles
    DryRunners,  \* those started with RETENTION_DRY_RUN
    Batch,       \* RETENTION_DELETE_BATCH
    NoRunner,
    SameSecond,  \* may two cycles start within one second?
    PowerLoss,   \* may the archive host lose power?
    LockLoss,    \* may the connection that holds the lock break?
    MaxCycles,   \* bound: how many cycles are started
    MaxFaults,   \* bound: how many calls fail or lock connections break
    MaxCrashes   \* bound: how many times a process is killed

Tables == {Windows[i] : i \in DOMAIN Windows}

ASSUME RowsAssumption == IsFiniteSet(Rows)
ASSUME WindowsAssumption ==
    /\ Windows \in Seq(Tables)
    /\ \A i, j \in DOMAIN Windows : Windows[i] = Windows[j] => i = j
ASSUME TableOfAssumption == TableOf \in [Rows -> Tables]
ASSUME RunnersAssumption == DryRunners \subseteq Runners /\ NoRunner \notin Runners
ASSUME BatchAssumption == Batch \in Nat \ {0}
ASSUME SwitchAssumption == {SameSecond, PowerLoss, LockLoss} \subseteq BOOLEAN
ASSUME BoundsAssumption == MaxCycles \in Nat /\ MaxFaults \in Nat /\ MaxCrashes \in Nat

VARIABLES
    live,      \* rows in the database
    born,      \* rows ever inserted
    aged,      \* rows older than their table's window
    runs,      \* archive_runs: the row of table t in cycle c is runs[t][c]
    files,     \* the archive directory: table t's file of stamp s is files[t][s]
    lock,      \* the process whose session holds the advisory lock
    job,       \* each process's place in run_cycle, and its locals
    cycles,    \* cycles started so far
    second,    \* the second in which the last cycle started
    purgedBy,  \* history: the cycle that deleted the row, 0 if none did
    faults,
    crashes

env  == <<live, born, aged>>
vars == <<live, born, aged, runs, files, lock, job, cycles, second, purgedBy, faults, crashes>>

Cycle == 0 .. MaxCycles

\* The place in the loop over the tables, one past the end when it is over.
Positions == 1 .. Len(Windows) + 1

Pc == {"idle", "table", "capture", "open", "copy", "mark", "reject", "delete",
       "vacuum", "complete", "error"}

Idle == [pc |-> "idle", pos |-> 1, cycle |-> 0, stamp |-> 0, cutoff |-> {},
         ids |-> {}, rest |-> {}, archived |-> 0, deleted |-> 0]

NoRun  == [status |-> "none", captured |-> 0, archived |-> 0, deleted |-> 0,
           path |-> 0, dry |-> FALSE]
NoFile == [rows |-> {}, st |-> "none"]

TypeOK ==
    /\ live \subseteq Rows /\ born \subseteq Rows /\ aged \subseteq Rows
    /\ runs \in [Tables -> [Cycle ->
           [status : {"none", "running", "completed", "failed"}, captured : Nat,
            archived : Nat, deleted : Nat, path : Cycle, dry : BOOLEAN]]]
    /\ files \in [Tables -> [Cycle ->
           [rows : SUBSET Rows, st : {"none", "open", "cached", "durable"}]]]
    /\ lock \in Runners \cup {NoRunner}
    /\ job \in [Runners ->
           [pc : Pc, pos : Positions, cycle : Cycle, stamp : Cycle,
            cutoff : SUBSET Rows, ids : SUBSET Rows, rest : SUBSET Rows,
            archived : Nat, deleted : Nat]]
    /\ cycles \in Cycle /\ second \in Cycle
    /\ purgedBy \in [Rows -> Cycle]
    /\ faults \in 0 .. MaxFaults /\ crashes \in 0 .. MaxCrashes

Init ==
    /\ live = {} /\ born = {} /\ aged = {}
    /\ runs = [t \in Tables |-> [c \in Cycle |-> NoRun]]
    /\ files = [t \in Tables |-> [s \in Cycle |-> NoFile]]
    /\ lock = NoRunner
    /\ job = [p \in Runners |-> Idle]
    /\ cycles = 0 /\ second = 0
    /\ purgedBy = [r \in Rows |-> 0]
    /\ faults = 0 /\ crashes = 0

-----------------------------------------------------------------------------
(* The portal and the calendar. *)

Insert(r) ==
    /\ r \notin born
    /\ born' = born \cup {r}
    /\ live' = live \cup {r}
    /\ UNCHANGED <<aged, runs, files, lock, job, cycles, second, purgedBy, faults, crashes>>

Age(r) ==
    /\ r \in live \ aged
    /\ aged' = aged \cup {r}
    /\ UNCHANGED <<live, born, runs, files, lock, job, cycles, second, purgedBy, faults, crashes>>

\* ON DELETE CASCADE from tenants.
Cascade(r) ==
    /\ r \in live
    /\ live' = live \ {r}
    /\ UNCHANGED <<born, aged, runs, files, lock, job, cycles, second, purgedBy, faults, crashes>>

-----------------------------------------------------------------------------
(* Helpers of the cycle. *)

Table(p) == Windows[job[p].pos]
Run(p)   == runs[Table(p)][job[p].cycle]

Goto(p, pc) == job' = [job EXCEPT ![p].pc = pc]

\* Variant: a table's end takes the next table with it.
NextButOne(p) == job' = [job EXCEPT ![p].pc = "table", ![p].pos = job[p].pos + 2]

\* The loop of run_all_tables moves on.
NextTable(p) == job' = [job EXCEPT ![p].pc = "table", ![p].pos = job[p].pos + 1]

UpdateRun(p, run) == runs' = [runs EXCEPT ![Table(p)][job[p].cycle] = run]

\* A statement answered with an error may have taken effect.
MayUpdateRun(p, run) == UpdateRun(p, run) \/ UNCHANGED runs

Succeeds == faults' = faults
Fails(p) == faults < MaxFaults /\ faults' = faults + 1 /\ Goto(p, "error")

At(p, pc) == job[p].pc = pc

\* config.dry_run of the process.
IsDry(p) == IF p \in DryRunners THEN TRUE ELSE FALSE

\* Variant: a cycle that does not look at the answer.
LockIgnored == TRUE

\* pg_try_advisory_lock
LockIsFree == lock = NoRunner

\* Variant: an early return that keeps the session lock.
LockKept(p) == lock

\* The lock after p has given it back, or its session has ended.
Unlocked(p) == IF lock = p THEN NoRunner ELSE lock

-----------------------------------------------------------------------------
(* run_cycle and run_all_tables *)

\* A busy lock ends the cycle at once, without a step.
\* The cutoff is fixed now; rows that age later are not this cycle's.
StartCycle(p) ==
    /\ At(p, "idle")
    /\ LockIsFree
    /\ cycles < MaxCycles
    /\ (live \cap aged) # {}    \* a cycle with nothing to do is not modelled
    /\ lock' = p
    /\ cycles' = cycles + 1
    /\ second' \in IF SameSecond /\ second > 0 THEN {second, cycles + 1} ELSE {cycles + 1}
    /\ job' = [job EXCEPT ![p] = [Idle EXCEPT !.pc = "table",
                   !.cycle = cycles + 1, !.stamp = second', !.cutoff = live \cap aged]]
    /\ UNCHANGED <<env, runs, files, purgedBy, faults, crashes>>

\* The session lock is given back, unless it was lost on the way.
EndCycle(p) ==
    /\ At(p, "table")
    /\ job[p].pos > Len(Windows)
    /\ lock' = Unlocked(p)
    /\ job' = [job EXCEPT ![p] = Idle]
    /\ UNCHANGED <<env, runs, files, cycles, second, purgedBy, faults, crashes>>

\* The row is there before the body runs; an error skips the table.
InsertRun(p) ==
    /\ At(p, "table")
    /\ job[p].pos <= Len(Windows)
    /\ LET row == [NoRun EXCEPT !.status = "running", !.dry = IsDry(p)] IN
       \/ /\ Succeeds
          /\ UpdateRun(p, row)
          /\ job' = [job EXCEPT ![p].pc = "capture", ![p].deleted = 0]
       \/ /\ faults < MaxFaults /\ faults' = faults + 1
          /\ MayUpdateRun(p, row)
          /\ NextTable(p)
    /\ UNCHANGED <<env, files, lock, cycles, second, purgedBy, crashes>>

-----------------------------------------------------------------------------
(* The body of run_one_table *)

Captured(p) == {r \in live \cap job[p].cutoff : TableOf[r] = Table(p)}

\* capture_ids and mark_captured
Capture(p) ==
    /\ At(p, "capture")
    /\ LET row == [Run(p) EXCEPT !.captured = Cardinality(Captured(p))] IN
       \/ /\ Succeeds
          /\ UpdateRun(p, row)
          /\ job' = [job EXCEPT ![p].ids = Captured(p), ![p].rest = Captured(p),
                         ![p].pc = IF Captured(p) = {} THEN "complete" ELSE "open"]
       \/ Fails(p) /\ MayUpdateRun(p, row)
    /\ UNCHANGED <<env, files, lock, cycles, second, purgedBy, crashes>>

\* File::create truncates a file of the same name: the stamp of the cycle has
\* a resolution of one second.
OpenArchive(p) ==
    /\ At(p, "open")
    /\ \/ /\ Succeeds
          /\ files' = [files EXCEPT ![Table(p)][job[p].stamp] = [rows |-> {}, st |-> "open"]]
          /\ Goto(p, "copy")
       \/ Fails(p) /\ UNCHANGED files
    /\ UNCHANGED <<env, runs, lock, cycles, second, purgedBy, crashes>>

\* COUNT and COPY of the captured rows in one snapshot.  An error on the way
\* leaves a part of them in the file.  The file is written, not synced.
CopyRows(p) ==
    /\ At(p, "copy")
    /\ LET found == job[p].ids \cap live IN
       \/ /\ Succeeds
          /\ files' = [files EXCEPT ![Table(p)][job[p].stamp] = [rows |-> found, st |-> "cached"]]
          /\ job' = [job EXCEPT ![p].pc = "mark", ![p].archived = Cardinality(found)]
       \/ /\ Fails(p)
          /\ \E part \in SUBSET found :
                files' = [files EXCEPT ![Table(p)][job[p].stamp] = [rows |-> part, st |-> "cached"]]
    /\ UNCHANGED <<env, runs, lock, cycles, second, purgedBy, crashes>>

\* Variant: the number of archived rows is recorded but not compared.
VerdictUncounted(p) == IF IsDry(p) THEN "complete" ELSE "delete"

\* The verification, then the dry-run gate.
Verdict(p) ==
    IF job[p].archived # Cardinality(job[p].ids) THEN "reject"
    ELSE IF IsDry(p) THEN "complete" ELSE "delete"

\* mark_archived, and where it leads.
MarkArchived(p) ==
    /\ At(p, "mark")
    /\ LET row == [Run(p) EXCEPT !.archived = job[p].archived, !.path = job[p].stamp] IN
       \/ Succeeds /\ UpdateRun(p, row) /\ Goto(p, Verdict(p))
       \/ Fails(p) /\ MayUpdateRun(p, row)
    /\ UNCHANGED <<env, files, lock, cycles, second, purgedBy, crashes>>

\* The count does not match: mark_failed, and no delete.
Reject(p) ==
    /\ At(p, "reject")
    /\ LET row == [Run(p) EXCEPT !.status = "failed"] IN
       \/ Succeeds /\ UpdateRun(p, row) /\ NextTable(p)
       \/ Fails(p) /\ MayUpdateRun(p, row)
    /\ UNCHANGED <<env, files, lock, cycles, second, purgedBy, crashes>>

\* Variant: the time predicate is evaluated again.
PurgeByAge(p, chunk) ==
    LET old == chunk \cup {r \in aged : TableOf[r] = Table(p)} IN
    /\ live' = live \ old
    /\ purgedBy' = [r \in Rows |-> IF r \in old \cap live THEN job[p].cycle ELSE purgedBy[r]]

\* Variant: the ids sent are counted.
Sent(chunk) == Cardinality(chunk)

\* rows_affected
Affected(chunk) == Cardinality(chunk \cap live)

\* One DELETE ... WHERE id = ANY(chunk).
Purge(p, chunk) ==
    /\ live' = live \ chunk
    /\ purgedBy' = [r \in Rows |-> IF r \in chunk \cap live THEN job[p].cycle ELSE purgedBy[r]]

\* The next chunk of delete_by_ids; an error may come after the statement has
\* taken effect.
DeleteBatch(p) ==
    /\ At(p, "delete")
    /\ \E chunk \in SUBSET job[p].rest :
       /\ Cardinality(chunk) <= Batch
       /\ chunk = job[p].rest \/ Cardinality(chunk) = Batch
       /\ \/ /\ Succeeds
             /\ Purge(p, chunk)
             /\ job' = [job EXCEPT ![p].rest = @ \ chunk,
                            ![p].deleted = @ + Affected(chunk),
                            ![p].pc = IF chunk = job[p].rest THEN "vacuum" ELSE "delete"]
          \/ Fails(p) /\ (Purge(p, chunk) \/ UNCHANGED <<live, purgedBy>>)
    /\ UNCHANGED <<born, aged, runs, files, lock, cycles, second, crashes>>

Vacuum(p) ==
    /\ At(p, "vacuum")
    /\ (Succeeds /\ Goto(p, "complete")) \/ Fails(p)
    /\ UNCHANGED <<env, runs, files, lock, cycles, second, purgedBy, crashes>>

\* mark_completed
Complete(p) ==
    /\ At(p, "complete")
    /\ LET row == [Run(p) EXCEPT !.status = "completed", !.deleted = job[p].deleted] IN
       \/ Succeeds /\ UpdateRun(p, row) /\ NextTable(p)
       \/ Fails(p) /\ MayUpdateRun(p, row)
    /\ UNCHANGED <<env, files, lock, cycles, second, purgedBy, crashes>>

\* The best-effort mark_failed of run_one_table.
MarkFailed(p) ==
    /\ At(p, "error")
    /\ LET row == [Run(p) EXCEPT !.status = "failed"] IN
       \/ Succeeds /\ UpdateRun(p, row)
       \/ faults < MaxFaults /\ faults' = faults + 1 /\ MayUpdateRun(p, row)
    /\ NextTable(p)
    /\ UNCHANGED <<env, files, lock, cycles, second, purgedBy, crashes>>

-----------------------------------------------------------------------------
(* Failures *)

\* The process is killed: its sessions end, its lock is free.
Crash(p) ==
    /\ ~At(p, "idle")
    /\ crashes < MaxCrashes
    /\ crashes' = crashes + 1
    /\ lock' = Unlocked(p)
    /\ job' = [job EXCEPT ![p] = Idle]
    /\ UNCHANGED <<env, runs, files, cycles, second, purgedBy, faults>>

\* The connection that holds the lock breaks.  Nobody notices: the cycle's
\* statements run on other connections of the pool.
LoseLock(p) ==
    /\ LockLoss
    /\ lock = p
    /\ faults < MaxFaults
    /\ faults' = faults + 1
    /\ lock' = NoRunner
    /\ UNCHANGED <<env, runs, files, job, cycles, second, purgedBy, crashes>>

\* The kernel writes a file back some time after it was written.  It makes no
\* difference while the power stays on.
Writeback(t, s) ==
    /\ PowerLoss
    /\ files[t][s].st = "cached"
    /\ files' = [files EXCEPT ![t][s].st = "durable"]
    /\ UNCHANGED <<env, runs, lock, job, cycles, second, purgedBy, faults, crashes>>

\* The host of the archive volume and of the processes goes down.
LosePower ==
    /\ PowerLoss
    /\ crashes < MaxCrashes
    /\ crashes' = crashes + 1
    /\ files' = [t \in Tables |-> [s \in Cycle |->
                   IF files[t][s].st = "durable" THEN files[t][s]
                   ELSE [files[t][s] EXCEPT !.rows = {}]]]
    /\ lock' = NoRunner
    /\ job' = [p \in Runners |-> Idle]
    /\ UNCHANGED <<env, runs, cycles, second, purgedBy, faults>>

-----------------------------------------------------------------------------

Step(p) ==
    \/ StartCycle(p) \/ InsertRun(p) \/ Capture(p) \/ OpenArchive(p) \/ CopyRows(p)
    \/ MarkArchived(p) \/ Reject(p) \/ DeleteBatch(p) \/ Vacuum(p) \/ Complete(p)
    \/ MarkFailed(p) \/ EndCycle(p)

Next ==
    \/ \E r \in Rows : Insert(r) \/ Age(r) \/ Cascade(r)
    \/ \E p \in Runners : Step(p) \/ Crash(p) \/ LoseLock(p)
    \/ \E t \in Tables, s \in Cycle : Writeback(t, s)
    \/ LosePower

Spec == Init /\ [][Next]_vars

\* A process that has work does it: the scheduled worker wakes every day, and
\* tokio runs what is ready.  Strong fairness for the lock: a cycle that finds
\* it taken is tried again at the next schedule.
LiveSpec ==
    /\ Spec
    /\ \A p \in Runners \ DryRunners : WF_vars(Step(p)) /\ SF_vars(StartCycle(p))

-----------------------------------------------------------------------------
(* Properties *)

RunOf(r) == runs[TableOf[r]][purgedBy[r]]

\* Capture, archive, verify, delete: a row the worker has deleted is in the
\* archive file that its archive_runs row names.
PurgedIsArchived ==
    \A r \in Rows : purgedBy[r] # 0 => r \in files[TableOf[r]][RunOf(r).path].rows

\* The verification and the dry-run gate (retention.rs:382-391): the run that
\* deleted a row was armed, and had archived as many rows as it had captured.
OnlyVerifiedRunsPurge ==
    \A r \in Rows : purgedBy[r] # 0 =>
        ~RunOf(r).dry /\ RunOf(r).archived = RunOf(r).captured

\* archive_runs is what an operator reads: a run that says it completed says
\* how many rows it deleted, though others delete rows meanwhile and the
\* update itself may be answered with an error.
ReportIsTrue ==
    \A t \in Tables, c \in Cycle : runs[t][c].status = "completed" =>
        runs[t][c].deleted = Cardinality({r \in Rows : TableOf[r] = t /\ purgedBy[r] = c /\ c > 0})

\* The advisory lock: two processes are never in a cycle at the same time.
SingleRunner ==
    \A p, q \in Runners : ~At(p, "idle") /\ ~At(q, "idle") => p = q

\* A row the worker found due stays due until it is deleted: nobody brings it
\* back, and no failure or crash makes the worker forget it.
AgedRowsGo == \A r \in Rows : (r \in live \cap aged) ~> (r \notin live)
=============================================================================
