----------------------------- MODULE Scheduler -----------------------------
(***************************************************************************)
(* The maintenance-job scheduler of share-tracker                          *)
(* (src/infra/scheduler/{run,db,schedule,http,registry}.rs).               *)
(*                                                                         *)
(* Every run of a job, scheduled or triggered over HTTP, is a detached     *)
(* task that takes the job's own lock, opens a row of job_runs, does the   *)
(* work on a further task (so that a panic is caught), completes the row   *)
(* and releases the lock.  One loop per schedule entry stores the instant  *)
(* it is next due in job_schedule, sleeps to it and runs its job.  The     *)
(* process may die at any point and be started again on the same database; *)
(* any single database write may fail and is then only logged.             *)
(***************************************************************************)
EXTENDS Naturals, Sequences, FiniteSets

CONSTANTS
    Jobs,           \* the names in the job registry
    Entries,        \* the lines of schedule.cron
    EntryJob,       \* EntryJob[e] is the job that entry e runs
    Requests,       \* POST /jobs/{name} calls that can be open at once
    None,           \* no row, no task, no result
    HistoryLimit,   \* JOB_RUN_HISTORY_LIMIT
    MaxRunId,       \* bound: job_runs rows inserted over the whole behaviour
    MaxBoots,       \* bound: process starts
    MaxFaults       \* bound: failed database writes

ASSUME ConstantsAssumption ==
    /\ EntryJob \in [Entries -> Jobs]
    /\ Entries \cap Requests = {}
    /\ None \notin Jobs /\ None \notin Entries \cup Requests
    /\ None \notin Nat
    /\ HistoryLimit \in Nat \ {0}
    /\ MaxRunId \in Nat /\ MaxBoots \in Nat /\ MaxFaults \in Nat

Runners == Entries \cup Requests        \* whoever awaits a run_job handle

Statuses == {"running", "ok", "failed"}
(* What the spawned work can end with: run_attached turns a caught panic   *)
(* into an Err, so it is a failure like any other.                         *)
Outcomes == {"ok", "error", "panic"}

VARIABLES
    up,        \* the process is running
    boots,     \* how many times it has been started
    boot,      \* history: the first job_runs id the current process can allocate
    faults,    \* database writes that have failed
    task,      \* task[r]: the run_attached task of runner r
    client,    \* client[q]: the HTTP client of request q
    holder,    \* holder[j]: the task that holds job j's lock
    waiters,   \* waiters[j]: tasks queued on that lock, in order of arrival
    runs,      \* job_runs: id -> row
    nextRun,   \* its AUTOINCREMENT sequence
    entry,     \* entry[e]: the run_entry loop of schedule entry e
    sched,     \* job_schedule: id -> the entry the row describes
    last       \* history: last[j], the recorded result of j's latest completed run

procVars == <<up, boots, boot>>
runVars == <<task, client, holder, waiters>>
histVars == <<runs, nextRun, last>>
entryVars == <<entry, sched>>
vars == <<up, boots, boot, faults, task, client, holder, waiters,
          runs, nextRun, entry, sched, last>>

NoTask == [pc |-> "none", job |-> None, run |-> None, outcome |-> None]
Row == [job: Jobs, status: Statuses]

-----------------------------------------------------------------------------
(* job_runs *)

(* JobRunStatus::finished *)
Finished(outcome) == IF outcome = "ok" THEN "ok" ELSE "failed"

RowsOf(table, j) == {i \in DOMAIN table : table[i].job = j}

(* Mutant of IsNewest: the newest is kept, the others in no order. *)
IsNewestUnordered(kept, ids) ==
    /\ kept \subseteq ids
    /\ \A d \in ids : \E k \in kept : k >= d
    /\ Cardinality(kept) = IF Cardinality(ids) <= HistoryLimit
                           THEN Cardinality(ids) ELSE HistoryLimit

(* Mutant of IsNewest: ORDER BY id ASC. *)
IsNewestAscending(kept, ids) ==
    /\ kept \subseteq ids
    /\ \A k \in kept, d \in ids \ kept : k < d
    /\ IF Cardinality(ids) <= HistoryLimit THEN kept = ids
       ELSE Cardinality(kept) = HistoryLimit

(* The newest HistoryLimit members of a set of ids: ORDER BY id DESC LIMIT *)
IsNewest(kept, ids) ==
    /\ kept \subseteq ids
    /\ \A k \in kept, d \in ids \ kept : k > d
    /\ IF Cardinality(ids) <= HistoryLimit THEN kept = ids
       ELSE Cardinality(kept) = HistoryLimit

(* Mutant of InsertAndPrune: the prune runs before the insert. *)
PruneAndInsert(j, row) ==
    \E kept \in SUBSET RowsOf(runs, j) :
        /\ IsNewest(kept, RowsOf(runs, j))
        /\ runs' = [i \in (DOMAIN runs \ RowsOf(runs, j)) \cup kept \cup {nextRun} |->
                       IF i = nextRun THEN row ELSE runs[i]]
        /\ nextRun' = nextRun + 1

(* INSERT a row for job j and prune_history in the same transaction.  The  *)
(* fresh id is the AUTOINCREMENT sequence's next value.                    *)
InsertAndPrune(j, row) ==
    LET inserted == [i \in DOMAIN runs \cup {nextRun} |->
                        IF i = nextRun THEN row ELSE runs[i]]
    IN \E kept \in SUBSET RowsOf(inserted, j) :
          /\ IsNewest(kept, RowsOf(inserted, j))
          /\ runs' = [i \in (DOMAIN inserted \ RowsOf(inserted, j)) \cup kept
                        |-> inserted[i]]
          /\ nextRun' = nextRun + 1

CanInsert == nextRun <= MaxRunId

(* A write transaction that fails: the caller only logs it.  A table at    *)
(* its bound refuses every insert, and spends no fault.                    *)
WriteFails ==
    /\ faults < MaxFaults
    /\ faults' = faults + 1

InsertFails ==
    \/ WriteFails
    \/ ~CanInsert /\ UNCHANGED faults

-----------------------------------------------------------------------------
(* run_job / run_attached *)

(* run_job spawns the task; its first await queues on the job's lock.      *)
Enqueue(r, j) ==
    /\ task' = [task EXCEPT ![r] = [NoTask EXCEPT !.pc = "queued", !.job = j]]
    /\ waiters' = [waiters EXCEPT ![j] = Append(@, r)]

(* POST /jobs/{name} for a registered job. *)
Trigger(q, j) ==
    /\ up /\ task[q].pc = "none"
    /\ Enqueue(q, j)
    /\ client' = [client EXCEPT ![q] = "waiting"]
    /\ UNCHANGED <<procVars, faults, holder, histVars, entryVars>>

(* Mutant of Disconnect: the run is not detached, so it dies with the      *)
(* request that awaited it.                                                *)
DisconnectCancels(q) ==
    LET j == task[q].job IN
    /\ up /\ client[q] = "waiting"
    /\ client' = [client EXCEPT ![q] = "none"]
    /\ task' = [task EXCEPT ![q] = NoTask]
    /\ holder' = [k \in Jobs |-> IF holder[k] = q THEN None ELSE holder[k]]
    /\ waiters' = [waiters EXCEPT ![j] = SelectSeq(@, LAMBDA r : r # q)]
    /\ UNCHANGED <<procVars, faults, histVars, entryVars>>

(* The client of an open trigger goes away: axum drops the request future, *)
(* which drops the task's handle and nothing else.                         *)
Disconnect(q) ==
    /\ up /\ client[q] = "waiting"
    /\ client' = [client EXCEPT ![q] = "gone"]
    /\ UNCHANGED <<procVars, faults, task, holder, waiters, histVars, entryVars>>

(* Mutant of Acquire: the lock is not fair, any waiter may take it. *)
AcquireBarging(r) ==
    LET j == task[r].job IN
    /\ up /\ task[r].pc = "queued" /\ holder[j] = None
    /\ holder' = [holder EXCEPT ![j] = r]
    /\ waiters' = [waiters EXCEPT ![j] = SelectSeq(@, LAMBDA s : s # r)]
    /\ task' = [task EXCEPT ![r].pc = "locked"]
    /\ UNCHANGED <<procVars, faults, client, histVars, entryVars>>

(* job.serialise(): the lock is free and r is first in its queue. *)
Acquire(r) ==
    LET j == task[r].job IN
    /\ up /\ task[r].pc = "queued"
    /\ holder[j] = None /\ waiters[j] # <<>> /\ Head(waiters[j]) = r
    /\ holder' = [holder EXCEPT ![j] = r]
    /\ waiters' = [waiters EXCEPT ![j] = Tail(@)]
    /\ task' = [task EXCEPT ![r].pc = "locked"]
    /\ UNCHANGED <<procVars, faults, client, histVars, entryVars>>

(* db_start_run commits: the run has its open row. *)
StartRun(r) ==
    /\ up /\ task[r].pc = "locked" /\ CanInsert
    /\ InsertAndPrune(task[r].job, [job |-> task[r].job, status |-> "running"])
    /\ task' = [task EXCEPT ![r].pc = "working", ![r].run = nextRun]
    /\ UNCHANGED <<procVars, faults, client, holder, waiters, last, entryVars>>

(* db_start_run fails: the run goes ahead without a row. *)
StartRunFails(r) ==
    /\ up /\ task[r].pc = "locked"
    /\ InsertFails
    /\ task' = [task EXCEPT ![r].pc = "working"]
    /\ UNCHANGED <<procVars, client, holder, waiters, histVars, entryVars>>

(* Mutant of WorkEnds: the guard covers the work and not its recording. *)
WorkEndsUnlocked(r) ==
    /\ up /\ task[r].pc = "working"
    /\ \E o \in Outcomes : task' = [task EXCEPT ![r].pc = "returned", ![r].outcome = o]
    /\ holder' = [holder EXCEPT ![task[r].job] = None]
    /\ UNCHANGED <<procVars, faults, client, waiters, histVars, entryVars>>

(* Mutant of WorkEnds: a panic unwinds through run_attached into run_entry. *)
WorkEndsUncaught(r) ==
    /\ up /\ task[r].pc = "working"
    /\ \/ /\ \E o \in Outcomes \ {"panic"} :
              task' = [task EXCEPT ![r].pc = "returned", ![r].outcome = o]
          /\ UNCHANGED <<holder, entry>>
       \/ /\ task' = [task EXCEPT ![r] = NoTask]
          /\ holder' = [holder EXCEPT ![task[r].job] = None]
          /\ entry' = [e \in Entries |->
                          IF e = r THEN [entry[e] EXCEPT !.pc = "panicked"] ELSE entry[e]]
    /\ UNCHANGED <<procVars, faults, client, waiters, histVars, sched>>

(* The spawned work returns, fails or panics. *)
WorkEnds(r) ==
    /\ up /\ task[r].pc = "working"
    /\ \E o \in Outcomes : task' = [task EXCEPT ![r].pc = "returned", ![r].outcome = o]
    /\ UNCHANGED <<procVars, faults, client, holder, waiters, histVars, entryVars>>

(* The guard is dropped and the awaiting caller gets the result: a request *)
(* is answered, an entry's loop goes round.                                *)
Release(r) ==
    /\ holder' = [holder EXCEPT ![task[r].job] = None]
    /\ task' = [task EXCEPT ![r] = NoTask]
    /\ client' = [q \in Requests |-> IF q = r THEN "none" ELSE client[q]]
    /\ entry' = [e \in Entries |->
                    IF e = r THEN [entry[e] EXCEPT !.pc = "compute"] ELSE entry[e]]
    /\ UNCHANGED <<waiters, sched>>

(* db_finish_run: UPDATE ... WHERE id = ? AND status = 'running' finds the *)
(* row it opened.                                                          *)
FinishRun(r) ==
    LET i == task[r].run  s == Finished(task[r].outcome) IN
    /\ up /\ task[r].pc = "returned" /\ i # None
    /\ i \in DOMAIN runs /\ runs[i].status = "running"
    /\ runs' = [runs EXCEPT ![i].status = s]
    /\ last' = [last EXCEPT ![task[r].job] = s]
    /\ Release(r)
    /\ UNCHANGED <<procVars, faults, nextRun>>

(* Mutant of RecordRun: the late row is inserted open. *)
RecordRunOpen(r) ==
    LET j == task[r].job  s == Finished(task[r].outcome) IN
    /\ up /\ task[r].pc = "returned" /\ task[r].run = None /\ CanInsert
    /\ InsertAndPrune(j, [job |-> j, status |-> "running"])
    /\ last' = [last EXCEPT ![j] = s]
    /\ Release(r)
    /\ UNCHANGED <<procVars, faults>>

(* db_record_run: the run whose opening insert failed is recorded whole. *)
RecordRun(r) ==
    LET j == task[r].job  s == Finished(task[r].outcome) IN
    /\ up /\ task[r].pc = "returned" /\ task[r].run = None /\ CanInsert
    /\ InsertAndPrune(j, [job |-> j, status |-> s])
    /\ last' = [last EXCEPT ![j] = s]
    /\ Release(r)
    /\ UNCHANGED <<procVars, faults>>

(* Completing or recording the run fails (RowNotFound included): logged,   *)
(* the result stands, the row keeps what it held.                          *)
RecordFails(r) ==
    LET i == task[r].run IN
    /\ up /\ task[r].pc = "returned"
    /\ IF i = None THEN InsertFails
       ELSE \/ WriteFails
            \/ ~(i \in DOMAIN runs /\ runs[i].status = "running") /\ UNCHANGED faults
    /\ last' = [last EXCEPT ![task[r].job] = None]
    /\ Release(r)
    /\ UNCHANGED <<procVars, runs, nextRun>>

-----------------------------------------------------------------------------
(* run_entry and StoredSchedule *)

MaxSchedId == Cardinality(Entries) * MaxBoots

(* Mutant of ClaimRow: the id kept is not the one the insert returned. *)
ClaimAnyRow(e, pc) ==
    \E i \in 1 .. MaxSchedId :
        /\ i = 1 \/ i - 1 \in DOMAIN sched
        /\ \A k \in DOMAIN sched : k < i
        /\ sched' = [k \in DOMAIN sched \cup {i} |-> IF k = i THEN e ELSE sched[k]]
        /\ \E k \in DOMAIN sched' : entry' = [entry EXCEPT ![e] = [pc |-> pc, row |-> k]]
        /\ UNCHANGED faults

(* INSERT INTO job_schedule: the INTEGER PRIMARY KEY is one more than the  *)
(* largest stored id (1 in an empty table).                                *)
ClaimRow(e, pc) ==
    \E i \in 1 .. MaxSchedId :
        /\ i = 1 \/ i - 1 \in DOMAIN sched
        /\ \A k \in DOMAIN sched : k < i
        /\ sched' = [k \in DOMAIN sched \cup {i} |-> IF k = i THEN e ELSE sched[k]]
        /\ entry' = [entry EXCEPT ![e] = [pc |-> pc, row |-> i]]
        /\ UNCHANGED faults

(* StoredSchedule::record, after which the loop goes to pc: update the     *)
(* claimed row; claim one if there is none or it is gone; a failed write   *)
(* keeps what the loop knew, except that a row found gone is forgotten.    *)
Record(e, pc) ==
    LET row == entry[e].row
        kept == IF row \in DOMAIN sched THEN row ELSE None
    IN \/ /\ row \in DOMAIN sched                     \* db_update_schedule: true
          /\ entry' = [entry EXCEPT ![e].pc = pc]
          /\ UNCHANGED <<faults, sched>>
       \/ /\ row \notin DOMAIN sched                  \* db_insert_schedule
          /\ ClaimRow(e, pc)
       \/ /\ WriteFails                               \* the update or the insert fails
          /\ \E r \in {row, kept} : entry' = [entry EXCEPT ![e] = [pc |-> pc, row |-> r]]
          /\ UNCHANGED sched

(* Mutant of ClaimAtStart: no row until an occurrence has been computed. *)
NoClaimAtStart(e) ==
    /\ up /\ entry[e].pc = "claim"
    /\ entry' = [entry EXCEPT ![e].pc = "compute"]
    /\ UNCHANGED <<procVars, faults, runVars, histVars, sched>>

(* The task's first act, before any occurrence is computed. *)
ClaimAtStart(e) ==
    /\ up /\ entry[e].pc = "claim"
    /\ Record(e, "compute")
    /\ UNCHANGED <<procVars, runVars, histVars>>

(* next_run finds an occurrence and it is stored. *)
StoreNext(e) ==
    /\ up /\ entry[e].pc = "compute"
    /\ Record(e, "sleep")
    /\ UNCHANGED <<procVars, runVars, histVars>>

(* A capped sleep ends: the target is recomputed and stored again. *)
Recompute(e) ==
    /\ up /\ entry[e].pc = "sleep"
    /\ Record(e, "sleep")
    /\ UNCHANGED <<procVars, runVars, histVars>>

(* next_run finds no occurrence: the loop returns, for good. *)
Stop(e) ==
    /\ up /\ entry[e].pc \in {"compute", "sleep"}
    /\ entry' = [entry EXCEPT ![e].pc = "stopped"]
    /\ UNCHANGED <<procVars, faults, runVars, histVars, sched>>

(* The last sleep ends and the loop awaits run_job. *)
Fire(e) ==
    /\ up /\ entry[e].pc = "sleep"
    /\ entry' = [entry EXCEPT ![e].pc = "run"]
    /\ Enqueue(e, EntryJob[e])
    /\ UNCHANGED <<procVars, faults, client, holder, histVars, sched>>

-----------------------------------------------------------------------------
(* the process *)

(* schedule::spawn: clear job_schedule (a failure is logged), then spawn a *)
(* loop per entry.  A lock starts free and no task survives a restart.     *)
Boot ==
    /\ ~up /\ boots < MaxBoots
    /\ up' = TRUE /\ boots' = boots + 1 /\ boot' = nextRun
    /\ \/ sched' = <<>> /\ UNCHANGED faults
       \/ WriteFails /\ UNCHANGED sched
    /\ entry' = [e \in Entries |-> [pc |-> "claim", row |-> None]]
    /\ UNCHANGED <<runVars, histVars>>

(* SIGKILL, power cut, deploy: the in-memory state goes, the tables stay. *)
Crash ==
    /\ up
    /\ up' = FALSE
    /\ task' = [r \in Runners |-> NoTask]
    /\ client' = [q \in Requests |-> "none"]
    /\ holder' = [j \in Jobs |-> None]
    /\ waiters' = [j \in Jobs |-> <<>>]
    /\ entry' = [e \in Entries |-> [pc |-> "down", row |-> None]]
    /\ last' = [j \in Jobs |-> None]
    /\ UNCHANGED <<boots, boot, faults, runs, nextRun, sched>>

Init ==
    /\ up = FALSE /\ boots = 0 /\ boot = 1 /\ faults = 0
    /\ task = [r \in Runners |-> NoTask]
    /\ client = [q \in Requests |-> "none"]
    /\ holder = [j \in Jobs |-> None]
    /\ waiters = [j \in Jobs |-> <<>>]
    /\ runs = <<>> /\ nextRun = 1
    /\ entry = [e \in Entries |-> [pc |-> "down", row |-> None]]
    /\ sched = <<>>
    /\ last = [j \in Jobs |-> None]

TaskStep(r) ==
    \/ Acquire(r) \/ StartRun(r) \/ StartRunFails(r) \/ WorkEnds(r)
    \/ FinishRun(r) \/ RecordRun(r) \/ RecordFails(r)

EntryStep(e) ==
    \/ ClaimAtStart(e) \/ StoreNext(e) \/ Recompute(e) \/ Stop(e) \/ Fire(e)

Next ==
    \/ Boot \/ Crash
    \/ \E q \in Requests : Disconnect(q) \/ \E j \in Jobs : Trigger(q, j)
    \/ \E r \in Runners : TaskStep(r)
    \/ \E e \in Entries : EntryStep(e)

Spec == Init /\ [][Next]_vars

(* tokio polls every woken task, its Mutex hands over in FIFO order, work  *)
(* is bounded by the HTTP client's and the command's own time limits, and  *)
(* a timer that is armed goes off.                                         *)
Fairness ==
    /\ \A r \in Runners : WF_vars(TaskStep(r))
    /\ \A e \in Entries : /\ WF_vars(ClaimAtStart(e)) /\ WF_vars(StoreNext(e) \/ Stop(e))
                          /\ WF_vars(Fire(e))

FairSpec == Spec /\ Fairness

-----------------------------------------------------------------------------
(* Properties *)

Latest(j) == CHOOSE i \in RowsOf(runs, j) : \A k \in RowsOf(runs, j) : k <= i

EntryPcs == {"down", "claim", "compute", "sleep", "run", "stopped"}
TaskPcs == {"none", "queued", "locked", "working", "returned"}
Task == [pc: TaskPcs, job: Jobs \cup {None}, run: Nat \cup {None},
         outcome: Outcomes \cup {None}]

(* Every variable has its type; a row of job_runs is stored under an id    *)
(* the sequence has already passed.                                        *)
TypeOK ==
    /\ up \in BOOLEAN /\ boots \in Nat /\ boot \in Nat /\ faults \in Nat
    /\ task \in [Runners -> Task]
    /\ client \in [Requests -> {"none", "waiting", "gone"}]
    /\ holder \in [Jobs -> Runners \cup {None}]
    /\ waiters \in [Jobs -> Seq(Runners)]
    /\ nextRun \in Nat \ {0}
    /\ DOMAIN runs \subseteq 1 .. (nextRun - 1)
    /\ runs \in [DOMAIN runs -> Row]
    /\ entry \in [Entries -> [pc: EntryPcs, row: Nat \cup {None}]]
    /\ DOMAIN sched \subseteq Nat
    /\ sched \in [DOMAIN sched -> Entries]
    /\ last \in [Jobs -> Statuses \cup {None}]

(* "Runs of the same job are serialised ... the same job never executes    *)
(* concurrently" (docs/API.md, Jobs): manual triggers and the three lines  *)
(* of price-import share one lock per job, taken before the work starts.   *)
NoConcurrentRuns ==
    \A r, s \in Runners :
        (r # s /\ task[r].pc \in {"working", "returned"}
               /\ task[s].pc \in {"working", "returned"}) => task[r].job # task[s].job

(* db_finish_run's missing row is "unreachable": between the opening and   *)
(* the completion of a run, no other run's prune and no other completion   *)
(* takes or closes its row.                                                *)
FinishFindsItsRow ==
    \A r \in Runners :
        task[r].run # None =>
            /\ task[r].run \in DOMAIN runs
            /\ runs[task[r].run] = [job |-> task[r].job, status |-> "running"]

(* The history of a job never exceeds JOB_RUN_HISTORY_LIMIT rows, whether  *)
(* its rows were opened by db_start_run or appended by db_record_run.      *)
HistoryBounded == \A j \in Jobs : Cardinality(RowsOf(runs, j)) <= HistoryLimit

(* "A run recorded as running is therefore either in flight now or one the *)
(* process did not survive" (docs/API.md, GET /jobs): while no write has   *)
(* failed (run_attached only logs one that does), an open row that this    *)
(* process inserted is the row of a task still at work, whatever became of *)
(* the request that asked for it.                                          *)
OpenRowsExplained ==
    (up /\ faults = 0) =>
        \A i \in DOMAIN runs :
            (runs[i].status = "running" /\ i >= boot) => \E r \in Runners : task[r].run = i

(* GET /jobs answers last_status from the newest row: unless a row of a    *)
(* newer run is open, it is the result of the latest run that completed    *)
(* and was recorded, even when that run's opening insert had failed.       *)
LatestRowIsLatestRun ==
    \A j \in Jobs :
        (last[j] # None /\ \A r \in Runners : task[r].job = j => task[r].run = None)
            => RowsOf(runs, j) # {} /\ runs[Latest(j)].status = last[j]

(* job_schedule describes the schedule the running process executes: the   *)
(* row an entry loop updates is its own and is there as long as it runs,   *)
(* and a loop that has given up leaves a row behind for the health report  *)
(* to find overdue, provided every write succeeded.                        *)
ScheduleRowsOwned ==
    \A e \in Entries :
        /\ entry[e].row # None => entry[e].row \in DOMAIN sched /\ sched[entry[e].row] = e
        /\ (entry[e].pc = "stopped" /\ faults = 0) => \E i \in DOMAIN sched : sched[i] = e

(* A completed row is history: no step rewrites it, and no step deletes it *)
(* while keeping an older row of the same job.                             *)
HistoryIsAppendOnly ==
    [][\A i \in DOMAIN runs :
         /\ (i \in DOMAIN runs' /\ runs[i].status # "running") => runs'[i] = runs[i]
         /\ i \notin DOMAIN runs' =>
               \A k \in DOMAIN runs' : runs'[k].job = runs[i].job => k > i]_vars

(* Runners past the lock of job j. *)
AtWork(j) == {r \in Runners : task[r].job = j /\ task[r].pc \in {"locked", "working", "returned"}}

Service == INSTANCE JobService
               WITH active <- [j \in Jobs |-> AtWork(j)], result <- last

(* The scheduler implements the service it promises: seen from the runners *)
(* at work and the results they publish, every step of a lock, a queue, a  *)
(* table, a restart or a failed write is a step of JobService or none.     *)
ImplementsJobService == Service!ServiceSpec

(* Every run that was asked for ends, unless the process dies: nobody      *)
(* starves on a job's lock, and a lost client or a panic releases it.      *)
EveryRunEnds == \A r \in Runners : task[r].pc = "queued" ~> task[r].pc = "none"

(* A failing or panicking run does not end its schedule entry: the loop    *)
(* fires again and again until next_run has no answer or the process dies. *)
EntryKeepsFiring ==
    \A e \in Entries : []<>(entry[e].pc = "run") \/ <>[](entry[e].pc \in {"stopped", "down"})

=============================================================================
