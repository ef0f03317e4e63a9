-------------------------- MODULE SchedulerProofs --------------------------
(***************************************************************************)
(* Proofs about Scheduler, for every set of jobs, schedule entries and     *)
(* concurrent triggers, every history limit and every number of process    *)
(* starts and failed writes; and, at the end, about the EntryClock of one  *)
(* of its entries, for every length of day, change of the zone's clock and *)
(* MAX_SLEEP.                                                              *)
(***************************************************************************)
EXTENDS Scheduler, EntryClock, FiniteSetTheorems, TLAPS

(* A task past the lock holds it, a task queued on it has a job, and only  *)
(* a task whose opening insert committed has a row.                        *)
LockInv ==
    \A r \in Runners :
        /\ task[r].pc # "none" => task[r].job \in Jobs
        /\ task[r].pc \in {"locked", "working", "returned"} => holder[task[r].job] = r
        /\ task[r].run # None => task[r].pc \in {"working", "returned"}

(* A schedule entry has a task only while its loop awaits the run, and no  *)
(* task outlives the process.                                              *)
EntryInv == \A e \in Entries : (~up \/ entry[e].pc # "run") => task[e].pc = "none"

(* The inductive invariant.  FinishFindsItsRow is not inductive alone: it  *)
(* takes LockInv to see that no second run of the same job can open a row, *)
(* and so prune, between the opening and the completion of a run.          *)
IInv == TypeOK /\ LockInv /\ EntryInv /\ FinishFindsItsRow /\ HistoryBounded

(* The ids of one job's rows are finitely many. *)
LEMMA RowsFinite ==
    ASSUME NEW n \in Nat, NEW table, DOMAIN table \subseteq 1 .. n, NEW j
    PROVE  IsFiniteSet(RowsOf(table, j))
<1>1. IsFiniteSet(1 .. n)
  BY FS_Interval
<1> QED
  BY <1>1, FS_Subset DEF RowsOf

(* prune_history never drops the newest row, whatever the limit. *)
LEMMA NewestIsKept ==
    ASSUME NEW ids, IsFiniteSet(ids), ids \subseteq Nat,
           NEW m \in ids, \A i \in ids : i <= m,
           NEW kept, IsNewest(kept, ids)
    PROVE  m \in kept
<1>1. CASE Cardinality(ids) <= HistoryLimit
  BY <1>1 DEF IsNewest
<1>2. CASE ~(Cardinality(ids) <= HistoryLimit)
  <2>1. Cardinality(kept) = HistoryLimit /\ kept \subseteq ids
    BY <1>2 DEF IsNewest
  <2>2. kept # {}
    BY <2>1, FS_EmptySet, ConstantsAssumption
  <2>3. PICK k \in kept : TRUE
    BY <2>2
  <2>4. k \in Nat /\ k <= m
    BY <2>1, <2>3
  <2>5. m \notin kept => k > m
    BY <2>3 DEF IsNewest
  <2> QED
    BY <2>4, <2>5
<1> QED
  BY <1>1, <1>2

(* What one insert with its prune does to the table: the fresh row is in,  *)
(* the other jobs' rows are untouched, and the job's own are within the    *)
(* limit and otherwise as they were.                                       *)
LEMMA InsertFacts ==
    ASSUME TypeOK, HistoryBounded, NEW j \in Jobs, NEW row \in Row, row.job = j,
           InsertAndPrune(j, row)
    PROVE  /\ nextRun' = nextRun + 1
           /\ DOMAIN runs' \subseteq 1 .. nextRun
           /\ nextRun \in DOMAIN runs' /\ runs'[nextRun] = row
           /\ runs' \in [DOMAIN runs' -> Row]
           /\ \A i \in DOMAIN runs : runs[i].job # j =>
                 i \in DOMAIN runs' /\ runs'[i] = runs[i]
           /\ \A i \in DOMAIN runs' \ {nextRun} : i \in DOMAIN runs /\ runs'[i] = runs[i]
           /\ \A i \in DOMAIN runs \ DOMAIN runs' :
                 runs[i].job = j /\ \A k \in RowsOf(runs', j) : k > i
           /\ \A k \in Jobs : Cardinality(RowsOf(runs', k)) <= HistoryLimit
<1> DEFINE inserted == [i \in DOMAIN runs \cup {nextRun} |->
                           IF i = nextRun THEN row ELSE runs[i]]
           ids == RowsOf(inserted, j)
<1>1. PICK kept \in SUBSET ids :
         /\ IsNewest(kept, ids)
         /\ runs' = [i \in (DOMAIN inserted \ ids) \cup kept |-> inserted[i]]
         /\ nextRun' = nextRun + 1
  BY DEF InsertAndPrune
<1>2. /\ nextRun \in Nat \ {0} /\ DOMAIN runs \subseteq 1 .. (nextRun - 1)
      /\ runs \in [DOMAIN runs -> Row] /\ nextRun \notin DOMAIN runs
  BY DEF TypeOK
<1>3. /\ DOMAIN inserted \subseteq 1 .. nextRun
      /\ \A i \in DOMAIN inserted : inserted[i] \in Row
      /\ nextRun \in ids
  BY <1>2 DEF RowsOf
<1>4. IsFiniteSet(ids) /\ ids \subseteq DOMAIN inserted
  <2>1. ids = RowsOf(inserted, j)
    OBVIOUS
  <2>2. ids \subseteq DOMAIN inserted
    BY <2>1 DEF RowsOf
  <2> HIDE DEF inserted, ids
  <2> QED
    BY <1>2, <1>3, <2>1, <2>2, RowsFinite
<1>5. nextRun \in kept
  <2> HIDE DEF inserted, ids
  <2>1. \A i \in ids : i \in Nat /\ i <= nextRun
    BY <1>2, <1>3, <1>4
  <2>2. IsNewest(kept, ids) /\ IsFiniteSet(ids) /\ ids \subseteq Nat
    BY <1>1, <1>4, <2>1
  <2> QED
    BY <1>3, <2>1, <2>2, NewestIsKept
<1>6. Cardinality(kept) <= HistoryLimit
  BY <1>1, ConstantsAssumption DEF IsNewest
<1>7. DOMAIN runs' \subseteq DOMAIN inserted
  BY <1>1, <1>4
<1>8. /\ nextRun \in DOMAIN runs' /\ runs'[nextRun] = row
      /\ runs' \in [DOMAIN runs' -> Row]
  BY <1>1, <1>3, <1>4, <1>5, <1>7
<1>9. \A i \in DOMAIN runs : runs[i].job # j => i \in DOMAIN runs' /\ runs'[i] = runs[i]
  BY <1>1, <1>2 DEF RowsOf
<1>10. \A i \in DOMAIN runs' \ {nextRun} : i \in DOMAIN runs /\ runs'[i] = runs[i]
  BY <1>1, <1>4
<1>11. ASSUME NEW i \in DOMAIN runs, i \notin DOMAIN runs'
       PROVE  runs[i].job = j /\ \A k \in RowsOf(runs', j) : k > i
  <2>1. runs[i].job = j /\ i \in ids /\ i \notin kept
    BY <1>1, <1>2, <1>9, <1>11 DEF RowsOf
  <2>2. RowsOf(runs', j) \subseteq kept
    BY <1>1 DEF RowsOf
  <2> QED
    BY <1>1, <2>1, <2>2 DEF IsNewest
<1>12. ASSUME NEW k \in Jobs
       PROVE  Cardinality(RowsOf(runs', k)) <= HistoryLimit
  <2>1. CASE k = j
    <3>1. RowsOf(runs', k) = kept
      BY <1>1, <2>1 DEF RowsOf
    <3> QED
      BY <3>1, <1>6
  <2>2. CASE k # j
    <3>1. RowsOf(runs', k) = RowsOf(runs, k)
      BY <1>1, <1>2, <2>2 DEF RowsOf
    <3> QED
      BY <3>1 DEF HistoryBounded
  <2> QED
    BY <2>1, <2>2
<1> QED
  BY <1>1, <1>3, <1>7, <1>8, <1>9, <1>10, <1>11, <1>12

(* The step of a task that opens or appends a row of its own job leaves    *)
(* every other task's open row alone: they belong to other jobs.           *)
LEMMA OtherRowsKept ==
    ASSUME IInv, NEW r \in Runners, task[r].pc \in {"locked", "working", "returned"},
           task[r].run = None,
           NEW row \in Row, row.job = task[r].job,
           InsertAndPrune(task[r].job, row)
    PROVE  \A s \in Runners : task[s].run # None =>
              /\ task[s].run \in DOMAIN runs'
              /\ runs'[task[s].run] = [job |-> task[s].job, status |-> "running"]
<1> SUFFICES ASSUME NEW s \in Runners, task[s].run # None
             PROVE  /\ task[s].run \in DOMAIN runs'
                    /\ runs'[task[s].run] = [job |-> task[s].job, status |-> "running"]
  OBVIOUS
<1>1. task[r].job \in Jobs
  BY DEF IInv, LockInv
<1>2. \A i \in DOMAIN runs : runs[i].job # task[r].job =>
          i \in DOMAIN runs' /\ runs'[i] = runs[i]
  BY <1>1, InsertFacts DEF IInv
<1>3. /\ task[s].run \in DOMAIN runs
      /\ runs[task[s].run] = [job |-> task[s].job, status |-> "running"]
  BY DEF IInv, FinishFindsItsRow
<1>4. task[s].job # task[r].job
  BY DEF IInv, LockInv
<1> QED
  BY <1>2, <1>3, <1>4

(* The initial state satisfies the invariant. *)
LEMMA InitIInv == Init => IInv
<1> SUFFICES ASSUME Init PROVE IInv
  OBVIOUS
<1>1. TypeOK
  <2>1. DOMAIN runs = {} /\ DOMAIN sched = {}
    BY DEF Init
  <2>2. runs \in [DOMAIN runs -> Row] /\ sched \in [DOMAIN sched -> Entries]
    BY <2>1 DEF Init
  <2>3. waiters \in [Jobs -> Seq(Runners)]
    BY DEF Init
  <2>4. /\ task \in [Runners -> Task]
        /\ entry \in [Entries -> [pc: EntryPcs, row: Nat \cup {None}]]
    BY DEF Init, NoTask, Task, TaskPcs, EntryPcs
  <2> QED
    <3>1. up \in BOOLEAN /\ boots \in Nat /\ boot \in Nat /\ faults \in Nat
      BY DEF Init
    <3>2. /\ client \in [Requests -> {"none", "waiting", "gone"}]
          /\ holder \in [Jobs -> Runners \cup {None}]
          /\ last \in [Jobs -> Statuses \cup {None}]
      BY DEF Init
    <3>3. nextRun \in Nat \ {0} /\ DOMAIN runs \subseteq 1 .. (nextRun - 1)
      BY <2>1 DEF Init
    <3>4. DOMAIN sched \subseteq Nat
      BY <2>1
    <3> QED
      BY <2>2, <2>3, <2>4, <3>1, <3>2, <3>3, <3>4 DEF TypeOK
<1>2. LockInv /\ EntryInv /\ FinishFindsItsRow
  BY DEF Init, LockInv, EntryInv, FinishFindsItsRow, NoTask, Runners
<1>3. HistoryBounded
  <2>1. \A j \in Jobs : RowsOf(runs, j) = {}
    BY DEF Init, RowsOf
  <2> QED
    BY <2>1, FS_EmptySet, ConstantsAssumption DEF HistoryBounded
<1> QED
  BY <1>1, <1>2, <1>3 DEF IInv

(* A new task of runner r queues behind the others of its job: Trigger and *)
(* Fire.                                                                   *)
LEMMA EnqueueIInv ==
    ASSUME IInv, up, NEW r \in Runners, NEW j \in Jobs, task[r].pc = "none",
           Enqueue(r, j), UNCHANGED <<procVars, faults, holder, histVars, sched>>,
           client' \in [Requests -> {"none", "waiting", "gone"}],
           entry' \in [Entries -> [pc: EntryPcs, row: Nat \cup {None}]],
           \A e \in Entries : entry'[e].pc # "run" => entry[e].pc # "run" /\ e # r
    PROVE  IInv'
<1> USE DEF procVars, histVars, Enqueue
<1>1. task[r].run = None
  BY DEF IInv, LockInv
<1>2. TypeOK'
  <2>1. task' \in [Runners -> Task]
    BY DEF IInv, TypeOK, NoTask, Task, TaskPcs
  <2>2. waiters' \in [Jobs -> Seq(Runners)]
    BY DEF IInv, TypeOK
  <2> QED
    BY <2>1, <2>2 DEF IInv, TypeOK
<1>3. LockInv'
  BY <1>1 DEF IInv, TypeOK, LockInv, NoTask
<1>4. FinishFindsItsRow'
  BY <1>1 DEF IInv, TypeOK, FinishFindsItsRow, NoTask
<1>5. HistoryBounded'
  BY DEF IInv, HistoryBounded
<1>6. EntryInv'
  BY DEF IInv, TypeOK, EntryInv, Runners
<1> QED
  BY <1>2, <1>3, <1>4, <1>5, <1>6 DEF IInv

(* The end of a run: its lock is released and its task is gone.  What the  *)
(* step did to job_runs has been dealt with by its caller.                 *)
LEMMA ReleaseIInv ==
    ASSUME IInv, NEW r \in Runners, task[r].pc = "returned", Release(r),
           UNCHANGED procVars, faults' \in Nat, last' \in [Jobs -> Statuses \cup {None}],
           nextRun' \in Nat \ {0}, DOMAIN runs' \subseteq 1 .. (nextRun' - 1),
           runs' \in [DOMAIN runs' -> Row], HistoryBounded',
           \A s \in Runners \ {r} : task[s].run # None =>
              /\ task[s].run \in DOMAIN runs'
              /\ runs'[task[s].run] = [job |-> task[s].job, status |-> "running"]
    PROVE  IInv'
<1> USE DEF procVars, Release
<1>1. TypeOK'
  BY DEF IInv, TypeOK, NoTask, Task, TaskPcs, EntryPcs
<1>2. LockInv'
  BY DEF IInv, TypeOK, LockInv, NoTask
<1>3. FinishFindsItsRow'
  BY DEF IInv, TypeOK, FinishFindsItsRow, NoTask
<1>4. EntryInv'
  BY DEF IInv, TypeOK, EntryInv, NoTask, Runners
<1> QED
  BY <1>1, <1>2, <1>3, <1>4 DEF IInv

(* A step of a schedule entry's loop that only rewrites the stored         *)
(* schedule touches nothing that the invariant is about.                   *)
LEMMA RecordIInv ==
    ASSUME IInv, NEW e \in Entries, NEW pc \in EntryPcs \ {"run"},
           entry[e].pc # "run", Record(e, pc),
           UNCHANGED <<procVars, runVars, histVars>>
    PROVE  IInv'
<1> USE DEF procVars, runVars, histVars
<1>1. /\ entry' \in [Entries -> [pc: EntryPcs, row: Nat \cup {None}]]
      /\ faults' \in Nat
      /\ DOMAIN sched' \subseteq Nat
      /\ sched' \in [DOMAIN sched' -> Entries]
  <2>1. CASE entry[e].row \in DOMAIN sched /\ entry' = [entry EXCEPT ![e].pc = pc]
             /\ UNCHANGED <<faults, sched>>
    BY <2>1 DEF IInv, TypeOK
  <2>2. CASE ClaimRow(e, pc)
    BY <2>2 DEF IInv, TypeOK, ClaimRow
  <2>3. CASE /\ WriteFails /\ UNCHANGED sched
             /\ \E r \in {entry[e].row, IF entry[e].row \in DOMAIN sched
                                        THEN entry[e].row ELSE None} :
                   entry' = [entry EXCEPT ![e] = [pc |-> pc, row |-> r]]
    BY <2>3 DEF IInv, TypeOK, WriteFails
  <2> QED
    BY <2>1, <2>2, <2>3 DEF Record
<1>2. TypeOK'
  BY <1>1 DEF IInv, TypeOK
<1>3. LockInv' /\ FinishFindsItsRow' /\ HistoryBounded'
  BY DEF IInv, LockInv, FinishFindsItsRow, HistoryBounded
<1>4. \A f \in Entries : entry'[f].pc # "run" => entry[f].pc # "run"
  BY DEF Record, ClaimRow, IInv, TypeOK
<1>5. EntryInv'
  BY <1>4 DEF IInv, EntryInv
<1> QED
  BY <1>2, <1>3, <1>5 DEF IInv

(* Every step preserves the invariant: one case per action. *)
LEMMA NextIInv == IInv /\ [Next]_vars => IInv'
<1> SUFFICES ASSUME IInv, [Next]_vars PROVE IInv'
  OBVIOUS
<1> USE DEF procVars, runVars, histVars, entryVars
<1>1. CASE Boot
  <2>1. DOMAIN sched' \subseteq Nat /\ sched' \in [DOMAIN sched' -> Entries]
    <3>1. CASE sched' = <<>>
      <4>1. DOMAIN sched' = {}
        BY <3>1
      <4> QED
        BY <3>1, <4>1
    <3>2. CASE UNCHANGED sched
      BY <3>2 DEF IInv, TypeOK
    <3> QED
      BY <1>1, <3>1, <3>2 DEF Boot
  <2>2. TypeOK'
    BY <1>1, <2>1 DEF IInv, TypeOK, Boot, EntryPcs, WriteFails
  <2>3. LockInv' /\ FinishFindsItsRow' /\ HistoryBounded'
    BY <1>1 DEF Boot, IInv, LockInv, FinishFindsItsRow, HistoryBounded
  <2>4. EntryInv'
    BY <1>1 DEF Boot, IInv, EntryInv
  <2> QED
    BY <2>2, <2>3, <2>4 DEF IInv
<1>2. CASE Crash
  <2>1. TypeOK'
    <3>1. waiters' \in [Jobs -> Seq(Runners)]
      BY <1>2 DEF Crash
    <3>2. task' \in [Runners -> Task]
      BY <1>2 DEF Crash, NoTask, Task, TaskPcs
    <3>3. entry' \in [Entries -> [pc: EntryPcs, row: Nat \cup {None}]]
      BY <1>2 DEF Crash, EntryPcs
    <3> QED
      BY <1>2, <3>1, <3>2, <3>3 DEF IInv, TypeOK, Crash
  <2>2. LockInv' /\ EntryInv' /\ FinishFindsItsRow'
    BY <1>2 DEF Crash, LockInv, EntryInv, FinishFindsItsRow, NoTask, Runners
  <2>3. HistoryBounded'
    BY <1>2 DEF Crash, IInv, HistoryBounded
  <2> QED
    BY <2>1, <2>2, <2>3 DEF IInv
<1>3. ASSUME NEW q \in Requests, Disconnect(q) PROVE IInv'
  <2>1. TypeOK'
    BY <1>3 DEF IInv, TypeOK, Disconnect
  <2>2. LockInv' /\ EntryInv' /\ FinishFindsItsRow' /\ HistoryBounded'
    BY <1>3 DEF Disconnect, IInv, LockInv, EntryInv, FinishFindsItsRow, HistoryBounded
  <2> QED
    BY <2>1, <2>2 DEF IInv
<1>4. ASSUME NEW q \in Requests, NEW j \in Jobs, Trigger(q, j) PROVE IInv'
  <2>1. q \in Runners
    BY DEF Runners
  <2>2. /\ client' \in [Requests -> {"none", "waiting", "gone"}]
        /\ entry' \in [Entries -> [pc: EntryPcs, row: Nat \cup {None}]]
        /\ \A e \in Entries : entry'[e].pc # "run" => entry[e].pc # "run" /\ e # q
    BY <1>4, ConstantsAssumption DEF Trigger, IInv, TypeOK
  <2> QED
    BY <1>4, <2>1, <2>2, EnqueueIInv DEF Trigger
<1>5. ASSUME NEW r \in Runners, Acquire(r) PROVE IInv'
  <2>1. /\ task \in [Runners -> Task] /\ task' = [task EXCEPT ![r].pc = "locked"]
        /\ task[r].job \in Jobs /\ task[r].pc = "queued" /\ up
    BY <1>5 DEF Acquire, IInv, TypeOK, LockInv
  <2>2. task' \in [Runners -> Task]
    BY <2>1 DEF Task, TaskPcs
  <2>3. /\ \A s \in Runners : task'[s].run = task[s].run /\ task'[s].job = task[s].job
        /\ \A s \in Runners \ {r} : task'[s] = task[s]
        /\ task'[r].pc = "locked"
    BY <2>1 DEF Task
  <2>4. holder' = [holder EXCEPT ![task[r].job] = r] /\ holder[task[r].job] = None
    BY <1>5 DEF Acquire
  <2>5. TypeOK'
    <3>1. waiters' \in [Jobs -> Seq(Runners)]
      BY <1>5, <2>1 DEF Acquire, IInv, TypeOK
    <3> QED
      BY <1>5, <2>1, <2>2, <3>1 DEF IInv, TypeOK, Acquire
  <2>6. LockInv'
    <3>1. task[r].run = None
      BY <2>1 DEF IInv, LockInv
    <3>2. \A s \in Runners \ {r} : task[s].pc \in {"locked", "working", "returned"}
             => task[s].job # task[r].job
      BY <2>1, <2>4, ConstantsAssumption DEF IInv, LockInv, Runners
    <3>3. holder \in [Jobs -> Runners \cup {None}]
      BY DEF IInv, TypeOK
    <3> QED
      BY <2>1, <2>3, <2>4, <3>1, <3>2, <3>3 DEF IInv, LockInv
  <2>7. FinishFindsItsRow' /\ HistoryBounded'
    BY <1>5, <2>3 DEF Acquire, IInv, FinishFindsItsRow, HistoryBounded
  <2>8. EntryInv'
    BY <1>5, <2>1, <2>3 DEF Acquire, IInv, EntryInv, Runners
  <2> QED
    BY <2>5, <2>6, <2>7, <2>8 DEF IInv
<1>6. ASSUME NEW r \in Runners, StartRun(r) PROVE IInv'
  <2> DEFINE row == [job |-> task[r].job, status |-> "running"]
  <2>1. task[r].job \in Jobs /\ task[r].run = None /\ row \in Row /\ row.job = task[r].job
    BY <1>6 DEF StartRun, IInv, LockInv, Row, Statuses
  <2>2. InsertAndPrune(task[r].job, row)
    BY <1>6 DEF StartRun
  <2>3. /\ nextRun' = nextRun + 1 /\ DOMAIN runs' \subseteq 1 .. nextRun
        /\ nextRun \in DOMAIN runs' /\ runs'[nextRun] = row
        /\ runs' \in [DOMAIN runs' -> Row]
        /\ \A k \in Jobs : Cardinality(RowsOf(runs', k)) <= HistoryLimit
    BY <2>1, <2>2, InsertFacts DEF IInv
  <2>4. \A s \in Runners : task[s].run # None =>
              /\ task[s].run \in DOMAIN runs'
              /\ runs'[task[s].run] = [job |-> task[s].job, status |-> "running"]
    BY <1>6, <2>1, <2>2, OtherRowsKept DEF StartRun
  <2>5. TypeOK'
    <3>1. task \in [Runners -> Task] /\ nextRun \in Nat \ {0}
      BY DEF IInv, TypeOK
    <3>2. task' = [task EXCEPT ![r].pc = "working", ![r].run = nextRun]
      BY <1>6 DEF StartRun
    <3>3. task' \in [Runners -> Task]
      BY <3>1, <3>2 DEF Task, TaskPcs
    <3>4. nextRun' \in Nat \ {0} /\ DOMAIN runs' \subseteq 1 .. (nextRun' - 1)
      BY <2>3, <3>1
    <3> QED
      BY <1>6, <2>3, <3>3, <3>4 DEF StartRun, IInv, TypeOK
  <2>6. LockInv'
    BY <1>6, <2>1 DEF StartRun, IInv, TypeOK, LockInv
  <2>7. FinishFindsItsRow'
    BY <1>6, <2>3, <2>4 DEF StartRun, IInv, TypeOK, FinishFindsItsRow
  <2>8. HistoryBounded'
    BY <2>3 DEF HistoryBounded
  <2>9. EntryInv'
    BY <1>6 DEF StartRun, IInv, TypeOK, EntryInv, Runners
  <2> QED
    BY <2>5, <2>6, <2>7, <2>8, <2>9 DEF IInv
<1>7. ASSUME NEW r \in Runners, StartRunFails(r) PROVE IInv'
  <2>1. TypeOK'
    <3>1. task \in [Runners -> Task] /\ faults \in Nat
      BY DEF IInv, TypeOK
    <3>2. task' = [task EXCEPT ![r].pc = "working"] /\ faults' \in Nat
      BY <1>7, <3>1 DEF StartRunFails, InsertFails, WriteFails
    <3>3. task' \in [Runners -> Task]
      BY <3>1, <3>2 DEF Task, TaskPcs
    <3> QED
      BY <1>7, <3>2, <3>3 DEF StartRunFails, IInv, TypeOK
  <2>2. LockInv' /\ FinishFindsItsRow'
    BY <1>7 DEF StartRunFails, IInv, TypeOK, LockInv, FinishFindsItsRow
  <2>3. HistoryBounded'
    BY <1>7 DEF StartRunFails, IInv, HistoryBounded
  <2>4. EntryInv'
    BY <1>7 DEF StartRunFails, IInv, TypeOK, EntryInv, Runners
  <2> QED
    BY <2>1, <2>2, <2>3, <2>4 DEF IInv
<1>8. ASSUME NEW r \in Runners, WorkEnds(r) PROVE IInv'
  <2>1. TypeOK'
    <3>1. task \in [Runners -> Task]
      BY DEF IInv, TypeOK
    <3>2. PICK o \in Outcomes :
             task' = [task EXCEPT ![r].pc = "returned", ![r].outcome = o]
      BY <1>8 DEF WorkEnds
    <3>3. task' \in [Runners -> Task]
      BY <3>1, <3>2 DEF Task, TaskPcs
    <3> QED
      BY <1>8, <3>3 DEF WorkEnds, IInv, TypeOK
  <2>2. LockInv' /\ FinishFindsItsRow'
    BY <1>8 DEF WorkEnds, IInv, TypeOK, LockInv, FinishFindsItsRow
  <2>3. HistoryBounded'
    BY <1>8 DEF WorkEnds, IInv, HistoryBounded
  <2>4. EntryInv'
    BY <1>8 DEF WorkEnds, IInv, TypeOK, EntryInv, Runners
  <2> QED
    BY <2>1, <2>2, <2>3, <2>4 DEF IInv
<1>9. ASSUME NEW r \in Runners, FinishRun(r) PROVE IInv'
  <2>1. /\ task[r].run \in DOMAIN runs /\ task[r].job \in Jobs
        /\ runs[task[r].run].job = task[r].job
    <3>1. task[r].pc = "returned" /\ task[r].run # None
      BY <1>9 DEF FinishRun
    <3>2. task[r].job \in Jobs
      BY <3>1 DEF IInv, LockInv
    <3>3. /\ task[r].run \in DOMAIN runs
          /\ runs[task[r].run] = [job |-> task[r].job, status |-> "running"]
      BY <3>1 DEF IInv, FinishFindsItsRow
    <3> QED
      BY <3>2, <3>3
  <2>2. /\ DOMAIN runs' = DOMAIN runs
        /\ \A i \in DOMAIN runs : runs'[i].job = runs[i].job
        /\ \A i \in DOMAIN runs \ {task[r].run} : runs'[i] = runs[i]
    BY <1>9, <2>1 DEF FinishRun, IInv, TypeOK, Row
  <2>3. runs' \in [DOMAIN runs' -> Row]
    <3>1. runs \in [DOMAIN runs -> Row] /\ Finished(task[r].outcome) \in Statuses
      BY DEF IInv, TypeOK, Finished, Statuses
    <3>2. runs' = [runs EXCEPT ![task[r].run].status = Finished(task[r].outcome)]
      BY <1>9 DEF FinishRun
    <3> QED
      BY <2>1, <3>1, <3>2 DEF Row
  <2>4. HistoryBounded'
    <3>1. \A j \in Jobs : RowsOf(runs', j) = RowsOf(runs, j)
      BY <2>2 DEF RowsOf
    <3> QED
      BY <3>1 DEF IInv, HistoryBounded
  <2>5. \A s \in Runners \ {r} : task[s].run # None =>
              /\ task[s].run \in DOMAIN runs'
              /\ runs'[task[s].run] = [job |-> task[s].job, status |-> "running"]
    <3>1. \A s \in Runners \ {r} : task[s].run # None => task[s].job # task[r].job
      BY <1>9 DEF FinishRun, IInv, LockInv
    <3> QED
      BY <2>1, <2>2, <3>1 DEF IInv, FinishFindsItsRow
  <2>6. last' \in [Jobs -> Statuses \cup {None}] /\ faults' \in Nat
        /\ nextRun' \in Nat \ {0} /\ DOMAIN runs' \subseteq 1 .. (nextRun' - 1)
    BY <1>9, <2>2 DEF FinishRun, IInv, TypeOK, Finished, Statuses
  <2> QED
    BY <1>9, <2>3, <2>4, <2>5, <2>6, ReleaseIInv DEF FinishRun
<1>10. ASSUME NEW r \in Runners, RecordRun(r) PROVE IInv'
  <2> DEFINE row == [job |-> task[r].job, status |-> Finished(task[r].outcome)]
  <2>1. task[r].job \in Jobs /\ row \in Row /\ row.job = task[r].job
    BY <1>10 DEF RecordRun, IInv, LockInv, Row, Statuses, Finished
  <2>2. InsertAndPrune(task[r].job, row)
    BY <1>10 DEF RecordRun
  <2>3. /\ nextRun' = nextRun + 1 /\ DOMAIN runs' \subseteq 1 .. nextRun
        /\ runs' \in [DOMAIN runs' -> Row]
        /\ \A k \in Jobs : Cardinality(RowsOf(runs', k)) <= HistoryLimit
    BY <2>1, <2>2, InsertFacts DEF IInv
  <2>4. \A s \in Runners : task[s].run # None =>
              /\ task[s].run \in DOMAIN runs'
              /\ runs'[task[s].run] = [job |-> task[s].job, status |-> "running"]
    BY <1>10, <2>1, <2>2, OtherRowsKept DEF RecordRun
  <2>5. last' \in [Jobs -> Statuses \cup {None}] /\ faults' \in Nat
        /\ nextRun' \in Nat \ {0} /\ DOMAIN runs' \subseteq 1 .. (nextRun' - 1)
    <3>1. nextRun \in Nat \ {0} /\ faults \in Nat /\ last \in [Jobs -> Statuses \cup {None}]
      BY DEF IInv, TypeOK
    <3>2. faults' = faults /\ \E s \in Statuses : last' = [last EXCEPT ![task[r].job] = s]
      BY <1>10 DEF RecordRun, Finished, Statuses
    <3>3. last' \in [Jobs -> Statuses \cup {None}]
      BY <2>1, <3>1, <3>2
    <3>4. nextRun' \in Nat \ {0} /\ DOMAIN runs' \subseteq 1 .. (nextRun' - 1)
      BY <2>3, <3>1
    <3> QED
      BY <3>1, <3>2, <3>3, <3>4
  <2>6. HistoryBounded'
    BY <2>3 DEF HistoryBounded
  <2> QED
    BY <1>10, <2>3, <2>4, <2>5, <2>6, ReleaseIInv DEF RecordRun
<1>11. ASSUME NEW r \in Runners, RecordFails(r) PROVE IInv'
  <2>1. last' \in [Jobs -> Statuses \cup {None}] /\ faults' \in Nat
    <3>1. faults \in Nat /\ last \in [Jobs -> Statuses \cup {None}]
      BY DEF IInv, TypeOK
    <3>2. last' = [last EXCEPT ![task[r].job] = None]
      BY <1>11 DEF RecordFails
    <3>3. faults' = faults \/ faults' = faults + 1
      BY <1>11 DEF RecordFails, InsertFails, WriteFails
    <3>4. last' \in [Jobs -> Statuses \cup {None}]
      BY <3>1, <3>2
    <3>5. faults' \in Nat
      BY <3>1, <3>3
    <3> QED
      BY <3>4, <3>5
  <2>2. HistoryBounded'
    BY <1>11 DEF RecordFails, IInv, HistoryBounded
  <2>3. /\ nextRun' \in Nat \ {0} /\ DOMAIN runs' \subseteq 1 .. (nextRun' - 1)
        /\ runs' \in [DOMAIN runs' -> Row]
        /\ \A s \in Runners \ {r} : task[s].run # None =>
              /\ task[s].run \in DOMAIN runs'
              /\ runs'[task[s].run] = [job |-> task[s].job, status |-> "running"]
    BY <1>11 DEF RecordFails, IInv, TypeOK, FinishFindsItsRow
  <2> QED
    BY <1>11, <2>1, <2>2, <2>3, ReleaseIInv DEF RecordFails
<1>12. ASSUME NEW e \in Entries, ClaimAtStart(e) \/ StoreNext(e) \/ Recompute(e)
       PROVE  IInv'
  BY <1>12, RecordIInv DEF ClaimAtStart, StoreNext, Recompute, EntryPcs
<1>13. ASSUME NEW e \in Entries, Stop(e) PROVE IInv'
  <2>1. TypeOK'
    BY <1>13 DEF Stop, IInv, TypeOK, EntryPcs
  <2>2. LockInv' /\ FinishFindsItsRow' /\ HistoryBounded'
    BY <1>13 DEF Stop, IInv, LockInv, FinishFindsItsRow, HistoryBounded
  <2>3. EntryInv'
    BY <1>13 DEF Stop, IInv, TypeOK, EntryInv
  <2> QED
    BY <2>1, <2>2, <2>3 DEF IInv
<1>14. ASSUME NEW e \in Entries, Fire(e) PROVE IInv'
  <2>1. e \in Runners /\ EntryJob[e] \in Jobs
    BY ConstantsAssumption DEF Runners
  <2>2. /\ client' \in [Requests -> {"none", "waiting", "gone"}]
        /\ entry' \in [Entries -> [pc: EntryPcs, row: Nat \cup {None}]]
        /\ \A f \in Entries : entry'[f].pc # "run" => entry[f].pc # "run" /\ f # e
    BY <1>14 DEF Fire, IInv, TypeOK, EntryPcs
  <2>3. task[e].pc = "none"
    BY <1>14 DEF Fire, IInv, EntryInv
  <2> QED
    BY <1>14, <2>1, <2>2, <2>3, EnqueueIInv DEF Fire
<1>15. CASE UNCHANGED vars
  BY <1>15 DEF vars, IInv, TypeOK, LockInv, EntryInv, FinishFindsItsRow, HistoryBounded
<1> QED
  BY <1>1, <1>2, <1>3, <1>4, <1>5, <1>6, <1>7, <1>8, <1>9, <1>10, <1>11, <1>12,
     <1>13, <1>14, <1>15 DEF Next, TaskStep, EntryStep

(* The invariant holds in every reachable state. *)
LEMMA SpecIInv == Spec => []IInv
  BY InitIInv, NextIInv, PTL DEF Spec

(* Type correctness of the scheduler. *)
THEOREM TypeCorrect == Spec => []TypeOK
<1>1. IInv => TypeOK
  BY DEF IInv
<1> QED
  BY <1>1, SpecIInv, PTL

(* db_finish_run's RowNotFound is unreachable: the row a run opened is     *)
(* there and still running when the run completes it, whatever the other   *)
(* runs, crashes and failed writes.                                        *)
THEOREM FinishFindsItsRowAlways == Spec => []FinishFindsItsRow
<1>1. IInv => FinishFindsItsRow
  BY DEF IInv
<1> QED
  BY <1>1, SpecIInv, PTL

(* The stored history of every job stays within JOB_RUN_HISTORY_LIMIT. *)
THEOREM HistoryBoundedAlways == Spec => []HistoryBounded
<1>1. IInv => HistoryBounded
  BY DEF IInv
<1> QED
  BY <1>1, SpecIInv, PTL

(* Two runs of the same job are never at work at the same time. *)
THEOREM NoConcurrentRunsAlways == Spec => []NoConcurrentRuns
<1>1. IInv => NoConcurrentRuns
  BY DEF IInv, LockInv, NoConcurrentRuns
<1> QED
  BY <1>1, SpecIInv, PTL

-----------------------------------------------------------------------------
(* What job_runs tells its readers.  Only five actions concern it; every   *)
(* other step is quiet.                                                    *)

(* The tables, the published results and the runs' open rows stay put, and *)
(* a past failure stays on the books.                                      *)
Quiet ==
    /\ UNCHANGED <<up, boot, runs, nextRun, last>>
    /\ faults' = 0 => faults = 0
    /\ \A r \in Runners : /\ task'[r].run = task[r].run
                          /\ task[r].run # None => task'[r].job = task[r].job

(* The runners released by a completed, recorded or unrecorded run have    *)
(* no row any more; the other tasks are as they were.                      *)
Released(r) ==
    /\ task'[r].run = None /\ task'[r].job = None
    /\ \A s \in Runners \ {r} : task'[s] = task[s]

(* Nothing undoes a failed write. *)
LEMMA FaultsGrow ==
    ASSUME TypeOK, [Next]_vars, faults' = 0
    PROVE  faults = 0
<1>1. faults \in Nat
  BY DEF TypeOK
<1>2. faults' = faults \/ faults' = faults + 1
  BY DEF Next, Boot, Crash, Disconnect, Trigger, TaskStep, Acquire, StartRun,
         StartRunFails, WorkEnds, FinishRun, RecordRun, RecordFails, EntryStep,
         ClaimAtStart, StoreNext, Recompute, Stop, Fire, Record, ClaimRow,
         WriteFails, InsertFails, vars
<1> QED
  BY <1>1, <1>2

(* Every other step is quiet. *)
LEMMA QuietSteps ==
    ASSUME IInv, [Next]_vars
    PROVE  \/ Quiet \/ Boot \/ Crash
           \/ \E r \in Runners : StartRun(r) \/ FinishRun(r) \/ RecordRun(r) \/ RecordFails(r)
<1> USE DEF procVars, runVars, histVars, entryVars
<1>0. faults' = 0 => faults = 0
  BY FaultsGrow DEF IInv
<1>1. ASSUME NEW q \in Requests, Disconnect(q) PROVE Quiet
  BY <1>0, <1>1 DEF Disconnect, Quiet
<1>2. ASSUME NEW r \in Runners, NEW j \in Jobs, task[r].pc = "none", Enqueue(r, j)
      PROVE  \A s \in Runners : /\ task'[s].run = task[s].run
                                /\ task[s].run # None => task'[s].job = task[s].job
  <2>1. task[r].run = None
    BY <1>2 DEF IInv, LockInv
  <2>2. task'[r].run = None /\ \A s \in Runners \ {r} : task'[s] = task[s]
    BY <1>2 DEF Enqueue, NoTask, IInv, TypeOK
  <2> QED
    BY <2>1, <2>2
<1>3. ASSUME NEW q \in Requests, NEW j \in Jobs, Trigger(q, j) PROVE Quiet
  BY <1>0, <1>2, <1>3 DEF Trigger, Quiet, Runners
<1>4. ASSUME NEW r \in Runners, Acquire(r) \/ StartRunFails(r) \/ WorkEnds(r) PROVE Quiet
  <2>1. task \in [Runners -> Task]
    BY DEF IInv, TypeOK
  <2>2. ASSUME NEW s \in Runners
        PROVE  task'[s].run = task[s].run /\ task'[s].job = task[s].job
    <3>1. task[s] \in Task /\ task[r] \in Task
      BY <2>1
    <3>2. CASE Acquire(r)
      BY <2>1, <3>1, <3>2 DEF Acquire, Task
    <3>3. CASE StartRunFails(r)
      BY <2>1, <3>1, <3>3 DEF StartRunFails, Task
    <3>4. CASE WorkEnds(r)
      <4>1. PICK o \in Outcomes :
               task' = [task EXCEPT ![r].pc = "returned", ![r].outcome = o]
        BY <3>4 DEF WorkEnds
      <4> QED
        BY <2>1, <3>1, <4>1 DEF Task
    <3> QED
      BY <1>4, <3>2, <3>3, <3>4
  <2> QED
    BY <1>0, <1>4, <2>2 DEF Acquire, StartRunFails, WorkEnds, Quiet
<1>5. ASSUME NEW e \in Entries, ClaimAtStart(e) \/ StoreNext(e) \/ Recompute(e) \/ Stop(e)
      PROVE  Quiet
  BY <1>0, <1>5 DEF ClaimAtStart, StoreNext, Recompute, Stop, Quiet
<1>6. ASSUME NEW e \in Entries, Fire(e) PROVE Quiet
  <2>1. task[e].pc = "none" /\ e \in Runners /\ EntryJob[e] \in Jobs
    BY <1>6, ConstantsAssumption DEF Fire, IInv, EntryInv, Runners
  <2> QED
    BY <1>0, <1>2, <1>6, <2>1 DEF Fire, Quiet
<1>7. CASE UNCHANGED vars
  BY <1>0, <1>7 DEF vars, Quiet
<1> QED
  BY <1>1, <1>3, <1>4, <1>5, <1>6, <1>7 DEF Next, TaskStep, EntryStep

(* What the end of a run does to the tasks. *)
LEMMA ReleaseFacts ==
    ASSUME TypeOK, NEW r \in Runners, Release(r)
    PROVE  Released(r)
BY DEF Release, Released, NoTask, TypeOK

(* The row a run opens or appends: the newest of its job, every other kept *)
(* or pruned.                                                              *)
LEMMA OpenFacts ==
    ASSUME IInv, NEW r \in Runners, StartRun(r)
    PROVE  /\ InsertAndPrune(task[r].job, [job |-> task[r].job, status |-> "running"])
           /\ [job |-> task[r].job, status |-> "running"] \in Row
           /\ task[r].job \in Jobs /\ task[r].run = None
           /\ task'[r].run = nextRun /\ task'[r].job = task[r].job /\ nextRun # None
           /\ \A s \in Runners \ {r} : task'[s] = task[s]
           /\ UNCHANGED <<up, boot, faults, last>>
<1>1. task[r].pc = "locked" /\ task \in [Runners -> Task] /\ nextRun \in Nat
  BY DEF StartRun, IInv, TypeOK
<1>2. task[r].job \in Jobs /\ task[r].run = None
  BY <1>1 DEF IInv, LockInv
<1>3. task' = [task EXCEPT ![r].pc = "working", ![r].run = nextRun]
  BY DEF StartRun
<1>4. task'[r].run = nextRun /\ task'[r].job = task[r].job
      /\ \A s \in Runners \ {r} : task'[s] = task[s]
  BY <1>1, <1>3 DEF Task
<1>5. nextRun # None
  BY <1>1, ConstantsAssumption
<1> QED
  BY <1>2, <1>4, <1>5 DEF StartRun, Row, Statuses, procVars

\* What recording a run that found no row of its own writes: one finished row, and the run is released.
LEMMA AppendFacts ==
    ASSUME IInv, NEW r \in Runners, RecordRun(r)
    PROVE  /\ InsertAndPrune(task[r].job, [job |-> task[r].job,
                                           status |-> Finished(task[r].outcome)])
           /\ [job |-> task[r].job, status |-> Finished(task[r].outcome)] \in Row
           /\ task[r].job \in Jobs /\ task[r].run = None
           /\ Released(r)
           /\ last' = [last EXCEPT ![task[r].job] = Finished(task[r].outcome)]
           /\ UNCHANGED <<up, boot, faults>>
BY ReleaseFacts DEF RecordRun, IInv, LockInv, Row, Statuses, Finished, procVars

(* The row a run completes is its own, open until then. *)
LEMMA CompleteFacts ==
    ASSUME IInv, NEW r \in Runners, FinishRun(r)
    PROVE  /\ task[r].run # None /\ task[r].run \in DOMAIN runs
           /\ runs[task[r].run].status = "running" /\ runs[task[r].run].job = task[r].job
           /\ DOMAIN runs' = DOMAIN runs
           /\ runs'[task[r].run].status = Finished(task[r].outcome)
           /\ runs'[task[r].run].job = task[r].job
           /\ \A i \in DOMAIN runs \ {task[r].run} : runs'[i] = runs[i]
           /\ task[r].job \in Jobs
           /\ last' = [last EXCEPT ![task[r].job] = Finished(task[r].outcome)]
           /\ Released(r)
           /\ UNCHANGED <<up, boot, faults>>
<1>1. /\ task[r].run # None /\ task[r].pc = "returned"
      /\ runs' = [runs EXCEPT ![task[r].run].status = Finished(task[r].outcome)]
      /\ last' = [last EXCEPT ![task[r].job] = Finished(task[r].outcome)]
      /\ UNCHANGED <<up, boot, faults>>
  BY DEF FinishRun, procVars
<1>2. /\ task[r].run \in DOMAIN runs
      /\ runs[task[r].run] = [job |-> task[r].job, status |-> "running"]
      /\ task[r].job \in Jobs
  BY <1>1 DEF IInv, FinishFindsItsRow, LockInv
<1>3. Released(r)
  BY ReleaseFacts DEF FinishRun, IInv
<1>4. /\ DOMAIN runs' = DOMAIN runs
      /\ runs'[task[r].run] = [runs[task[r].run] EXCEPT !.status = Finished(task[r].outcome)]
      /\ \A i \in DOMAIN runs \ {task[r].run} : runs'[i] = runs[i]
  BY <1>1, <1>2 DEF IInv, TypeOK
<1> QED
  BY <1>1, <1>2, <1>3, <1>4

(* A completed row is history: job_runs is append-only but for the prune,  *)
(* which drops the oldest rows of a job first, and for the completion of   *)
(* the row a task has open.                                                *)
THEOREM HistoryStaysAppendOnly == Spec => HistoryIsAppendOnly
<1> DEFINE Kept ==
      \A i \in DOMAIN runs :
         /\ (i \in DOMAIN runs' /\ runs[i].status # "running") => runs'[i] = runs[i]
         /\ i \notin DOMAIN runs' =>
               \A k \in DOMAIN runs' : runs'[k].job = runs[i].job => k > i
<1>1. ASSUME IInv, [Next]_vars PROVE Kept
  <2>1. CASE Quiet \/ Boot \/ Crash \/ \E r \in Runners : RecordFails(r)
    BY <2>1 DEF Quiet, Boot, Crash, RecordFails, histVars
  <2>2. ASSUME NEW j \in Jobs, NEW row \in Row, row.job = j, InsertAndPrune(j, row)
        PROVE  Kept
    <3>1. /\ \A i \in DOMAIN runs' \ {nextRun} : i \in DOMAIN runs /\ runs'[i] = runs[i]
          /\ \A i \in DOMAIN runs \ DOMAIN runs' :
                 runs[i].job = j /\ \A k \in RowsOf(runs', j) : k > i
      BY <1>1, <2>2, InsertFacts DEF IInv
    <3>2. nextRun \notin DOMAIN runs
      BY <1>1 DEF IInv, TypeOK
    <3> QED
      BY <3>1, <3>2 DEF RowsOf
  <2>3. ASSUME NEW r \in Runners, StartRun(r) PROVE Kept
    BY <1>1, <2>2, <2>3, OpenFacts
  <2>4. ASSUME NEW r \in Runners, RecordRun(r) PROVE Kept
    BY <1>1, <2>2, <2>4, AppendFacts
  <2>5. ASSUME NEW r \in Runners, FinishRun(r) PROVE Kept
    <3>1. /\ DOMAIN runs' = DOMAIN runs
          /\ runs[task[r].run].status = "running"
          /\ \A i \in DOMAIN runs \ {task[r].run} : runs'[i] = runs[i]
      BY <1>1, <2>5, CompleteFacts
    <3> QED
      BY <3>1
  <2> QED
    BY <1>1, <2>1, <2>3, <2>4, <2>5, QuietSteps
<1> QED
  BY <1>1, SpecIInv, PTL DEF Spec, HistoryIsAppendOnly

(* The rows a run opens or appends and those it leaves, told apart.        *)
LEMMA OpenedRows ==
    ASSUME IInv, NEW j \in Jobs, NEW row \in Row, row.job = j, InsertAndPrune(j, row)
    PROVE  /\ nextRun \notin DOMAIN runs
           /\ \A i \in DOMAIN runs' :
                 \/ i = nextRun /\ runs'[i] = row
                 \/ i \in DOMAIN runs /\ runs'[i] = runs[i] /\ i < nextRun
<1>1. DOMAIN runs \subseteq 1 .. (nextRun - 1) /\ nextRun \in Nat
  BY DEF IInv, TypeOK
<1>2. /\ runs'[nextRun] = row
      /\ \A i \in DOMAIN runs' \ {nextRun} : i \in DOMAIN runs /\ runs'[i] = runs[i]
  BY InsertFacts DEF IInv
<1> QED
  BY <1>1, <1>2

(* Every step keeps the open rows explained: a task that gives up its row  *)
(* closes it, unless a write failed.                                       *)
LEMMA ExplainedStep == IInv /\ OpenRowsExplained /\ [Next]_vars => OpenRowsExplained'
<1> SUFFICES ASSUME IInv, OpenRowsExplained, [Next]_vars,
                    up', faults' = 0,
                    NEW i \in DOMAIN runs', runs'[i].status = "running", i >= boot'
             PROVE  \E r \in Runners : task'[r].run = i
  BY DEF OpenRowsExplained
<1>0. faults = 0
  BY FaultsGrow DEF IInv
<1>1. ASSUME up, i \in DOMAIN runs, runs[i].status = "running", i >= boot
      PROVE  \E r \in Runners : task[r].run = i
  BY <1>0, <1>1 DEF OpenRowsExplained
<1>2. CASE Quiet
  BY <1>1, <1>2 DEF Quiet
<1>3. CASE Boot
  <2>1. runs' = runs /\ boot' = nextRun
    BY <1>3 DEF Boot, histVars
  <2>2. i \in 1 .. (nextRun - 1) /\ nextRun \in Nat
    BY <2>1 DEF IInv, TypeOK
  <2> QED
    BY <2>1, <2>2
<1>4. CASE Crash
  BY <1>4 DEF Crash
<1>5. ASSUME NEW r \in Runners, StartRun(r) PROVE \E s \in Runners : task'[s].run = i
  <2> DEFINE row == [job |-> task[r].job, status |-> "running"]
  <2>1. /\ InsertAndPrune(task[r].job, row) /\ row \in Row /\ row.job = task[r].job
        /\ task[r].job \in Jobs /\ task[r].run = None /\ nextRun # None
        /\ task'[r].run = nextRun /\ \A s \in Runners \ {r} : task'[s] = task[s]
        /\ UNCHANGED <<up, boot>>
    BY <1>5, OpenFacts
  <2>2. CASE i = nextRun
    BY <2>1, <2>2
  <2>3. CASE i # nextRun
    <3>1. i \in DOMAIN runs /\ runs'[i] = runs[i]
      BY <2>1, <2>3, OpenedRows
    <3>4. i \in Nat
      BY <3>1 DEF IInv, TypeOK
    <3>2. PICK s \in Runners : task[s].run = i
      BY <1>1, <2>1, <3>1
    <3>3. s # r
      BY <2>1, <3>2, <3>4, ConstantsAssumption
    <3> QED
      BY <2>1, <3>2, <3>3
  <2> QED
    BY <2>2, <2>3
<1>6. ASSUME NEW r \in Runners, RecordRun(r) PROVE \E s \in Runners : task'[s].run = i
  <2> DEFINE row == [job |-> task[r].job, status |-> Finished(task[r].outcome)]
  <2>1. /\ InsertAndPrune(task[r].job, row) /\ row \in Row /\ row.job = task[r].job
        /\ task[r].job \in Jobs /\ task[r].run = None
        /\ Released(r) /\ UNCHANGED <<up, boot>>
    BY <1>6, AppendFacts
  <2>2. row.status # "running"
    BY DEF Finished
  <2> HIDE DEF row
  <2>3. i \in DOMAIN runs /\ runs'[i] = runs[i]
    BY <2>1, <2>2, OpenedRows
  <2>6. i \in Nat
    BY <2>3 DEF IInv, TypeOK
  <2>4. PICK s \in Runners : task[s].run = i
    BY <1>1, <2>1, <2>3
  <2>5. s # r
    BY <2>1, <2>4, <2>6, ConstantsAssumption
  <2> QED
    BY <2>1, <2>4, <2>5 DEF Released
<1>7. ASSUME NEW r \in Runners, FinishRun(r) PROVE \E s \in Runners : task'[s].run = i
  <2>0. Finished(task[r].outcome) # "running"
    BY DEF Finished
  <2>4. /\ DOMAIN runs' = DOMAIN runs /\ Released(r) /\ UNCHANGED <<up, boot>>
        /\ runs'[task[r].run].status = Finished(task[r].outcome)
        /\ \A k \in DOMAIN runs \ {task[r].run} : runs'[k] = runs[k]
    BY <1>7, CompleteFacts
  <2>1. /\ i \in DOMAIN runs /\ Released(r) /\ UNCHANGED <<up, boot>>
        /\ runs'[task[r].run].status # "running"
        /\ \A k \in DOMAIN runs \ {task[r].run} : runs'[k] = runs[k]
    BY <2>0, <2>4
  <2>2. i # task[r].run /\ runs[i].status = "running"
    BY <2>1
  <2>3. PICK s \in Runners : task[s].run = i
    BY <1>1, <2>1, <2>2
  <2> QED
    BY <2>1, <2>2, <2>3 DEF Released
<1>8. ASSUME NEW r \in Runners, RecordFails(r) PROVE \E s \in Runners : task'[s].run = i
  <2>1. /\ Released(r) /\ UNCHANGED <<up, boot, runs>>
    BY <1>8, ReleaseFacts DEF RecordFails, IInv, procVars
  <2>2. faults \in Nat
    BY DEF IInv, TypeOK
  <2>3. task[r].run # None =>
           ~(task[r].run \in DOMAIN runs /\ runs[task[r].run].status = "running")
    BY <1>0, <1>8, <2>2 DEF RecordFails, WriteFails
  <2>4. i \in DOMAIN runs /\ i \in Nat
    BY <2>1 DEF IInv, TypeOK
  <2>5. i # task[r].run
    BY <2>1, <2>3, <2>4, ConstantsAssumption
  <2>6. PICK s \in Runners : task[s].run = i
    BY <1>1, <2>1, <2>4
  <2> QED
    BY <2>1, <2>5, <2>6 DEF Released
<1> QED
  BY <1>2, <1>3, <1>4, <1>5, <1>6, <1>7, <1>8, QuietSteps

(* "A run recorded as running is therefore either in flight now or one the *)
(* process did not survive": while no write has failed, every open row of  *)
(* this process belongs to a task still at work.                           *)
THEOREM OpenRowsStayExplained == Spec => []OpenRowsExplained
<1>1. Init => OpenRowsExplained
  BY DEF Init, OpenRowsExplained
<1> QED
  BY <1>1, ExplainedStep, SpecIInv, PTL DEF Spec

(* The row of a task in flight is the newest of its job, since no other    *)
(* run of the job can open one behind it.                                  *)
RowIsNewest ==
    \A r \in Runners : task[r].run # None =>
        \A k \in RowsOf(runs, task[r].job) : k <= task[r].run

(* No row of job j is open in a task. *)
Settled(j) == \A r \in Runners : task[r].job = j => task[r].run = None

(* The newest row of job j holds its latest result. *)
NewestHolds(j) ==
    \E m \in RowsOf(runs, j) : /\ \A k \in RowsOf(runs, j) : k <= m
                               /\ runs[m].status = last[j]

(* LatestRowIsLatestRun without the CHOOSE, with what FinishRun needs. *)
LatestInv ==
    /\ RowIsNewest
    /\ \A j \in Jobs : (last[j] # None /\ Settled(j)) => NewestHolds(j)

(* An insert and its prune leave the other jobs' rows as they are, and its *)
(* own row is the newest of its job.                                       *)
LEMMA OthersRows ==
    ASSUME IInv, NEW j \in Jobs, NEW row \in Row, row.job = j, InsertAndPrune(j, row)
    PROVE  /\ \A k \in Jobs \ {j} :
                 /\ RowsOf(runs', k) = RowsOf(runs, k)
                 /\ \A i \in RowsOf(runs, k) : runs'[i] = runs[i]
           /\ nextRun \in RowsOf(runs', j) /\ runs'[nextRun] = row
           /\ \A i \in RowsOf(runs', j) : i <= nextRun
<1>1. /\ nextRun \in Nat /\ nextRun \notin DOMAIN runs
      /\ nextRun \in DOMAIN runs' /\ runs'[nextRun] = row
      /\ DOMAIN runs' \subseteq 1 .. nextRun
      /\ \A i \in DOMAIN runs : runs[i].job # j => i \in DOMAIN runs' /\ runs'[i] = runs[i]
      /\ \A i \in DOMAIN runs' \ {nextRun} : i \in DOMAIN runs /\ runs'[i] = runs[i]
  <2>1. nextRun \in Nat /\ nextRun \notin DOMAIN runs
    BY DEF IInv, TypeOK
  <2> QED
    BY <2>1, InsertFacts DEF IInv
<1>2. ASSUME NEW k \in Jobs \ {j}
      PROVE  /\ RowsOf(runs', k) = RowsOf(runs, k)
             /\ \A i \in RowsOf(runs, k) : runs'[i] = runs[i]
  BY <1>1 DEF RowsOf
<1>3. nextRun \in RowsOf(runs', j) /\ \A i \in RowsOf(runs', j) : i <= nextRun
  BY <1>1 DEF RowsOf
<1> QED
  BY <1>1, <1>2, <1>3

(* A job whose rows, result and open tasks a step leaves alone.            *)
LEMMA JobUntouched ==
    ASSUME LatestInv, NEW j \in Jobs, last'[j] = last[j],
           RowsOf(runs', j) = RowsOf(runs, j),
           \A i \in RowsOf(runs, j) : runs'[i] = runs[i],
           Settled(j)' => Settled(j)
    PROVE  (last'[j] # None /\ Settled(j)') => NewestHolds(j)'
<1> SUFFICES ASSUME last[j] # None, Settled(j) PROVE NewestHolds(j)'
  OBVIOUS
<1>1. NewestHolds(j)
  BY DEF LatestInv
<1>2. PICK m \in RowsOf(runs, j) : /\ \A k \in RowsOf(runs, j) : k <= m
                                   /\ runs[m].status = last[j]
  BY <1>1 DEF NewestHolds
<1>3. /\ m \in RowsOf(runs', j) /\ \A k \in RowsOf(runs', j) : k <= m
      /\ runs'[m].status = last'[j]
  BY <1>2
<1> QED
  BY <1>3 DEF NewestHolds

(* A step that leaves the tables, the results and the open rows alone.     *)
LEMMA QuietLatest == IInv /\ LatestInv /\ Quiet => LatestInv'
<1> SUFFICES ASSUME LatestInv, Quiet PROVE LatestInv'
  OBVIOUS
<1>1. RowIsNewest'
  BY DEF LatestInv, RowIsNewest, Quiet
<1>2. ASSUME NEW j \in Jobs PROVE (last'[j] # None /\ Settled(j)') => NewestHolds(j)'
  <2>1. Settled(j)' => Settled(j)
    BY DEF Settled, Quiet
  <2> QED
    BY <2>1, JobUntouched DEF Quiet
<1> QED
  BY <1>1, <1>2 DEF LatestInv

(* A run that opens its row: no result of its job counts until it ends.    *)
LEMMA StartLatest ==
    ASSUME IInv, LatestInv, NEW r \in Runners, StartRun(r)
    PROVE  LatestInv'
<1> DEFINE j == task[r].job
           row == [job |-> task[r].job, status |-> "running"]
<1>1. /\ InsertAndPrune(j, row) /\ row \in Row /\ row.job = j /\ j \in Jobs
      /\ task[r].run = None /\ task'[r].run = nextRun /\ task'[r].job = j
      /\ nextRun # None /\ last' = last
      /\ \A s \in Runners \ {r} : task'[s] = task[s]
  BY OpenFacts
<1> HIDE DEF row
<1>2. /\ \A k \in Jobs \ {j} : /\ RowsOf(runs', k) = RowsOf(runs, k)
                               /\ \A i \in RowsOf(runs, k) : runs'[i] = runs[i]
      /\ \A i \in RowsOf(runs', j) : i <= nextRun
  BY <1>1, OthersRows
<1>3. ASSUME NEW s \in Runners, s # r, task[s].run # None
      PROVE  task[s].job \in Jobs \ {j}
  BY <1>3 DEF IInv, LockInv, StartRun
<1> HIDE DEF j
<1>4. RowIsNewest'
  <2>1. ASSUME NEW s \in Runners, task'[s].run # None,
               NEW k \in RowsOf(runs', task'[s].job)
        PROVE  k <= task'[s].run
    <3>1. CASE s = r
      BY <1>1, <1>2, <2>1, <3>1
    <3>2. CASE s # r
      <4>1. task'[s] = task[s] /\ task[s].job \in Jobs \ {j}
        BY <1>1, <1>3, <2>1, <3>2
      <4>2. k \in RowsOf(runs, task[s].job)
        BY <1>2, <2>1, <4>1
      <4> QED
        BY <2>1, <4>1, <4>2 DEF LatestInv, RowIsNewest
    <3> QED
      BY <3>1, <3>2
  <2> QED
    BY <2>1 DEF RowIsNewest
<1>5. ASSUME NEW k \in Jobs PROVE (last'[k] # None /\ Settled(k)') => NewestHolds(k)'
  <2>1. CASE k = j
    BY <1>1, <2>1 DEF Settled
  <2>2. CASE k # j
    <3>1. Settled(k)' => Settled(k)
      BY <1>1, <2>2 DEF Settled
    <3> QED
      BY <1>1, <1>2, <2>2, <3>1, JobUntouched
  <2> QED
    BY <2>1, <2>2
<1> QED
  BY <1>4, <1>5 DEF LatestInv

(* A run that ends: its own row, completed or appended, is the newest of   *)
(* its job and holds the result; one that could not be recorded leaves no  *)
(* result.                                                                 *)
LEMMA EndLatest ==
    ASSUME IInv, LatestInv, NEW r \in Runners, task[r].pc = "returned", Released(r),
           NEW m, NEW s, last' = [last EXCEPT ![task[r].job] = s],
           \A k \in Jobs \ {task[r].job} :
              /\ RowsOf(runs', k) = RowsOf(runs, k)
              /\ \A i \in RowsOf(runs, k) : runs'[i] = runs[i],
           s = None \/ /\ m \in RowsOf(runs', task[r].job)
                       /\ \A i \in RowsOf(runs', task[r].job) : i <= m
                       /\ runs'[m].status = s
    PROVE  LatestInv'
<1> DEFINE j == task[r].job
<1>1. j \in Jobs /\ last \in [Jobs -> Statuses \cup {None}]
  BY DEF IInv, LockInv, TypeOK
<1>2. /\ task'[r].run = None /\ task'[r].job = None
      /\ \A t \in Runners \ {r} : task'[t] = task[t]
  BY DEF Released
<1>3. ASSUME NEW t \in Runners, t # r, task[t].run # None
      PROVE  task[t].job \in Jobs \ {j}
  BY <1>3 DEF IInv, LockInv
<1>4. RowIsNewest'
  <2>1. ASSUME NEW t \in Runners, task'[t].run # None,
               NEW k \in RowsOf(runs', task'[t].job)
        PROVE  k <= task'[t].run
    <3>1. t # r /\ task'[t] = task[t]
      BY <1>2, <2>1
    <3>2. task[t].job \in Jobs \ {j} /\ task[t].run # None
      BY <1>3, <2>1, <3>1
    <3>3. k \in RowsOf(runs, task[t].job)
      BY <2>1, <3>1, <3>2
    <3> QED
      BY <3>1, <3>2, <3>3 DEF LatestInv, RowIsNewest
  <2> QED
    BY <2>1 DEF RowIsNewest
<1>5. ASSUME NEW k \in Jobs PROVE (last'[k] # None /\ Settled(k)') => NewestHolds(k)'
  <2>1. CASE k = j
    <3>1. last'[j] = s
      BY <1>1
    <3> QED
      BY <2>1, <3>1 DEF NewestHolds
  <2>2. CASE k # j
    <3>1. Settled(k)' => Settled(k)
      BY <1>2, <2>2 DEF Settled
    <3>2. last'[k] = last[k]
      BY <1>1, <2>2
    <3> QED
      BY <2>2, <3>1, <3>2, JobUntouched
  <2> QED
    BY <2>1, <2>2
<1> QED
  BY <1>4, <1>5 DEF LatestInv

(* Every step keeps each job's newest row in line with its latest result.  *)
LEMMA LatestStep == IInv /\ LatestInv /\ [Next]_vars => LatestInv'
<1> SUFFICES ASSUME IInv, LatestInv, [Next]_vars PROVE LatestInv'
  OBVIOUS
<1>1. CASE Quiet
  BY <1>1, QuietLatest
<1>2. CASE Boot
  BY <1>2 DEF Boot, runVars, histVars, LatestInv, RowIsNewest, Settled, NewestHolds
<1>3. CASE Crash
  BY <1>3 DEF Crash, NoTask, LatestInv, RowIsNewest
<1>4. ASSUME NEW r \in Runners, StartRun(r) PROVE LatestInv'
  BY <1>4, StartLatest
<1>5. ASSUME NEW r \in Runners, RecordRun(r) PROVE LatestInv'
  <2> DEFINE s == Finished(task[r].outcome)
             row == [job |-> task[r].job, status |-> Finished(task[r].outcome)]
  <2>1. /\ InsertAndPrune(task[r].job, row) /\ row \in Row /\ row.job = task[r].job
        /\ row.status = s /\ task[r].job \in Jobs /\ Released(r)
        /\ last' = [last EXCEPT ![task[r].job] = s]
    BY <1>5, AppendFacts
  <2>2. task[r].pc = "returned"
    BY <1>5 DEF RecordRun
  <2> HIDE DEF row, s
  <2>3. /\ \A k \in Jobs \ {task[r].job} :
              /\ RowsOf(runs', k) = RowsOf(runs, k)
              /\ \A i \in RowsOf(runs, k) : runs'[i] = runs[i]
        /\ nextRun \in RowsOf(runs', task[r].job) /\ runs'[nextRun] = row
        /\ \A i \in RowsOf(runs', task[r].job) : i <= nextRun
    BY <2>1, OthersRows
  <2> QED
    BY <2>1, <2>2, <2>3, EndLatest
<1>6. ASSUME NEW r \in Runners, FinishRun(r) PROVE LatestInv'
  <2> DEFINE s == Finished(task[r].outcome)
             m == task[r].run
  <2>1. /\ m # None /\ m \in DOMAIN runs
        /\ runs[m].job = task[r].job /\ runs'[m].job = task[r].job
        /\ DOMAIN runs' = DOMAIN runs /\ runs'[m].status = s
        /\ \A i \in DOMAIN runs \ {m} : runs'[i] = runs[i]
        /\ last' = [last EXCEPT ![task[r].job] = s] /\ Released(r)
    BY <1>6, CompleteFacts
  <2>2. task[r].pc = "returned"
    BY <1>6 DEF FinishRun
  <2>3. \A k : RowsOf(runs', k) = RowsOf(runs, k)
    BY <2>1 DEF RowsOf
  <2>4. ASSUME NEW k \in Jobs \ {task[r].job}, NEW i \in RowsOf(runs, k)
        PROVE  runs'[i] = runs[i]
    BY <2>1, <2>4 DEF RowsOf
  <2>5. m \in RowsOf(runs', task[r].job) /\ \A i \in RowsOf(runs', task[r].job) : i <= m
    <3>1. m \in RowsOf(runs, task[r].job)
      BY <2>1 DEF RowsOf
    <3> QED
      BY <2>1, <2>3, <3>1 DEF LatestInv, RowIsNewest
  <2> HIDE DEF s, m
  <2> QED
    BY <2>1, <2>2, <2>3, <2>4, <2>5, EndLatest
<1>7. ASSUME NEW r \in Runners, RecordFails(r) PROVE LatestInv'
  <2>1. /\ Released(r) /\ runs' = runs /\ task[r].pc = "returned"
        /\ last' = [last EXCEPT ![task[r].job] = None]
    BY <1>7, ReleaseFacts DEF RecordFails, IInv
  <2> QED
    BY <2>1, EndLatest
<1> QED
  BY <1>1, <1>2, <1>3, <1>4, <1>5, <1>6, <1>7, QuietSteps

(* GET /jobs is right about last_status: the newest row of a job with no   *)
(* run in flight is the result of the latest run that was recorded.        *)
THEOREM LatestRowStaysLatestRun == Spec => []LatestRowIsLatestRun
<1>1. Init => LatestInv
  BY DEF Init, LatestInv, RowIsNewest, NoTask
<1>2. IInv /\ LatestInv => LatestRowIsLatestRun
  <2> SUFFICES ASSUME IInv, LatestInv, NEW j \in Jobs, last[j] # None, Settled(j)
               PROVE  RowsOf(runs, j) # {} /\ runs[Latest(j)].status = last[j]
    BY DEF LatestRowIsLatestRun, Settled
  <2>1. PICK m \in RowsOf(runs, j) : /\ \A k \in RowsOf(runs, j) : k <= m
                                     /\ runs[m].status = last[j]
    BY DEF LatestInv, NewestHolds
  <2>2. RowsOf(runs, j) \subseteq Nat
    BY DEF RowsOf, IInv, TypeOK
  <2>3. /\ Latest(j) \in RowsOf(runs, j)
        /\ \A k \in RowsOf(runs, j) : k <= Latest(j)
    BY <2>1 DEF Latest
  <2>4. Latest(j) = m
    BY <2>1, <2>2, <2>3
  <2> QED
    BY <2>1, <2>4
<1> QED
  BY <1>1, <1>2, LatestStep, SpecIInv, PTL DEF Spec

-----------------------------------------------------------------------------
(* What job_schedule tells its readers. *)

(* The row a loop knows is its own, and past its claim it knows one unless *)
(* a write has failed.                                                     *)
ScheduleInv ==
    \A e \in Entries :
        /\ entry[e].row # None => entry[e].row \in DOMAIN sched /\ sched[entry[e].row] = e
        /\ (faults = 0 /\ entry[e].pc \in {"compute", "sleep", "run", "stopped"})
              => entry[e].row # None

(* StoredSchedule::record keeps every loop's row its own. *)
LEMMA RecordSchedule ==
    ASSUME IInv, ScheduleInv, NEW e \in Entries, NEW pc \in EntryPcs, Record(e, pc),
           faults' = 0 => faults = 0
    PROVE  ScheduleInv'
<1> DEFINE row == entry[e].row
<1>1. /\ entry \in [Entries -> [pc: EntryPcs, row: Nat \cup {None}]]
      /\ faults \in Nat /\ DOMAIN sched \subseteq Nat /\ None \notin DOMAIN sched
  BY ConstantsAssumption DEF IInv, TypeOK
<1>2. CASE row \in DOMAIN sched /\ entry' = [entry EXCEPT ![e].pc = pc]
           /\ UNCHANGED <<faults, sched>>
  BY <1>1, <1>2 DEF ScheduleInv
<1>3. CASE row \notin DOMAIN sched /\ ClaimRow(e, pc)
  <2>1. PICK i \in 1 .. MaxSchedId :
          /\ \A k \in DOMAIN sched : k < i
          /\ sched' = [k \in DOMAIN sched \cup {i} |-> IF k = i THEN e ELSE sched[k]]
          /\ entry' = [entry EXCEPT ![e] = [pc |-> pc, row |-> i]]
    BY <1>3 DEF ClaimRow
  <2>2. i # None /\ i \notin DOMAIN sched
    BY <1>1, <2>1, ConstantsAssumption
  <2>3. /\ DOMAIN sched' = DOMAIN sched \cup {i} /\ sched'[i] = e
        /\ \A k \in DOMAIN sched : sched'[k] = sched[k]
    BY <2>1, <2>2
  <2>4. /\ entry'[e].row = i /\ \A f \in Entries \ {e} : entry'[f] = entry[f]
    BY <1>1, <2>1
  <2> QED
    BY <2>2, <2>3, <2>4 DEF ScheduleInv
<1>4. CASE /\ WriteFails /\ UNCHANGED sched
           /\ \E r \in {row, IF row \in DOMAIN sched THEN row ELSE None} :
                 entry' = [entry EXCEPT ![e] = [pc |-> pc, row |-> r]]
  <2>1. faults' # 0
    BY <1>1, <1>4 DEF WriteFails
  <2>2. /\ entry'[e].row \in {row, None} /\ sched' = sched
        /\ \A f \in Entries \ {e} : entry'[f] = entry[f]
    BY <1>1, <1>4
  <2> QED
    BY <2>1, <2>2 DEF ScheduleInv
<1> QED
  BY <1>2, <1>3, <1>4 DEF Record

(* Every step keeps the stored schedule in line with the loops. *)
LEMMA ScheduleStep == IInv /\ ScheduleInv /\ [Next]_vars => ScheduleInv'
<1> SUFFICES ASSUME IInv, ScheduleInv, [Next]_vars PROVE ScheduleInv'
  OBVIOUS
<1> USE DEF entryVars
<1>1. faults' = 0 => faults = 0
  BY FaultsGrow DEF IInv
<1>2. entry \in [Entries -> [pc: EntryPcs, row: Nat \cup {None}]]
  BY DEF IInv, TypeOK
<1>3. ASSUME entry' = entry, sched' = sched PROVE ScheduleInv'
  BY <1>1, <1>3 DEF ScheduleInv
<1>4. CASE Boot \/ Crash
  BY <1>4 DEF Boot, Crash, ScheduleInv
<1>5. ASSUME NEW q \in Requests, Disconnect(q) \/ \E j \in Jobs : Trigger(q, j)
      PROVE  ScheduleInv'
  BY <1>3, <1>5 DEF Disconnect, Trigger
<1>6. ASSUME NEW r \in Runners, Acquire(r) \/ StartRun(r) \/ StartRunFails(r) \/ WorkEnds(r)
      PROVE  ScheduleInv'
  BY <1>3, <1>6 DEF Acquire, StartRun, StartRunFails, WorkEnds
<1>7. ASSUME NEW r \in Runners, FinishRun(r) \/ RecordRun(r) \/ RecordFails(r)
      PROVE  ScheduleInv'
  <2>1. task[r].pc = "returned" /\ Release(r)
    BY <1>7 DEF FinishRun, RecordRun, RecordFails
  <2>2. r \in Entries => entry[r].pc = "run"
    BY <2>1 DEF IInv, EntryInv
  <2>3. /\ sched' = sched
        /\ \A e \in Entries : entry'[e].row = entry[e].row
        /\ \A e \in Entries \ {r} : entry'[e] = entry[e]
    BY <1>2, <2>1 DEF Release
  <2> QED
    BY <1>1, <2>2, <2>3 DEF ScheduleInv
<1>8. ASSUME NEW e \in Entries, ClaimAtStart(e) \/ StoreNext(e) \/ Recompute(e)
      PROVE  ScheduleInv'
  <2>1. Record(e, "compute") \/ Record(e, "sleep")
    BY <1>8 DEF ClaimAtStart, StoreNext, Recompute
  <2> QED
    BY <1>1, <2>1, RecordSchedule DEF EntryPcs
<1>9. ASSUME NEW e \in Entries, Stop(e) \/ Fire(e) PROVE ScheduleInv'
  <2>1. /\ sched' = sched /\ faults' = faults
        /\ \A f \in Entries : entry'[f].row = entry[f].row
        /\ \A f \in Entries \ {e} : entry'[f] = entry[f]
        /\ entry[e].pc \in {"compute", "sleep"}
    BY <1>2, <1>9 DEF Stop, Fire
  <2> QED
    BY <2>1 DEF ScheduleInv
<1>10. CASE UNCHANGED vars
  BY <1>3, <1>10 DEF vars
<1> QED
  BY <1>4, <1>5, <1>6, <1>7, <1>8, <1>9, <1>10 DEF Next, TaskStep, EntryStep

(* job_schedule describes the schedule the process executes: no loop ever  *)
(* updates another's row or one that is gone, and one that has given up    *)
(* leaves its row for the health report.                                   *)
THEOREM ScheduleRowsStayOwned == Spec => []ScheduleRowsOwned
<1>1. Init => ScheduleInv
  BY DEF Init, ScheduleInv
<1>2. ScheduleInv => ScheduleRowsOwned
  BY DEF ScheduleInv, ScheduleRowsOwned
<1> QED
  BY <1>1, <1>2, ScheduleStep, SpecIInv, PTL DEF Spec

-----------------------------------------------------------------------------
(* Scheduler implements JobService. *)

(* A step that neither admits a runner to a job nor lets one go changes    *)
(* nobody's view of who is at work.                                        *)
LEMMA SameAtWork ==
    ASSUME \A r \in Runners : /\ task'[r].job = task[r].job
                              /\ task'[r].pc \in {"locked", "working", "returned"}
                                 <=> task[r].pc \in {"locked", "working", "returned"}
    PROVE  [j \in Jobs |-> AtWork(j)]' = [j \in Jobs |-> AtWork(j)]
<1>1. \A j \in Jobs : AtWork(j)' = AtWork(j)
  BY DEF AtWork
<1> QED
  BY <1>1

(* A runner that asks for a run only queues. *)
LEMMA EnqueueAtWork ==
    ASSUME TypeOK, NEW r \in Runners, NEW j \in Jobs, task[r].pc = "none", Enqueue(r, j)
    PROVE  [k \in Jobs |-> AtWork(k)]' = [k \in Jobs |-> AtWork(k)]
<1>1. \A s \in Runners : s # r => task'[s] = task[s]
  BY DEF Enqueue, TypeOK
<1>2. task'[r].pc = "queued"
  BY DEF Enqueue, TypeOK, NoTask
<1>3. ASSUME NEW k \in Jobs
      PROVE  AtWork(k)' = AtWork(k)
  BY <1>1, <1>2 DEF AtWork
<1> QED
  BY <1>3

(* Releasing the lock of a job leaves nobody at work on it. *)
LEMMA ReleaseAtWork ==
    ASSUME IInv, NEW r \in Runners, task[r].pc = "returned", Release(r),
           NEW j, j = task[r].job
    PROVE  /\ j \in Jobs
           /\ [k \in Jobs |-> AtWork(k)][j] # {}
           /\ [k \in Jobs |-> AtWork(k)]' = [[k \in Jobs |-> AtWork(k)] EXCEPT ![j] = {}]
<1>1. j \in Jobs /\ holder[j] = r
  BY DEF IInv, LockInv
<1>2. \A s \in Runners : s # r => task'[s] = task[s]
  BY DEF Release, IInv, TypeOK
<1>3. task'[r].pc = "none"
  BY DEF Release, IInv, TypeOK, NoTask
<1>4. AtWork(j) # {}
  BY DEF AtWork
<1>5. AtWork(j)' = {}
  <2>1. ASSUME NEW s \in Runners, s # r, task[s].job = j,
               task[s].pc \in {"locked", "working", "returned"}
        PROVE  FALSE
    BY <1>1, <2>1 DEF IInv, LockInv
  <2> QED
    BY <1>2, <1>3, <2>1 DEF AtWork
<1>6. \A k \in Jobs : k # j => AtWork(k)' = AtWork(k)
  BY <1>2, <1>3 DEF AtWork
<1> QED
  BY <1>1, <1>4, <1>5, <1>6

(* Acquiring the lock of a job puts one runner to work where there was     *)
(* none.                                                                   *)
LEMMA AcquireAtWork ==
    ASSUME IInv, NEW r \in Runners, Acquire(r), NEW j, j = task[r].job
    PROVE  Service!Begin(j, r) /\ j \in Jobs
<1>1. j \in Jobs /\ holder[j] = None
  BY DEF Acquire, IInv, LockInv
<1>2. \A s \in Runners : s # r => task'[s] = task[s]
  BY DEF Acquire, IInv, TypeOK
<1>3. task'[r].pc = "locked" /\ task'[r].job = j
  BY DEF Acquire, IInv, TypeOK, Task
<1>4. AtWork(j) = {}
  BY <1>1, ConstantsAssumption DEF AtWork, IInv, LockInv, Runners
<1>5. AtWork(j)' = {r}
  BY <1>2, <1>3, <1>4 DEF AtWork
<1>6. \A k \in Jobs : k # j => AtWork(k)' = AtWork(k)
  BY <1>2, <1>3 DEF AtWork
<1>7. [k \in Jobs |-> AtWork(k)]' = [[k \in Jobs |-> AtWork(k)] EXCEPT ![j] = {r}]
  BY <1>1, <1>5, <1>6
<1>8. last' = last
  BY DEF Acquire, histVars
<1> QED
  BY <1>1, <1>4, <1>7, <1>8 DEF Service!Begin

(* Every step of the scheduler is a step of the service, or none of it. *)
LEMMA StepImplements ==
    ASSUME IInv, [Next]_vars
    PROVE  [Service!ServiceNext]_(Service!serviceVars)
<1> DEFINE Same == [j \in Jobs |-> AtWork(j)]' = [j \in Jobs |-> AtWork(j)] /\ last' = last
<1>1. ASSUME Same PROVE [Service!ServiceNext]_(Service!serviceVars)
  BY <1>1 DEF Service!serviceVars
<1>2. ASSUME UNCHANGED <<task, last>> PROVE Same
  BY <1>2, SameAtWork
<1> HIDE DEF Same
<1>3. CASE Boot
  BY <1>1, <1>2, <1>3 DEF Boot, runVars, histVars
<1>4. CASE Crash
  <2>1. \A r \in Runners : task'[r].pc = "none"
    BY <1>4 DEF Crash, NoTask
  <2>2. \A j \in Jobs : AtWork(j)' = {}
    BY <2>1 DEF AtWork
  <2>3. Service!Restart
    BY <1>4, <2>2 DEF Service!Restart, Crash
  <2> QED
    BY <2>3 DEF Service!ServiceNext
<1>5. ASSUME NEW q \in Requests, Disconnect(q)
      PROVE  [Service!ServiceNext]_(Service!serviceVars)
  BY <1>1, <1>2, <1>5 DEF Disconnect, histVars
<1>6. ASSUME NEW q \in Requests, NEW j \in Jobs, Trigger(q, j)
      PROVE  [Service!ServiceNext]_(Service!serviceVars)
  BY <1>1, <1>6, EnqueueAtWork DEF Trigger, histVars, IInv, Runners, Same
<1>7. ASSUME NEW r \in Runners, Acquire(r)
      PROVE  [Service!ServiceNext]_(Service!serviceVars)
  BY <1>7, AcquireAtWork DEF Service!ServiceNext
<1>8. ASSUME NEW r \in Runners, StartRun(r) \/ StartRunFails(r) \/ WorkEnds(r)
      PROVE  [Service!ServiceNext]_(Service!serviceVars)
  <2>1. \A s \in Runners : s # r => task'[s] = task[s]
    BY <1>8 DEF StartRun, StartRunFails, WorkEnds, IInv, TypeOK
  <2>2. /\ task'[r].job = task[r].job
        /\ task[r].pc \in {"locked", "working"}
        /\ task'[r].pc \in {"working", "returned"}
    BY <1>8 DEF StartRun, StartRunFails, WorkEnds, IInv, TypeOK, Task
  <2>3. last' = last
    BY <1>8 DEF StartRun, StartRunFails, WorkEnds, histVars
  <2> QED
    BY <1>1, <2>1, <2>2, <2>3, SameAtWork DEF Same
<1>9. ASSUME NEW r \in Runners, FinishRun(r) \/ RecordRun(r) \/ RecordFails(r)
      PROVE  [Service!ServiceNext]_(Service!serviceVars)
  <2>1. task[r].pc = "returned" /\ Release(r)
    BY <1>9 DEF FinishRun, RecordRun, RecordFails
  <2>2. PICK s \in {"ok", "failed", None} : last' = [last EXCEPT ![task[r].job] = s]
    BY <1>9 DEF FinishRun, RecordRun, RecordFails, Finished
  <2>3. Service!End(task[r].job) /\ task[r].job \in Jobs
    BY <2>1, <2>2, ReleaseAtWork DEF Service!End
  <2> QED
    BY <2>3 DEF Service!ServiceNext
<1>10. ASSUME NEW e \in Entries,
              ClaimAtStart(e) \/ StoreNext(e) \/ Recompute(e) \/ Stop(e)
       PROVE  [Service!ServiceNext]_(Service!serviceVars)
  BY <1>1, <1>2, <1>10 DEF ClaimAtStart, StoreNext, Recompute, Stop, runVars, histVars
<1>11. ASSUME NEW e \in Entries, Fire(e)
       PROVE  [Service!ServiceNext]_(Service!serviceVars)
  <2>1. task[e].pc = "none"
    BY <1>11 DEF Fire, IInv, EntryInv
  <2>2. e \in Runners /\ EntryJob[e] \in Jobs
    BY ConstantsAssumption DEF Runners
  <2> QED
    BY <1>1, <1>11, <2>1, <2>2, EnqueueAtWork DEF Fire, histVars, IInv, Same
<1>12. CASE UNCHANGED vars
  BY <1>1, <1>2, <1>12 DEF vars
<1> QED
  BY <1>3, <1>4, <1>5, <1>6, <1>7, <1>8, <1>9, <1>10, <1>11, <1>12
  DEF Next, TaskStep, EntryStep

(* The scheduler implements the service it promises its runners, for every *)
(* set of jobs, entries and requests: one run of a job at a time, and a    *)
(* published result that changes only when that run ends.                  *)
THEOREM SchedulerImplementsJobService == Spec => ImplementsJobService
<1>1. Init => Service!ServiceInit
  BY DEF Init, Service!ServiceInit, AtWork, NoTask
<1>2. IInv /\ [Next]_vars => [Service!ServiceNext]_(Service!serviceVars)
  BY StepImplements
<1> QED
  BY <1>1, <1>2, SpecIInv, PTL DEF Spec, ImplementsJobService, Service!ServiceSpec

-----------------------------------------------------------------------------
(* The clock of an entry: days and hours. *)

\* w is r ticks into day a, of d ticks.
Divides(d, w, a, r) == /\ a = w \div d /\ r = w % d /\ a \in Int /\ r \in 0 .. (d - 1)
                       /\ w = a * d + r

\* Every tick is in a day.
LEMMA Division ==
    ASSUME NEW d \in Int, d > 0, NEW w \in Int
    PROVE  \E a, r \in Int : Divides(d, w, a, r)
<1>1. w \div d \in Int /\ w % d \in Int /\ w % d >= 0 /\ w % d < d
  OBVIOUS
<1>2. (w \div d) * d + (w % d) = w
  BY SMTT(30)
<1>3. PICK a \in Int, r \in Int : a = w \div d /\ r = w % d
  BY <1>1
<1>4. r >= 0 /\ r < d /\ a * d + r = w
  BY <1>1, <1>2, <1>3
<1> QED
  BY <1>3, <1>4 DEF Divides

\* And in no other.
LEMMA DivisionIs ==
    ASSUME NEW d \in Int, d > 0, NEW q \in Int, NEW r \in Int, 0 <= r, r < d,
           NEW w, w = q * d + r
    PROVE  w \div d = q /\ w % d = r
BY SMTT(30)

\* Two ticks of the same hour are whole days apart.
LEMMA SameHour ==
    ASSUME NEW d \in Int, d > 0, NEW w \in Int, NEW v \in Int, w % d = v % d, w < v
    PROVE  v >= w + d
<1>1. PICK a \in Int, h \in Int : Divides(d, w, a, h)
  BY Division
<1>2. PICK b \in Int, k \in Int : Divides(d, v, b, k)
  BY Division
<1>3. h = k
  BY <1>1, <1>2 DEF Divides
<1>4. v - w = (b - a) * d
  BY <1>1, <1>2, <1>3 DEF Divides
<1>5. b - a >= 1
  BY <1>4
<1>6. (b - a) * d >= d
  BY <1>5
<1> QED
  BY <1>4, <1>6

\* A day later it is the same hour of the next day.
LEMMA NextDay ==
    ASSUME NEW d \in Int, d > 0, NEW w \in Int
    PROVE  /\ (w + d) % d = w % d /\ (w + d) \div d = w \div d + 1
           /\ (w - d) % d = w % d
<1>1. PICK a \in Int, h \in Int : Divides(d, w, a, h)
  BY Division
<1>2. PICK x \in Int, y \in Int, a1 \in Int, a2 \in Int :
         x = w + d /\ y = w - d /\ a1 = a + 1 /\ a2 = a - 1
  OBVIOUS
<1>3. x = a1 * d + h /\ y = a2 * d + h
  BY <1>1, <1>2 DEF Divides
<1>4. 0 <= h /\ h < d
  BY <1>1 DEF Divides
<1>5. x \div d = a1 /\ x % d = h /\ y % d = h
  BY <1>3, <1>4, DivisionIs
<1>6. h = w % d /\ a = w \div d
  BY <1>1 DEF Divides
<1> HIDE <1>1, <1>3
<1> QED
  BY <1>2, <1>5, <1>6

-----------------------------------------------------------------------------
(* The occurrences of an entry, one of each day. *)

Quarter == DayTicks \div 4

Zone ==
    /\ hour \in 0 .. (DayTicks - 1)
    /\ shift \in (-Quarter) .. Quarter
    /\ change \in (DayTicks + Quarter) .. (2 * DayTicks - 1 - Quarter)

\* The wall times at which the entry is due.
Timed(w) == w \in Int /\ w % DayTicks = hour

\* The instant of a wall time: the first of a repeated one, and the end of the
\* gap for a skipped one.
When(w) == IF w < change THEN w ELSE IF w < change + shift THEN change ELSE w - shift

\* A quarter of a day.
LEMMA QuarterFacts ==
    /\ DayTicks \in Int /\ DayTicks > 0
    /\ Quarter \in Int /\ 0 <= Quarter /\ 4 * Quarter <= DayTicks
    /\ MaxRuntime \in Int /\ 0 <= MaxRuntime /\ MaxRuntime < DayTicks - Quarter
BY ClockAssumption DEF Quarter

\* The clock stops at an instant.
LEMMA HorizonInt == Horizon \in Int /\ 0 <= Horizon
BY ClockAssumption DEF Horizon

\* The instant of a wall time tells its local day, and instants come in the
\* order of their wall times, a short day apart at least.
LEMMA WhenFacts ==
    ASSUME Zone, NEW w \in Int
    PROVE  /\ When(w) \in Int /\ w - Quarter <= When(w) /\ When(w) <= w + Quarter
           /\ \A v \in Int : w <= v => When(w) <= When(v)
           /\ \A v \in Int : w + DayTicks <= v => When(w) + DayTicks - Quarter <= When(v)
           /\ LocalDay(When(w)) = w \div DayTicks
<1>1. /\ shift \in Int /\ change \in Int
      /\ -Quarter <= shift /\ shift <= Quarter
      /\ DayTicks + Quarter <= change /\ change <= 2 * DayTicks - 1 - Quarter
  BY QuarterFacts DEF Zone
<1>2. /\ When(w) \in Int /\ w - Quarter <= When(w) /\ When(w) <= w + Quarter
      /\ \A v \in Int : w <= v => When(w) <= When(v)
      /\ \A v \in Int : w + DayTicks <= v => When(w) + DayTicks - Quarter <= When(v)
  BY <1>1, QuarterFacts DEF When
<1>3. ASSUME change <= w, w < change + shift PROVE LocalDay(When(w)) = w \div DayTicks
  <2>1. PICK x \in Int : x = Wall(When(w)) /\ x = change + shift
    BY <1>1, <1>3 DEF Wall, When
  <2>2. \A v \in Int : DayTicks <= v /\ v < 2 * DayTicks => v \div DayTicks = 1
    <3> SUFFICES ASSUME NEW v \in Int, DayTicks <= v, v < 2 * DayTicks
                 PROVE  v \div DayTicks = 1
      OBVIOUS
    <3>1. PICK r \in Int : r = v - DayTicks
      BY QuarterFacts
    <3>2. 0 <= r /\ r < DayTicks /\ v = 1 * DayTicks + r
      BY <3>1, QuarterFacts
    <3> QED
      BY <3>2, QuarterFacts, DivisionIs
  <2>3. x \div DayTicks = 1 /\ w \div DayTicks = 1
    BY <1>1, <1>3, <2>1, <2>2, QuarterFacts
  <2> QED
    BY <2>1, <2>3 DEF LocalDay
<1>4. ASSUME w < change \/ change + shift <= w
      PROVE  LocalDay(When(w)) = w \div DayTicks
  <2>1. PICK x \in Int : x = Wall(When(w)) /\ x = w
    BY <1>1, <1>4, QuarterFacts DEF Wall, When
  <2> QED
    BY <2>1 DEF LocalDay
<1> QED
  BY <1>1, <1>2, <1>3, <1>4

\* The occurrences of consecutive days.
LEMMA DaysApart ==
    ASSUME Zone, NEW w \in Int, NEW u \in Int, u = w + DayTicks
    PROVE  /\ When(u) \in Int /\ LocalDay(When(u)) = LocalDay(When(w)) + 1
           /\ When(w) + DayTicks - Quarter <= When(u)
<1>1. u \div DayTicks = w \div DayTicks + 1
  BY QuarterFacts, NextDay
<1>2. LocalDay(When(u)) = u \div DayTicks /\ LocalDay(When(w)) = w \div DayTicks
  BY WhenFacts
<1>3. When(u) \in Int /\ When(w) + DayTicks - Quarter <= When(u)
  <2>1. w + DayTicks <= u
    BY QuarterFacts
  <2> QED
    BY <2>1, WhenFacts
<1> QED
  BY <1>1, <1>2, <1>3

\* The offers of croner that are genuine are the instants of the entry's times.
LEMMA GenuineOffers ==
    ASSUME Zone, NEW i \in Instants
    PROVE  i \in Offers /\ IsGenuineOccurrence(i) <=> \E w \in Int : Timed(w) /\ i = When(w)
<1>1. /\ shift \in Int /\ change \in Int /\ i \in Int /\ 0 <= i
      /\ -Quarter <= shift /\ shift <= Quarter
      /\ DayTicks + Quarter <= change /\ change <= 2 * DayTicks - 1 - Quarter
  BY QuarterFacts DEF Zone, Instants
<1>2. \A j \in Int : Wall(j) = IF j >= change THEN j + shift ELSE j
  BY <1>1 DEF Wall
<1>3. /\ i # change => SkippedBefore(i) = {}
      /\ i = change => SkippedBefore(i) = change .. (change + shift - 1)
  <2>1. i - 1 \in Int
    BY <1>1
  <2>2. Wall(i - 1) = IF i - 1 >= change THEN i - 1 + shift ELSE i - 1
    BY <1>2, <2>1
  <2>3. Wall(i) = IF i >= change THEN i + shift ELSE i
    BY <1>1, <1>2
  <2> QED
    BY <1>1, <2>2, <2>3 DEF SkippedBefore
<1>4. ASSUME i \in Offers, IsGenuineOccurrence(i)
      PROVE  \E w \in Int : Timed(w) /\ i = When(w)
  <2>1. CASE Matches(Wall(i))
    <3>1. PICK w \in Int : w = Wall(i)
      BY <1>1, <1>2
    <3>2. Timed(w)
      BY <2>1, <3>1 DEF Matches, Timed
    <3>3. ~(w < change /\ i >= change)
      <4> SUFFICES ASSUME w < change, i >= change PROVE FALSE
        OBVIOUS
      <4>1. w = i + shift /\ shift < 0
        BY <1>1, <1>2, <3>1
      <4>2. w \in Instants /\ w < i
        BY <1>1, <4>1, HorizonInt, QuarterFacts DEF Instants
      <4>3. Wall(w) = Wall(i)
        <5>1. Wall(w) = w
          BY <1>1, <1>2
        <5> QED
          BY <3>1, <5>1
      <4>4. \A j \in Instants : Wall(j) = Wall(i) => i <= j
        BY <1>1, <1>3, <1>4, <4>1 DEF Offers
      <4> QED
        BY <1>1, <4>2, <4>3, <4>4
    <3>4. When(w) = i
      BY <1>1, <1>2, <3>1, <3>3 DEF When
    <3> QED
      BY <3>2, <3>4
  <2>2. CASE \E w \in SkippedBefore(i) : Matches(w)
    <3>1. i = change
      BY <1>3, <2>2
    <3>2. PICK w \in change .. (change + shift - 1) : Matches(w)
      BY <1>3, <2>2, <3>1
    <3>3. w \in Int /\ Timed(w) /\ When(w) = i
      BY <1>1, <3>1, <3>2 DEF Matches, Timed, When
    <3> QED
      BY <3>3
  <2> QED
    BY <1>4, <2>1, <2>2 DEF IsGenuineOccurrence
<1>5. ASSUME NEW w \in Int, Timed(w), i = When(w)
      PROVE  i \in Offers /\ IsGenuineOccurrence(i)
  <2>1. Matches(w)
    BY <1>5 DEF Matches, Timed
  <2>2. CASE change <= w /\ w < change + shift
    <3>1. i = change /\ w \in SkippedBefore(i)
      BY <1>1, <1>3, <1>5, <2>2 DEF When
    <3> QED
      BY <2>1, <3>1 DEF Offers, IsGenuineOccurrence
  <2>3. CASE ~(change <= w /\ w < change + shift)
    <3>1. Wall(i) = w
      BY <1>1, <1>2, <1>5, <2>3 DEF When
    <3>2. \A j \in Instants : Wall(j) = w => i <= j
      BY <1>1, <1>2, <1>5, <2>3 DEF When, Instants
    <3> QED
      BY <2>1, <3>1, <3>2 DEF Offers, IsGenuineOccurrence
  <2> QED
    BY <2>2, <2>3
<1> QED
  BY <1>4, <1>5

\* Between two days' times of the entry there is none.
LEMMA NothingBetween ==
    ASSUME Zone, NEW w \in Int, Timed(w), NEW v \in Int, Timed(v)
    PROVE  When(v) <= When(w) \/ When(w + DayTicks) <= When(v)
<1>1. CASE v <= w
  BY <1>1, WhenFacts
<1>2. CASE w < v
  <2>1. w + DayTicks <= v
    BY <1>2, QuarterFacts, SameHour DEF Timed
  <2>2. PICK u \in Int : u = w + DayTicks
    BY QuarterFacts
  <2> QED
    BY <2>1, <2>2, WhenFacts
<1> QED
  BY <1>1, <1>2

\* From an occurrence until the next day's, the next day's is the next.
LEMMA NextIs ==
    ASSUME Zone, NEW c \in 0 .. Horizon, NEW w \in Int, Timed(w),
           When(w) <= c, c < When(w + DayTicks)
    PROVE  NextOccurrence(c) = When(w + DayTicks)
<1>1. PICK u \in Int : u = w + DayTicks
  BY QuarterFacts
<1>2. Timed(u)
  BY <1>1, QuarterFacts, NextDay DEF Timed
<1>3. c \in Int /\ 0 <= c /\ c <= Horizon /\ Horizon \in Int
  BY HorizonInt
<1>4. When(u) \in Instants
  <2>1. w - Quarter <= When(w) /\ When(w) \in Int /\ When(u) \in Int /\ When(u) <= u + Quarter
    BY WhenFacts
  <2> QED
    BY <1>1, <1>3, <2>1, QuarterFacts DEF Instants
<1>5. PICK S : S = {i \in Offers : i > c /\ IsGenuineOccurrence(i)}
  OBVIOUS
<1>6. When(u) \in S
  BY <1>1, <1>2, <1>4, <1>5, GenuineOffers
<1>7. ASSUME NEW i \in S PROVE i \in Int /\ When(u) <= i
  <2>1. i \in Instants /\ i > c
    BY <1>5 DEF Offers
  <2>2. PICK v \in Int : Timed(v) /\ i = When(v)
    BY <1>5, <2>1, GenuineOffers
  <2>3. When(v) \in Int /\ When(w) \in Int
    BY WhenFacts
  <2> QED
    BY <1>1, <1>3, <2>1, <2>2, <2>3, NothingBetween
<1>8. When(u) = Min(S)
  <2>1. \A x \in S : (\A y \in S : x <= y) => x = When(u)
    BY <1>6, <1>7
  <2> QED
    BY <1>6, <1>7, <2>1 DEF Min
<1> QED
  BY <1>1, <1>5, <1>8 DEF NextOccurrence

-----------------------------------------------------------------------------
(* The loop. *)

FiredEntry == [of : Int, at : Int]

\* Occurrences are run when they come, one local day after another.
DayByDay(list) ==
    /\ list \in Seq(FiredEntry)
    /\ \A i \in 1 .. Len(list) : list[i].of = list[i].at
    /\ \A i \in 1 .. (Len(list) - 1) : LocalDay(list[i + 1].at) = LocalDay(list[i].at) + 1

\* w is the wall time of the last occurrence, and the loop has not got to the
\* next one: it will compute it, naps before it, sleeps until it or still runs.
Follows(w) ==
    /\ fired # <<>> => fired[Len(fired)].at = When(w)
    /\ When(w) <= clock
    /\ loop \in {"compute", "nap", "running"} => clock + left < When(w + DayTicks)
    /\ loop = "sleep" => clock + left = When(w + DayTicks)
    /\ loop \in {"nap", "sleep"} => due = When(w + DayTicks)

\* Unless the clock is stepped.
ClockInv ==
    /\ Zone
    /\ clock \in 0 .. Horizon
    /\ loop \in {"compute", "nap", "sleep", "running"}
    /\ loop = "compute" => left = 0
    /\ jumps \in Seq([from : Int, to : Int])
    /\ jumps = <<>> => /\ DayByDay(fired) /\ left \in Nat
                       /\ \E w \in Int : Timed(w) /\ Follows(w)

\* The claim at the start is at instant 0, on or after some day's time.
LEMMA InitClockInv == ClockInit => ClockInv
<1> SUFFICES ASSUME ClockInit PROVE ClockInv
  OBVIOUS
<1>1. Zone
  BY QuarterFacts, ClockAssumption DEF ClockInit, Zone, Quarter
<1>2. hour \in Int /\ 0 <= hour /\ hour < DayTicks
  BY <1>1, QuarterFacts DEF Zone
<1>3. Timed(hour) /\ Timed(hour - DayTicks)
  <2>1. hour % DayTicks = hour
    <3>1. PICK h \in Int : h = hour
      BY <1>2
    <3>2. h = 0 * DayTicks + h /\ 0 <= h /\ h < DayTicks
      BY <1>2, <3>1, QuarterFacts
    <3>3. h % DayTicks = h
      BY <3>2, QuarterFacts, DivisionIs
    <3> QED
      BY <3>1, <3>3
  <2> QED
    BY <1>2, <2>1, QuarterFacts, NextDay DEF Timed
<1>4. PICK w \in Int : Timed(w) /\ w <= 0 /\ 0 < w + DayTicks
  <2>1. CASE hour = 0
    BY <1>2, <1>3, <2>1, QuarterFacts
  <2>2. CASE hour > 0
    BY <1>2, <1>3, <2>2, QuarterFacts
  <2> QED
    BY <1>2, <2>1, <2>2
<1>5. Follows(w)
  <2>1. /\ shift \in Int /\ change \in Int /\ -Quarter <= shift /\ shift <= Quarter
        /\ DayTicks + Quarter <= change
    BY <1>1, QuarterFacts DEF Zone
  <2>2. When(w) <= 0 /\ 0 < When(w + DayTicks)
    BY <1>4, <2>1, QuarterFacts DEF When
  <2> QED
    BY <2>2 DEF ClockInit, Follows
<1>6. DayByDay(fired)
  BY DEF ClockInit, DayByDay
<1> QED
  BY <1>1, <1>4, <1>5, <1>6, HorizonInt DEF ClockInit, ClockInv

\* Computing the next occurrence, now or after a nap.
LEMMA ComputeKeeps ==
    ASSUME ClockInv, ComputeNext
    PROVE  ClockInv'
<1>1. Zone' /\ clock' \in 0 .. Horizon /\ jumps' \in Seq([from : Int, to : Int])
  BY DEF ClockInv, ComputeNext, Zone
<1>2. CASE jumps = <<>>
  <2>1. PICK w \in Int : Timed(w) /\ Follows(w) /\ DayByDay(fired)
    BY <1>2 DEF ClockInv
  <2>2. When(w) <= clock /\ clock < When(w + DayTicks) /\ clock \in Int
    BY <2>1, HorizonInt DEF Follows, ClockInv, ComputeNext
  <2>3. PICK next \in Int : next = When(w + DayTicks)
    <3>1. w + DayTicks \in Int
      BY QuarterFacts
    <3> QED
      BY <3>1, WhenFacts DEF ClockInv
  <2>4. NextOccurrence(clock) = next
    BY <2>1, <2>2, <2>3, NextIs DEF ClockInv
  <2>5. MaxSleep \in Nat
    BY ClockAssumption
  <2>6. /\ loop' = IF next - clock > MaxSleep THEN "nap" ELSE "sleep"
        /\ left' = IF next - clock > MaxSleep THEN MaxSleep ELSE next - clock
        /\ due' = next
    BY <2>4 DEF ComputeNext, Delay, SleepFor
  <2>11. /\ left' \in Nat
         /\ \/ loop' = "nap" /\ clock + left' < next
            \/ loop' = "sleep" /\ clock + left' = next
    <3>1. CASE next - clock > MaxSleep
      BY <2>2, <2>3, <2>5, <2>6, <3>1
    <3>2. CASE ~(next - clock > MaxSleep)
      BY <2>2, <2>3, <2>5, <2>6, <3>2
    <3> QED
      BY <3>1, <3>2
  <2>7. UNCHANGED <<hour, change, shift, clock, fired, jumps>>
    BY DEF ComputeNext
  <2>8. DayByDay(fired)'
    BY <2>1, <2>7 DEF DayByDay, LocalDay, Wall
  <2>9. When(w)' = When(w) /\ When(w + DayTicks)' = next /\ Timed(w)'
    BY <2>1, <2>3, <2>7 DEF When, Timed
  <2>10. Follows(w)'
    BY <2>1, <2>2, <2>6, <2>7, <2>9, <2>11 DEF Follows
  <2> QED
    BY <1>1, <2>8, <2>9, <2>10, <2>11 DEF ClockInv
<1>3. CASE jumps # <<>>
  <2>1. loop' \in {"nap", "sleep"} /\ jumps' = jumps
    BY DEF ComputeNext
  <2> QED
    BY <1>1, <1>3, <2>1 DEF ClockInv
<1> QED
  BY <1>2, <1>3

\* The sleep is over when the next day's occurrence comes, and the run ends
\* before the one after.
LEMMA FireKeeps ==
    ASSUME ClockInv, FireEntry
    PROVE  ClockInv'
<1>1. /\ Zone' /\ clock' \in 0 .. Horizon /\ jumps' \in Seq([from : Int, to : Int])
      /\ loop' = "running" /\ jumps' = jumps
  BY DEF ClockInv, FireEntry, Zone
<1>2. CASE jumps = <<>>
  <2>1. PICK w \in Int : Timed(w) /\ Follows(w) /\ DayByDay(fired)
    BY <1>2 DEF ClockInv
  <2>2. PICK u \in Int : u = w + DayTicks /\ Timed(u)
    <3>1. w + DayTicks \in Int
      BY QuarterFacts
    <3> QED
      BY <2>1, <3>1, QuarterFacts, NextDay DEF Timed
  <2>3. /\ clock \in Int /\ When(u) \in Int
        /\ due = When(u) /\ clock = When(u)
        /\ fired # <<>> => fired[Len(fired)].at = When(w)
    BY <2>1, <2>2, HorizonInt, WhenFacts DEF Follows, ClockInv, FireEntry
  <2>4. PICK item \in FiredEntry : item = [of |-> due, at |-> clock] /\ item.of = item.at
    <3>1. [of |-> due, at |-> clock] \in FiredEntry
      BY <2>3 DEF FiredEntry
    <3> QED
      BY <2>3, <3>1
  <2>5. fired' = Append(fired, item)
    BY <2>4 DEF FireEntry
  <2>6. LocalDay(When(u)) = LocalDay(When(w)) + 1
    BY <2>2, DaysApart DEF ClockInv
  <2>7. DayByDay(fired')
    <3>1. fired \in Seq(FiredEntry)
      BY <2>1 DEF DayByDay
    <3>2. /\ fired' \in Seq(FiredEntry) /\ Len(fired') = Len(fired) + 1
          /\ \A i \in 1 .. Len(fired) : fired'[i] = fired[i]
          /\ fired'[Len(fired) + 1] = item /\ Len(fired) \in Nat
      BY <2>5, <3>1
    <3>3. \A i \in 1 .. Len(fired') : fired'[i].of = fired'[i].at
      BY <2>1, <2>4, <3>2 DEF DayByDay
    <3>4. ASSUME NEW i \in 1 .. (Len(fired') - 1)
          PROVE  LocalDay(fired'[i + 1].at) = LocalDay(fired'[i].at) + 1
      <4>1. CASE i = Len(fired)
        <5>1. fired'[i].at = When(w) /\ fired'[i + 1].at = When(u)
          BY <2>3, <2>4, <3>2, <4>1
        <5> QED
          BY <2>6, <5>1
      <4>2. CASE i # Len(fired)
        <5>1. i \in 1 .. (Len(fired) - 1) /\ i + 1 \in 1 .. Len(fired)
          BY <3>2, <4>2
        <5>2. fired'[i] = fired[i] /\ fired'[i + 1] = fired[i + 1]
          BY <3>2, <5>1
        <5> QED
          BY <2>1, <5>1, <5>2 DEF DayByDay
      <4> QED
        BY <4>1, <4>2
    <3> QED
      BY <3>2, <3>3, <3>4 DEF DayByDay
  <2>8. /\ UNCHANGED <<hour, change, shift, clock>>
        /\ left' \in 0 .. MaxRuntime
    BY DEF FireEntry
  <2>9. DayByDay(fired)'
    BY <2>7, <2>8 DEF DayByDay, LocalDay, Wall
  <2>10. Timed(u)' /\ When(u)' = When(u) /\ When(u + DayTicks)' = When(u + DayTicks)
    BY <2>2, <2>8 DEF Timed, When
  <2>11. /\ When(u) + DayTicks - Quarter <= When(u + DayTicks)
         /\ When(u + DayTicks) \in Int
    <3>1. PICK v \in Int : v = u + DayTicks
      BY QuarterFacts
    <3> QED
      BY <3>1, DaysApart DEF ClockInv
  <2>12. Follows(u)'
    <3>1. clock' + left' < When(u + DayTicks)' /\ When(u)' <= clock'
      BY <2>3, <2>8, <2>10, <2>11, QuarterFacts
    <3>2. fired'[Len(fired')].at = When(u)'
      <4>1. fired \in Seq(FiredEntry)
        BY <2>1 DEF DayByDay
      <4>2. fired'[Len(fired')] = item
        BY <2>5, <4>1
      <4> QED
        BY <2>3, <2>4, <2>10, <4>2
    <3> QED
      BY <1>1, <3>1, <3>2 DEF Follows
  <2>13. left' \in Nat
    BY <2>8, QuarterFacts
  <2> QED
    BY <1>1, <2>9, <2>10, <2>12, <2>13 DEF ClockInv
<1>3. CASE jumps # <<>>
  BY <1>1, <1>3 DEF ClockInv
<1> QED
  BY <1>2, <1>3

\* What leaves the occurrences as they are.
LEMMA WaitKeeps ==
    ASSUME ClockInv, RunDone \/ ClockTick \/ UNCHANGED clockVars
    PROVE  ClockInv'
<1>1. /\ Zone' /\ clock' \in 0 .. Horizon /\ jumps' = jumps
      /\ UNCHANGED <<hour, change, shift, due, fired>>
  BY HorizonInt DEF ClockInv, RunDone, ClockTick, Zone, clockVars
<1>2. /\ loop' \in {"compute", "nap", "sleep", "running"}
      /\ loop' = "compute" => left' = 0
  BY DEF ClockInv, RunDone, ClockTick, clockVars
<1>3. CASE jumps = <<>>
  <2>1. PICK w \in Int : Timed(w) /\ Follows(w) /\ DayByDay(fired) /\ left \in Nat
    BY <1>3 DEF ClockInv
  <2>2. Timed(w)' /\ When(w)' = When(w) /\ When(w + DayTicks)' = When(w + DayTicks)
    BY <1>1, <2>1 DEF Timed, When
  <2>3. DayByDay(fired)'
    BY <1>1, <2>1 DEF DayByDay, LocalDay, Wall
  <2>4. clock \in Int /\ When(w) \in Int
    BY WhenFacts, HorizonInt DEF ClockInv
  <2>5. /\ left' \in Nat /\ clock <= clock' /\ clock' \in Int
        /\ loop' # "compute" => loop' = loop /\ clock' + left' = clock + left
    BY <2>1, <2>4 DEF RunDone, ClockTick, clockVars
  <2>6. loop' = "compute" => clock' + left' = clock + left /\ left' = 0 /\ loop \in {"compute", "running"}
    <3>1. CASE RunDone
      BY <2>1, <2>4, <3>1 DEF RunDone
    <3>2. CASE ClockTick
      BY <2>1, <2>4, <3>2 DEF ClockInv, ClockTick
    <3>3. CASE UNCHANGED clockVars
      BY <2>1, <2>4, <3>3 DEF ClockInv, clockVars
    <3> QED
      BY <3>1, <3>2, <3>3
  <2>7. Follows(w)'
    <3>1. When(w)' <= clock' /\ (fired # <<>> => fired[Len(fired)].at = When(w))'
      BY <1>1, <2>1, <2>2, <2>4, <2>5 DEF Follows
    <3>2. CASE loop' = "compute"
      <4>1. clock' + left' < When(w + DayTicks)'
        BY <2>1, <2>2, <2>6, <3>2 DEF Follows
      <4> QED
        BY <3>1, <3>2, <4>1 DEF Follows
    <3>3. CASE loop' # "compute"
      <4>1. loop' = loop /\ clock' + left' = clock + left /\ due' = due
        BY <1>1, <2>5, <3>3
      <4> QED
        BY <2>1, <2>2, <3>1, <3>3, <4>1 DEF Follows
    <3> QED
      BY <3>2, <3>3
  <2> QED
    BY <1>1, <1>2, <2>2, <2>3, <2>5, <2>7 DEF ClockInv
<1>4. CASE jumps # <<>>
  BY <1>1, <1>2, <1>4 DEF ClockInv
<1> QED
  BY <1>3, <1>4

\* Every step of the loop keeps the invariant.
LEMMA NextClockInv == ClockInv /\ [ClockNext]_clockVars => ClockInv'
<1> SUFFICES ASSUME ClockInv, [ClockNext]_clockVars PROVE ClockInv'
  OBVIOUS
<1>1. ASSUME NEW k \in ClockSteps, StepClock(k) PROVE ClockInv'
  <2>1. /\ Zone' /\ clock' \in 0 .. Horizon /\ loop' = loop /\ left' = left
    BY <1>1 DEF ClockInv, StepClock, Zone
  <2>2. PICK j \in [from : Int, to : Int] : jumps' = Append(jumps, j)
    BY <1>1, <2>1, HorizonInt DEF ClockInv, StepClock
  <2>3. jumps' \in Seq([from : Int, to : Int]) /\ jumps' # <<>>
    BY <2>2 DEF ClockInv
  <2> QED
    BY <2>1, <2>3 DEF ClockInv
<1> QED
  BY <1>1, ComputeKeeps, FireKeeps, WaitKeeps DEF ClockNext

\* While the system clock is not stepped, a daily entry (run_entry, next_run
\* and is_genuine_occurrence) fires exactly once every local day, at its
\* occurrence, whichever way and however far the zone's clock changes, for any
\* MAX_SLEEP and for runs that end before the next occurrence of a short day.
THEOREM FiresEveryDayOnce == ClockSpec => []FiresOnceADay
<1>1. ClockInv => FiresOnceADay
  <2> SUFFICES ASSUME ClockInv, jumps = <<>> PROVE FiresOnceADay
    BY DEF FiresOnceADay
  <2>1. PICK w \in Int : Timed(w) /\ Follows(w) /\ DayByDay(fired)
    BY DEF ClockInv
  <2>2. CASE loop \notin {"nap", "sleep"}
    BY <2>1, <2>2 DEF FiresOnceADay, DayByDay
  <2>3. CASE loop \in {"nap", "sleep"}
    <3>1. PICK u \in Int : u = w + DayTicks
      BY QuarterFacts
    <3>2. /\ due = When(u) /\ due \in Int
          /\ fired # <<>> => fired[Len(fired)].at = When(w)
      BY <2>1, <2>3, <3>1, WhenFacts DEF Follows, ClockInv
    <3>3. LocalDay(When(u)) = LocalDay(When(w)) + 1
      BY <3>1, DaysApart DEF ClockInv
    <3>4. PICK item \in FiredEntry : item = [of |-> due, at |-> due]
      BY <3>2 DEF FiredEntry
    <3>5. PICK list : list = Append(fired, item)
      OBVIOUS
    <3>6. fired \in Seq(FiredEntry)
      BY <2>1 DEF DayByDay
    <3>7. /\ list \in Seq(FiredEntry) /\ Len(list) = Len(fired) + 1
          /\ \A i \in 1 .. Len(fired) : list[i] = fired[i]
          /\ list[Len(fired) + 1] = item /\ Len(fired) \in Nat
          /\ DOMAIN list = 1 .. Len(list)
      BY <3>5, <3>6
    <3>8. \A i \in DOMAIN list : list[i].of = list[i].at
      BY <2>1, <3>4, <3>7 DEF DayByDay
    <3>9. ASSUME NEW i \in 1 .. (Len(list) - 1)
          PROVE  LocalDay(list[i + 1].at) = LocalDay(list[i].at) + 1
      <4>1. CASE i = Len(fired)
        <5>1. list[i].at = When(w) /\ list[i + 1].at = When(u)
          BY <3>2, <3>4, <3>7, <4>1
        <5> QED
          BY <3>3, <5>1
      <4>2. CASE i # Len(fired)
        <5>1. i \in 1 .. (Len(fired) - 1) /\ i + 1 \in 1 .. Len(fired)
          BY <3>7, <4>2
        <5>2. list[i] = fired[i] /\ list[i + 1] = fired[i + 1]
          BY <3>7, <5>1
        <5> QED
          BY <2>1, <5>1, <5>2 DEF DayByDay
      <4> QED
        BY <4>1, <4>2
    <3> QED
      BY <2>3, <3>4, <3>5, <3>8, <3>9 DEF FiresOnceADay
  <2> QED
    BY <2>2, <2>3
<1>2. ClockInit => ClockInv
  BY InitClockInv
<1>3. ClockInv /\ [ClockNext]_clockVars => ClockInv'
  BY NextClockInv
<1> QED
  BY <1>1, <1>2, <1>3, PTL DEF ClockSpec

\* The day of any tick has every hour.
LEMMA HourOf ==
    ASSUME NEW d \in Int, d > 0, NEW w \in Int, NEW h \in Int, 0 <= h, h < d
    PROVE  \E v \in Int : v % d = h /\ w - d < v /\ v < w + d
<1>1. PICK a \in Int, r \in Int : Divides(d, w, a, r)
  BY Division
<1>2. PICK v \in Int : v = w - r + h
  OBVIOUS
<1>3. v = a * d + h
  BY <1>1, <1>2 DEF Divides
<1>4. v % d = h
  BY <1>3, DivisionIs
<1>5. r >= 0 /\ r < d
  BY <1>1 DEF Divides
<1> QED
  BY <1>2, <1>4, <1>5

-----------------------------------------------------------------------------
(* The clock is stepped. *)

Dues == {When(w) : w \in {v \in Int : Timed(v)}}

\* Every instant has an occurrence behind it and one ahead.
LEMMA Bracket ==
    ASSUME Zone, NEW c \in Int
    PROVE  \E w \in Int : Timed(w) /\ When(w) <= c /\ c < When(w + DayTicks)
<1>1. PICK u \in Int : Timed(u) /\ c - DayTicks < u /\ u < c + DayTicks
  <2>1. PICK h \in Int : h = hour /\ 0 <= h /\ h < DayTicks
    BY QuarterFacts DEF Zone
  <2> QED
    BY <2>1, QuarterFacts, HourOf DEF Timed
<1>2. PICK t \in Int : t = u - DayTicks /\ Timed(t)
  BY <1>1, QuarterFacts, NextDay DEF Timed
<1>3. PICK s \in Int : s = t - DayTicks /\ Timed(s)
  BY <1>2, QuarterFacts, NextDay DEF Timed
<1>4. PICK v \in Int : v = u + DayTicks /\ Timed(v)
  BY <1>1, QuarterFacts, NextDay DEF Timed
<1>5. PICK x \in Int : x = v + DayTicks /\ Timed(x)
  BY <1>4, QuarterFacts, NextDay DEF Timed
<1>6. /\ t = s + DayTicks /\ u = t + DayTicks
      /\ When(s) \in Int /\ When(t) \in Int /\ When(u) \in Int /\ When(v) \in Int
      /\ When(x) \in Int
  <2>1. t = s + DayTicks /\ u = t + DayTicks
    BY <1>2, <1>3, QuarterFacts
  <2>2. \A y \in Int : When(y) \in Int
    BY WhenFacts
  <2> QED
    BY <2>1, <2>2
<1>7. When(s) <= c
  <2>1. When(s) <= s + Quarter
    BY WhenFacts
  <2> QED
    BY <1>1, <1>2, <1>3, <1>6, <2>1, QuarterFacts
<1>8. c < When(x)
  <2>1. x - Quarter <= When(x)
    BY WhenFacts
  <2> QED
    BY <1>1, <1>4, <1>5, <1>6, <2>1, QuarterFacts
<1>9. CASE c < When(t)
  BY <1>3, <1>6, <1>7, <1>9
<1>10. CASE When(t) <= c /\ c < When(u)
  BY <1>2, <1>6, <1>10
<1>11. CASE When(u) <= c /\ c < When(v)
  BY <1>1, <1>4, <1>11
<1>12. CASE When(v) <= c
  BY <1>4, <1>5, <1>8, <1>12
<1> QED
  BY <1>6, <1>9, <1>10, <1>11, <1>12

\* What next_run answers is the next occurrence, whatever the clock says.
LEMMA NextDue ==
    ASSUME Zone, NEW c \in 0 .. Horizon
    PROVE  /\ NextOccurrence(c) \in Dues /\ NextOccurrence(c) \in Int /\ c < NextOccurrence(c)
           /\ \A o \in Dues : o <= c \/ NextOccurrence(c) <= o
<1>1. c \in Int
  BY HorizonInt
<1>2. PICK w \in Int : Timed(w) /\ When(w) <= c /\ c < When(w + DayTicks)
  BY <1>1, Bracket
<1>3. PICK u \in Int : u = w + DayTicks /\ Timed(u)
  BY <1>2, QuarterFacts, NextDay DEF Timed
<1>4. NextOccurrence(c) = When(u)
  BY <1>2, <1>3, NextIs
<1>5. When(u) \in Int /\ When(w) \in Int /\ When(u) \in Dues
  BY <1>3, WhenFacts DEF Dues
<1>6. ASSUME NEW o \in Dues PROVE o <= c \/ When(u) <= o
  <2>1. PICK v \in Int : Timed(v) /\ o = When(v)
    BY DEF Dues
  <2>2. o <= When(w) \/ When(u) <= o
    BY <1>2, <1>3, <2>1, NothingBetween
  <2> QED
    BY <1>1, <1>2, <1>5, <2>1, <2>2, WhenFacts
<1> QED
  BY <1>2, <1>3, <1>4, <1>5, <1>6

\* Occurrences are further apart than a run may last.
LEMMA DuesApart ==
    ASSUME Zone, NEW o \in Dues, NEW p \in Dues, o < p
    PROVE  o \in Int /\ p \in Int /\ o + MaxRuntime < p
<1>1. PICK w \in Int : Timed(w) /\ o = When(w)
  BY DEF Dues
<1>2. PICK v \in Int : Timed(v) /\ p = When(v)
  BY DEF Dues
<1>3. PICK u \in Int : u = w + DayTicks
  BY QuarterFacts
<1>4. o \in Int /\ p \in Int /\ When(u) \in Int
  BY <1>1, <1>2, WhenFacts
<1>5. When(u) <= p
  BY <1>1, <1>2, <1>3, <1>4, NothingBetween
<1>6. o + DayTicks - Quarter <= When(u)
  BY <1>1, <1>3, DaysApart
<1> QED
  BY <1>4, <1>5, <1>6, QuarterFacts

\* The reference: the first instant at or past a wall time.
LEMMA DueInstantsAreDues ==
    ASSUME Zone
    PROVE  DueInstants \subseteq Dues
<1> SUFFICES ASSUME NEW n \in 0 .. ClockDays
             PROVE  Min({i \in Instants : Wall(i) >= n * DayTicks + hour}) \in Dues
  BY DEF DueInstants
<1>1. PICK w \in Int : w = n * DayTicks + hour
  BY QuarterFacts, ClockAssumption DEF Zone
<1>2. Timed(w) /\ 0 <= w /\ w < Horizon + DayTicks
  <2>1. n \in Int /\ n >= 0 /\ ClockDays - n >= 0 /\ ClockDays \in Int
    BY ClockAssumption
  <2>2. PICK h \in Int : h = hour /\ 0 <= h /\ h < DayTicks
    BY QuarterFacts DEF Zone
  <2>3. w % DayTicks = h
    BY <1>1, <2>1, <2>2, QuarterFacts, DivisionIs
  <2>4. PICK d \in Int : d = DayTicks /\ d > 0
    BY QuarterFacts
  <2>5. n * d >= 0 /\ (ClockDays - n) * d >= 0
    BY <2>1, <2>4
  <2>6. ClockDays * d = n * d + (ClockDays - n) * d
    BY <2>1, <2>4
  <2>7. PICK a \in Int, b \in Int : a = n * d /\ b = ClockDays * d /\ 0 <= a /\ a <= b
    BY <2>1, <2>4, <2>5, <2>6
  <2>8. w = a + h /\ Horizon = b
    BY <1>1, <2>2, <2>4, <2>7 DEF Horizon
  <2> QED
    BY <2>2, <2>3, <2>4, <2>7, <2>8 DEF Timed
<1>3. PICK S : S = {i \in Instants : Wall(i) >= w}
  OBVIOUS
<1>4. /\ shift \in Int /\ change \in Int
      /\ -Quarter <= shift /\ shift <= Quarter
      /\ DayTicks + Quarter <= change
  BY QuarterFacts DEF Zone
<1>5. When(w) \in S
  <2>1. When(w) \in Int /\ 0 <= When(w) /\ When(w) <= w + Quarter
    BY <1>2, <1>4, QuarterFacts, WhenFacts DEF When
  <2>2. When(w) \in Instants
    BY <1>2, <2>1, QuarterFacts, HorizonInt DEF Instants
  <2>3. Wall(When(w)) >= w
    BY <1>4 DEF Wall, When
  <2> QED
    BY <1>3, <2>2, <2>3
<1>6. \A i \in S : i \in Int /\ When(w) <= i
  BY <1>3, <1>4 DEF Instants, Wall, When
<1>7. Min(S) = When(w)
  <2>1. \A x \in S : (\A y \in S : x <= y) => x = When(w)
    BY <1>5, <1>6, WhenFacts
  <2> QED
    BY <1>5, <1>6, <2>1 DEF Min
<1> QED
  BY <1>1, <1>2, <1>3, <1>7 DEF Dues

\* Occurrence o was run or is the one slept for; or a step of the clock, or a
\* run made late by one, took the loop past it.
Accounted(o) ==
    \/ \E i \in DOMAIN fired : fired[i].of = o
    \/ loop = "sleep" /\ due = o
    \/ \E n \in DOMAIN jumps :
          /\ jumps[n].from < o
          /\ o - jumps[n].to <= MaxSleep \/ o - jumps[n].to <= MaxRuntime
    \/ \E i \in DOMAIN fired :
          fired[i].of < fired[i].at /\ o - fired[i].at \in 1 .. MaxRuntime

\* The clock reached o before one of its steps, or will before the wait ends.
Reached(o) == o <= clock + left \/ \E n \in DOMAIN jumps : o <= jumps[n].from

StepsOK ==
    /\ Zone
    /\ clock \in 0 .. Horizon /\ left \in Nat /\ due \in Int
    /\ loop \in {"compute", "nap", "sleep", "running"}
    /\ left <= MaxSleep \/ left <= MaxRuntime
    /\ jumps \in Seq([from : Int, to : Int])
    /\ fired \in Seq(FiredEntry)
    /\ \A i \in 1 .. Len(fired) : fired[i].of > 0

\* What is reached is accounted for, and so is all before what the loop waits for.
AllAccounted ==
    /\ \A o \in Dues : 0 < o /\ Reached(o) => Accounted(o)
    /\ loop \in {"nap", "sleep"} =>
          due \in Dues /\ 0 < due /\ \A o \in Dues : 0 < o /\ o < due => Accounted(o)

NeverBack == \A n \in DOMAIN jumps : ~(jumps[n].to < jumps[n].from)

\* With no step back the occurrences run are ever later ones.
InOrder ==
    NeverBack =>
        /\ \A i \in 1 .. Len(fired) : fired[i].of <= clock
        /\ \A i, j \in 1 .. Len(fired) : i < j => fired[i].of < fired[j].of
        /\ loop \in {"nap", "sleep"} => \A i \in 1 .. Len(fired) : fired[i].of < due
        /\ loop = "sleep" => due <= clock + left

StepInv == StepsOK /\ AllAccounted /\ InOrder

\* At the start nothing is behind the clock.
LEMMA InitStepInv == ClockInit => StepInv
<1> SUFFICES ASSUME ClockInit PROVE StepInv
  OBVIOUS
<1>1. StepsOK
  BY HorizonInt, QuarterFacts, ClockAssumption
     DEF ClockInit, StepsOK, Zone, Quarter
<1>2. AllAccounted
  <2> SUFFICES ASSUME NEW o \in Dues, 0 < o, Reached(o) PROVE FALSE
    BY DEF ClockInit, AllAccounted
  <2>1. o \in Int
    BY <1>1, WhenFacts DEF Dues, StepsOK
  <2> QED
    BY <2>1 DEF ClockInit, Reached
<1>3. InOrder
  BY DEF ClockInit, InOrder
<1> QED
  BY <1>1, <1>2, <1>3 DEF StepInv

\* The entries of the history are instants.
LEMMA FiredInts ==
    ASSUME StepInv
    PROVE  \A i \in 1 .. Len(fired) :
               fired[i] \in FiredEntry /\ fired[i].of \in Int /\ fired[i].at \in Int
<1>1. fired \in Seq(FiredEntry)
  BY DEF StepInv, StepsOK
<1>2. \A i \in 1 .. Len(fired) : fired[i] \in FiredEntry
  BY <1>1
<1> QED
  BY <1>2 DEF FiredEntry

\* What next_run computes follows whatever was run.
LEMMA ComputeSteps ==
    ASSUME StepInv, ComputeNext
    PROVE  StepInv'
<1>1. PICK next : next = NextOccurrence(clock)
  OBVIOUS
<1>2. /\ next \in Dues /\ next \in Int /\ clock < next /\ clock \in Int /\ 0 <= clock
      /\ \A o \in Dues : o <= clock \/ next <= o
  BY <1>1, NextDue, HorizonInt DEF StepInv, StepsOK
<1>3. /\ loop' = IF next - clock > MaxSleep THEN "nap" ELSE "sleep"
      /\ left' = IF next - clock > MaxSleep THEN MaxSleep ELSE next - clock
      /\ due' = next
      /\ UNCHANGED <<hour, change, shift, clock, fired, jumps>>
  BY <1>1 DEF ComputeNext, Delay, SleepFor
<1>4. MaxSleep \in Nat
  BY ClockAssumption
<1>5. /\ left' \in Nat /\ left' <= MaxSleep
      /\ \/ loop' = "nap" /\ clock + left' < next
         \/ loop' = "sleep" /\ clock + left' = next
  <2>1. CASE next - clock > MaxSleep
    BY <1>2, <1>3, <1>4, <2>1
  <2>2. CASE ~(next - clock > MaxSleep)
    BY <1>2, <1>3, <1>4, <2>2
  <2> QED
    BY <2>1, <2>2
<1>6. StepsOK'
  BY <1>2, <1>3, <1>5 DEF StepInv, StepsOK, Zone
<1>7. Dues' = Dues
  BY <1>3 DEF Dues, Timed, When
<1>8. \A o \in Dues : o \in Int
  BY WhenFacts DEF Dues, StepInv, StepsOK
<1>9. \A o : Accounted(o) => Accounted(o)'
  BY <1>3 DEF Accounted, ComputeNext
<1>10. \A o \in Dues : 0 < o /\ o <= clock => Accounted(o)
  BY <1>8, <1>2 DEF StepInv, StepsOK, AllAccounted, Reached
<1>11. \A o \in Dues : 0 < o /\ o < next => Accounted(o)'
  BY <1>2, <1>8, <1>9, <1>10
<1>12. ASSUME NEW o \in Dues, 0 < o, Reached(o)' PROVE Accounted(o)'
  <2>1. CASE \E n \in DOMAIN jumps : o <= jumps[n].from
    BY <1>9, <1>12, <2>1 DEF StepInv, AllAccounted, Reached
  <2>2. CASE o <= clock + left' /\ o < next
    BY <1>11, <1>12, <2>2
  <2>3. CASE o <= clock + left' /\ o = next
    BY <1>2, <1>3, <1>5, <2>3 DEF Accounted
  <2> QED
    BY <1>2, <1>3, <1>5, <1>8, <1>12, <2>1, <2>2, <2>3 DEF Reached
<1>13. AllAccounted'
  BY <1>2, <1>3, <1>7, <1>11, <1>12 DEF AllAccounted
<1>14. InOrder'
  <2>a. SUFFICES ASSUME NeverBack PROVE InOrder'
    BY <1>3 DEF InOrder, NeverBack
  <2>1. /\ \A i \in 1 .. Len(fired) : fired[i].of <= clock
        /\ \A i, j \in 1 .. Len(fired) : i < j => fired[i].of < fired[j].of
    BY <2>a DEF StepInv, InOrder
  <2>2. \A i \in 1 .. Len(fired) : fired[i].of \in Int
    BY FiredInts
  <2>3. \A i \in 1 .. Len(fired) : fired[i].of < next
    BY <1>2, <2>1, <2>2
  <2>4. ASSUME loop' = "sleep" PROVE next <= clock + left'
    <3>1. clock + left' = next
      BY <1>5, <2>4
    <3> QED
      BY <1>2, <3>1
  <2> QED
    BY <1>3, <2>1, <2>3, <2>4 DEF InOrder
<1> QED
  BY <1>6, <1>13, <1>14 DEF StepInv

\* The occurrence slept for is run; those that pass while it runs are accounted for.
LEMMA FireSteps ==
    ASSUME StepInv, FireEntry
    PROVE  StepInv'
<1>1. PICK e : e = [of |-> due, at |-> clock]
  OBVIOUS
<1>2. /\ loop = "sleep" /\ left = 0 /\ fired' = Append(fired, e)
      /\ loop' = "running" /\ left' \in 0 .. MaxRuntime
      /\ UNCHANGED <<hour, change, shift, clock, due, jumps>>
  BY <1>1 DEF FireEntry
<1>3. /\ due \in Int /\ clock \in Int /\ fired \in Seq(FiredEntry) /\ MaxRuntime \in Nat
      /\ due \in Dues /\ 0 < due /\ clock \in 0 .. Horizon
  BY <1>2, HorizonInt, ClockAssumption DEF StepInv, StepsOK, AllAccounted
<1>4. e \in FiredEntry /\ e.of = due /\ e.at = clock
  BY <1>1, <1>3 DEF FiredEntry
<1>5. /\ fired' \in Seq(FiredEntry) /\ Len(fired') = Len(fired) + 1
      /\ fired'[Len(fired) + 1] = e /\ Len(fired) \in Nat
      /\ \A i \in 1 .. Len(fired) : fired'[i] = fired[i]
      /\ DOMAIN fired = 1 .. Len(fired) /\ DOMAIN fired' = 1 .. (Len(fired) + 1)
  <2>1. fired' \in Seq(FiredEntry) /\ Len(fired) \in Nat
    BY <1>2, <1>3, <1>4
  <2> QED
    BY <1>2, <1>3, <1>4, <2>1
<1>6. left' \in Nat /\ left' <= MaxRuntime
  BY <1>2, <1>3
<1>7. StepsOK'
  <2>1. \A i \in 1 .. Len(fired) : fired[i].of > 0
    BY DEF StepInv, StepsOK
  <2>2. \A i \in 1 .. (Len(fired) + 1) : fired'[i].of > 0
    BY <1>3, <1>4, <1>5, <2>1
  <2> QED
    BY <1>2, <1>3, <1>5, <1>6, <2>2 DEF StepInv, StepsOK, Zone
<1>8. Dues' = Dues
  BY <1>2 DEF Dues, Timed, When
<1>9. \A o \in Dues : o \in Int
  BY WhenFacts DEF Dues, StepInv, StepsOK
<1>10. \A o : Accounted(o) => Accounted(o)'
  <2> SUFFICES ASSUME NEW o, Accounted(o) PROVE Accounted(o)'
    OBVIOUS
  <2>1. CASE \E i \in DOMAIN fired : fired[i].of = o
    BY <1>5, <2>1 DEF Accounted
  <2>2. CASE loop = "sleep" /\ due = o
    BY <1>4, <1>5, <2>2 DEF Accounted
  <2>3. CASE \E n \in DOMAIN jumps :
               /\ jumps[n].from < o
               /\ o - jumps[n].to <= MaxSleep \/ o - jumps[n].to <= MaxRuntime
    BY <1>2, <2>3 DEF Accounted
  <2>4. CASE \E i \in DOMAIN fired :
               fired[i].of < fired[i].at /\ o - fired[i].at \in 1 .. MaxRuntime
    BY <1>5, <2>4 DEF Accounted
  <2> QED
    BY <2>1, <2>2, <2>3, <2>4 DEF Accounted
<1>11. ASSUME NEW o \in Dues, 0 < o, Reached(o)' PROVE Accounted(o)'
  <2>1. CASE Reached(o)
    BY <1>10, <1>11, <2>1 DEF StepInv, AllAccounted
  <2>2. CASE o < due
    BY <1>2, <1>10, <1>11, <2>2 DEF StepInv, AllAccounted
  <2>3. CASE o = due
    BY <1>2, <1>10, <2>3 DEF Accounted
  <2>4. CASE ~Reached(o) /\ due < o
    <3>a. o \in Int /\ due \in Int /\ clock \in Int /\ left' \in Int /\ MaxRuntime \in Int
      BY <1>3, <1>6, <1>9
    <3>b. ~(o <= clock + left) /\ ~\E n \in DOMAIN jumps : o <= jumps[n].from
      BY <2>4 DEF Reached
    <3>c. o <= clock + left'
      BY <1>2, <1>11, <3>b DEF Reached
    <3>d. PICK c \in Int, l \in Int, m \in Int, d \in Int :
              c = clock /\ l = left' /\ m = MaxRuntime /\ d = due
      BY <3>a
    <3>1. c < o /\ o <= c + l /\ l <= m
      <4>1. c + left = c
        BY <1>2, <3>d
      <4>2. ~(o <= c)
        BY <3>b, <3>d, <4>1
      <4>3. o <= c + l /\ l <= m
        BY <1>6, <3>c, <3>d
      <4>4. PICK p \in Int : p = o
        BY <3>a
      <4>5. c < p
        BY <4>2, <4>4
      <4> QED
        BY <4>3, <4>4, <4>5
    <3>2. d + m < o
      BY <1>3, <2>4, <3>d, DuesApart DEF StepInv, StepsOK
    <3>4. d < c /\ o - c >= 1 /\ o - c <= m /\ o - c \in Int
      BY <3>a, <3>1, <3>2
    <3>3. due < clock /\ o - clock \in 1 .. MaxRuntime
      BY <3>d, <3>4
    <3> QED
      BY <1>4, <1>5, <3>3 DEF Accounted
  <2> QED
    BY <1>3, <1>9, <2>1, <2>2, <2>3, <2>4
<1>12. AllAccounted'
  BY <1>2, <1>8, <1>11 DEF AllAccounted
<1>13. InOrder'
  <2>a. SUFFICES ASSUME NeverBack PROVE InOrder'
    BY <1>2 DEF InOrder, NeverBack
  <2>1. /\ \A i \in 1 .. Len(fired) : fired[i].of <= clock
        /\ \A i, j \in 1 .. Len(fired) : i < j => fired[i].of < fired[j].of
        /\ \A i \in 1 .. Len(fired) : fired[i].of < due
        /\ due <= clock
    BY <1>2, <1>3, <2>a DEF StepInv, InOrder
  <2>2. \A i \in 1 .. (Len(fired) + 1) : fired'[i].of <= clock
    BY <1>4, <1>5, <2>1
  <2>3. \A i, j \in 1 .. (Len(fired) + 1) : i < j => fired'[i].of < fired'[j].of
    <3> SUFFICES ASSUME NEW i \in 1 .. (Len(fired) + 1), NEW j \in 1 .. (Len(fired) + 1),
                        i < j
                 PROVE  fired'[i].of < fired'[j].of
      OBVIOUS
    <3>1. i \in 1 .. Len(fired)
      BY <1>5
    <3>2. CASE j \in 1 .. Len(fired)
      BY <1>5, <2>1, <3>1, <3>2
    <3>3. CASE j = Len(fired) + 1
      BY <1>4, <1>5, <2>1, <3>1, <3>3
    <3> QED
      BY <1>5, <3>2, <3>3
  <2> QED
    BY <1>2, <1>5, <2>2, <2>3 DEF InOrder
<1> QED
  BY <1>7, <1>12, <1>13 DEF StepInv

\* Waiting brings nothing new: the end of the wait was reckoned with.
LEMMA WaitSteps ==
    ASSUME StepInv, RunDone \/ ClockTick \/ UNCHANGED clockVars
    PROVE  StepInv'
<1>1. /\ clock \in Int /\ left \in Int /\ MaxSleep \in Int /\ MaxRuntime \in Int
      /\ clock \in 0 .. Horizon /\ left \in Nat
      /\ left <= MaxSleep \/ left <= MaxRuntime
  BY HorizonInt, ClockAssumption DEF StepInv, StepsOK
<1>2. /\ UNCHANGED <<hour, change, shift, due, fired, jumps>>
      /\ \/ loop' = loop
         \/ loop = "running" /\ loop' = "compute"
      /\ clock' \in 0 .. Horizon /\ left' \in Nat /\ left' <= left
      /\ clock' + left' = clock + left /\ clock <= clock'
  <2>1. CASE RunDone
    BY <1>1, <2>1 DEF RunDone
  <2>2. CASE ClockTick
    BY <1>1, <2>2, HorizonInt DEF ClockTick
  <2>3. CASE UNCHANGED clockVars
    BY <1>1, <2>3 DEF clockVars
  <2> QED
    BY <2>1, <2>2, <2>3
<1>3. StepsOK'
  <2>1. left' <= MaxSleep \/ left' <= MaxRuntime
    BY <1>1, <1>2
  <2>2. loop' \in {"compute", "nap", "sleep", "running"}
    BY <1>2 DEF StepInv, StepsOK
  <2> QED
    BY <1>2, <2>1, <2>2 DEF StepInv, StepsOK, Zone
<1>4. Dues' = Dues
  BY <1>2 DEF Dues, Timed, When
<1>5. \A o : Accounted(o) => Accounted(o)'
  BY <1>2 DEF Accounted
<1>6. \A o : Reached(o)' => Reached(o)
  BY <1>2 DEF Reached
<1>7. AllAccounted'
  BY <1>2, <1>4, <1>5, <1>6 DEF StepInv, AllAccounted
<1>8. InOrder'
  <2>a. SUFFICES ASSUME NeverBack PROVE InOrder'
    BY <1>2 DEF InOrder, NeverBack
  <2>1. /\ \A i \in 1 .. Len(fired) : fired[i].of <= clock
        /\ \A i, j \in 1 .. Len(fired) : i < j => fired[i].of < fired[j].of
        /\ loop \in {"nap", "sleep"} => \A i \in 1 .. Len(fired) : fired[i].of < due
        /\ loop = "sleep" => due <= clock + left
    BY <2>a DEF StepInv, InOrder
  <2>2. \A i \in 1 .. Len(fired) : fired[i].of <= clock'
    BY <1>1, <1>2, <2>1, FiredInts, HorizonInt
  <2> QED
    BY <1>2, <2>1, <2>2 DEF InOrder
<1> QED
  BY <1>3, <1>7, <1>8 DEF StepInv

\* A step of the clock puts what it skips, and what it brings within the wait
\* under way, among the occurrences it accounts for.
LEMMA JumpSteps ==
    ASSUME StepInv, NEW k \in ClockSteps, StepClock(k)
    PROVE  StepInv'
<1>1. PICK e : e = [from |-> clock, to |-> clock + k]
  OBVIOUS
<1>2. /\ left > 0 /\ clock + k \in 0 .. Horizon /\ clock' = clock + k
      /\ jumps' = Append(jumps, e)
      /\ UNCHANGED <<hour, change, shift, loop, left, due, fired>>
  BY <1>1 DEF StepClock
<1>3. /\ k \in Int /\ clock \in Int /\ left \in Int /\ MaxSleep \in Int /\ MaxRuntime \in Int
      /\ jumps \in Seq([from : Int, to : Int])
      /\ left <= MaxSleep \/ left <= MaxRuntime
  BY HorizonInt, ClockAssumption DEF StepInv, StepsOK
<1>4. e \in [from : Int, to : Int] /\ e.from = clock /\ e.to = clock'
  BY <1>1, <1>2, <1>3
<1>5. /\ jumps' \in Seq([from : Int, to : Int]) /\ Len(jumps') = Len(jumps) + 1
      /\ jumps'[Len(jumps) + 1] = e /\ Len(jumps) \in Nat
      /\ \A n \in 1 .. Len(jumps) : jumps'[n] = jumps[n]
      /\ DOMAIN jumps = 1 .. Len(jumps) /\ DOMAIN jumps' = 1 .. (Len(jumps) + 1)
  <2>1. jumps' \in Seq([from : Int, to : Int]) /\ Len(jumps) \in Nat
    BY <1>2, <1>3, <1>4
  <2> QED
    BY <1>2, <1>3, <1>4, <2>1
<1>6. StepsOK'
  BY <1>2, <1>5 DEF StepInv, StepsOK, Zone
<1>7. Dues' = Dues
  BY <1>2 DEF Dues, Timed, When
<1>8. \A o \in Dues : o \in Int
  BY WhenFacts DEF Dues, StepInv, StepsOK
<1>9. \A o : Accounted(o) => Accounted(o)'
  <2> SUFFICES ASSUME NEW o, Accounted(o) PROVE Accounted(o)'
    OBVIOUS
  <2>1. CASE \E n \in DOMAIN jumps :
               /\ jumps[n].from < o
               /\ o - jumps[n].to <= MaxSleep \/ o - jumps[n].to <= MaxRuntime
    BY <1>5, <2>1 DEF Accounted
  <2> QED
    BY <1>2, <2>1 DEF Accounted
<1>10. ASSUME NEW o \in Dues, 0 < o, Reached(o)' PROVE Accounted(o)'
  <2>1. CASE Reached(o)
    BY <1>9, <1>10, <2>1 DEF StepInv, AllAccounted
  <2>2. CASE ~Reached(o)
    <3>1. clock + left < o
      BY <1>3, <1>8, <2>2 DEF Reached
    <3>2. ~\E n \in DOMAIN jumps' : o <= jumps'[n].from
      BY <1>2, <1>3, <1>4, <1>5, <1>8, <2>2, <3>1 DEF Reached
    <3>3. o <= clock' + left
      BY <1>2, <1>10, <3>2 DEF Reached
    <3>4. /\ e.from < o
          /\ o - e.to <= MaxSleep \/ o - e.to <= MaxRuntime
      BY <1>2, <1>3, <1>4, <1>8, <3>1, <3>3
    <3> QED
      BY <1>5, <3>4 DEF Accounted
  <2> QED
    BY <2>1, <2>2
<1>11. AllAccounted'
  BY <1>2, <1>7, <1>9, <1>10 DEF StepInv, AllAccounted
<1>12. InOrder'
  <2>a. SUFFICES ASSUME NeverBack' PROVE InOrder'
    BY DEF InOrder
  <2>1. NeverBack
    BY <1>5, <2>a DEF NeverBack
  <2>2. clock <= clock' /\ clock' \in Int
    BY <1>2, <1>3, <1>4, <1>5, <2>a DEF NeverBack
  <2>3. /\ \A i \in 1 .. Len(fired) : fired[i].of <= clock
        /\ \A i, j \in 1 .. Len(fired) : i < j => fired[i].of < fired[j].of
        /\ loop \in {"nap", "sleep"} => \A i \in 1 .. Len(fired) : fired[i].of < due
        /\ loop = "sleep" => due <= clock + left
    BY <2>1 DEF StepInv, InOrder
  <2>4. \A i \in 1 .. Len(fired) : fired[i].of <= clock'
    BY <1>3, <2>2, <2>3, FiredInts
  <2>5. ASSUME loop = "sleep" PROVE due <= clock' + left
    <3>1. due \in Int /\ clock \in Int /\ left \in Int
      BY <1>3 DEF StepInv, StepsOK
    <3>2. PICK c \in Int, b \in Int, l \in Int, d \in Int :
              c = clock /\ b = clock' /\ l = left /\ d = due
      BY <2>2, <3>1
    <3>3. d <= c + l /\ c <= b
      BY <2>2, <2>3, <2>5, <3>2
    <3>4. d <= b + l
      BY <3>3
    <3> QED
      BY <3>2, <3>4
  <2> QED
    BY <1>2, <2>3, <2>4, <2>5 DEF InOrder
<1> QED
  BY <1>6, <1>11, <1>12 DEF StepInv

\* Every step keeps the accounts.
LEMMA NextStepInv == StepInv /\ [ClockNext]_clockVars => StepInv'
<1> SUFFICES ASSUME StepInv, [ClockNext]_clockVars PROVE StepInv'
  OBVIOUS
<1>1. CASE ComputeNext
  BY <1>1, ComputeSteps
<1>2. CASE FireEntry
  BY <1>2, FireSteps
<1>3. CASE RunDone \/ ClockTick \/ UNCHANGED clockVars
  BY <1>3, WaitSteps
<1>4. CASE \E k \in ClockSteps : StepClock(k)
  BY <1>4, JumpSteps
<1> QED
  BY <1>1, <1>2, <1>3, <1>4 DEF ClockNext

(***************************************************************************)
(* However the system clock is stepped under run_entry's sleeps, a step is *)
(* the only thing that loses an occurrence, by being stepped over or by    *)
(* bringing it within what was under way or within the run it made late;   *)
(* and only a step back has one run twice.                                 *)
(***************************************************************************)
THEOREM OnlyStepsDisturb == ClockSpec => []OnlyStepsLoseOrRepeat
<1>1. StepInv => OnlyStepsLoseOrRepeat
  <2> SUFFICES ASSUME StepInv PROVE OnlyStepsLoseOrRepeat
    OBVIOUS
  <2>1. ASSUME fired # <<>>, NEW o \in DueInstants, fired[1].of < o, o < clock
        PROVE  Accounted(o)
    <3>1. o \in Dues
      BY <2>1, DueInstantsAreDues DEF StepInv, StepsOK
    <3>2. o \in Int
      BY <3>1, WhenFacts DEF Dues, StepInv, StepsOK
    <3>3. fired \in Seq(FiredEntry)
      BY DEF StepInv, StepsOK
    <3>4. 1 \in 1 .. Len(fired)
      BY <2>1, <3>3
    <3>5. fired[1].of \in Int /\ fired[1].of > 0
      BY <3>4, FiredInts DEF StepInv, StepsOK
    <3>6. clock \in Int /\ left \in Nat
      BY HorizonInt DEF StepInv, StepsOK
    <3>7. 0 < o /\ Reached(o)
      BY <2>1, <3>2, <3>5, <3>6 DEF Reached
    <3> QED
      BY <3>1, <3>7 DEF StepInv, AllAccounted
  <2>2. ASSUME NEW i \in DOMAIN fired, NEW j \in DOMAIN fired,
               i # j, fired[i].of = fired[j].of, NeverBack
        PROVE  FALSE
    <3>1. fired \in Seq(FiredEntry)
      BY DEF StepInv, StepsOK
    <3>2. i \in 1 .. Len(fired) /\ j \in 1 .. Len(fired) /\ i \in Int /\ j \in Int
      BY <2>2, <3>1
    <3>3. fired[i].of \in Int /\ fired[j].of \in Int
      BY <3>2, FiredInts
    <3>4. \A m, n \in 1 .. Len(fired) : m < n => fired[m].of < fired[n].of
      BY <2>2 DEF StepInv, InOrder
    <3>5. i < j \/ j < i
      BY <2>2, <3>2
    <3> QED
      BY <2>2, <3>2, <3>3, <3>4, <3>5
  <2> QED
    BY <2>1, <2>2 DEF OnlyStepsLoseOrRepeat, Accounted, NeverBack
<1> QED
  BY <1>1, InitStepInv, NextStepInv, PTL DEF ClockSpec
===============================================================================
