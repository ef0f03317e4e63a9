------------------------------- MODULE Backup -------------------------------
(***************************************************************************)
(* The backup job (src/infra/db.rs): one copy of the database per run,     *)
(* written under a staging name, verified, flushed, renamed onto its       *)
(* backup name and only then counted by the retention policy; and the      *)
(* sweep of staging files at startup (main.rs).                            *)
(*                                                                         *)
(* A file is a pair <<stamp, kind>>: "db" a backup, "partial" a staging    *)
(* copy, "bad" a quarantined one.  Stamps are the seconds a run can start  *)
(* in.  The job's lock (Scheduler) lets one run at a time be in progress.  *)
(*                                                                         *)
(* The destination directory is what processes see (files) and what the    *)
(* disk may hold after a power cut (images): every content the directory   *)
(* has had since it was last synced.  File contents flush independently    *)
(* of the directory, so a copy renamed before it was flushed can come back *)
(* damaged.                                                                *)
(***************************************************************************)
EXTENDS Integers, FiniteSets

CONSTANTS
    MaxStamp,       \* bound: the last second a run starts in
    MonthLength,    \* seconds in a calendar month
    KeepRecent,     \* KEEP_RECENT
    KeepMonthly,    \* KEEP_MONTHLY
    KeepBad,        \* KEEP_BAD
    MaxFaults,      \* bound: failing steps
    MaxCrashes      \* bound: kills and power cuts

ASSUME BackupAssumption ==
    /\ {MaxStamp, MonthLength, KeepRecent, KeepMonthly} \subseteq Nat \ {0}
    /\ {KeepBad, MaxFaults, MaxCrashes} \subseteq Nat

VARIABLES
    files,      \* the backup directory, as processes see it
    images,     \* the directories a power cut may leave behind
    unflushed,  \* backups renamed into place before their data was flushed
    damaged,    \* backups that are not a restorable copy of the database
    now,        \* the current second
    up,         \* the process is running
    run,        \* the run in progress
    taken,      \* history: the backups a run created and made durable
    debris,     \* history: staging files a failure has left since startup
    faults, crashes

vars == <<files, images, unflushed, damaged, now, up, run, taken, debris,
          faults, crashes>>

Stamps == 1..MaxStamp
Kinds == {"db", "partial", "bad"}
Steps == {"idle", "vacuum", "verify", "flush", "rename", "syncdir",
          "command", "prune"}

StampsOf(dir, kind) == {s \in Stamps : <<s, kind>> \in dir}
Month(s) == (s - 1) \div MonthLength

Idle == [step |-> "idle", stamp |-> 1, sound |-> FALSE, flushed |-> FALSE,
         doomed |-> {}]

-----------------------------------------------------------------------------
(* prune_backups: what the retention policy keeps. *)

Newest(S, n) == {s \in S : Cardinality({t \in S : t > s}) < n}

MonthsOf(S) == {Month(s) : s \in S}

\* Mutant: The newest backup of a month is its keeper: `find` for `rfind`.
LatestOfMonth(S) ==
    {s \in S : /\ \A t \in S : Month(t) = Month(s) => s >= t
               /\ Month(s) \in Newest(MonthsOf(S), KeepMonthly)}

\* The first backup of each of the newest KeepMonthly months that have one.
MonthlyKeepers(S) ==
    {s \in S : /\ \A t \in S : Month(t) = Month(s) => s <= t
               /\ Month(s) \in Newest(MonthsOf(S), KeepMonthly)}

Retained(S) == Newest(S, KeepRecent) \cup MonthlyKeepers(S)

\* Mutant: Quarantined files have no bound of their own.
DoomedBackupsOnly(dir) ==
    {<<s, "db">> : s \in StampsOf(dir, "db") \ Retained(StampsOf(dir, "db"))}

\* What a run deletes: backups outside the policy, and quarantined files
\* beyond the newest KeepBad.
Doomed(dir) ==
    {<<s, "db">> : s \in StampsOf(dir, "db") \ Retained(StampsOf(dir, "db"))}
    \cup
    {<<s, "bad">> : s \in StampsOf(dir, "bad")
                            \ Newest(StampsOf(dir, "bad"), KeepBad)}

\* The pruner walks the backups and then the quarantined files, newest first.
Before(f, g) == \/ f[2] = "db" /\ g[2] = "bad"
                \/ f[2] = g[2] /\ f[1] > g[1]
IsNextDoomed(f) == /\ f \in run.doomed
                   /\ \A g \in run.doomed \ {f} : Before(f, g)

-----------------------------------------------------------------------------
(* The directory. *)

SetDir(dir) == files' = dir /\ images' = images \cup {dir}
SameDir == UNCHANGED <<files, images>>

Fault == faults < MaxFaults /\ faults' = faults + 1

\* A run that ends: its scheduler row says ok or error, nothing else changes.
EndRun == run' = Idle

Staging == <<run.stamp, "partial">>
Dest == <<run.stamp, "db">>
Quarantined == <<run.stamp, "bad">>

Init ==
    /\ files = {} /\ images = {{}}
    /\ unflushed = {} /\ damaged = {}
    /\ now = 1 /\ up = TRUE
    /\ run = Idle
    /\ taken = {} /\ debris = {}
    /\ faults = 0 /\ crashes = 0

Tick ==
    /\ now < MaxStamp
    /\ now' = now + 1
    /\ UNCHANGED <<files, images, unflushed, damaged, up, run, taken, debris,
                   faults, crashes>>

(* A run starts: an existing backup of this second is left alone and the   *)
(* run goes straight to pruning; otherwise a leftover staging file is      *)
(* removed and the copy begins under the staging name.                     *)
Begin ==
    /\ up /\ run.step = "idle"
    /\ IF <<now, "db">> \in files
       THEN /\ run' = [Idle EXCEPT !.step = "prune", !.stamp = now,
                                   !.doomed = Doomed(files)]
            /\ SameDir
            /\ UNCHANGED debris
       ELSE /\ run' = [Idle EXCEPT !.step = "vacuum", !.stamp = now]
            /\ SetDir(files \cup {<<now, "partial">>})
            /\ debris' = debris \ {now}
    /\ UNCHANGED <<unflushed, damaged, now, up, taken, faults, crashes>>

(* VACUUM INTO ends; a failing disk may have written a bad copy. *)
Vacuum ==
    /\ up /\ run.step = "vacuum"
    /\ \/ run' = [run EXCEPT !.step = "verify", !.sound = TRUE] /\ UNCHANGED faults
       \/ run' = [run EXCEPT !.step = "verify"] /\ Fault
    /\ SameDir
    /\ UNCHANGED <<unflushed, damaged, now, up, taken, debris, crashes>>

(* verify_backup passes, and install starts: the checks read the copy back, *)
(* so they pass only on a sound one.                                        *)
Verify ==
    /\ up /\ run.step = "verify"
    /\ run.sound
    /\ run' = [run EXCEPT !.step = "flush"]
    /\ SameDir
    /\ UNCHANGED <<unflushed, damaged, now, up, taken, debris, faults, crashes>>

\* Mutant: a failed run prunes all the same.
QuarantineThenPrune ==
    /\ up /\ run.step = "verify"
    /\ ~run.sound
    /\ SetDir((files \ {Staging}) \cup {Quarantined})
    /\ run' = [run EXCEPT !.step = "prune", !.doomed = Doomed(files')]
    /\ UNCHANGED <<unflushed, damaged, now, up, taken, debris, faults, crashes>>

(* Verification fails (a check that cannot run fails a sound copy too): the *)
(* file is renamed out of the way, or stays if even that fails, and the run *)
(* ends there.                                                              *)
Quarantine ==
    /\ up /\ run.step = "verify"
    /\ \/ ~run.sound /\ UNCHANGED faults
       \/ run.sound /\ Fault
    /\ \/ /\ SetDir((files \ {Staging}) \cup {Quarantined})
          /\ UNCHANGED debris
       \/ /\ SameDir
          /\ debris' = debris \cup {run.stamp}
    /\ EndRun
    /\ UNCHANGED <<unflushed, damaged, now, up, taken, crashes>>

\* Mutant: the copy is not flushed before it is renamed onto its backup name.
SyncFileSkipped ==
    /\ up /\ run.step = "flush"
    /\ run' = [run EXCEPT !.step = "rename"]
    /\ SameDir
    /\ UNCHANGED <<unflushed, damaged, now, up, taken, debris, faults, crashes>>

(* install: flush the copy, rename it, flush the directory. *)
SyncFile ==
    /\ up /\ run.step = "flush"
    /\ run' = [run EXCEPT !.step = "rename", !.flushed = TRUE]
    /\ SameDir
    /\ UNCHANGED <<unflushed, damaged, now, up, taken, debris, faults, crashes>>

Rename ==
    /\ up /\ run.step = "rename"
    /\ SetDir((files \ {Staging}) \cup {Dest})
    /\ unflushed' = IF run.flushed THEN unflushed ELSE unflushed \cup {run.stamp}
    /\ damaged' = IF run.sound THEN damaged ELSE damaged \cup {run.stamp}
    /\ run' = [run EXCEPT !.step = "syncdir"]
    /\ UNCHANGED <<now, up, taken, debris, faults, crashes>>

SyncDir ==
    /\ up /\ run.step = "syncdir"
    /\ images' = {files}
    /\ taken' = taken \cup {run.stamp}
    /\ run' = [run EXCEPT !.step = "command"]
    /\ UNCHANGED <<files, unflushed, damaged, now, up, debris, faults, crashes>>

(* A step of the copy fails (a full disk, an I/O error): the run ends with *)
(* an error, without pruning, and whatever it had written stays.           *)
StepFails ==
    /\ up /\ run.step \in {"vacuum", "flush", "rename", "syncdir"}
    /\ Fault
    /\ debris' = IF run.step = "syncdir" THEN debris
                                         ELSE debris \cup {run.stamp}
    /\ SameDir
    /\ EndRun
    /\ UNCHANGED <<unflushed, damaged, now, up, taken, crashes>>

(* The post-backup command succeeds, fails, or is killed at its timeout;   *)
(* pruning follows whatever it did.                                        *)
Command ==
    /\ up /\ run.step = "command"
    /\ run' = [run EXCEPT !.step = "prune", !.doomed = Doomed(files)]
    /\ SameDir
    /\ UNCHANGED <<unflushed, damaged, now, up, taken, debris, faults, crashes>>

Prune ==
    /\ up /\ run.step = "prune"
    /\ \E f \in run.doomed :
           /\ IsNextDoomed(f)
           /\ SetDir(files \ {f})
           /\ run' = [run EXCEPT !.doomed = @ \ {f}]
    /\ UNCHANGED <<unflushed, damaged, now, up, taken, debris, faults, crashes>>

(* Nothing is left to delete, or a deletion fails and the rest is left to  *)
(* the next run.                                                           *)
EndPrune ==
    /\ up /\ run.step = "prune"
    /\ \/ run.doomed = {} /\ UNCHANGED faults
       \/ run.doomed # {} /\ Fault
    /\ EndRun
    /\ SameDir
    /\ UNCHANGED <<unflushed, damaged, now, up, taken, debris, crashes>>

-----------------------------------------------------------------------------
(* Crashes and startup. *)

Crash == up /\ crashes < MaxCrashes /\ crashes' = crashes + 1
             /\ up' = FALSE /\ run' = Idle

(* The process is killed: the files it had written stay. *)
Kill ==
    /\ Crash
    /\ SameDir
    /\ UNCHANGED <<unflushed, damaged, now, taken, debris, faults>>

(* The power fails: the directory comes back as it was at some point since *)
(* it was last synced, and a copy that was not flushed may be damaged.     *)
PowerCut ==
    /\ Crash
    /\ files' \in images
    /\ images' = {files'}
    /\ \E torn \in SUBSET (unflushed \cap StampsOf(files', "db")) :
           damaged' = damaged \cup torn
    /\ unflushed' = {}
    /\ UNCHANGED <<now, taken, debris, faults>>

\* Mutant: The sweep takes quarantined files for staging ones.
SweptBad(dir) == {f \in dir : f[2] # "bad"}

Swept(dir) == {f \in dir : f[2] # "partial"}

(* Startup: sweep_partial_backups, which may fail part way and is then only *)
(* logged.                                                                  *)
Boot ==
    /\ ~up
    /\ up' = TRUE
    /\ \/ SetDir(Swept(files)) /\ debris' = {} /\ UNCHANGED faults
       \/ /\ Fault
          /\ \E left \in SUBSET StampsOf(files, "partial") \ {{}} :
                 /\ SetDir(Swept(files) \cup {<<s, "partial">> : s \in left})
                 /\ debris' = left
    /\ UNCHANGED <<unflushed, damaged, now, run, taken, crashes>>

RunStep == \/ Begin \/ Vacuum \/ Verify \/ Quarantine \/ SyncFile \/ Rename
           \/ SyncDir \/ StepFails \/ Command \/ Prune \/ EndPrune

Next == Tick \/ RunStep \/ Kill \/ PowerCut \/ Boot

Spec == Init /\ [][Next]_vars
-----------------------------------------------------------------------------
(* Properties. *)

\* The variables hold values of their types, and the disk may hold what the
\* processes see.
TypeOK ==
    /\ files \subseteq Stamps \X Kinds
    /\ images \subseteq SUBSET (Stamps \X Kinds) /\ files \in images
    /\ unflushed \subseteq Stamps /\ damaged \subseteq Stamps
    /\ now \in Stamps /\ up \in BOOLEAN
    /\ run \in [step : Steps, stamp : Stamps, sound : BOOLEAN,
                flushed : BOOLEAN, doomed : SUBSET (Stamps \X Kinds)]
    /\ taken \subseteq Stamps /\ debris \subseteq Stamps
    /\ faults \in 0..MaxFaults /\ crashes \in 0..MaxCrashes

\* A file that carries a backup's name is a restorable copy, whatever failed
\* or crashed while it was made (backup_to: write, verify, flush, rename).
InstalledSound == damaged \cap StampsOf(files, "db") = {}

\* Of all the backups ever created, the newest KeepRecent and the first of
\* each of the newest KeepMonthly months are there, through every sequence of
\* prunings, failed runs and crashes (prune_backups: a keeper today is never
\* the file an earlier run deleted).
HistoryKept ==
    LET backups == StampsOf(files, "db")
        made == taken \cup backups
        isFirstOfMonth(s) == \A t \in made : t < s => Month(t) # Month(s)
        newerMonths(s) == {m \in MonthsOf(made) : m > Month(s)}
    IN  \A s \in made \ backups :
            /\ Cardinality({t \in made : t > s}) >= KeepRecent
            /\ isFirstOfMonth(s) => Cardinality(newerMonths(s)) >= KeepMonthly

\* A backup goes away only in a run that has its own backup in place, never
\* that backup, and a power cut takes none that a run had reported (backup:
\* "a failed run must never shrink the set of known-good backups").
NothingLost ==
    [][\A s \in StampsOf(files, "db") \ StampsOf(files', "db") :
          \/ up' /\ run.step = "prune" /\ s # run.stamp
                /\ <<run.stamp, "db">> \in files
          \/ ~up' /\ s \notin taken]_vars

\* A run that ends its pruning without a failure leaves a bounded directory,
\* whatever earlier runs and crashes left in it: at most the backups and the
\* quarantined copies of the policy, and no staging file but those of steps
\* that failed since startup (sweep_partial_backups took the others).
BoundedByPruning ==
    [][run.step = "prune" /\ run'.step = "idle" /\ up' /\ faults' = faults =>
          /\ StampsOf(files', "partial") \subseteq debris'
          /\ Cardinality(StampsOf(files', "db")) <= KeepRecent + KeepMonthly
          /\ Cardinality(StampsOf(files', "bad")) <= KeepBad]_vars

\* README "Backup retention": quarantined files are "bounded to the newest 3,
\* because ... a failing disk ... fails every weekly run".  One more than the
\* bound is allowed here, for the file the last run has just quarantined.
QuarantineBounded == Cardinality(StampsOf(files, "bad")) <= KeepBad + 1
=============================================================================
