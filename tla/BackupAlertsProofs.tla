------------------------- MODULE BackupAlertsProofs -------------------------
(***************************************************************************)
(* Proofs about the two jobs whose steps reach outside the database.  Of   *)
(* Backup: a backup's name is only ever carried by a sound copy, and no    *)
(* backup goes away except in a run that has put its own in place.  Of     *)
(* Alerts: the log of sent alerts and the mail agree.                      *)
(***************************************************************************)
EXTENDS Backup, Alerts, SetTheorems, FiniteSetTheorems, TLAPS

-----------------------------------------------------------------------------
(* The inductive invariant. *)

\* What each step of a run has established about the copy it makes.
CopyInv ==
    /\ unflushed = {} /\ damaged = {}
    /\ run.step \in {"flush", "rename"} => run.sound
    /\ run.step = "rename" => run.flushed

Creating == {"vacuum", "verify", "flush", "rename"}

\* The run in progress is the newest: nothing installed is newer than it, its
\* own stamp is not taken yet while it makes its copy, and its backup is in
\* place and not among the files it deletes once it prunes.
RunInv ==
    /\ run.step # "idle" => \A s \in taken \cup StampsOf(files, "db") : s <= run.stamp
    /\ run.step \in Creating \cup {"syncdir"} => run.stamp \notin taken
    /\ run.step \in {"syncdir", "command", "prune"} => Dest \in files
    /\ run.step = "prune" => Dest \notin run.doomed

\* Stamps are never ahead of the clock, and a backup that was made durable and
\* is still there is in every directory a power cut may leave.
ClockInv ==
    /\ run.stamp <= now
    /\ \A s \in taken : s <= now
    /\ \A dir \in images : \A s \in StampsOf(dir, "db") : s <= now
    /\ now \in taken => <<now, "db">> \in files
    /\ \A s \in taken \cap StampsOf(files, "db") :
           \A dir \in images : <<s, "db">> \in dir

IInv == TypeOK /\ CopyInv /\ RunInv /\ ClockInv

-----------------------------------------------------------------------------
(* The newest backup is never doomed: no run deletes the backup it made. *)
LEMMA FreshIsKept ==
    ASSUME NEW dir \in SUBSET (Stamps \X Kinds), NEW r \in Stamps,
           \A s \in StampsOf(dir, "db") : s <= r
    PROVE  /\ <<r, "db">> \notin Doomed(dir)
           /\ Doomed(dir) \subseteq dir
<1>1. \A s \in Stamps : s \in Nat
  BY BackupAssumption DEF Stamps
<1>2. {t \in StampsOf(dir, "db") : t > r} = {}
  BY <1>1 DEF StampsOf
<1>3. Cardinality({}) = 0
  BY FS_EmptySet
<1>4. KeepRecent \in Nat /\ 0 < KeepRecent
  BY BackupAssumption
<1>5. r \in StampsOf(dir, "db") => r \in Retained(StampsOf(dir, "db"))
  BY <1>2, <1>3, <1>4 DEF Retained, Newest
<1> QED
  BY <1>5 DEF Doomed, StampsOf

\* An empty backup directory satisfies the invariant.
LEMMA InitInv == Init => IInv
<1> SUFFICES ASSUME Init PROVE IInv
  OBVIOUS
<1> USE DEF Init
<1>0. 1 \in Stamps /\ \A s \in Stamps : s \in Int
  BY BackupAssumption DEF Stamps
<1>1. TypeOK
  BY <1>0, BackupAssumption DEF TypeOK, Idle, Steps, Kinds
<1>2. CopyInv
  BY DEF CopyInv, Idle
<1>3. RunInv
  BY DEF RunInv, Idle, Creating
<1>4. ClockInv
  BY DEF ClockInv, Idle, StampsOf
<1> QED
  BY <1>1, <1>2, <1>3, <1>4 DEF IInv

-----------------------------------------------------------------------------
(* Every step preserves the invariant. *)

\* Every step of a run, of the disk and of the calendar keeps the types.
LEMMA StepType == TypeOK /\ [Next]_vars => TypeOK'
<1> SUFFICES ASSUME TypeOK, [Next]_vars PROVE TypeOK'
  OBVIOUS
<1> USE DEF TypeOK
<1> DEFINE Runs == [step : Steps, stamp : Stamps, sound : BOOLEAN,
                    flushed : BOOLEAN, doomed : SUBSET (Stamps \X Kinds)]
<1>0. /\ MaxFaults \in Nat /\ MaxCrashes \in Nat /\ MaxStamp \in Nat \ {0}
      /\ 1 \in Stamps /\ \A s \in Stamps : s \in Int
      /\ \A k \in Kinds : \A s \in Stamps : <<s, k>> \in Stamps \X Kinds
      /\ "db" \in Kinds /\ "bad" \in Kinds /\ "partial" \in Kinds
      /\ Idle \in Runs
  BY BackupAssumption DEF Stamps, Kinds, Idle, Steps
<1>1. Fault => faults' \in 0..MaxFaults
  BY <1>0 DEF Fault
<1>2. Doomed(files) \subseteq Stamps \X Kinds
  <2>1. \A dir, k : StampsOf(dir, k) \subseteq Stamps
    BY DEF StampsOf
  <2> QED
    BY <1>0, <2>1 DEF Doomed
<1>3. CASE Tick
  BY <1>0, <1>3 DEF Tick, Stamps
<1>4. CASE Begin
  <2>1. Idle.step = "idle" /\ [Idle EXCEPT !.step = "vacuum", !.stamp = now]
          \in Runs
    BY <1>0 DEF Idle, Steps
  <2>2. [Idle EXCEPT !.step = "prune", !.stamp = now, !.doomed = Doomed(files)]
          \in Runs
    BY <1>0, <1>2 DEF Idle, Steps
  <2>3. files' \subseteq Stamps \X Kinds
    BY <1>0, <1>4 DEF Begin, SetDir, SameDir
  <2>4. images' \subseteq SUBSET (Stamps \X Kinds) /\ files' \in images'
    BY <1>4, <2>3 DEF Begin, SetDir, SameDir
  <2>5. run' \in Runs
    BY <1>4, <2>1, <2>2 DEF Begin
  <2>6. debris' \subseteq Stamps
    BY <1>4 DEF Begin
  <2> QED
    BY <1>4, <2>3, <2>4, <2>5, <2>6 DEF Begin
<1>5. CASE Vacuum \/ Verify \/ SyncFile
  <2>1. run' \in Runs
    <3>1. /\ [run EXCEPT !.step = "verify", !.sound = TRUE] \in Runs
          /\ [run EXCEPT !.step = "verify"] \in Runs
          /\ [run EXCEPT !.step = "flush"] \in Runs
          /\ [run EXCEPT !.step = "rename", !.flushed = TRUE] \in Runs
      BY DEF Steps
    <3>2. CASE Vacuum
      BY <3>1, <3>2 DEF Vacuum
    <3>3. CASE Verify \/ SyncFile
      BY <3>1, <3>3 DEF Verify, SyncFile
    <3> QED
      BY <1>5, <3>2, <3>3
  <2>2. faults' \in 0..MaxFaults
    BY <1>1, <1>5 DEF Vacuum, Verify, SyncFile
  <2> QED
    BY <1>5, <2>1, <2>2 DEF Vacuum, Verify, SyncFile, SameDir
<1>6. CASE Quarantine
  BY <1>0, <1>1, <1>6 DEF Quarantine, SetDir, SameDir, Staging, Quarantined, EndRun
<1>7. CASE Rename
  BY <1>0, <1>7 DEF Rename, SetDir, Staging, Dest, Steps
<1>8. CASE SyncDir
  BY <1>8 DEF SyncDir, Steps
<1>9. CASE StepFails
  BY <1>0, <1>1, <1>9 DEF StepFails, SameDir, EndRun
<1>10. CASE Command
  <2>1. run' \in Runs
    <3>1. [run EXCEPT !.step = "prune"] \in Runs
      BY DEF Steps
    <3>2. \A r \in Runs : \A d \in SUBSET (Stamps \X Kinds) :
              [r EXCEPT !.doomed = d] \in Runs
      OBVIOUS
    <3> QED
      BY <1>2, <1>10, <3>1, <3>2 DEF Command
  <2> QED
    BY <1>10, <2>1 DEF Command, SameDir
<1>11. CASE Prune
  <2>1. run' \in Runs
    <3>1. PICK f \in run.doomed : run' = [run EXCEPT !.doomed = @ \ {f}]
      BY <1>11 DEF Prune
    <3>2. run.doomed \ {f} \in SUBSET (Stamps \X Kinds)
      OBVIOUS
    <3> QED
      BY <3>1, <3>2
  <2>2. files' \subseteq files /\ images' = images \cup {files'}
    BY <1>11 DEF Prune, SetDir
  <2>3. images' \subseteq SUBSET (Stamps \X Kinds) /\ files' \in images'
    BY <2>2
  <2> QED
    BY <1>11, <2>1, <2>2, <2>3 DEF Prune
<1>12. CASE EndPrune
  BY <1>0, <1>1, <1>12 DEF EndPrune, SameDir, EndRun
<1>13. Crash => up' \in BOOLEAN /\ run' \in Runs /\ crashes' \in 0..MaxCrashes
  <2>1. crashes < MaxCrashes => crashes + 1 \in 0..MaxCrashes
    BY <1>0
  <2> QED
    BY <1>0, <2>1 DEF Crash
<1>14. CASE Kill
  BY <1>13, <1>14 DEF Kill, SameDir
<1>15. CASE PowerCut
  <2>1. files' \in images /\ images' = {files'}
    BY <1>15 DEF PowerCut
  <2>2. damaged' \subseteq Stamps
    BY <1>15 DEF PowerCut
  <2> QED
    BY <1>13, <1>15, <2>1, <2>2 DEF PowerCut
<1>16. CASE Boot
  <2>1. Swept(files) \subseteq files
    BY DEF Swept
  <2>2. \A left \in SUBSET StampsOf(files, "partial") :
            /\ left \subseteq Stamps
            /\ {<<s, "partial">> : s \in left} \subseteq Stamps \X Kinds
    <3>1. StampsOf(files, "partial") \subseteq Stamps
      BY DEF StampsOf
    <3> QED
      BY <1>0, <3>1
  <2>3. files' \subseteq Stamps \X Kinds /\ images' = images \cup {files'}
    BY <1>16, <2>1, <2>2 DEF Boot, SetDir
  <2>4. debris' \subseteq Stamps
    <3>1. \/ debris' = {}
          \/ \E left \in SUBSET StampsOf(files, "partial") : debris' = left
      BY <1>16 DEF Boot
    <3> QED
      BY <2>2, <3>1
  <2>6. faults' \in 0..MaxFaults
    <3>1. Fault \/ UNCHANGED faults
      BY <1>16 DEF Boot
    <3> QED
      BY <1>1, <3>1
  <2>5. images' \subseteq SUBSET (Stamps \X Kinds) /\ files' \in images'
    BY <2>3
  <2> QED
    BY <1>16, <2>3, <2>4, <2>5, <2>6 DEF Boot
<1>17. CASE UNCHANGED vars
  BY <1>17 DEF vars
<1> QED
  BY <1>3, <1>4, <1>5, <1>6, <1>7, <1>8, <1>9, <1>10, <1>11, <1>12, <1>14,
     <1>15, <1>16, <1>17 DEF Next, RunStep

\* The copy is flushed and sound by the time it takes a backup's name.
LEMMA StepCopy == TypeOK /\ CopyInv /\ [Next]_vars => CopyInv'
<1> SUFFICES ASSUME TypeOK, CopyInv, [Next]_vars PROVE CopyInv'
  OBVIOUS
<1> USE DEF TypeOK, CopyInv
<1>1. CASE Tick \/ UNCHANGED vars
  BY <1>1 DEF Tick, vars
<1>2. CASE Begin
  BY <1>2 DEF Begin, Idle
<1>3. CASE Vacuum \/ Verify \/ SyncFile
  BY <1>3 DEF Vacuum, Verify, SyncFile
<1>4. CASE Quarantine \/ StepFails \/ EndPrune
  BY <1>4 DEF Quarantine, StepFails, EndPrune, EndRun, Idle
<1>5. CASE Rename \/ SyncDir \/ Command \/ Prune
  BY <1>5 DEF Rename, SyncDir, Command, Prune
<1>6. CASE Kill
  BY <1>6 DEF Kill, Crash, Idle
<1>7. CASE PowerCut
  BY <1>7 DEF PowerCut, Crash, Idle
<1>8. CASE Boot
  BY <1>8 DEF Boot
<1> QED
  BY <1>1, <1>2, <1>3, <1>4, <1>5, <1>6, <1>7, <1>8 DEF Next, RunStep

\* The run in progress stays the newest, and never deletes its own backup.
LEMMA StepRun == IInv /\ [Next]_vars => RunInv'
<1> SUFFICES ASSUME IInv, [Next]_vars PROVE RunInv'
  OBVIOUS
<1> USE DEF IInv, RunInv, Creating
<1>0. /\ \A s \in Stamps : s \in Int
      /\ now \in Stamps /\ run.stamp \in Stamps /\ taken \subseteq Stamps
      /\ files \subseteq Stamps \X Kinds /\ files \in images
  BY DEF TypeOK, Stamps
<1>1. CASE Tick \/ UNCHANGED vars
  BY <1>1 DEF Tick, vars, Dest
<1>2. CASE Begin
  <2>1. run'.stamp = now /\ run'.step \in {"prune", "vacuum"}
    BY <1>2 DEF Begin, Idle
  <2>2. \A s \in taken' \cup StampsOf(files', "db") : s <= now
    BY <1>0, <1>2 DEF Begin, ClockInv, StampsOf, SetDir, SameDir
  <2>3. run'.step = "vacuum" => now \notin taken'
    BY <1>2 DEF Begin, ClockInv, Idle
  <2>4. run'.step = "prune" => Dest' \in files' /\ Dest' \notin run'.doomed
    <3>1. ASSUME run'.step = "prune"
          PROVE  <<now, "db">> \in files /\ files' = files /\ run'.doomed = Doomed(files)
      BY <1>2, <3>1 DEF Begin, Idle, SameDir
    <3>2. \A s \in StampsOf(files, "db") : s <= now
      BY <1>0 DEF ClockInv
    <3> QED
      BY <1>0, <2>1, <3>1, <3>2, FreshIsKept DEF Dest
  <2> QED
    BY <2>1, <2>2, <2>3, <2>4
<1>3. CASE Vacuum \/ Verify \/ SyncFile
  BY <1>3 DEF Vacuum, Verify, SyncFile, SameDir, TypeOK
<1>4. CASE Quarantine \/ StepFails \/ EndPrune
  BY <1>4 DEF Quarantine, StepFails, EndPrune, EndRun, Idle
<1>5. CASE Rename
  <2>1. run'.stamp = run.stamp /\ run'.step = "syncdir" /\ taken' = taken
    BY <1>5 DEF Rename, TypeOK
  <2>2. StampsOf(files', "db") \subseteq StampsOf(files, "db") \cup {run.stamp}
    BY <1>0, <1>5 DEF Rename, SetDir, StampsOf, Dest, Staging
  <2>3. Dest' \in files'
    BY <1>5, <2>1 DEF Rename, SetDir, Dest
  <2> QED
    BY <1>0, <1>5, <2>1, <2>2, <2>3 DEF Rename
<1>6. CASE SyncDir
  BY <1>0, <1>6 DEF SyncDir, TypeOK, Dest, StampsOf
<1>7. CASE Command
  <2>1. run'.stamp = run.stamp /\ run'.step = "prune" /\ run'.doomed = Doomed(files)
    BY <1>7 DEF Command, TypeOK
  <2>2. taken' = taken /\ files' = files /\ Dest \in files
    BY <1>7 DEF Command, SameDir
  <2>3. Dest \notin Doomed(files)
    BY <1>0, <1>7, FreshIsKept DEF Command, Dest
  <2> QED
    BY <1>7, <2>1, <2>2, <2>3 DEF Command, Dest
<1>8. CASE Prune
  <2>1. PICK f \in run.doomed : /\ SetDir(files \ {f})
                               /\ run' = [run EXCEPT !.doomed = @ \ {f}]
    BY <1>8 DEF Prune
  <2>2. run'.stamp = run.stamp /\ run'.step = "prune" /\ run'.doomed \subseteq run.doomed
    BY <1>8, <2>1 DEF Prune, TypeOK
  <2>3. f # Dest /\ files' = files \ {f} /\ taken' = taken
    BY <1>8, <2>1 DEF Prune, SetDir
  <2> QED
    BY <1>8, <2>2, <2>3 DEF Prune, Dest, StampsOf
<1>9. CASE Kill \/ PowerCut
  BY <1>9 DEF Kill, PowerCut, Crash, Idle
<1>10. CASE Boot
  <2>1. StampsOf(files', "db") = StampsOf(files, "db") /\ (Dest \in files => Dest \in files')
    BY <1>0, <1>10 DEF Boot, SetDir, Swept, StampsOf, Dest
  <2> QED
    BY <1>10, <2>1 DEF Boot, Dest
<1> QED
  BY <1>1, <1>2, <1>3, <1>4, <1>5, <1>6, <1>7, <1>8, <1>9, <1>10
  DEF Next, RunStep

\* A step that only adds a directory holding the same backups as before keeps
\* what is known of the directories a power cut may leave.
LEMMA SameBackups ==
    ASSUME IInv, images' \subseteq images \cup {files'},
           StampsOf(files', "db") = StampsOf(files, "db"),
           taken' = taken, now' = now, run'.stamp \in {run.stamp, now, 1}
    PROVE  ClockInv'
<1> USE DEF IInv, ClockInv
<1>0. /\ \A s \in Stamps : s \in Int /\ 1 <= s
      /\ now \in Stamps /\ run.stamp \in Stamps /\ taken \subseteq Stamps
      /\ files \in images
  BY DEF TypeOK, Stamps
<1>1. \A s \in Stamps : <<s, "db">> \in files' <=> <<s, "db">> \in files
  BY DEF StampsOf
<1>2. run'.stamp <= now'
  BY <1>0
<1>3. \A dir \in images' : \A s \in StampsOf(dir, "db") : s <= now
  BY <1>0
<1>4. \A s \in taken \cap StampsOf(files, "db") :
          \A dir \in images' : <<s, "db">> \in dir
  BY <1>0, <1>1
<1> QED
  BY <1>0, <1>1, <1>2, <1>3, <1>4

\* Every file a step leaves behind is dated at or before the clock.
LEMMA StepClock == IInv /\ [Next]_vars => ClockInv'
<1> SUFFICES ASSUME IInv, [Next]_vars PROVE ClockInv'
  OBVIOUS
<1>0. /\ \A s \in Stamps : s \in Int /\ 1 <= s
      /\ now \in Stamps /\ run.stamp \in Stamps /\ taken \subseteq Stamps
      /\ files \subseteq Stamps \X Kinds /\ files \in images
  BY DEF IInv, TypeOK, Stamps
<1>1. CASE Tick
  <2>1. now' = now + 1 /\ now' \notin taken
    BY <1>0, <1>1 DEF Tick, IInv, ClockInv
  <2>2. \A dir \in images : \A s \in StampsOf(dir, "db") : s <= now'
    BY <1>0, <2>1 DEF IInv, ClockInv, StampsOf
  <2> QED
    BY <1>0, <1>1, <2>1, <2>2 DEF Tick, IInv, ClockInv
<1>2. CASE Begin
  <2>1. StampsOf(files', "db") = StampsOf(files, "db")
    BY <1>2 DEF Begin, SetDir, SameDir, StampsOf
  <2> QED
    BY <1>2, <2>1, SameBackups DEF Begin, SetDir, SameDir, Idle
<1>3. CASE Vacuum \/ Verify \/ SyncFile \/ Command
  <2>1. run'.stamp = run.stamp
    BY <1>3 DEF Vacuum, Verify, SyncFile, Command, IInv, TypeOK
  <2> QED
    BY <1>3, <2>1, SameBackups DEF Vacuum, Verify, SyncFile, Command, SameDir
<1>4. CASE Quarantine
  <2>1. StampsOf(files', "db") = StampsOf(files, "db")
    BY <1>4 DEF Quarantine, SetDir, SameDir, StampsOf, Staging, Quarantined
  <2> QED
    BY <1>4, <2>1, SameBackups DEF Quarantine, SetDir, SameDir, EndRun, Idle
<1>5. CASE StepFails \/ EndPrune
  BY <1>5, SameBackups DEF StepFails, EndPrune, SameDir, EndRun, Idle
<1>6. CASE Rename
  <2>1. /\ run'.stamp = run.stamp /\ taken' = taken /\ now' = now
        /\ run.stamp \notin taken
    BY <1>6 DEF Rename, IInv, TypeOK, RunInv, Creating
  <2>2. /\ StampsOf(files', "db") = StampsOf(files, "db") \cup {run.stamp}
        /\ images' = images \cup {files'}
    BY <1>0, <1>6 DEF Rename, SetDir, StampsOf, Staging, Dest
  <2>3. \A dir \in images' : \A s \in StampsOf(dir, "db") : s <= now
    BY <1>0, <2>2 DEF IInv, ClockInv
  <2>4. <<now, "db">> \in files => <<now, "db">> \in files'
    BY <1>6 DEF Rename, SetDir, Staging
  <2>5. \A s \in taken \cap StampsOf(files', "db") :
            \A dir \in images' : <<s, "db">> \in dir
    BY <1>0, <2>1, <2>2 DEF IInv, ClockInv, StampsOf
  <2> QED
    BY <1>0, <2>1, <2>3, <2>4, <2>5 DEF IInv, ClockInv
<1>7. CASE SyncDir
  <2>1. /\ run'.stamp = run.stamp /\ taken' = taken \cup {run.stamp}
        /\ now' = now /\ files' = files /\ images' = {files}
        /\ <<run.stamp, "db">> \in files
    BY <1>7 DEF SyncDir, IInv, TypeOK, RunInv, Dest
  <2> QED
    BY <1>0, <2>1 DEF IInv, ClockInv, StampsOf
<1>8. CASE Prune
  <2>1. PICK f \in run.doomed : files' = files \ {f} /\ images' = images \cup {files'}
    BY <1>8 DEF Prune, SetDir
  <2>2. run'.stamp = run.stamp /\ taken' = taken /\ now' = now
    BY <1>8 DEF Prune, IInv, TypeOK
  <2>3. \A s \in taken : s <= run.stamp
    BY <1>8 DEF Prune, IInv, RunInv
  <2>4. now \in taken => <<now, "db">> \in files'
    <3>1. now \in taken => now = run.stamp
      BY <1>0, <2>3 DEF IInv, ClockInv
    <3>2. <<run.stamp, "db">> \in files /\ <<run.stamp, "db">> \notin run.doomed
      BY <1>8 DEF Prune, IInv, RunInv, Dest
    <3> QED
      BY <2>1, <3>1, <3>2
  <2>5. \A s \in taken \cap StampsOf(files', "db") :
            \A dir \in images' : <<s, "db">> \in dir
    BY <2>1 DEF IInv, ClockInv, StampsOf
  <2>6. \A dir \in images' : \A s \in StampsOf(dir, "db") : s <= now
    BY <1>0, <2>1 DEF IInv, ClockInv, StampsOf
  <2> QED
    BY <1>0, <2>2, <2>4, <2>5, <2>6 DEF IInv, ClockInv
<1>9. CASE Kill
  BY <1>9, SameBackups DEF Kill, Crash, SameDir, Idle
<1>10. CASE PowerCut
  <2>1. /\ files' \in images /\ images' = {files'} /\ taken' = taken
        /\ now' = now /\ run'.stamp = 1
    BY <1>10 DEF PowerCut, Crash, Idle
  <2>2. now \in taken => <<now, "db">> \in files'
    BY <1>0, <2>1 DEF IInv, ClockInv, StampsOf
  <2> QED
    BY <1>0, <2>1, <2>2 DEF IInv, ClockInv, StampsOf
<1>11. CASE Boot
  <2>1. StampsOf(files', "db") = StampsOf(files, "db")
    BY <1>11 DEF Boot, SetDir, Swept, StampsOf
  <2> QED
    BY <1>11, <2>1, SameBackups DEF Boot, SetDir
<1>12. CASE UNCHANGED vars
  BY <1>12, SameBackups DEF vars
<1> QED
  BY <1>1, <1>2, <1>3, <1>4, <1>5, <1>6, <1>7, <1>8, <1>9, <1>10, <1>11,
     <1>12 DEF Next, RunStep

\* The inductive invariant holds in every reachable state.
THEOREM Invariance == Spec => []IInv
<1>1. IInv /\ [Next]_vars => IInv'
  BY StepType, StepCopy, StepRun, StepClock DEF IInv
<1> QED
  BY <1>1, InitInv, PTL DEF Spec

-----------------------------------------------------------------------------
(* What the retention policy keeps: facts about finite sets of numbers.    *)

\* Cardinalities of the parts of a finite set.
LEMMA Fewer ==
    ASSUME NEW S, IsFiniteSet(S), NEW T \in SUBSET S
    PROVE  /\ IsFiniteSet(T) /\ Cardinality(T) \in Nat /\ Cardinality(S) \in Nat
           /\ Cardinality(T) <= Cardinality(S)
BY FS_Subset, FS_CardinalityType

\* The newest n of a set are at most n ...
LEMMA NewestBounded ==
    ASSUME NEW S, IsFiniteSet(S), S \subseteq Int, NEW n \in Nat
    PROVE  IsFiniteSet(Newest(S, n)) /\ Cardinality(Newest(S, n)) <= n
<1>1. Newest(S, n) \subseteq S
  BY DEF Newest
<1>2. IsFiniteSet(Newest(S, n))
  BY <1>1, FS_Subset
<1>3. CASE Newest(S, n) = {}
  BY <1>3, FS_EmptySet
<1>4. CASE Newest(S, n) # {}
  <2>1. PICK m \in Newest(S, n) : \A x \in Newest(S, n) : m <= x
    BY <1>1, <1>2, <1>4, HasMin
  <2>2. m \in S /\ Cardinality({t \in S : t > m}) < n
    BY <2>1 DEF Newest
  <2>3. Newest(S, n) \ {m} \subseteq {t \in S : t > m}
    <3>1. ASSUME NEW t \in Newest(S, n) \ {m}
          PROVE  t \in S /\ t > m
      BY <1>1, <2>1, <2>2
    <3> QED
      BY <3>1
  <2>4. /\ Cardinality(Newest(S, n) \ {m}) <= Cardinality({t \in S : t > m})
        /\ Cardinality(Newest(S, n) \ {m}) \in Nat
        /\ Cardinality({t \in S : t > m}) \in Nat
    <3>1. IsFiniteSet({t \in S : t > m})
      BY FS_Subset
    <3> QED
      BY <2>3, <3>1, Fewer
  <2>5. Cardinality(Newest(S, n) \ {m}) = Cardinality(Newest(S, n)) - 1
    BY <1>2, <2>1, FS_RemoveElement
  <2>6. Cardinality(Newest(S, n)) \in Nat
    BY <1>2, FS_CardinalityType
  <2> QED
    BY <1>2, <2>2, <2>4, <2>5, <2>6
<1> QED
  BY <1>2, <1>3, <1>4

\* ... and a member that is not among them has all n above it.
LEMMA NewestAbove ==
    ASSUME NEW S, IsFiniteSet(S), S \subseteq Int, NEW n \in Nat,
           NEW d \in S, d \notin Newest(S, n)
    PROVE  Cardinality({t \in Newest(S, n) : t > d}) >= n
<1> DEFINE B == S \ Newest(S, n)
<1>1. PICK m \in B : \A x \in B : x <= m
  <2>1. IsFiniteSet(B) /\ B \subseteq Int /\ B # {}
    BY FS_Subset
  <2> HIDE DEF B
  <2> QED
    BY <2>1, HasMax
<1>2. {t \in S : t > m} \subseteq {t \in Newest(S, n) : t > d}
  <2>1. ASSUME NEW t \in S, t > m
        PROVE  t \in Newest(S, n) /\ t > d
    <3>1. t \in Int /\ m \in Int /\ d \in Int /\ d <= m
      BY <1>1
    <3>2. t \notin B
      BY <1>1, <2>1, <3>1
    <3> QED
      BY <2>1, <3>1, <3>2
  <2> QED
    BY <2>1
<1>3. ~(Cardinality({t \in S : t > m}) < n)
  BY <1>1 DEF Newest
<1>4. IsFiniteSet({t \in Newest(S, n) : t > d})
  BY FS_Subset DEF Newest
<1> QED
  BY <1>2, <1>3, <1>4, Fewer

-----------------------------------------------------------------------------
(* What a prune keeps. *)

Newer(S, d) == {t \in S : t > d}
NewerMonths(S, d) == {m \in MonthsOf(S) : m > Month(d)}

\* The backups K justify deleting d: KeepRecent of them are newer, and there
\* is an earlier one of its month or KeepMonthly newer months.
Covers(K, d) ==
    /\ Cardinality(Newer(K, d)) >= KeepRecent
    /\ \/ \E e \in K : Month(e) = Month(d) /\ e < d
       \/ Cardinality(NewerMonths(K, d)) >= KeepMonthly

\* Sets of stamps are finite sets of numbers, and so are their months.
LEMMA StampFacts ==
    ASSUME NEW S \in SUBSET Stamps
    PROVE  /\ IsFiniteSet(S) /\ S \subseteq Int
           /\ IsFiniteSet(MonthsOf(S)) /\ MonthsOf(S) \subseteq Int
<1>1. IsFiniteSet(Stamps) /\ Stamps \subseteq Int
  BY FS_Interval, BackupAssumption DEF Stamps
<1>2. IsFiniteSet(S) /\ S \subseteq Int
  BY <1>1, FS_Subset
<1>3. IsFiniteSet(MonthsOf(S))
  <2> DEFINE f == [s \in S |-> Month(s)]
  <2>1. f \in Surjection(S, MonthsOf(S))
    BY DEF Surjection, MonthsOf
  <2> HIDE DEF f
  <2> QED
    BY <1>2, <2>1, FS_Surjection
<1>4. MonthsOf(S) \subseteq Int
  BY <1>2, BackupAssumption DEF MonthsOf, Month
<1> QED
  BY <1>2, <1>3, <1>4

\* Every month of a set of stamps has a first one.
LEMMA FirstOfMonth ==
    ASSUME NEW S \in SUBSET Stamps, NEW d \in S
    PROVE  \E e \in S : Month(e) = Month(d) /\ \A t \in S : Month(t) = Month(e) => e <= t
<1> DEFINE B == {t \in S : Month(t) = Month(d)}
<1>1. PICK e \in B : \A t \in B : e <= t
  <2>1. IsFiniteSet(B) /\ B \subseteq Int /\ B # {}
    BY StampFacts, FS_Subset
  <2> HIDE DEF B
  <2> QED
    BY <2>1, HasMin
<1> QED
  BY <1>1

\* prune_backups deletes no backup that the ones it keeps do not cover.
LEMMA RetainedCovers ==
    ASSUME NEW S \in SUBSET Stamps, NEW d \in S, d \notin Retained(S)
    PROVE  Covers(Retained(S), d)
<1>1. Retained(S) \in SUBSET Stamps
  BY DEF Retained, Newest, MonthlyKeepers
<1>2. Cardinality(Newer(Retained(S), d)) >= KeepRecent
  <2>1. Cardinality({t \in Newest(S, KeepRecent) : t > d}) >= KeepRecent
    BY StampFacts, NewestAbove, BackupAssumption DEF Retained
  <2>2. {t \in Newest(S, KeepRecent) : t > d} \subseteq Newer(Retained(S), d)
    BY DEF Newer, Retained
  <2>3. IsFiniteSet(Newer(Retained(S), d))
    BY <1>1, StampFacts, FS_Subset DEF Newer
  <2> QED
    BY <2>1, <2>2, <2>3, Fewer, BackupAssumption
<1>3. CASE Month(d) \in Newest(MonthsOf(S), KeepMonthly)
  <2>1. PICK e \in S : Month(e) = Month(d) /\ \A t \in S : Month(t) = Month(e) => e <= t
    BY FirstOfMonth
  <2>2. e \in MonthlyKeepers(S) /\ d \notin MonthlyKeepers(S)
    BY <1>3, <2>1 DEF MonthlyKeepers, Retained
  <2>3. e <= d /\ e # d /\ e \in Int /\ d \in Int
    BY <2>1, <2>2, StampFacts
  <2> QED
    BY <1>2, <2>1, <2>2, <2>3 DEF Covers, Retained
<1>4. CASE Month(d) \notin Newest(MonthsOf(S), KeepMonthly)
  <2>1. Month(d) \in MonthsOf(S)
    BY DEF MonthsOf
  <2>2. Cardinality({m \in Newest(MonthsOf(S), KeepMonthly) : m > Month(d)}) >= KeepMonthly
    BY <1>4, <2>1, StampFacts, NewestAbove, BackupAssumption
  <2>3. Newest(MonthsOf(S), KeepMonthly) \subseteq MonthsOf(Retained(S))
    <3>1. ASSUME NEW m \in Newest(MonthsOf(S), KeepMonthly)
          PROVE  m \in MonthsOf(Retained(S))
      <4>1. PICK t \in S : m = Month(t)
        BY DEF Newest, MonthsOf
      <4>2. PICK e \in S : Month(e) = Month(t) /\ \A u \in S : Month(u) = Month(e) => e <= u
        BY FirstOfMonth
      <4>3. e \in MonthlyKeepers(S)
        BY <4>1, <4>2 DEF MonthlyKeepers
      <4> QED
        BY <4>1, <4>2, <4>3 DEF MonthsOf, Retained
    <3> QED
      BY <3>1
  <2>4. {m \in Newest(MonthsOf(S), KeepMonthly) : m > Month(d)} \subseteq NewerMonths(Retained(S), d)
    BY <2>3 DEF NewerMonths
  <2>5. IsFiniteSet(NewerMonths(Retained(S), d))
    BY <1>1, StampFacts, FS_Subset DEF NewerMonths
  <2>6. Cardinality(NewerMonths(Retained(S), d)) >= KeepMonthly
    BY <2>2, <2>4, <2>5, Fewer, BackupAssumption
  <2> QED
    BY <1>2, <2>6 DEF Covers
<1> QED
  BY <1>3, <1>4

\* It keeps at most KeepRecent and one for each of KeepMonthly months.
LEMMA RetainedBounded ==
    ASSUME NEW S \in SUBSET Stamps
    PROVE  /\ Retained(S) \subseteq S
           /\ Cardinality(Retained(S)) <= KeepRecent + KeepMonthly
<1>1. /\ IsFiniteSet(Newest(S, KeepRecent))
      /\ Cardinality(Newest(S, KeepRecent)) <= KeepRecent
  BY StampFacts, NewestBounded, BackupAssumption
<1>2. /\ IsFiniteSet(Newest(MonthsOf(S), KeepMonthly))
      /\ Cardinality(Newest(MonthsOf(S), KeepMonthly)) <= KeepMonthly
  BY StampFacts, NewestBounded, BackupAssumption
<1>3. /\ IsFiniteSet(MonthlyKeepers(S))
      /\ Cardinality(MonthlyKeepers(S)) <= Cardinality(Newest(MonthsOf(S), KeepMonthly))
  <2> DEFINE f == [s \in MonthlyKeepers(S) |-> Month(s)]
  <2>1. \A s, t \in MonthlyKeepers(S) : Month(s) = Month(t) => s = t
    <3>1. \A s \in S : s \in Int
      BY StampFacts
    <3> QED
      BY <3>1 DEF MonthlyKeepers
  <2>2. f \in Injection(MonthlyKeepers(S), Newest(MonthsOf(S), KeepMonthly))
    BY <2>1 DEF Injection, IsInjective, MonthlyKeepers
  <2> HIDE DEF f
  <2> QED
    BY <1>2, <2>2, FS_Injection
<1>4. Cardinality(Newest(S, KeepRecent) \cup MonthlyKeepers(S))
         <= Cardinality(Newest(S, KeepRecent)) + Cardinality(MonthlyKeepers(S))
  <2>1. Cardinality(Newest(S, KeepRecent) \cup MonthlyKeepers(S))
           = Cardinality(Newest(S, KeepRecent)) + Cardinality(MonthlyKeepers(S))
             - Cardinality(Newest(S, KeepRecent) \cap MonthlyKeepers(S))
    BY <1>1, <1>3, FS_Union
  <2>2. /\ Cardinality(Newest(S, KeepRecent) \cap MonthlyKeepers(S)) \in Nat
        /\ Cardinality(Newest(S, KeepRecent)) \in Nat
        /\ Cardinality(MonthlyKeepers(S)) \in Nat
    BY <1>1, <1>3, Fewer
  <2> QED
    BY <2>1, <2>2
<1>5. /\ Cardinality(Newest(S, KeepRecent)) \in Nat
      /\ Cardinality(MonthlyKeepers(S)) \in Nat
      /\ Cardinality(Newest(MonthsOf(S), KeepMonthly)) \in Nat
      /\ IsFiniteSet(Newest(S, KeepRecent) \cup MonthlyKeepers(S))
  BY <1>1, <1>2, <1>3, FS_CardinalityType, FS_Union
<1>6. Cardinality(Newest(S, KeepRecent) \cup MonthlyKeepers(S)) \in Nat
  BY <1>5, FS_CardinalityType
<1> QED
  BY <1>1, <1>2, <1>3, <1>4, <1>5, <1>6, BackupAssumption
  DEF Retained, Newest, MonthlyKeepers

-----------------------------------------------------------------------------
(* The policy through a behaviour: what pruning leaves, and what has ever  *)
(* been made.                                                              *)

\* The files of a kind that the prune in progress will leave.
Left(kind) == {s \in StampsOf(files, kind) : <<s, kind>> \notin run.doomed}

\* A prune in progress leaves a bounded directory that covers every backup it
\* is about to delete.
PruneInv ==
    run.step = "prune" =>
        /\ \A s \in Stamps : <<s, "db">> \in run.doomed => Covers(Left("db"), s)
        /\ Cardinality(Left("db")) <= KeepRecent + KeepMonthly
        /\ Cardinality(Left("bad")) <= KeepBad

\* Of the durable backups T, those missing from S have been superseded.
Superseded(T, S) ==
    \A s \in T \ S :
        /\ Cardinality(Newer(T \cup S, s)) >= KeepRecent
        /\ (\A t \in T \cup S : t < s => Month(t) # Month(s))
              => Cardinality(NewerMonths(T \cup S, s)) >= KeepMonthly

\* HistoryKept, of every directory that a power cut may leave.
PastInv == \A dir \in images : Superseded(taken, StampsOf(dir, "db"))

\* While the process runs, a staging file is the run's own or a failed step's.
DebrisInv ==
    up => \A s \in StampsOf(files, "partial") :
              s \in debris \/ (run.step \in Creating /\ s = run.stamp)

PolicyInv == PruneInv /\ PastInv /\ DebrisInv

\* The start of a prune: what is doomed is what the policy does not retain.
LEMMA PruneStarts ==
    ASSUME files \subseteq Stamps \X Kinds, files' = files,
           run'.step = "prune", run'.doomed = Doomed(files)
    PROVE  PruneInv'
<1> DEFINE S == StampsOf(files, "db")
           Bad == StampsOf(files, "bad")
<1>1. S \in SUBSET Stamps /\ Bad \in SUBSET Stamps
  BY DEF StampsOf
<1>2. \A s \in Stamps : /\ <<s, "db">> \in Doomed(files) <=> s \in S \ Retained(S)
                        /\ <<s, "bad">> \in Doomed(files) <=> s \in Bad \ Newest(Bad, KeepBad)
  BY DEF Doomed
<1>3. Left("db")' = {s \in S : <<s, "db">> \notin Doomed(files)}
      /\ Left("bad")' = {s \in Bad : <<s, "bad">> \notin Doomed(files)}
  BY DEF Left
<1> HIDE DEF S, Bad
<1>4. Retained(S) \subseteq S /\ Cardinality(Retained(S)) <= KeepRecent + KeepMonthly
  BY <1>1, RetainedBounded
<1>5. Newest(Bad, KeepBad) \subseteq Bad /\ Cardinality(Newest(Bad, KeepBad)) <= KeepBad
  <2>1. IsFiniteSet(Bad) /\ Bad \subseteq Int
    BY <1>1, StampFacts
  <2> QED
    BY <2>1, NewestBounded, BackupAssumption DEF Newest
<1>6. Left("db")' = Retained(S) /\ Left("bad")' = Newest(Bad, KeepBad)
  <2>1. \A s \in S : <<s, "db">> \notin Doomed(files) <=> s \in Retained(S)
    BY <1>1, <1>2
  <2>2. \A s \in Bad : <<s, "bad">> \notin Doomed(files) <=> s \in Newest(Bad, KeepBad)
    BY <1>1, <1>2
  <2> QED
    BY <1>3, <1>4, <1>5, <2>1, <2>2
<1>7. \A s \in Stamps : <<s, "db">> \in Doomed(files) => Covers(Retained(S), s)
  BY <1>1, <1>2, RetainedCovers
<1> QED
  BY <1>4, <1>5, <1>6, <1>7 DEF PruneInv

\* Every step preserves what is known of a prune in progress.
LEMMA StepPrune == IInv /\ PruneInv /\ [Next]_vars => PruneInv'
<1> SUFFICES ASSUME IInv, PruneInv, [Next]_vars PROVE PruneInv'
  OBVIOUS
<1>0. files \subseteq Stamps \X Kinds
  BY DEF IInv, TypeOK
<1>1. CASE Tick \/ UNCHANGED vars
  BY <1>1 DEF Tick, vars, PruneInv, Left
<1>2. CASE Begin
  <2>1. CASE <<now, "db">> \in files
    BY <1>0, <1>2, <2>1, PruneStarts DEF Begin, SameDir, Idle
  <2>2. CASE <<now, "db">> \notin files
    BY <1>2, <2>2 DEF Begin, Idle, PruneInv
  <2> QED
    BY <2>1, <2>2
<1>3. CASE Vacuum \/ Verify \/ SyncFile \/ Rename \/ SyncDir
  <2>1. run'.step # "prune"
    BY <1>3 DEF Vacuum, Verify, SyncFile, Rename, SyncDir, IInv, TypeOK
  <2> QED
    BY <2>1 DEF PruneInv
<1>4. CASE Quarantine \/ StepFails \/ EndPrune \/ Kill \/ PowerCut
  BY <1>4 DEF Quarantine, StepFails, EndPrune, EndRun, Kill, PowerCut, Crash, Idle, PruneInv
<1>5. CASE Command
  <2>1. run'.step = "prune" /\ run'.doomed = Doomed(files) /\ files' = files
    BY <1>5 DEF Command, SameDir, IInv, TypeOK
  <2> QED
    BY <1>0, <2>1, PruneStarts
<1>6. CASE Prune
  <2>1. PICK f \in run.doomed : files' = files \ {f} /\ run' = [run EXCEPT !.doomed = @ \ {f}]
    BY <1>6 DEF Prune, SetDir
  <2>2. run'.doomed = run.doomed \ {f} /\ run.step = "prune"
    BY <1>6, <2>1 DEF Prune, IInv, TypeOK
  <2>3. Left("db")' = Left("db") /\ Left("bad")' = Left("bad")
    BY <2>1, <2>2 DEF Left, StampsOf
  <2> QED
    BY <2>2, <2>3 DEF PruneInv
<1>7. CASE Boot
  <2>1. /\ \A s \in Stamps : /\ <<s, "db">> \in files' <=> <<s, "db">> \in files
                             /\ <<s, "bad">> \in files' <=> <<s, "bad">> \in files
        /\ run' = run
    BY <1>7 DEF Boot, SetDir, Swept
  <2>2. Left("db")' = Left("db") /\ Left("bad")' = Left("bad")
    BY <2>1 DEF Left, StampsOf
  <2> QED
    BY <2>1, <2>2 DEF PruneInv
<1> QED
  BY <1>1, <1>2, <1>3, <1>4, <1>5, <1>6, <1>7 DEF Next, RunStep

\* Every step preserves what is known of the staging files.
LEMMA StepDebris == IInv /\ DebrisInv /\ [Next]_vars => DebrisInv'
<1> SUFFICES ASSUME IInv, DebrisInv, [Next]_vars, up',
                    NEW s \in StampsOf(files', "partial")
             PROVE  s \in debris' \/ (run'.step \in Creating /\ s = run'.stamp)
  BY DEF DebrisInv
<1>a. s \in Stamps /\ <<s, "partial">> \in files'
  BY DEF StampsOf
<1>b. ASSUME up, <<s, "partial">> \in files
      PROVE  s \in debris \/ (run.step \in Creating /\ s = run.stamp)
  BY <1>a, <1>b DEF DebrisInv, StampsOf
<1>c. run.stamp \in Stamps /\ now \in Stamps
  BY DEF IInv, TypeOK
<1> HIDE DEF DebrisInv
<1>1. CASE Tick \/ UNCHANGED vars
  BY <1>a, <1>b, <1>1 DEF Tick, vars
<1>2. CASE Begin
  <2>1. up /\ run.step = "idle"
    BY <1>2 DEF Begin
  <2>2. CASE <<now, "db">> \in files
    BY <1>a, <1>b, <1>2, <2>1, <2>2 DEF Begin, SameDir, Creating
  <2>3. CASE <<now, "db">> \notin files
    <3>1. /\ run'.step = "vacuum" /\ run'.stamp = now
          /\ files' = files \cup {<<now, "partial">>} /\ debris' = debris \ {now}
      BY <1>2, <2>3 DEF Begin, SetDir, Idle
    <3>2. CASE s = now
      BY <3>1, <3>2 DEF Creating
    <3>3. CASE s # now
      BY <1>a, <1>b, <2>1, <3>1, <3>3 DEF Creating
    <3> QED
      BY <3>2, <3>3
  <2> QED
    BY <2>2, <2>3
<1>3. CASE Vacuum \/ Verify \/ SyncFile \/ SyncDir \/ Command
  <2>1. /\ files' = files /\ debris' = debris /\ up /\ run'.stamp = run.stamp
        /\ run.step \in Creating => run'.step \in Creating
    BY <1>3 DEF Vacuum, Verify, SyncFile, SyncDir, Command, SameDir, IInv, TypeOK, Creating
  <2> QED
    BY <1>a, <1>b, <2>1
<1>4. CASE Quarantine
  <2>1. /\ up
        /\ \/ files' = (files \ {Staging}) \cup {Quarantined} /\ debris' = debris
           \/ files' = files /\ debris' = debris \cup {run.stamp}
    BY <1>4 DEF Quarantine, SetDir, SameDir
  <2> QED
    BY <1>a, <1>b, <2>1 DEF Staging, Quarantined
<1>5. CASE Rename
  <2>1. up /\ files' = (files \ {Staging}) \cup {Dest} /\ debris' = debris
    BY <1>5 DEF Rename, SetDir
  <2> QED
    BY <1>a, <1>b, <2>1 DEF Staging, Dest
<1>6. CASE StepFails
  <2>1. /\ up /\ files' = files
        /\ debris' = IF run.step = "syncdir" THEN debris ELSE debris \cup {run.stamp}
    BY <1>6 DEF StepFails, SameDir
  <2> QED
    BY <1>a, <1>b, <2>1 DEF Creating
<1>7. CASE Prune \/ EndPrune
  <2>1. up /\ files' \subseteq files /\ debris' = debris /\ run.step = "prune"
    BY <1>7 DEF Prune, EndPrune, SetDir, SameDir
  <2> QED
    BY <1>a, <1>b, <2>1 DEF Creating
<1>8. CASE Kill \/ PowerCut
  BY <1>8 DEF Kill, PowerCut, Crash
<1>9. CASE Boot
  <2>1. \/ files' = Swept(files)
        \/ \E left \in SUBSET StampsOf(files, "partial") :
              /\ files' = Swept(files) \cup {<<t, "partial">> : t \in left}
              /\ debris' = left
    BY <1>9 DEF Boot, SetDir
  <2>2. <<s, "partial">> \notin Swept(files)
    BY DEF Swept
  <2> QED
    BY <1>a, <2>1, <2>2
<1> QED
  BY <1>1, <1>2, <1>3, <1>4, <1>5, <1>6, <1>7, <1>8, <1>9 DEF Next, RunStep

\* Sets of newer backups and months grow with the set they are taken from.
LEMMA NewerGrow ==
    ASSUME NEW S \in SUBSET Stamps, NEW K \in SUBSET S, NEW s, NEW d, s <= d,
           s \in Int, d \in Int
    PROVE  /\ Cardinality(Newer(K, d)) <= Cardinality(Newer(S, s))
           /\ Cardinality(Newer(K, d)) \in Nat /\ Cardinality(Newer(S, s)) \in Nat
<1>1. Newer(K, d) \subseteq Newer(S, s)
  <2>1. \A t \in K : t \in S /\ t \in Int
    BY StampFacts
  <2> QED
    BY <2>1 DEF Newer
<1>2. IsFiniteSet(Newer(S, s))
  BY StampFacts, FS_Subset DEF Newer
<1> QED
  BY <1>1, <1>2, Fewer

\* The months newer than a date are no fewer when there are more copies and the date is earlier.
LEMMA MonthsGrow ==
    ASSUME NEW S \in SUBSET Stamps, NEW U \in SUBSET Stamps, NEW s, NEW d,
           NewerMonths(U, d) \subseteq NewerMonths(S, s)
    PROVE  /\ Cardinality(NewerMonths(U, d)) <= Cardinality(NewerMonths(S, s))
           /\ Cardinality(NewerMonths(U, d)) \in Nat
           /\ Cardinality(NewerMonths(S, s)) \in Nat
<1>1. IsFiniteSet(NewerMonths(S, s))
  BY StampFacts, FS_Subset DEF NewerMonths
<1> QED
  BY <1>1, Fewer

\* A backup that joins the others supersedes them at least as much.
LEMMA SupersededGrow ==
    ASSUME NEW T \in SUBSET Stamps, NEW S \in SUBSET Stamps, NEW S2 \in SUBSET Stamps,
           S \subseteq S2, Superseded(T, S)
    PROVE  Superseded(T, S2)
<1> SUFFICES ASSUME NEW s \in T \ S2
             PROVE  /\ Cardinality(Newer(T \cup S2, s)) >= KeepRecent
                    /\ (\A t \in T \cup S2 : t < s => Month(t) # Month(s))
                          => Cardinality(NewerMonths(T \cup S2, s)) >= KeepMonthly
  BY DEF Superseded
<1>1. s \in T \ S /\ s \in Int /\ s <= s
  BY StampFacts
<1>2. /\ Cardinality(Newer(T \cup S, s)) >= KeepRecent
      /\ (\A t \in T \cup S : t < s => Month(t) # Month(s))
            => Cardinality(NewerMonths(T \cup S, s)) >= KeepMonthly
  BY <1>1 DEF Superseded
<1>3. /\ Cardinality(Newer(T \cup S, s)) <= Cardinality(Newer(T \cup S2, s))
      /\ Cardinality(Newer(T \cup S, s)) \in Nat /\ Cardinality(Newer(T \cup S2, s)) \in Nat
  BY <1>1, NewerGrow
<1>4. NewerMonths(T \cup S, s) \subseteq NewerMonths(T \cup S2, s)
  BY DEF NewerMonths, MonthsOf
<1>5. /\ Cardinality(NewerMonths(T \cup S, s)) <= Cardinality(NewerMonths(T \cup S2, s))
      /\ Cardinality(NewerMonths(T \cup S, s)) \in Nat
      /\ Cardinality(NewerMonths(T \cup S2, s)) \in Nat
  BY <1>4, MonthsGrow
<1> QED
  BY <1>2, <1>3, <1>5, BackupAssumption

\* A backup d that the others cover can go: it is superseded itself, and what
\* it superseded is superseded without it.
LEMMA SupersededDrop ==
    ASSUME NEW T \in SUBSET Stamps, NEW S \in SUBSET Stamps, NEW d \in S,
           NEW K \in SUBSET (S \ {d}), Covers(K, d), Superseded(T, S)
    PROVE  Superseded(T, S \ {d})
<1> DEFINE made == T \cup S
           rest == T \cup (S \ {d})
<1> SUFFICES ASSUME NEW s \in T \ (S \ {d})
             PROVE  /\ Cardinality(Newer(rest, s)) >= KeepRecent
                    /\ (\A t \in rest : t < s => Month(t) # Month(s))
                          => Cardinality(NewerMonths(rest, s)) >= KeepMonthly
  BY DEF Superseded
<1>1. /\ made \in SUBSET Stamps /\ rest \in SUBSET Stamps /\ K \in SUBSET rest
      /\ K \in SUBSET Stamps /\ rest \subseteq made /\ made \ rest \subseteq {d}
      /\ s \in Int /\ d \in Int /\ \A t \in made : t \in Int
  BY StampFacts
<1> HIDE DEF made, rest
<1>2. s # d => /\ s \in T \ S
               /\ Cardinality(Newer(made, s)) >= KeepRecent
               /\ (\A t \in made : t < s => Month(t) # Month(s))
                     => Cardinality(NewerMonths(made, s)) >= KeepMonthly
  BY DEF Superseded, made
<1>3. Cardinality(Newer(rest, s)) >= KeepRecent
  <2>1. CASE s <= d
    <3>1. /\ Cardinality(Newer(K, d)) <= Cardinality(Newer(rest, s))
          /\ Cardinality(Newer(K, d)) \in Nat /\ Cardinality(Newer(rest, s)) \in Nat
      BY <1>1, <2>1, NewerGrow
    <3> QED
      BY <3>1, BackupAssumption DEF Covers
  <2>2. CASE ~(s <= d)
    <3>1. d \notin Newer(made, s) /\ s # d
      BY <1>1, <2>2 DEF Newer
    <3>2. Newer(made, s) = Newer(rest, s)
      BY <1>1, <3>1 DEF Newer
    <3> QED
      BY <1>2, <3>1, <3>2
  <2> QED
    BY <2>1, <2>2
<1>4. ASSUME \A t \in rest : t < s => Month(t) # Month(s)
      PROVE  Cardinality(NewerMonths(rest, s)) >= KeepMonthly
  <2>1. ASSUME Cardinality(NewerMonths(K, d)) >= KeepMonthly,
               NewerMonths(K, d) \subseteq NewerMonths(rest, s)
        PROVE  Cardinality(NewerMonths(rest, s)) >= KeepMonthly
    <3>1. /\ Cardinality(NewerMonths(K, d)) <= Cardinality(NewerMonths(rest, s))
          /\ Cardinality(NewerMonths(K, d)) \in Nat
          /\ Cardinality(NewerMonths(rest, s)) \in Nat
      BY <1>1, <2>1, MonthsGrow
    <3> QED
      BY <2>1, <3>1, BackupAssumption
  <2>2. MonthsOf(K) \subseteq MonthsOf(rest) /\ MonthsOf(made) \subseteq Int
        /\ Month(d) \in Int /\ Month(s) \in Int
    <3>1. MonthsOf(K) \subseteq MonthsOf(rest)
      BY <1>1 DEF MonthsOf
    <3>2. \A u \in Stamps : Month(u) \in Int
      BY StampFacts DEF MonthsOf
    <3>3. MonthsOf(made) \subseteq Int
      BY <1>1, StampFacts
    <3> QED
      BY <3>1, <3>2, <3>3
  <2>3. CASE Month(d) = Month(s) /\ d <= s
    <3>1. ~ \E e \in K : Month(e) = Month(d) /\ e < d
      <4>1. ASSUME NEW e \in K, Month(e) = Month(d), e < d
            PROVE  FALSE
        <5>1. e \in rest /\ e < s
          BY <1>1, <2>3, <4>1
        <5> QED
          BY <1>4, <2>3, <4>1, <5>1
      <4> QED
        BY <4>1
    <3>2. NewerMonths(K, d) \subseteq NewerMonths(rest, s)
      BY <2>2, <2>3 DEF NewerMonths
    <3> QED
      BY <2>1, <3>1, <3>2 DEF Covers
  <2>4. CASE ~(Month(d) = Month(s) /\ d <= s)
    <3>1. s # d /\ \A t \in made : t < s => Month(t) # Month(s)
      <4>1. s # d
        BY <1>1, <2>4
      <4>2. d < s => Month(d) # Month(s)
        BY <1>1, <2>4
      <4> QED
        BY <1>1, <1>4, <4>1, <4>2
    <3>2. Cardinality(NewerMonths(made, s)) >= KeepMonthly
      BY <1>2, <3>1
    <3>3. CASE NewerMonths(made, s) \subseteq NewerMonths(rest, s)
      <4>1. /\ Cardinality(NewerMonths(made, s)) <= Cardinality(NewerMonths(rest, s))
            /\ Cardinality(NewerMonths(made, s)) \in Nat
            /\ Cardinality(NewerMonths(rest, s)) \in Nat
        BY <1>1, <3>3, MonthsGrow
      <4> QED
        BY <3>2, <4>1, BackupAssumption
    <3>4. CASE ~(NewerMonths(made, s) \subseteq NewerMonths(rest, s))
      <4>1. PICK m \in MonthsOf(made) : m > Month(s) /\ m \notin MonthsOf(rest)
        BY <3>4 DEF NewerMonths
      <4>2. m = Month(d)
        BY <1>1, <4>1 DEF MonthsOf
      <4>3. ~ \E e \in K : Month(e) = Month(d)
        BY <1>1, <4>1, <4>2 DEF MonthsOf
      <4>4. NewerMonths(K, d) \subseteq NewerMonths(rest, s)
        <5>1. ASSUME NEW k \in MonthsOf(K), k > Month(d)
              PROVE  k \in MonthsOf(rest) /\ k > Month(s)
          <6>1. k \in Int
            BY <1>1, StampFacts
          <6>2. Month(d) > Month(s)
            BY <4>1, <4>2
          <6> QED
            BY <2>2, <5>1, <6>1, <6>2
        <5> QED
          BY <5>1 DEF NewerMonths
      <4> QED
        BY <2>1, <4>3, <4>4 DEF Covers
    <3> QED
      BY <3>3, <3>4
  <2> QED
    BY <2>3, <2>4
<1> QED
  BY <1>3, <1>4

\* Every step preserves what is known of the backups that are gone.
LEMMA StepPast == IInv /\ PruneInv /\ PastInv /\ [Next]_vars => PastInv'
<1> SUFFICES ASSUME IInv, PruneInv, PastInv, [Next]_vars PROVE PastInv'
  OBVIOUS
<1>0. /\ files \subseteq Stamps \X Kinds /\ files \in images /\ taken \in SUBSET Stamps
      /\ run.stamp \in Stamps /\ \A dir : StampsOf(dir, "db") \in SUBSET Stamps
  BY DEF IInv, TypeOK, StampsOf
<1>1. Superseded(taken, StampsOf(files, "db"))
  BY <1>0 DEF PastInv
<1>2. ASSUME images' \subseteq images \cup {files'}, taken' = taken,
             Superseded(taken, StampsOf(files', "db"))
      PROVE  PastInv'
  BY <1>2 DEF PastInv
<1>3. ASSUME images' \subseteq images \cup {files'}, taken' = taken,
             StampsOf(files', "db") = StampsOf(files, "db")
      PROVE  PastInv'
  BY <1>1, <1>2, <1>3
<1>4. CASE UNCHANGED vars \/ Tick \/ Vacuum \/ Verify \/ SyncFile \/ StepFails
           \/ Command \/ EndPrune \/ Kill
  <2>1. images' = images /\ taken' = taken /\ files' = files
    BY <1>4 DEF vars, Tick, Vacuum, Verify, SyncFile, StepFails, Command, EndPrune,
                Kill, SameDir
  <2> QED
    BY <1>3, <2>1
<1>5. CASE Begin \/ Quarantine \/ Boot
  <2>1. StampsOf(files', "db") = StampsOf(files, "db")
    BY <1>5 DEF Begin, Quarantine, Boot, SetDir, SameDir, Swept, Staging, Quarantined,
                StampsOf
  <2>2. images' \subseteq images \cup {files'} /\ taken' = taken
    BY <1>5 DEF Begin, Quarantine, Boot, SetDir, SameDir
  <2> QED
    BY <1>3, <2>1, <2>2
<1>6. CASE Rename
  <2>1. StampsOf(files', "db") = StampsOf(files, "db") \cup {run.stamp}
    BY <1>0, <1>6 DEF Rename, SetDir, StampsOf, Staging, Dest
  <2>2. images' \subseteq images \cup {files'} /\ taken' = taken
    BY <1>6 DEF Rename, SetDir
  <2>3. Superseded(taken, StampsOf(files', "db"))
    BY <1>0, <1>1, <2>1, SupersededGrow
  <2> QED
    BY <1>2, <2>2, <2>3
<1>7. CASE SyncDir
  <2>1. images' = {files} /\ taken' = taken \cup {run.stamp} /\ files' = files
    BY <1>7 DEF SyncDir
  <2>2. run.stamp \in StampsOf(files, "db")
    BY <1>0, <1>7 DEF SyncDir, IInv, RunInv, Dest, StampsOf
  <2>3. /\ taken' \cup StampsOf(files, "db") = taken \cup StampsOf(files, "db")
        /\ taken' \ StampsOf(files, "db") = taken \ StampsOf(files, "db")
    BY <2>1, <2>2
  <2>4. Superseded(taken', StampsOf(files, "db"))
    BY <1>1, <2>3 DEF Superseded
  <2> QED
    BY <2>1, <2>4 DEF PastInv
<1>8. CASE Prune
  <2>1. PICK f \in run.doomed : files' = files \ {f} /\ images' = images \cup {files'}
    BY <1>8 DEF Prune, SetDir
  <2>2. run.step = "prune" /\ taken' = taken /\ run.doomed \subseteq Stamps \X Kinds
    BY <1>8 DEF Prune, IInv, TypeOK
  <2>3. PICK d \in Stamps, k \in Kinds : f = <<d, k>>
    BY <2>1, <2>2
  <2>4. CASE k = "db" /\ d \in StampsOf(files, "db")
    <3>1. Covers(Left("db"), d)
      BY <2>1, <2>2, <2>3, <2>4 DEF PruneInv
    <3>2. Left("db") \subseteq StampsOf(files, "db") \ {d}
      BY <2>1, <2>3, <2>4 DEF Left
    <3>3. StampsOf(files', "db") = StampsOf(files, "db") \ {d}
      BY <2>1, <2>3, <2>4 DEF StampsOf
    <3>4. Superseded(taken, StampsOf(files', "db"))
      BY <1>0, <1>1, <2>4, <3>1, <3>2, <3>3, SupersededDrop
    <3> QED
      BY <1>2, <2>1, <2>2, <3>4
  <2>5. CASE ~(k = "db" /\ d \in StampsOf(files, "db"))
    <3>1. StampsOf(files', "db") = StampsOf(files, "db")
      BY <2>1, <2>3, <2>5 DEF StampsOf
    <3> QED
      BY <1>3, <2>1, <2>2, <3>1
  <2> QED
    BY <2>4, <2>5
<1>9. CASE PowerCut
  BY <1>9 DEF PowerCut, PastInv
<1> QED
  BY <1>4, <1>5, <1>6, <1>7, <1>8, <1>9 DEF Next, RunStep

\* The policy's invariant holds in every reachable state.
LEMMA PolicyInvariance == Spec => []PolicyInv
<1>1. Init => PolicyInv
  BY DEF Init, PolicyInv, PruneInv, PastInv, DebrisInv, Superseded, Idle, StampsOf
<1>2. IInv /\ PolicyInv /\ [Next]_vars => PolicyInv'
  BY StepPrune, StepPast, StepDebris DEF PolicyInv
<1> QED
  BY <1>1, <1>2, Invariance, PTL DEF Spec

-----------------------------------------------------------------------------
(* The theorems. *)

\* Types are respected, whatever the retention policy's numbers.
THEOREM TypeCorrect == Spec => []TypeOK
<1>1. IInv => TypeOK
  BY DEF IInv
<1> QED
  BY <1>1, Invariance, PTL

\* A file under a backup's name is a restorable copy, through any failures,
\* kills and power cuts (backup_to and install: verify, flush, then rename).
THEOREM InstalledSoundAlways == Spec => []InstalledSound
<1>1. IInv => InstalledSound
  BY DEF IInv, CopyInv, InstalledSound
<1> QED
  BY <1>1, Invariance, PTL

\* No backup is deleted except by a run whose own backup is in place, that
\* backup never is, and a power cut takes none that a run has reported.
THEOREM NothingLostAlways == Spec => NothingLost
<1> DEFINE Kept ==
      \A s \in StampsOf(files, "db") \ StampsOf(files', "db") :
          \/ up' /\ run.step = "prune" /\ s # run.stamp
                /\ <<run.stamp, "db">> \in files
          \/ ~up' /\ s \notin taken
<1>1. IInv /\ [Next]_vars => [Kept]_vars
  <2> SUFFICES ASSUME IInv, Next PROVE Kept
    BY DEF vars
  <2>1. CASE Prune
    <3>1. /\ files' = files \ (files \ files') /\ files \ files' \subseteq run.doomed
          /\ up' /\ run.step = "prune"
      BY <2>1 DEF Prune, SetDir
    <3>2. <<run.stamp, "db">> \in files /\ <<run.stamp, "db">> \notin run.doomed
      BY <2>1 DEF Prune, IInv, RunInv, Dest
    <3> QED
      BY <3>1, <3>2 DEF StampsOf
  <2>2. CASE PowerCut
    BY <2>2 DEF PowerCut, Crash, IInv, ClockInv, StampsOf
  <2>3. CASE Tick \/ Kill \/ Vacuum \/ Verify \/ SyncFile \/ SyncDir
             \/ StepFails \/ Command \/ EndPrune
    BY <2>3 DEF Tick, Kill, Vacuum, Verify, SyncFile, SyncDir, StepFails,
                Command, EndPrune, SameDir
  <2>4. CASE Begin
    BY <2>4 DEF Begin, SetDir, SameDir, StampsOf
  <2>5. CASE Quarantine \/ Rename
    BY <2>5 DEF Quarantine, Rename, SetDir, SameDir, StampsOf, Staging,
                Quarantined, Dest
  <2>6. CASE Boot
    BY <2>6 DEF Boot, SetDir, Swept, StampsOf
  <2> QED
    BY <2>1, <2>2, <2>3, <2>4, <2>5, <2>6 DEF Next, RunStep
<1> QED
  BY <1>1, Invariance, PTL DEF Spec, NothingLost
\* Of all the backups ever made, the newest KeepRecent and the first of each of
\* the newest KeepMonthly months are there: what a run deletes today was never
\* needed again, through every failed run, kill and power cut.
THEOREM HistoryIsKept == Spec => []HistoryKept
<1>1. IInv /\ PolicyInv => HistoryKept
  <2> SUFFICES ASSUME IInv, PolicyInv PROVE HistoryKept
    OBVIOUS
  <2>1. Superseded(taken, StampsOf(files, "db"))
    BY DEF IInv, TypeOK, PolicyInv, PastInv
  <2>2. (taken \cup StampsOf(files, "db")) \ StampsOf(files, "db")
           = taken \ StampsOf(files, "db")
    OBVIOUS
  <2> QED
    BY <2>1, <2>2 DEF HistoryKept, Superseded, Newer, NewerMonths
<1> QED
  BY <1>1, Invariance, PolicyInvariance, PTL

\* A run that prunes to its end leaves at most the policy's backups and
\* quarantined copies, and no staging file but a failed step's, whatever the
\* runs and crashes before it left.
THEOREM PruningBounds == Spec => BoundedByPruning
<1> DEFINE Bounded ==
      run.step = "prune" /\ run'.step = "idle" /\ up' /\ faults' = faults =>
          /\ StampsOf(files', "partial") \subseteq debris'
          /\ Cardinality(StampsOf(files', "db")) <= KeepRecent + KeepMonthly
          /\ Cardinality(StampsOf(files', "bad")) <= KeepBad
<1>1. ASSUME IInv, PolicyInv, [Next]_vars PROVE Bounded
  <2> SUFFICES ASSUME run.step = "prune", run'.step = "idle", up', faults' = faults
               PROVE  /\ StampsOf(files', "partial") \subseteq debris'
                      /\ Cardinality(StampsOf(files', "db")) <= KeepRecent + KeepMonthly
                      /\ Cardinality(StampsOf(files', "bad")) <= KeepBad
    OBVIOUS
  <2>1. EndPrune
    BY <1>1 DEF Next, RunStep, vars, Tick, Begin, Vacuum, Verify, Quarantine, SyncFile,
                Rename, SyncDir, StepFails, Command, Prune, Kill, PowerCut, Crash, Boot,
                IInv, TypeOK
  <2>2. run.doomed = {} /\ files' = files /\ debris' = debris /\ up
    BY <1>1, <2>1 DEF EndPrune, Fault, SameDir, IInv, TypeOK
  <2>3. Left("db") = StampsOf(files, "db") /\ Left("bad") = StampsOf(files, "bad")
    BY <2>2 DEF Left
  <2>4. StampsOf(files, "partial") \subseteq debris
    BY <1>1, <2>2 DEF PolicyInv, DebrisInv, Creating
  <2> QED
    BY <1>1, <2>2, <2>3, <2>4 DEF PolicyInv, PruneInv
<1> QED
  BY <1>1, Invariance, PolicyInvariance, PTL DEF Spec, BoundedByPruning

-----------------------------------------------------------------------------
(* Numbered deliveries. *)

\* The deliveries of m in a history are numbered 1 to n.
Numbered(log, m, n) == \A k \in Int : <<m, k>> \in log <=> 1 <= k /\ k <= n

\* There are as many as the last number says.
LEMMA DeliveryCount ==
    ASSUME NEW log \in SUBSET (Mover \X Int), NEW m, NEW n \in Nat, Numbered(log, m, n)
    PROVE  Cardinality({x \in log : x[1] = m}) = n
<1> DEFINE S == {x \in log : x[1] = m}
           f == [k \in 1 .. n |-> <<m, k>>]
<1>1. \A x \in S : x = <<m, x[2]>> /\ x[2] \in 1 .. n
  BY DEF Numbered
<1>2. \A k \in 1 .. n : <<m, k>> \in S
  BY DEF Numbered
<1>3. f \in Bijection(1 .. n, S)
  <2>1. f \in [1 .. n -> S]
    BY <1>2
  <2>2. \A j, k \in 1 .. n : f[j] = f[k] => j = k
    OBVIOUS
  <2>3. \A x \in S : \E k \in 1 .. n : f[k] = x
    BY <1>1
  <2> HIDE DEF f, S
  <2> QED
    BY <2>1, <2>2, <2>3, Zenon DEF Bijection, Injection, Surjection, IsInjective
<1>4. ExistsBijection(1 .. n, S)
  BY <1>3, Zenon DEF ExistsBijection
<1>5. IsFiniteSet(1 .. n) /\ Cardinality(1 .. n) = n
  BY FS_Interval
<1> HIDE DEF S
<1>6. Cardinality(S) = n
  BY <1>4, <1>5, FS_Bijection
<1> QED
  BY <1>6 DEF S

\* A delivery takes the next number of each of its movers.
LEMMA NextDelivery ==
    ASSUME NEW log \in SUBSET (Mover \X Int), NEW movers \in SUBSET Mover,
           \A m \in Mover : \E n \in Nat : Numbered(log, m, n)
    PROVE  /\ Delivered(log, movers) \in SUBSET (Mover \X Int)
           /\ \A m \in Mover, n \in Nat :
                 Numbered(log, m, n)
                   => Numbered(Delivered(log, movers), m, IF m \in movers THEN n + 1 ELSE n)
<1> DEFINE count(m) == Cardinality({x \in log : x[1] = m})
<1>1. \A m \in Mover, n \in Nat : Numbered(log, m, n) => count(m) = n
  BY DeliveryCount
<1>2. \A m \in Mover : count(m) \in Nat
  BY <1>1
<1> HIDE DEF count
<1>3. Delivered(log, movers) = log \cup {<<m, 1 + count(m)>> : m \in movers}
  BY DEF Delivered, count
<1>4. Delivered(log, movers) \in SUBSET (Mover \X Int)
  BY <1>2, <1>3
<1>5. ASSUME NEW m \in Mover, NEW n \in Nat, Numbered(log, m, n), NEW k \in Int
      PROVE  <<m, k>> \in Delivered(log, movers)
                <=> 1 <= k /\ k <= (IF m \in movers THEN n + 1 ELSE n)
  <2>1. <<m, k>> \in Delivered(log, movers)
           <=> <<m, k>> \in log \/ (m \in movers /\ k = 1 + count(m))
    BY <1>3
  <2>2. count(m) = n
    BY <1>1, <1>5
  <2>3. <<m, k>> \in log <=> 1 <= k /\ k <= n
    BY <1>5 DEF Numbered
  <2> QED
    BY <2>1, <2>2, <2>3
<1> QED
  BY <1>4, <1>5 DEF Numbered

-----------------------------------------------------------------------------
(* What a scan finds. *)

Prices == [CloseDays -> Closes \cup {NoClose}]

RunTyped ==
    /\ alertRun = [step |-> alertRun.step, movers |-> alertRun.movers]
    /\ alertRun.step \in {"idle", "scanned", "sent"}
    /\ alertRun.movers \in SUBSET Mover
    /\ alertRun.step = "idle" => alertRun = NoRun

AlertTypeOK ==
    /\ closes \in [AlertListings -> Prices]
    /\ heldListings \in SUBSET AlertListings
    /\ alertLog \in SUBSET Mover
    /\ RunTyped
    /\ inbox \in SUBSET (Mover \X Int)
    /\ unlogged \in SUBSET (Mover \X Int)

\* Two movers of one run are of different listings, and no row of the log is
\* about a close of the run's.
OneEach(movers) == \A m, n \in movers : m.listing = n.listing => m = n
Unlogged(movers) == \A m \in movers, r \in alertLog :
                        r.listing # m.listing \/ r.date # m.date

\* A listing that can be compared gives a pair of its closes.
LEMMA PairTyped ==
    ASSUME AlertTypeOK, NEW l \in AlertListings, Comparable(l)
    PROVE  LatestPair(l) \in Mover /\ LatestPair(l).listing = l
<1>1. PICK S \in SUBSET CloseDays : S = ClosesOf(l)
  BY DEF ClosesOf
<1>2. IsFiniteSet(CloseDays) /\ CloseDays \subseteq Int
  BY AlertAssumption, FS_Interval DEF CloseDays
<1>a. IsFiniteSet(S)
  BY <1>2, FS_Subset
<1>3. IsFiniteSet(S) /\ S \subseteq Int
  BY <1>a, <1>2
<1>4. Cardinality(S) >= 2
  BY <1>1 DEF Comparable
<1>5. S # {}
  <2>1. ASSUME S = {} PROVE FALSE
    <3>1. Cardinality(S) = 0
      BY <2>1, FS_EmptySet
    <3> QED
      BY <1>4, <3>1
  <2> QED
    BY <2>1
<1>6. PICK date \in S : date = Max(S)
  BY <1>3, <1>5, MaxFacts
<1>7. PICK T \in SUBSET S : T = S \ {date}
  OBVIOUS
<1>b. IsFiniteSet(T)
  BY <1>3, FS_Subset
<1>8. IsFiniteSet(T) /\ T \subseteq Int
  BY <1>b, <1>3
<1>9. T # {}
  <2>1. ASSUME T = {} PROVE FALSE
    <3>1. S = {date}
      BY <1>7, <2>1
    <3>2. Cardinality(S) = 1
      BY <3>1, FS_Singleton
    <3> QED
      BY <1>4, <3>2
  <2> QED
    BY <2>1
<1>10. PICK prev \in T : prev = Max(T)
  BY <1>8, <1>9, MaxFacts
<1>11. LatestPair(l) = [listing |-> l, date |-> date, price |-> closes[l][date],
                        prevDate |-> prev, prevPrice |-> closes[l][prev]]
  BY <1>1, <1>6, <1>7, <1>10 DEF LatestPair
<1>12. /\ date \in CloseDays /\ prev \in CloseDays
       /\ closes[l][date] # NoClose /\ closes[l][prev] # NoClose
  BY <1>1, <1>6, <1>7, <1>10 DEF ClosesOf
<1>13. closes[l][date] \in Closes /\ closes[l][prev] \in Closes
  BY <1>12 DEF AlertTypeOK, Prices
<1> QED
  BY <1>11, <1>12, <1>13 DEF Mover

\* A scan finds one mover of a listing at most, and none that is in the log.
LEMMA ScanFacts ==
    ASSUME AlertTypeOK
    PROVE  Scan \in SUBSET Mover /\ OneEach(Scan) /\ Unlogged(Scan)
<1>1. ASSUME NEW m \in Scan
      PROVE  /\ m \in Mover /\ m.listing \in AlertListings
             /\ m = LatestPair(m.listing)
             /\ ~AlreadyAlerted(m)
  <2>1. PICK l \in AlertListings : Comparable(l) /\ m = LatestPair(l)
    BY DEF Scan, CurrentPairs, AlertTypeOK
  <2> QED
    BY <2>1, PairTyped DEF Scan
<1>2. OneEach(Scan)
  BY <1>1 DEF OneEach
<1>3. Unlogged(Scan)
  BY <1>1 DEF Unlogged, AlreadyAlerted
<1> QED
  BY <1>1, <1>2, <1>3

-----------------------------------------------------------------------------
(* The inductive invariant. *)

\* A run that went through, or is still under way, has delivered m.
Standing(m) == m \in alertLog \/ (alertRun.step = "sent" /\ m \in alertRun.movers)

\* Of the deliveries of m, those cut short before their insert come first; one
\* more stands exactly when m is in the log or about to be.
Tallied(m) ==
    \E n \in Nat : /\ Numbered(unlogged, m, n)
                   /\ Numbered(inbox, m, IF Standing(m) THEN n + 1 ELSE n)

\* One pair at most stands for a close.
OneStands ==
    \A m, n \in Mover :
        Standing(m) /\ Standing(n) /\ m.listing = n.listing /\ m.date = n.date => m = n

MailInv ==
    /\ AlertTypeOK
    /\ OneEach(alertRun.movers) /\ Unlogged(alertRun.movers)
    /\ \A m \in Mover : Tallied(m)
    /\ OneStands

\* The log and the mail agree when every delivery is tallied.
LEMMA MailInvAgrees == MailInv => LogMatchesMail
<1> SUFFICES ASSUME MailInv PROVE LogMatchesMail
  OBVIOUS
<1>1. ASSUME NEW r \in alertLog PROVE \E x \in inbox : x[1] = r
  <2>1. r \in Mover /\ Standing(r)
    BY DEF MailInv, AlertTypeOK, Standing
  <2>2. PICK n \in Nat : Numbered(inbox, r, n + 1)
    BY <2>1 DEF MailInv, Tallied
  <2>3. <<r, n + 1>> \in inbox
    BY <2>2 DEF Numbered
  <2> QED
    BY <2>3
<1>2. ASSUME NEW l \in AlertListings, NEW d \in CloseDays
      PROVE  Cardinality(Emails(l, d) \ unlogged) <= 1
  <2> DEFINE S == Emails(l, d) \ unlogged
  <2>1. ASSUME NEW x \in S
        PROVE  /\ x = <<x[1], x[2]>> /\ x[1] \in Mover /\ Standing(x[1])
               /\ x[1].listing = l /\ x[1].date = d
               /\ \A k \in Int : <<x[1], k>> \in S => k = x[2]
    <3>1. /\ x \in Mover \X Int /\ x \in inbox /\ x \notin unlogged
          /\ x[1].listing = l /\ x[1].date = d
      BY DEF Emails, MailInv, AlertTypeOK
    <3>2. PICK m \in Mover, k \in Int : x = <<m, k>>
      BY <3>1
    <3>3. PICK n \in Nat : /\ Numbered(unlogged, m, n)
                           /\ Numbered(inbox, m, IF Standing(m) THEN n + 1 ELSE n)
      BY DEF MailInv, Tallied
    <3>4. /\ 1 <= k /\ ~(1 <= k /\ k <= n)
          /\ k <= (IF Standing(m) THEN n + 1 ELSE n)
      BY <3>1, <3>2, <3>3 DEF Numbered
    <3>5. Standing(m) /\ k = n + 1
      BY <3>4
    <3>6. ASSUME NEW j \in Int, <<m, j>> \in S PROVE j = k
      <4>1. <<m, j>> \in inbox /\ <<m, j>> \notin unlogged
        BY <3>6 DEF Emails
      <4>2. 1 <= j /\ j <= n + 1 /\ ~(1 <= j /\ j <= n)
        BY <3>3, <3>5, <4>1 DEF Numbered
      <4> QED
        BY <3>5, <4>2
    <3> QED
      BY <3>1, <3>2, <3>5, <3>6
  <2>2. \A x, y \in S : x = y
    <3> SUFFICES ASSUME NEW x \in S, NEW y \in S PROVE x = y
      OBVIOUS
    <3>1. y \in Mover \X Int
      BY DEF Emails, MailInv, AlertTypeOK
    <3>2. x[1] = y[1]
      BY <2>1 DEF MailInv, OneStands
    <3>3. <<x[1], y[2]>> \in S /\ y[2] \in Int
      BY <2>1, <3>1, <3>2
    <3> HIDE DEF S
    <3> QED
      BY <2>1, <3>2, <3>3
  <2> HIDE DEF S
  <2>3. CASE S = {}
    BY <2>3, FS_EmptySet DEF S
  <2>4. CASE S # {}
    <3>1. PICK x \in S : S = {x}
      BY <2>2, <2>4
    <3>2. Cardinality(S) = 1
      BY <3>1, FS_Singleton
    <3> QED
      BY <3>2 DEF S
  <2> QED
    BY <2>3, <2>4
<1> QED
  BY <1>1, <1>2 DEF LogMatchesMail

\* Before the first run there is no mail and no log.
LEMMA InitMailInv == AlertInit => MailInv
<1> SUFFICES ASSUME AlertInit PROVE MailInv
  OBVIOUS
<1>1. AlertTypeOK
  <2>1. closes \in [AlertListings -> Prices]
    BY DEF AlertInit, Prices
  <2>2. RunTyped
    BY DEF AlertInit, RunTyped, NoRun
  <2> QED
    BY <2>1, <2>2 DEF AlertTypeOK, AlertInit
<1>2. \A m \in Mover : ~Standing(m)
  BY DEF AlertInit, NoRun, Standing
<1>3. ASSUME NEW m \in Mover PROVE Tallied(m)
  <2>1. Numbered(unlogged, m, 0) /\ Numbered(inbox, m, 0)
    BY DEF AlertInit, Numbered
  <2> QED
    BY <1>2, <2>1 DEF Tallied
<1> QED
  BY <1>1, <1>2, <1>3 DEF MailInv, OneStands, OneEach, Unlogged, AlertInit, NoRun

\* What the rest of the program writes is not what the log is about.
LEMMA WritesKeepMail ==
    ASSUME MailInv,
           closes' \in [AlertListings -> Prices], heldListings' \in SUBSET AlertListings,
           UNCHANGED <<alertLog, alertRun, inbox, unlogged>>
    PROVE  MailInv'
<1>1. AlertTypeOK'
  BY DEF MailInv, AlertTypeOK, RunTyped
<1>2. \A m \in Mover : Standing(m)' <=> Standing(m)
  BY DEF Standing
<1>3. ASSUME NEW m \in Mover PROVE Tallied(m)'
  BY <1>2 DEF MailInv, Tallied
<1> QED
  BY <1>1, <1>2, <1>3 DEF MailInv, OneStands, OneEach, Unlogged

\* A message delivered, or also left unlogged, takes the next number.
LEMMA DeliveryTyped ==
    ASSUME MailInv
    PROVE  /\ Delivered(inbox, alertRun.movers) \in SUBSET (Mover \X Int)
           /\ Delivered(unlogged, alertRun.movers) \in SUBSET (Mover \X Int)
           /\ \A m \in Mover, n \in Nat :
                 /\ Numbered(inbox, m, n)
                       => Numbered(Delivered(inbox, alertRun.movers), m,
                                   IF m \in alertRun.movers THEN n + 1 ELSE n)
                 /\ Numbered(unlogged, m, n)
                       => Numbered(Delivered(unlogged, alertRun.movers), m,
                                   IF m \in alertRun.movers THEN n + 1 ELSE n)
<1>1. /\ alertRun.movers \in SUBSET Mover
      /\ inbox \in SUBSET (Mover \X Int) /\ unlogged \in SUBSET (Mover \X Int)
  BY DEF MailInv, AlertTypeOK, RunTyped
<1>2. \A m \in Mover : /\ \E n \in Nat : Numbered(unlogged, m, n)
                       /\ \E n \in Nat : Numbered(inbox, m, n)
  <2> SUFFICES ASSUME NEW m \in Mover
               PROVE  /\ \E n \in Nat : Numbered(unlogged, m, n)
                      /\ \E n \in Nat : Numbered(inbox, m, n)
    OBVIOUS
  <2>1. PICK n \in Nat : /\ Numbered(unlogged, m, n)
                         /\ Numbered(inbox, m, IF Standing(m) THEN n + 1 ELSE n)
    BY DEF MailInv, Tallied
  <2> QED
    BY <2>1
<1> QED
  BY <1>1, <1>2, NextDelivery

\* A scan starts a run about closes that nothing stands for yet.
LEMMA BeginKeepsMail == MailInv /\ BeginAlertRun => MailInv'
<1> SUFFICES ASSUME MailInv, BeginAlertRun PROVE MailInv'
  OBVIOUS
<1>1. Scan \in SUBSET Mover /\ OneEach(Scan) /\ Unlogged(Scan)
  BY ScanFacts DEF MailInv
<1>2. PICK found \in SUBSET Mover : found = Scan
  BY <1>1
<1>3. /\ alertRun.step = "idle" /\ alertRun' = [step |-> "scanned", movers |-> found]
      /\ UNCHANGED <<closes, heldListings, alertLog, inbox, unlogged>>
  BY <1>2 DEF BeginAlertRun, NoRun
<1>4. AlertTypeOK'
  BY <1>3 DEF MailInv, AlertTypeOK, RunTyped
<1>5. \A m \in Mover : Standing(m)' <=> Standing(m)
  BY <1>3 DEF Standing
<1>6. ASSUME NEW m \in Mover PROVE Tallied(m)'
  BY <1>3, <1>5 DEF MailInv, Tallied
<1>7. OneEach(alertRun.movers)' /\ Unlogged(alertRun.movers)'
  BY <1>1, <1>2, <1>3 DEF OneEach, Unlogged
<1> QED
  BY <1>4, <1>5, <1>6, <1>7 DEF MailInv, OneStands

\* A message that is accepted stands for the movers of its run.
LEMMA SendKeepsMail == MailInv /\ SendAccepted => MailInv'
<1> SUFFICES ASSUME MailInv, SendAccepted PROVE MailInv'
  OBVIOUS
<1>1. /\ alertRun.step = "scanned"
      /\ alertRun' = [step |-> "sent", movers |-> alertRun.movers]
      /\ inbox' = Delivered(inbox, alertRun.movers)
      /\ UNCHANGED <<closes, heldListings, alertLog, unlogged>>
  BY DEF SendAccepted, MailInv, AlertTypeOK, RunTyped
<1>2. AlertTypeOK'
  BY <1>1, DeliveryTyped DEF MailInv, AlertTypeOK, RunTyped
<1>3. ASSUME NEW m \in Mover
      PROVE  /\ Standing(m) <=> m \in alertLog
             /\ Standing(m)' <=> m \in alertLog \/ m \in alertRun.movers
             /\ m \in alertRun.movers => m \notin alertLog
  BY <1>1 DEF Standing, MailInv, Unlogged
<1>4. ASSUME NEW m \in Mover PROVE Tallied(m)'
  <2>1. PICK n \in Nat : /\ Numbered(unlogged, m, n)
                         /\ Numbered(inbox, m, IF Standing(m) THEN n + 1 ELSE n)
    BY DEF MailInv, Tallied
  <2>2. CASE m \in alertRun.movers
    <3>1. Numbered(inbox, m, n) /\ Standing(m)'
      BY <1>3, <2>1, <2>2
    <3>2. Numbered(inbox', m, n + 1)
      BY <1>1, <2>2, <3>1, DeliveryTyped
    <3> QED
      BY <1>1, <2>1, <3>1, <3>2 DEF Tallied
  <2>3. CASE m \notin alertRun.movers
    <3>1. PICK a \in Nat : a = IF Standing(m) THEN n + 1 ELSE n
      OBVIOUS
    <3>2. Numbered(inbox', m, a)
      BY <1>1, <2>1, <2>3, <3>1, DeliveryTyped
    <3>3. Standing(m)' <=> Standing(m)
      BY <1>3, <2>3
    <3> QED
      BY <1>1, <2>1, <3>1, <3>2, <3>3 DEF Tallied
  <2> QED
    BY <2>2, <2>3
<1>5. OneStands'
  BY <1>1, <1>3 DEF OneStands, MailInv, OneEach, Unlogged, AlertTypeOK
<1> QED
  BY <1>1, <1>2, <1>4, <1>5 DEF MailInv, OneEach, Unlogged

\* A send that fails leaves the movers as they were, with or without a delivery
\* that nothing will record.
LEMMA FailedSendKeepsMail == MailInv /\ SendFails => MailInv'
<1> SUFFICES ASSUME MailInv, SendFails PROVE MailInv'
  OBVIOUS
<1>1. /\ alertRun.step = "scanned" /\ alertRun' = [step |-> "idle", movers |-> {}]
      /\ UNCHANGED <<closes, heldListings, alertLog>>
      /\ \/ UNCHANGED <<inbox, unlogged>>
         \/ /\ inbox' = Delivered(inbox, alertRun.movers)
            /\ unlogged' = Delivered(unlogged, alertRun.movers)
  BY DEF SendFails, NoRun
<1>2. AlertTypeOK'
  BY <1>1, DeliveryTyped DEF MailInv, AlertTypeOK, RunTyped, NoRun
<1>3. ASSUME NEW m \in Mover
      PROVE  /\ Standing(m)' <=> Standing(m)
             /\ m \in alertRun.movers => ~Standing(m)
  BY <1>1 DEF Standing, MailInv, Unlogged
<1>4. ASSUME NEW m \in Mover PROVE Tallied(m)'
  <2>1. PICK n \in Nat : /\ Numbered(unlogged, m, n)
                         /\ Numbered(inbox, m, IF Standing(m) THEN n + 1 ELSE n)
    BY DEF MailInv, Tallied
  <2>2. CASE UNCHANGED <<inbox, unlogged>>
    BY <1>3, <2>1, <2>2 DEF Tallied
  <2>3. CASE /\ inbox' = Delivered(inbox, alertRun.movers)
             /\ unlogged' = Delivered(unlogged, alertRun.movers)
    <3>1. CASE m \in alertRun.movers
      <4>1. ~Standing(m) /\ ~Standing(m)'
        BY <1>3, <3>1
      <4>2. Numbered(inbox', m, n + 1) /\ Numbered(unlogged', m, n + 1)
        BY <2>1, <2>3, <3>1, <4>1, DeliveryTyped
      <4> QED
        BY <4>1, <4>2 DEF Tallied
    <3>2. CASE m \notin alertRun.movers
      <4>1. PICK a \in Nat : a = IF Standing(m) THEN n + 1 ELSE n
        OBVIOUS
      <4>2. Numbered(inbox', m, a) /\ Numbered(unlogged', m, n)
        BY <2>1, <2>3, <3>2, <4>1, DeliveryTyped
      <4> QED
        BY <1>3, <4>1, <4>2 DEF Tallied
    <3> QED
      BY <3>1, <3>2
  <2> QED
    BY <1>1, <2>2, <2>3
<1>5. OneEach(alertRun.movers)' /\ Unlogged(alertRun.movers)'
  BY <1>1 DEF OneEach, Unlogged
<1> QED
  BY <1>2, <1>3, <1>4, <1>5 DEF MailInv, OneStands

\* The insert makes rows of the movers that stood for their run.
LEMMA RecordKeepsMail == MailInv /\ RecordAlerts => MailInv'
<1> SUFFICES ASSUME MailInv, RecordAlerts PROVE MailInv'
  OBVIOUS
<1>1. /\ alertRun.step = "sent" /\ alertRun' = [step |-> "idle", movers |-> {}]
      /\ alertLog' = alertLog \cup alertRun.movers
      /\ UNCHANGED <<closes, heldListings, inbox, unlogged>>
  BY DEF RecordAlerts, NoRun, Recorded, MailInv, Unlogged
<1>2. AlertTypeOK'
  BY <1>1 DEF MailInv, AlertTypeOK, RunTyped, NoRun
<1>3. \A m \in Mover : Standing(m)' <=> Standing(m)
  BY <1>1 DEF Standing
<1>4. ASSUME NEW m \in Mover PROVE Tallied(m)'
  BY <1>1, <1>3 DEF MailInv, Tallied
<1>5. OneEach(alertRun.movers)' /\ Unlogged(alertRun.movers)'
  BY <1>1 DEF OneEach, Unlogged
<1> QED
  BY <1>2, <1>3, <1>4, <1>5 DEF MailInv, OneStands

\* A run cut short after its send leaves its deliveries unlogged, and nothing
\* standing for them.
LEMMA CutKeepsMail == MailInv /\ AlertRunCut => MailInv'
<1> SUFFICES ASSUME MailInv, AlertRunCut PROVE MailInv'
  OBVIOUS
<1>1. /\ alertRun' = [step |-> "idle", movers |-> {}]
      /\ unlogged' = IF alertRun.step = "sent"
                     THEN Delivered(unlogged, alertRun.movers) ELSE unlogged
      /\ UNCHANGED <<closes, heldListings, alertLog, inbox>>
  BY DEF AlertRunCut, NoRun
<1>2. AlertTypeOK'
  BY <1>1, DeliveryTyped DEF MailInv, AlertTypeOK, RunTyped, NoRun
<1>3. ASSUME NEW m \in Mover
      PROVE  /\ Standing(m)' <=> m \in alertLog
             /\ m \in alertRun.movers => m \notin alertLog
             /\ Standing(m) <=> m \in alertLog
                                  \/ (alertRun.step = "sent" /\ m \in alertRun.movers)
  BY <1>1 DEF Standing, MailInv, Unlogged
<1>4. ASSUME NEW m \in Mover PROVE Tallied(m)'
  <2>1. PICK n \in Nat : /\ Numbered(unlogged, m, n)
                         /\ Numbered(inbox, m, IF Standing(m) THEN n + 1 ELSE n)
    BY DEF MailInv, Tallied
  <2>2. CASE alertRun.step = "sent" /\ m \in alertRun.movers
    <3>1. Standing(m) /\ ~Standing(m)'
      BY <1>3, <2>2
    <3>2. Numbered(unlogged', m, n + 1) /\ Numbered(inbox', m, n + 1)
      BY <1>1, <2>1, <2>2, <3>1, DeliveryTyped
    <3> QED
      BY <3>1, <3>2 DEF Tallied
  <2>3. CASE ~(alertRun.step = "sent" /\ m \in alertRun.movers)
    <3>1. Standing(m)' <=> Standing(m)
      BY <1>3, <2>3
    <3>2. Numbered(unlogged', m, n)
      BY <1>1, <2>1, <2>3, DeliveryTyped
    <3> QED
      BY <1>1, <2>1, <3>1, <3>2 DEF Tallied
  <2> QED
    BY <2>2, <2>3
<1>5. OneEach(alertRun.movers)' /\ Unlogged(alertRun.movers)'
  BY <1>1 DEF OneEach, Unlogged
<1> QED
  BY <1>2, <1>3, <1>4, <1>5 DEF MailInv, OneStands

\* Every step keeps the tally.
LEMMA NextMailInv == MailInv /\ [AlertNext]_alertVars => MailInv'
<1> SUFFICES ASSUME MailInv, [AlertNext]_alertVars PROVE MailInv'
  OBVIOUS
<1>0. closes \in [AlertListings -> Prices] /\ heldListings \in SUBSET AlertListings
  BY DEF MailInv, AlertTypeOK
<1>1. ASSUME NEW l \in AlertListings, NEW d \in CloseDays,
             NEW p \in Closes \cup {NoClose}, WriteClose(l, d, p)
      PROVE  MailInv'
  <2>1. closes' \in [AlertListings -> Prices]
    BY <1>0, <1>1 DEF WriteClose, Prices
  <2> QED
    BY <1>0, <1>1, <2>1, WritesKeepMail DEF WriteClose
<1>2. ASSUME NEW l \in AlertListings, NEW d \in CloseDays, WriteBasisEvent(l, d)
      PROVE  MailInv'
  BY <1>0, <1>2, WritesKeepMail DEF WriteBasisEvent
<1>3. ASSUME NEW l \in AlertListings, WriteHolding(l)
      PROVE  MailInv'
  <2>1. heldListings' \in SUBSET AlertListings
    BY <1>0, <1>3 DEF WriteHolding, SymDiff
  <2> QED
    BY <1>0, <1>3, <2>1, WritesKeepMail DEF WriteHolding
<1>4. CASE UNCHANGED alertVars
  BY <1>0, <1>4, WritesKeepMail DEF alertVars
<1> QED
  BY <1>1, <1>2, <1>3, <1>4, BeginKeepsMail, SendKeepsMail, FailedSendKeepsMail,
     RecordKeepsMail, CutKeepsMail DEF AlertNext

\* Nothing is logged that was not delivered, and a close is alerted again only
\* after a run that delivered it was cut short: for any listings, closes and
\* threshold, whatever is written between the steps of a run, and however many
\* sends, inserts and processes fail (price_alert.rs run_alert).
THEOREM LogAlwaysMatchesMail == AlertSpec => []LogMatchesMail
<1>1. AlertSpec => []MailInv
  BY InitMailInv, NextMailInv, PTL DEF AlertSpec
<1> QED
  BY <1>1, MailInvAgrees, PTL
===============================================================================
