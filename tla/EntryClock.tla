------------------------------ MODULE EntryClock ------------------------------
(***************************************************************************)
(* When a daily entry of schedule.cron fires: next_run and                 *)
(* is_genuine_occurrence over a zone whose clock changes once, and the     *)
(* naps, sleeps and recomputations of run_entry's loop                     *)
(* (infra/scheduler/run.rs).  The system clock may also be stepped, under  *)
(* a sleep that counts monotonic time.                                     *)
(*                                                                         *)
(* Instants are ticks of the system clock; the wall clock of the entry's   *)
(* zone is the instant, moved by `shift` from the instant `change` on: a   *)
(* spring-forward gap when positive, a repeated hour when negative.        *)
(***************************************************************************)
EXTENDS Integers, Sequences, FiniteSetsExt

CONSTANTS
    DayTicks,    \* ticks in a day
    ClockDays,   \* bound: days followed
    MaxSleep,    \* MAX_SLEEP
    MaxRuntime,  \* bound: a run ends within this many ticks, on the shortest
                 \* day before the next occurrence
    Shifts,      \* what a clock change adds to the wall clock
    ClockSteps,  \* by how much the system clock may be stepped
    MaxSteps     \* bound: steps of the system clock

ASSUME ClockAssumption ==
    /\ {DayTicks, ClockDays, MaxSleep} \subseteq Nat \ {0}
    /\ MaxRuntime \in 0..(DayTicks - DayTicks \div 4 - 1) /\ MaxSteps \in Nat
    /\ Shifts \subseteq -(DayTicks \div 4)..(DayTicks \div 4)
    /\ ClockSteps \subseteq Int

VARIABLES
    hour,    \* the entry's time of day
    change,  \* the instant the zone's clock changes
    shift,   \* and by how much
    clock,   \* the system clock
    loop,    \* where run_entry is: compute, nap, sleep, running
    left,    \* monotonic ticks left of its sleep, or of its run
    due,     \* the occurrence it last computed, as stored in job_schedule
    fired,   \* history: occurrences it ran, each with the clock when it did
    jumps    \* history: steps of the clock, [from, to]

clockVars == <<hour, change, shift, clock, loop, left, due, fired, jumps>>

Horizon == ClockDays * DayTicks
Instants == 0..(Horizon + 2 * DayTicks)

Wall(i) == i + IF i >= change THEN shift ELSE 0
LocalDay(i) == Wall(i) \div DayTicks

(* Cron::is_time_matching of a daily entry. *)
Matches(wall) == wall % DayTicks = hour

(* Wall times that the gap before instant i skipped. *)
SkippedBefore(i) == (Wall(i - 1) + 1)..(Wall(i) - 1)

(* croner's find_next_occurrence answers the first of these after `from`.  A
   repeated wall time is offered once, at its first instant; a skipped one at
   the first instant after the gap; and on the day of a gap that instant is
   also offered to an entry whose time lies before it. *)
Offers ==
    {i \in Instants :
        \/ Matches(Wall(i)) /\ \A j \in Instants : Wall(j) = Wall(i) => i <= j
        \/ i = change /\ \E w \in SkippedBefore(i) : Matches(w)
        \/ i = change /\ shift > 0 /\ hour < Wall(change - 1) % DayTicks}

(* Mutant: croner is taken at its word. *)
IsAnyOccurrence(i) == TRUE

IsGenuineOccurrence(i) ==
    Matches(Wall(i)) \/ \E w \in SkippedBefore(i) : Matches(w)

(* Mutant: an occurrence on the very next tick is passed over. *)
NextOccurrenceLater(now) == Min({i \in Offers : i > now + 1 /\ IsGenuineOccurrence(i)})

(* next_run: the first genuine occurrence strictly after now. *)
NextOccurrence(now) == Min({i \in Offers : i > now /\ IsGenuineOccurrence(i)})

Delay(next, now) == next - now

SleepFor(delay) == IF delay > MaxSleep THEN MaxSleep ELSE delay

-----------------------------------------------------------------------------
(* The change falls in the middle of the second day. *)
ClockInit ==
    /\ hour \in 0..(DayTicks - 1)
    /\ shift \in Shifts
    /\ change \in (DayTicks + DayTicks \div 4)..(2 * DayTicks - 1 - DayTicks \div 4)
    /\ clock = 0
    /\ loop = "compute" /\ left = 0
    /\ due = clock                  \* the row is claimed at the start
    /\ fired = <<>> /\ jumps = <<>>

(* The next occurrence is computed and stored, at the top of the loop and
   whenever a nap ends; further away than MAX_SLEEP, the loop naps. *)
ComputeNext ==
    /\ loop \in {"compute", "nap"} /\ left = 0
    /\ due' = NextOccurrence(clock)
    /\ LET delay == Delay(NextOccurrence(clock), clock)
       IN  /\ loop' = IF delay > MaxSleep THEN "nap" ELSE "sleep"
           /\ left' = SleepFor(delay)
    /\ UNCHANGED <<hour, change, shift, clock, fired, jumps>>

(* The last sleep is over: the job runs, whatever the clock says. *)
FireEntry ==
    /\ loop = "sleep" /\ left = 0
    /\ fired' = Append(fired, [of |-> due, at |-> clock])
    /\ loop' = "running"
    /\ left' \in 0..MaxRuntime
    /\ UNCHANGED <<hour, change, shift, clock, due, jumps>>

RunDone ==
    /\ loop = "running" /\ left = 0
    /\ loop' = "compute"
    /\ UNCHANGED <<hour, change, shift, clock, left, due, fired, jumps>>

(* A tick of both clocks. *)
ClockTick ==
    /\ left > 0 /\ clock < Horizon
    /\ clock' = clock + 1 /\ left' = left - 1
    /\ UNCHANGED <<hour, change, shift, loop, due, fired, jumps>>

(* The system clock is stepped (NTP, or a suspend the sleep did not count). *)
StepClock(k) ==
    /\ Len(jumps) < MaxSteps
    /\ left > 0
    /\ clock + k \in 0..Horizon
    /\ clock' = clock + k
    /\ jumps' = Append(jumps, [from |-> clock, to |-> clock + k])
    /\ UNCHANGED <<hour, change, shift, loop, left, due, fired>>

ClockNext ==
    \/ ComputeNext
    \/ FireEntry
    \/ RunDone
    \/ ClockTick
    \/ \E k \in ClockSteps : StepClock(k)

ClockSpec == ClockInit /\ [][ClockNext]_clockVars

-----------------------------------------------------------------------------
(***************************************************************************)
(* A daily entry fires exactly once every local day across a clock change: *)
(* not skipped in the missing hour, not again in the repeated one, and not *)
(* a second time after a gap that its hour does not touch.  What the entry *)
(* waits for counts as its next firing.                                    *)
(***************************************************************************)
FiresOnceADay ==
    jumps = <<>> =>
        LET upcoming == IF loop \in {"nap", "sleep"}
                        THEN Append(fired, [of |-> due, at |-> due]) ELSE fired
        IN  /\ \A i \in 1..(Len(upcoming) - 1) :
                  LocalDay(upcoming[i + 1].at) = LocalDay(upcoming[i].at) + 1
            /\ \A i \in DOMAIN upcoming : upcoming[i].of = upcoming[i].at

(* Reference: the first instant of each local day at or past the hour. *)
DueInstants ==
    {Min({i \in Instants : Wall(i) >= n * DayTicks + hour}) : n \in 0..ClockDays}

(***************************************************************************)
(* What a step of the clock can do to the schedule, and nothing else does. *)
(* An occurrence that has gone by was run, or is about to be, unless the   *)
(* clock was stepped forward over it or to less before it than a nap or a  *)
(* run may last: what was under way at the step may then end after the     *)
(* occurrence, and the next one computed is the next day's.  Or a run that *)
(* a step had made late was still at work when it came.  One is run twice  *)
(* only if the clock was stepped back.                                     *)
(***************************************************************************)
OnlyStepsLoseOrRepeat ==
    /\ fired # <<>> =>
          \A o \in DueInstants : fired[1].of < o /\ o < clock =>
              \/ \E i \in DOMAIN fired : fired[i].of = o
              \/ loop = "sleep" /\ due = o
              \/ \E n \in DOMAIN jumps :
                    /\ jumps[n].from < o
                    /\ o - jumps[n].to <= MaxSleep \/ o - jumps[n].to <= MaxRuntime
              \/ \E i \in DOMAIN fired :
                    fired[i].of < fired[i].at /\ o - fired[i].at \in 1..MaxRuntime
    /\ \A i, j \in DOMAIN fired :
          i # j /\ fired[i].of = fired[j].of =>
              \E n \in DOMAIN jumps : jumps[n].to < jumps[n].from
====
