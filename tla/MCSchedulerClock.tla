-------------------------- MODULE MCSchedulerClock --------------------------
(***************************************************************************)
(* The scheduler and the clock of one of its entries in one run: they      *)
(* share no state, so a behaviour is one of the component that `part`      *)
(* names and the other stays as it starts.                                 *)
(***************************************************************************)
EXTENDS MCScheduler, EntryClock

VARIABLE part

(* Idle, the clock starts in one of its zones, always the same. *)
BothInit ==
    /\ part \in {"scheduler", "clock"}
    /\ Init /\ ClockInit
    /\ part # "clock" => hour = 0 /\ shift = Min(Shifts) /\ change = DayTicks + DayTicks \div 4

BothNext ==
    /\ \/ part = "scheduler" /\ Next /\ UNCHANGED clockVars
       \/ part = "clock" /\ ClockNext /\ UNCHANGED vars
    /\ UNCHANGED part

BothSpec == BothInit /\ [][BothNext]_<<part, vars, clockVars>>

ShiftSet == {-2, 0, 2}
StepSet == {-1, 3}
=============================================================================
