----------------------------- MODULE JobService -----------------------------
(***************************************************************************)
(* What the scheduler promises whoever runs a job, with no word of locks,  *)
(* queues, rows or tasks ("Runs of the same job are serialised", docs/     *)
(* API.md, Jobs): a job is run by one runner at a time; its published      *)
(* result changes only when the run in progress ends, to what that run     *)
(* recorded; a restart ends every run and publishes nothing.  Scheduler    *)
(* implements it.                                                          *)
(***************************************************************************)
CONSTANTS
    Jobs,      \* the names in the job registry
    Runners,   \* schedule entries and requests
    None       \* no result: none yet, or the record of it failed

VARIABLES
    active,    \* active[j]: who is running j
    result     \* result[j]: what the latest run of j to end recorded

serviceVars == <<active, result>>

ServiceInit ==
    /\ active = [j \in Jobs |-> {}]
    /\ result = [j \in Jobs |-> None]

Begin(j, r) ==
    /\ active[j] = {}
    /\ active' = [active EXCEPT ![j] = {r}]
    /\ UNCHANGED result

End(j) ==
    /\ active[j] # {}
    /\ active' = [active EXCEPT ![j] = {}]
    /\ \E s \in {"ok", "failed", None} : result' = [result EXCEPT ![j] = s]

Restart ==
    /\ active' = [j \in Jobs |-> {}]
    /\ result' = [j \in Jobs |-> None]

ServiceNext ==
    \/ \E j \in Jobs : End(j) \/ \E r \in Runners : Begin(j, r)
    \/ Restart

ServiceSpec == ServiceInit /\ [][ServiceNext]_serviceVars
=============================================================================
