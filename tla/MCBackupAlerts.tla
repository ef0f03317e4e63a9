---------------------------- MODULE MCBackupAlerts ----------------------------
(***************************************************************************)
(* The two jobs whose steps reach outside the database, in one run: they   *)
(* share no state, so a behaviour is one of the job that `part` names and  *)
(* the other stays as it starts.                                           *)
(***************************************************************************)
EXTENDS Backup, Alerts

VARIABLE part

allVars == <<part, vars, alertVars>>

(* Idle, every listing has the same first close. *)
JobsInit ==
    /\ part \in {"backup", "alerts"}
    /\ Init /\ AlertInit
    /\ part # "alerts" => \A l \in AlertListings : closes[l][1] = Min(Closes)

AlertPart(A) == part = "alerts" /\ A /\ UNCHANGED <<part, vars>>

JobsNext ==
    \/ part = "backup" /\ Next /\ UNCHANGED <<part, alertVars>>
    \/ AlertPart(AlertNext)

(* Alerts!AlertFairness, of the behaviours that are about the alerts. *)
JobsFairness ==
    /\ WF_allVars(AlertPart(BeginAlertRun))
    /\ WF_allVars(AlertPart(SendAccepted))
    /\ WF_allVars(AlertPart(RecordAlerts))

JobsSpec == JobsInit /\ [][JobsNext]_allVars /\ JobsFairness
=============================================================================
