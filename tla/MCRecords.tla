----------------------------- MODULE MCRecords -----------------------------
(***************************************************************************)
(* Four components that share no state, checked in one run: a behaviour    *)
(* is one of the component that `part` names, the others stay as they      *)
(* start.                                                                  *)
(***************************************************************************)
EXTENDS Drp, AmitGeneration, CapitalGains, ParcelOptimiser, TLC

VARIABLE part

(* Idle, the reports have one parcel to start from, always the same. *)
RecordsInit ==
    /\ part \in {"drp", "amit", "cgt", "optimiser"}
    /\ DrpInit /\ AmitInit /\ CgtInit /\ OptInit
    /\ part # "cgt" => parcels[1].day = Min(BuyDays) /\ openingLoss = Min(OpeningLosses)

RecordsNext ==
    /\ \/ part = "drp" /\ DrpNext /\ UNCHANGED <<amitVars, cgtVars, optVars>>
       \/ part = "amit" /\ AmitNext /\ UNCHANGED <<drpVars, cgtVars, optVars>>
       \/ part = "cgt" /\ CgtNext /\ UNCHANGED <<drpVars, amitVars, optVars>>
       \/ part = "optimiser" /\ OptNext /\ UNCHANGED <<drpVars, amitVars, cgtVars>>
    /\ UNCHANGED part

RecordsSpec ==
    RecordsInit /\ [][RecordsNext]_<<part, drpVars, amitVars, cgtVars, optVars>>

(***************************************************************************)
(* The rows of each part fit each other, whatever is edited or undone:     *)
(* enrolment periods do not overlap and each DRP trade has the one         *)
(* distribution that funded it (db_create, db_unreinvest); a statement     *)
(* adjusts a parcel by one row (amit_adjustment::db_create); and no sell,  *)
(* recorded or advised, takes units another one took.                      *)
(***************************************************************************)
RecordsWellFormed == DrpTypeOK /\ AmitTypeOK /\ CgtTypeOK /\ OptTypeOK

Symmetry == Permutations(Distributions) \union Permutations(FundAccounts)
RateSet == {-6, 12}
GapSet == {NoRecord, 2}
=============================================================================
