--------------------------- MODULE MCParcelLedger ---------------------------
(***************************************************************************)
(* Instances of ParcelLedger for TLC.  MCTerms gives the corporate actions *)
(* on record in the runs that execute them.                                *)
(***************************************************************************)
EXTENDS ParcelLedger, TLC

CONSTANTS l1, l2, scrip, demerger, worthless, buyback

\* A demerger of l2 out of l1 on day 2, a takeover of l1 for l2 on day 3, l1
\* written off on day 3 or 4, and a buy-back of l1 open from day 2.
MCTerms ==
  scrip :> [kind |-> "scrip", listing |-> l1, dest |-> l2, date |-> 3,
            ratio |-> 2, dividend |-> FALSE]
  @@ demerger :> [kind |-> "demerger", listing |-> l1, dest |-> l2, date |-> 2,
                  ratio |-> 1, dividend |-> FALSE]
  @@ worthless :> [kind |-> "worthless", listing |-> l1, dest |-> None,
                   date |-> MaxDate, ratio |-> 0, dividend |-> FALSE]
  @@ buyback :> [kind |-> "buyback", listing |-> l1, dest |-> None, date |-> 2,
                 ratio |-> 0, dividend |-> TRUE]
\* Transfer ids are interchangeable.
TransferSymmetry == Permutations(TransferIds)
=============================================================================
