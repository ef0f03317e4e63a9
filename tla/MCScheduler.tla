---------------------------- MODULE MCScheduler ----------------------------
(***************************************************************************)
(* Instances of Scheduler for TLC: a job with one or two schedule lines    *)
(* (price-import has three), and HTTP triggers that ask for it.            *)
(***************************************************************************)
EXTENDS Scheduler, TLC

CONSTANTS j1, e1, e2, q1, q2

MCEntryJob == [e \in Entries |-> j1]
Symmetry == Permutations(Requests) \cup Permutations(Entries)

=============================================================================
