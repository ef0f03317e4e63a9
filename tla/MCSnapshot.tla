------------------------------ MODULE MCSnapshot ------------------------------
(* The instance of Snapshot for TLC: the listings are interchangeable. *)
EXTENDS Snapshot, TLC

Symmetry == Permutations(Listings)
====
