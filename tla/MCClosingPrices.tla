---------------------------- MODULE MCClosingPrices ----------------------------
(* Model-checking instances of ClosingPrices. *)
EXTENDS ClosingPrices
====
