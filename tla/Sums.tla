-------------------------------- MODULE Sums --------------------------------
(***************************************************************************)
(* Sums of a function's values over a finite set: the SUM of a column over *)
(* the rows a query selects, and what the code adds up in a loop.          *)
(***************************************************************************)
EXTENDS Integers, FiniteSetsExt

SumOver(f, S) == MapThenSumSet(LAMBDA x : f[x], S)
=============================================================================
