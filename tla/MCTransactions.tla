-------------------------- MODULE MCTransactions ---------------------------
(***************************************************************************)
(* Goroutines with which TLC checks Transactions.                          *)
(***************************************************************************)
EXTENDS Transactions

CONSTANTS j, k, g, o            (* model values: goroutines                *)

OneJob == {j}
TwoJobs == {j, k}
OneGenerator == {g}
OneSwitcher == {o}
Sizes == [s \in Jobs |-> IF s = j THEN 2 ELSE 1]
=============================================================================
