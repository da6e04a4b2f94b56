---------------------------- MODULE MCCashSummary ----------------------------
(***************************************************************************)
(* Two accounts seen by two views, with orders on either.                  *)
(***************************************************************************)
EXTENDS CashSummary, TLC

Interchangeable == Permutations(Accounts) \cup Permutations(Views)
=============================================================================
