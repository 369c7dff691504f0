---------------------------- MODULE MCPayrollAgent ----------------------------
(***************************************************************************)
(* PayrollAgent for TLC.  Its handlers are alike, so that states that      *)
(* differ only in which slot serves which request are the same state.      *)
(***************************************************************************)
EXTENDS PayrollAgent, TLC

AnySlot == Permutations(Requests)
=============================================================================
