----------------------------- MODULE MCPaychecks -----------------------------
(***************************************************************************)
(* TLC's instance of Paychecks: paychecks, employees, dates and handlers   *)
(* are interchangeable.                                                    *)
(***************************************************************************)
EXTENDS Paychecks, TLC

Symmetry == Permutations(Paychecks) \cup Permutations(Employees)
              \cup Permutations(CheckDates) \cup Permutations(Handlers)
=============================================================================
