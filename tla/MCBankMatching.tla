--------------------------- MODULE MCBankMatching ---------------------------
(***************************************************************************)
(* TLC's instance of BankMatching: lines, entries and handlers are         *)
(* interchangeable.                                                        *)
(***************************************************************************)
EXTENDS BankMatching, TLC

Symmetry == Permutations(Lines) \cup Permutations(Entries)
              \cup Permutations(Requests)
=============================================================================
