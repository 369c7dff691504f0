------------------------------ MODULE MCSigning ------------------------------
(***************************************************************************)
(* TLC's instance of Signing: signers and handlers are interchangeable.    *)
(***************************************************************************)
EXTENDS Signing, TLC

Symmetry == Permutations(Signers) \cup Permutations(Requests)
=============================================================================
