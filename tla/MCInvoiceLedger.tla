--------------------------- MODULE MCInvoiceLedger ---------------------------
(***************************************************************************)
(* Instances of InvoiceLedger for TLC: payments and handlers are           *)
(* interchangeable.                                                        *)
(***************************************************************************)
EXTENDS InvoiceLedger, TLC

Interchangeable == Permutations(Payments) \cup Permutations(Requests)
=============================================================================
