-------------------------- MODULE MCReceiptPrinting --------------------------
(***************************************************************************)
(* Constants and symmetry for model-checking ReceiptPrinting.              *)
(***************************************************************************)
EXTENDS ReceiptPrinting, TLC

\* Requests are alike, and so are receipts: nothing in the code orders them.
Symmetry == Permutations(Request) \cup Permutations(Receipt)
=============================================================================
