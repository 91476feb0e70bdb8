------------------------- MODULE MCTrustLineLedger -------------------------
(***************************************************************************)
(* Two or three interchangeable payments over one line, for TLC.           *)
(***************************************************************************)
EXTENDS TrustLineLedger, TLC

Symmetry == Permutations(Payments)
=============================================================================
