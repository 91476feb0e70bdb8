------------------------ MODULE MCConfirmationQueue ------------------------
(***************************************************************************)
(* Two transactions with one contractor and one with another, for TLC.     *)
(***************************************************************************)
EXTENDS ConfirmationQueue, TLC

CONSTANTS a, b, t1, t2, t3

Contractor == t1 :> a @@ t2 :> a @@ t3 :> b
=============================================================================
