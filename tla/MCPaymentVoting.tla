-------------------------- MODULE MCPaymentVoting --------------------------
(***************************************************************************)
(* One path coordinator - intermediate - receiver, for TLC.                *)
(***************************************************************************)
EXTENDS PaymentVoting, TLC

CONSTANTS c, i, r

MCParticipants == {i, r}
MCNextHop == c :> i @@ i :> r
=============================================================================
