----------------------- MODULE MCTransactionsScheduler -----------------------
(* A payment and two max flow calculations. *)
EXTENDS TransactionsScheduler
CONSTANTS pay, flow1, flow2
=============================================================================
