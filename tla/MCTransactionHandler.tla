------------------------ MODULE MCTransactionHandler ------------------------
(***************************************************************************)
(* A small instance of TransactionHandler for TLC.                         *)
(***************************************************************************)
EXTENDS TransactionHandler

CONSTANTS first, second

MCTransfers == <<first, second>>
=============================================================================
