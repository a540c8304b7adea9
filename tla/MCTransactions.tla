--------------------------- MODULE MCTransactions ---------------------------
(***************************************************************************)
(* A small instance of Transactions for TLC.                               *)
(***************************************************************************)
EXTENDS Transactions

CONSTANTS admin, wallet, dapp, zero

MCAddress == {admin, wallet, dapp, zero}
=============================================================================
