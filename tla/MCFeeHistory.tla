---------------------------- MODULE MCFeeHistory ----------------------------
(***************************************************************************)
(* Small instances of FeeHistory for TLC.                                  *)
(***************************************************************************)
EXTENDS FeeHistory

CONSTANTS admin, wallet, zero

MCAddress == {admin, wallet, zero}
=============================================================================
