---------------------------- MODULE MCStableCoin ----------------------------
(***************************************************************************)
(* Small instances of StableCoin for TLC.                                  *)
(***************************************************************************)
EXTENDS StableCoin

CONSTANTS admin, holder, third, wallet, dapp, zero

\* Arguments the contract must reject are offered beside the good ones.
MCAmounts == {-1, 0, 1, 2}

MCLimits == {-1, 0}

MCIssuerAmounts == {-1, 1}

\* The last two do not fit an int, and are narrowed to -4 and 1.
MCIssuerCaps == {-1, 0, 3, 4, 9}

MCReentrantAddress == {admin, wallet, dapp, zero}

MCIssuerAddress == {admin, holder, third, zero}
=============================================================================
