------------------------------ MODULE MCAudit ------------------------------
(***************************************************************************)
(* Small instances of Audit for TLC.                                       *)
(***************************************************************************)
EXTENDS Audit

CONSTANTS first, second, coin, market

MCUser == {owner, first, second}

MCScore == {coin, market}
=============================================================================
