-------------------------- MODULE MCGoldRetention --------------------------
(* Small instances of GoldRetention for TLC.                               *)
EXTENDS GoldRetention

CONSTANTS btc, eth
=============================================================================
