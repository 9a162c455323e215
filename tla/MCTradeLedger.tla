---------------------------- MODULE MCTradeLedger ----------------------------
(* One trade and two overlapping syncs for TLC. *)
EXTENDS TradeLedger

CONSTANTS xrp, cycle, panel
=============================================================================
