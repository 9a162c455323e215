---------------------- MODULE MCPositionProtection ----------------------
(* One small position for TLC. *)
EXTENDS PositionProtection
=============================================================================
