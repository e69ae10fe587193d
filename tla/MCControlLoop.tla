--------------------------- MODULE MCControlLoop ----------------------------
(* Instance of ControlLoop for TLC. *)
EXTENDS ControlLoop
=============================================================================
