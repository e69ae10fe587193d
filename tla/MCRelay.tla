------------------------------- MODULE MCRelay -------------------------------
(* Instance of Relay for TLC. *)
EXTENDS Relay
CONSTANTS ch1, ch2
MCIds == {ch1, ch2}
=============================================================================
