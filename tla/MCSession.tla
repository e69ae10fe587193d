----------------------------- MODULE MCSession ------------------------------
(* Instance of Session for TLC. *)
EXTENDS Session
MCOpenErrors == {"DeviceUnreachable"}
=============================================================================
