------------------------------ MODULE MCSurface ------------------------------
(* Instance of Surface for TLC. *)
EXTENDS Surface
CONSTANTS tile, full
MCViews == {tile, full}
=============================================================================
