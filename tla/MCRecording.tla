---------------------------- MODULE MCRecording -----------------------------
(* Instance of Recording for TLC. *)
EXTENDS Recording
MCPaths == {"p1", "p2", "p3", "p4", "p5"}
MCClosings == {"closeForFastWait", "closeForSlowWait", "closeForRestart",
               "closeForRebuild", "closeForErase"}
=============================================================================
