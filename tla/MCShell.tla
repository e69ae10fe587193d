------------------------------ MODULE MCShell -------------------------------
(* Instance of Shell for TLC. *)
EXTENDS Shell
\* Two columns fill the first viewport with two rows, the second with one.
MCFirstChannels == [id \in 1 .. 2 |-> [grid |-> id - 1, list |-> id - 1]]
MCViews == {[width |-> 101, height |-> 80], [width |-> 41, height |-> 30]}
MCColumnChoices == {0, 1}
=============================================================================
