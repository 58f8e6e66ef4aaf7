------------------------------- MODULE MCEngine -------------------------------
(* Small instance of Engine: a context that two turns fill.  A turn close (2)  *)
(* is below LoopT (3), a templated prompt never is; 4 tokens can be split.     *)
EXTENDS Engine

MCPrompts == {3, 4}
MCBudgets == {1, 4}
MCAnyPrompts == {1, 2, 3}
=============================================================================
