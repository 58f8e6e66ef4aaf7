------------------------------ MODULE MCGemvPool ------------------------------
(* A small instance of GemvPool and the mutants its properties must notice. *)
EXTENDS GemvPool

CONSTANTS c1, c2, w1, w2

\* A job with no row, and one with a full chunk and a short last one.
MCJobs == {[n_out |-> 0, chunk |-> 2], [n_out |-> 3, chunk |-> 2]}
MCCallers == {c1, c2}
MCWorkers == {w1, w2}
===============================================================================
