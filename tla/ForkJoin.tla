------------------------------- MODULE ForkJoin -------------------------------
(***************************************************************************)
(* What a dispatch of the GEMV pool promises its caller, and nothing of    *)
(* how: one job at a time is in progress; each of its rows is handed to    *)
(* one thread, once; the job ends only when every row has been handed out  *)
(* and no thread is still computing one.                                   *)
(***************************************************************************)
EXTENDS Naturals

CONSTANTS Threads,  (* everything that may compute rows: callers and workers *)
          Sizes     (* the numbers of rows a job may have                   *)

VARIABLES busy,     (* a job is in progress                               *)
          todo,     (* its rows nobody has taken yet                      *)
          doing     (* doing[t]: the rows thread t is computing           *)

fjVars == <<busy, todo, doing>>

FJInit == /\ busy = FALSE
          /\ todo = {}
          /\ doing = [t \in Threads |-> {}]

Begin == /\ ~busy
         /\ busy' = TRUE
         /\ \E n \in Sizes : todo' = 0 .. n-1
         /\ UNCHANGED doing

Take(t) == /\ busy
           /\ doing[t] = {}
           /\ \E rows \in SUBSET todo :
                 /\ rows # {}
                 /\ doing' = [doing EXCEPT ![t] = rows]
                 /\ todo' = todo \ rows
           /\ UNCHANGED busy

Finish(t) == /\ busy
             /\ doing[t] # {}
             /\ doing' = [doing EXCEPT ![t] = {}]
             /\ UNCHANGED <<busy, todo>>

End == /\ busy
       /\ todo = {}
       /\ \A t \in Threads : doing[t] = {}
       /\ busy' = FALSE
       /\ UNCHANGED <<todo, doing>>

FJNext == Begin \/ End \/ \E t \in Threads : Take(t) \/ Finish(t)

FJSpec == FJInit /\ [][FJNext]_fjVars
===============================================================================
