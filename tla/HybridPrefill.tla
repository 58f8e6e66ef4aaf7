---------------------------- MODULE HybridPrefill ----------------------------
(***************************************************************************)
(* tensormark/metal_llama.h (PrefillEvent, prefill_begin, wait_layer,       *)
(* prefill_end) and the loop of llama.h's forward() that uses them: a long  *)
(* prompt is split, the GPU takes its leading rows layer by layer, and this *)
(* thread runs the tail rows one layer behind, reading the GPU's rows of a  *)
(* layer once the shared event has reached that layer's value.              *)
(*                                                                          *)
(* The GPU is an in-order queue of commands, one per layer; a command       *)
(* writes its rows and signals its value at the same moment.  The host's    *)
(* wait has a deadline, and a command it gave up on stays in the queue.     *)
(* The event's values only ever grow; they are counted from its base, which *)
(* a prefill that succeeded moves up by the values it used.                 *)
(***************************************************************************)
EXTENDS Integers, Sequences

CONSTANT Layers          (* L *)

ASSUME LayersAssumption == Layers \in Nat \ {0}

VARIABLES event,   (* PrefillEvent: [n, failed], and the value signalled       *)
          queue,   (* commands the GPU has not finished: [layer, value, rows]  *)
          pre      (* this thread's loop: [at, gpu_rows, cpu_rows, early]      *)

hvars == <<event, queue, pre>>

\* No hybrid prefill is in the loop.
NoPre == [at |-> 0, gpu_rows |-> 0, cpu_rows |-> 0, early |-> FALSE]

HInit == /\ event = [n |-> 0, failed |-> FALSE, value |-> 0]
         /\ queue = <<>>
         /\ pre = NoPre

Signalled_LayerAfter(l) == event.value >= l + 1
\* wait_layer(l) returns: the event reached the value of layer l.
Signalled(l) == event.value >= l

\* The GPU still has to finish layer l of the prefill in the loop.
Unfinished(l) == \E i \in 1 .. Len(queue) : queue[i].layer = l /\ queue[i].current

\* prefill_end: only a prefill whose every wait succeeded moves the base.
Moved_Never(ok) == 0
Moved(ok) == IF ok THEN event.n ELSE 0

Commands(rows) ==
    [l \in 1 .. Layers |-> [layer |-> l, value |-> l, rows |-> rows, current |-> TRUE]]

\* prefill_begin commits every layer.  forward() ends each prefill it began, so
\* there is never one left to drain here.
HBegin(first, g, r) ==
    /\ pre = NoPre /\ event.n = 0
    /\ event' = [event EXCEPT !.n = Layers, !.failed = FALSE]
    /\ queue' = queue \o Commands(first .. first + g - 1)
    /\ pre' = [at |-> 1, gpu_rows |-> g, cpu_rows |-> r, early |-> FALSE]

\* One layer of the loop: wait_layer returned, block() runs this thread's rows.
HLayer ==
    /\ pre.at \in 1 .. Layers /\ ~event.failed
    /\ Signalled(pre.at)
    /\ pre' = [pre EXCEPT !.at = @ + 1, !.early = @ \/ Unfinished(pre.at)]
    /\ UNCHANGED <<event, queue>>

\* The deadline of wait_layer passes first.
HTimeout ==
    /\ pre.at \in 1 .. Layers /\ ~event.failed
    /\ ~Signalled(pre.at)
    /\ event' = [event EXCEPT !.failed = TRUE]
    /\ UNCHANGED <<queue, pre>>

\* The loop is over, by its last layer or by a wait that failed, and prefill_end
\* finds the same answer; what the GPU has not finished nobody waits for now.
HLeave(ok) ==
    /\ pre.at > Layers \/ (pre.at >= 1 /\ event.failed)
    /\ ok = ~event.failed
    /\ event' = [event EXCEPT !.n = 0, !.value = @ - Moved(ok)]
    /\ queue' = [i \in 1 .. Len(queue) |->
                   [queue[i] EXCEPT !.current = FALSE, !.value = @ - Moved(ok)]]
    /\ pre' = NoPre

\* The GPU finishes the command at the head of its queue.
HGpu ==
    /\ queue # <<>>
    /\ queue' = Tail(queue)
    /\ event' = [event EXCEPT !.value = IF Head(queue).value > @ THEN Head(queue).value ELSE @]
    /\ UNCHANGED pre

\* The rows the head command writes when no prefill is waiting for it any more.
LateRows == IF queue # <<>> /\ ~Head(queue).current THEN Head(queue).rows ELSE {}
=============================================================================
