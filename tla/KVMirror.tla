------------------------------- MODULE KVMirror -------------------------------
(***************************************************************************)
(* tensormark/llama.h: the key-value cache of one conversation, held twice. *)
(* The CPU arrays kc/vc are filled by a prefill; decoding may move to the   *)
(* GPU, whose copy then is the authoritative one for the rows decoded there *)
(* until a longer forward brings them back.                                 *)
(*                                                                          *)
(* A row is abstracted to what the code relies on: whether it is the row    *)
(* the conversation's tokens determine.  k.cpu and k.gpu are the positions  *)
(* whose row in that copy is; a row computed while an earlier row it        *)
(* attends to is not exact is not exact either, and a row of a token the    *)
(* conversation dropped stops being exact.  Everything here is an operator  *)
(* on the record k of the cache's bookkeeping:                              *)
(*   seen, uploaded (gpu_kv_uploaded_), from (gpu_from_), valid             *)
(*   (gpu_kv_valid_), on (decode_gpu_); rec, the number of tokens the       *)
(*   recurrent layers have absorbed (Diverged when they saw another         *)
(*   sequence); lg, the number of tokens the logits in hand follow.         *)
(* c is what the load resolved: [auto, usable, linear].                     *)
(***************************************************************************)
EXTENDS Integers

CONSTANTS Ctx,         (* the context length                                *)
          LoopT,       (* prefill_loop_t(): shorter inputs go token by token *)
          CtxSwitch    (* TM_DECODE_GPU_AUTO_CTX: decode moves to the GPU    *)

ASSUME MirrorAssumption == /\ Ctx \in Nat /\ LoopT \in Nat /\ CtxSwitch \in Nat
                           /\ LoopT >= 2

Diverged == -1

Below(n) == 0 .. n - 1
Least(a, b) == IF a < b THEN a ELSE b

\* n rows written at base over whatever was there.
Extend(rows, base, n, sound) ==
    {p \in rows : p < base} \cup (IF sound THEN base .. base + n - 1 ELSE {})

\* What reset_cache leaves: nothing of the last conversation is reachable.
Cleared(k) == [k EXCEPT !.seen = 0, !.uploaded = FALSE, !.from = 0, !.valid = 0,
                        !.cpu = {}, !.gpu = {}, !.rec = 0, !.lg = 0]

CanRewind_AnyBefore(c, k, n) == ~c.linear /\ n <= k.seen
CanRewind(c, k, n) == ~c.linear /\ n \in 0 .. k.seen

Rewound_KeepingValid(k, n) ==
    [k EXCEPT !.seen = n, !.uploaded = FALSE, !.from = 0,
              !.cpu = @ \cap Below(n), !.gpu = @ \cap Below(n), !.lg = Diverged]
\* rewind_to: rows from n on are of tokens the conversation no longer has.
Rewound(k, n) ==
    [k EXCEPT !.seen = n, !.uploaded = FALSE, !.from = 0, !.valid = 0,
              !.cpu = @ \cap Below(n), !.gpu = @ \cap Below(n), !.lg = Diverged]

-----------------------------------------------------------------------------
(* Moving the cache between its two homes.                                   *)

\* gpu_token_prologue: rows [valid, seen) follow the ones that already match.
Upload(k) ==
    IF k.uploaded THEN k
    ELSE LET r0 == Least(k.valid, k.seen)
         IN  [k EXCEPT !.gpu = (@ \cap Below(r0)) \cup {p \in k.cpu : r0 <= p /\ p < k.seen},
                       !.valid = k.seen, !.uploaded = TRUE, !.from = k.seen]

\* A forward of several tokens pulls rows [from, seen) back before it runs.
Download(k) ==
    IF ~k.uploaded THEN k
    ELSE [k EXCEPT !.cpu = (@ \cap Below(k.from)) \cup {p \in k.gpu : k.from <= p /\ p < k.seen},
                   !.uploaded = FALSE, !.valid = k.seen]

\* The same download when the accelerator fails it: the result is not looked at.
DownloadLost(k) == [k EXCEPT !.cpu = @ \cap Below(k.from), !.uploaded = FALSE, !.valid = k.seen]

-----------------------------------------------------------------------------
(* Running tokens.                                                           *)

CpuSound(c, k) == Below(k.seen) \subseteq k.cpu /\ (c.linear => k.rec = k.seen)

\* n tokens through block() or through the GPU layer stack, which writes the
\* same arrays: rows land at seen, after every layer.
CpuRun(c, k, n) ==
    [k EXCEPT !.cpu = Extend(@, k.seen, n, CpuSound(c, k)),
              !.rec = IF @ = k.seen THEN k.seen + n ELSE Diverged,
              !.seen = @ + n, !.lg = k.seen + n]

\* The rows n tokens encoded for the GPU leave there: each attends to all before it.
GpuRows(gpu, base, n) == Extend(gpu, base, n, Below(base) \subseteq gpu)

\* n tokens through the token lane, each row on the GPU only.
GpuRun(k, n) ==
    LET u == Upload(k)
    IN  [u EXCEPT !.gpu = GpuRows(@, u.seen, n), !.seen = @ + n, !.lg = u.seen + n]

\* A long enough context moves decoding to the GPU; an unusable lane moves it back.
Switched(c, k, n) ==
    LET on == k.on \/ (c.auto /\ n = 1 /\ k.seen >= CtxSwitch)
    IN  [k EXCEPT !.on = IF n = 1 /\ ~c.usable THEN FALSE ELSE on]

Done(k) == [k |-> k, ok |-> TRUE, fault |-> 0, trust |-> TRUE]
Threw(k, f) == [k |-> k, ok |-> FALSE, fault |-> f, trust |-> TRUE]

\* forward_gpu_one and the catch around it: under the auto policy a failure
\* before the upload is finished falls back to the CPU, any other is thrown.
OneOnGpu(c, k) ==
    {Done(GpuRun(k, 1)), Threw(Upload(k), 1)}
        \cup (IF k.uploaded \/ ~c.auto THEN {Threw(k, 1)}
              ELSE {[Done(CpuRun(c, [k EXCEPT !.on = FALSE], 1)) EXCEPT !.fault = 1]})

\* A few tokens while the GPU copy is authoritative stay on the GPU.
ShortLoop(c, k, n, all) == ~all /\ k.uploaded /\ n > 1 /\ n < LoopT /\ k.on

\* The ways n tokens can come back from forward(), the hybrid prefill apart:
\* emb is emb_collect_, all says that the caller asked for every row's logits.
Forward(c, k, n, emb, all) ==
    LET s == Switched(c, k, n)
    IN  IF n = 0 \/ n > Ctx - k.seen THEN {Threw(k, 0)}
        ELSE IF ~emb /\ n = 1 /\ s.on /\ s.seen > 0 /\ c.usable THEN OneOnGpu(c, s)
        ELSE IF ~emb /\ ShortLoop(c, s, n, all)
             THEN {Done(GpuRun(s, n))} \cup {Threw(GpuRun(s, i), 1) : i \in 0 .. n - 1}
        ELSE IF n = 1 THEN {Done(CpuRun(c, s, 1))}
        ELSE {Done(CpuRun(c, Download(s), n))}
                 \cup (IF ~s.uploaded THEN {}
                       ELSE {[Done(CpuRun(c, DownloadLost(s), n)) EXCEPT !.fault = 1, !.trust = FALSE]})

\* claim_gpu_for_chain, the side effect and the answer.
Claimed(c, k) == [k EXCEPT !.on = @ \/ c.auto]
MayChain(c, k) == (k.on \/ c.auto) /\ k.seen > 0 /\ c.usable

\* spec_ready: a draft needs a cache that can be moved back.
SpecReady(k) == ~k.uploaded
=============================================================================
