------------------------------- MODULE DemandWindow -------------------------------
(***************************************************************************)
(* Weights mapped on demand (TM_DEMAND): llama.h keeps a pointer for each    *)
(* tensor, null from load until demand_layer maps the layer about to run,    *)
(* and drops the layer a window behind it; tmq.h maps and unmaps segments.   *)
(* A pointer is good while its segment has the mapping it came from.         *)
(***************************************************************************)
EXTENDS Integers, SequencesExt

AttnTensors == <<"q_proj", "k_proj", "v_proj", "o_proj">>
MlpTensors  == <<"gate_proj", "up_proj", "down_proj">>

\* What a layer's block reads, and what demand_layer goes through for it, in order.
Reads(linear) ==
    (IF linear THEN <<"qkv_proj", "z_proj", "beta", "alpha", "conv1d", "out_proj">> ELSE AttnTensors) \o MlpTensors
Listed(linear) ==
    (IF linear THEN <<"qkv_proj", "z_proj", "out_proj", "alpha">> ELSE AttnTensors) \o MlpTensors

\* d: [linear, dtype], by layer: its kind and the dtype of its tensors.  mapped: the
\* tensors whose segment is mapped; current: those whose pointer is of that mapping,
\* every other pointer being null or dangling.
Loaded == [mapped |-> {}, current |-> {}]

Data(s, t) == IF t \in s.mapped THEN s ELSE [mapped |-> s.mapped \cup {t}, current |-> s.current \ {t}]
Fault(d, s, t) ==
    LET now == Data(s, t)
    IN  IF d.dtype[t[1]] \in {"q8", "q4", "f16"} THEN [now EXCEPT !.current = @ \cup {t}] ELSE now
Evict(s, t) == [mapped |-> s.mapped \ {t}, current |-> s.current \ {t}]

DemandLayer(d, window, s, l) ==
    LET of(k)   == [i \in DOMAIN Listed(d.linear[k]) |-> <<k, Listed(d.linear[k])[i]>>]
        faulted == FoldLeft(LAMBDA st, t : Fault(d, st, t), s, of(l))
    IN  IF l - window >= 1 THEN FoldLeft(Evict, faulted, of(l - window)) ELSE faulted

Ready(d, s, l) == \A n \in ToSet(Reads(d.linear[l])) : <<l, n>> \in s.current
ResidentLayers(s) == {t[1] : t \in s.mapped}

\* Some passes over the layers: at its turn each layer has its tensors, and no more
\* than two windows and itself are mapped.
PassesReady(d, window, passes) ==
    LET layers == Len(d.linear)
        pass(st, l) ==
          IF ~st.ok THEN st
          ELSE LET s == DemandLayer(d, window, st.s, l)
               IN  [s |-> s, ok |-> Ready(d, s, l) /\ Cardinality(ResidentLayers(s)) <= (2 * window) + 1]
    IN  FoldLeft(pass, [s |-> Loaded, ok |-> TRUE],
                 [i \in 1 .. passes * layers |-> ((i - 1) % layers) + 1]).ok
=============================================================================
