---------------------------------- MODULE Chunks ----------------------------------
(* How train_engine.h divides n units of work among its tasks, as [lo, hi).      *)
EXTENDS Integers

AtLeast1(n) == IF n > 1 THEN n ELSE 1
CeilDiv(a, b) == (a + b - 1) \div b

\* Part b of n units over `parts` tasks; b counts from 0.
Share(n, parts, b) == [lo |-> (n * b) \div parts, hi |-> (n * (b + 1)) \div parts]

\* The tasks of traink::par_chunks.
ParChunks(n, chunk) ==
    [b \in 0 .. (IF n <= chunk THEN 1 ELSE CeilDiv(n, chunk)) - 1 |->
        IF n <= chunk THEN [lo |-> 0, hi |-> n]
        ELSE [lo |-> b * chunk, hi |-> IF (b + 1) * chunk < n THEN (b + 1) * chunk ELSE n]]

\* One chunk per thread, each with a partial result in the slot of its first unit.
PerThread(n, threads) == AtLeast1(CeilDiv(n, threads))
SlotOf(chunk, size) == chunk.lo \div size
SlotsExact(n, threads, slots) ==
    LET size == PerThread(n, threads)
        parts == ParChunks(n, size)
    IN  /\ \A b \in DOMAIN parts : SlotOf(parts[b], size) \in 0 .. slots - 1
        /\ \A a, b \in DOMAIN parts : a # b => SlotOf(parts[a], size) # SlotOf(parts[b], size)
        /\ \A i \in 0 .. n - 1 : \E b \in DOMAIN parts : i \in parts[b].lo .. parts[b].hi - 1
=============================================================================
