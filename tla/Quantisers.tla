------------------------------ MODULE Quantisers ------------------------------
(***************************************************************************)
(* The quantisers of quant.h and of the activations.  A weight is an        *)
(* integer of quarters of the smallest half, a scale an integer of smallest *)
(* halves, so that the rounding of a scale to a half is exact here; what a  *)
(* float keeps beyond a half is taken as exact.  For the activations the    *)
(* unit is the smallest float.                                              *)
(***************************************************************************)
EXTENDS QuantBlocks

CONSTANTS HalfMan,     \* 10: the bits of a half's mantissa
          NoReciprocal \* the least float scale whose reciprocal is finite

Fine == 4
Nearest(n, d) == LET q == n \div d  r == 2 * (n % d) IN IF r > d \/ (r = d /\ q % 2 = 1) THEN q + 1 ELSE q
Within(x, lo, hi) == IF x < lo THEN lo ELSE IF x > hi THEN hi ELSE x
Magnitude(x) == IF x < 0 THEN -x ELSE x
Largest(x) == FoldLeft(LAMBDA a, v : IF Magnitude(v) > a THEN Magnitude(v) ELSE a, 0, x)

\* fp32_to_fp16 of n / d, and back: an integer while the mantissa holds it, then
\* a multiple of the least power of two with which it does.
HalfStep(n, d) ==
    2 ^ (CHOOSE k \in 0 .. 15 : /\ Nearest(Magnitude(n), d * 2 ^ k) <= 2 ^ (HalfMan + 1)
                               /\ k > 0 => Nearest(Magnitude(n), d * 2 ^ (k - 1)) > 2 ^ (HalfMan + 1))
HalfOf(n, d) == LET step == HalfStep(n, d) IN step * Nearest(n, d * step)

\* One block each; d in halves, x in quarters of one.
QuantizeQ8(x) ==
    LET d == HalfOf(Largest(x), 127 * Fine)
    IN  [d |-> d, qs |-> Each(Len(x), LAMBDA i : IF d = 0 THEN 0 ELSE Nearest(Within(At(x, i), -127 * d * Fine, 127 * d * Fine), d * Fine))]

\* The value of largest magnitude, the first of several, becomes -8.
Extreme(x) == FoldLeft(LAMBDA a, v : IF Magnitude(v) > Magnitude(a) THEN v ELSE a, 0, x)
\* The quotient by a negative scale is that of the opposites.
Quotient(n, d) == IF d < 0 THEN Nearest(-n, -d) ELSE Nearest(n, d)
QuantizeQ4(x) ==
    LET d == HalfOf(-Extreme(x), 8 * Fine)
        code(v) == IF d = 0 THEN 8 ELSE Within(Quotient(v, d * Fine) + 8, 0, 15)
    IN  [d |-> d, qs |-> Each(Len(x) \div 2, LAMBDA j : (code(At(x, (2 * j) + 1)) * 16) + code(At(x, 2 * j)))]
QuantizeTernary(x) ==
    LET d == HalfOf(Largest(x), Fine)
        code(v) == IF d = 0 THEN 1 ELSE Within(Nearest(v, d * Fine) + 1, 0, 3)
    IN  [d |-> d, qs |-> Each(Len(x) \div 4, LAMBDA j :
               FoldLeft(LAMBDA a, k : a + (code(At(x, (4 * j) + k)) * 4 ^ k), 0, <<0, 1, 2, 3>>))]
QuantizeTq1(x) ==
    [d |-> HalfOf(FoldLeft(LAMBDA a, v : a + Magnitude(v), 0, x), Len(x) * Fine),
     qs |-> Each(Len(x) \div 8, LAMBDA j :
               FoldLeft(LAMBDA a, k : a + (IF At(x, (8 * j) + k) >= 0 THEN 2 ^ k ELSE 0), 0, <<0, 1, 2, 3, 4, 5, 6, 7>>))]

\* quant_x_into: the scale of a tiny block is rounded so that it covers the block.
ScaleX(amax) ==
    LET d == Nearest(amax, 127) IN IF amax > 0 /\ d < NoReciprocal /\ d * 127 < amax THEN d + 1 ELSE d
\* tq2_prepare128: one up, whether it has to be or not.
Scale128(amax) ==
    LET d == Nearest(amax, 127) IN IF amax > 0 /\ d < NoReciprocal THEN d + 1 ELSE d
Codes(x, amax, d) ==
    Each(Len(x), LAMBDA i : IF amax = 0 THEN 0
                            ELSE IF d >= NoReciprocal THEN Nearest(127 * At(x, i), amax) ELSE Nearest(At(x, i), d))
QuantX(x) == LET d == ScaleX(Largest(x)) IN [d |-> d, qs |-> Codes(x, Largest(x), d)]
Prepare128(x) ==
    LET d == Scale128(Largest(x))  q == Codes(x, Largest(x), d)
    IN  [d |-> d, qs |-> Permuted(q), sum |-> FoldLeft(LAMBDA a, v : a + v, 0, q), plain |-> q]

-----------------------------------------------------------------------------

\* A code's worth, in quarters.
Values(b, codes, zero) == Each(Len(codes), LAMBDA i : (At(codes, i) - zero) * b.d * Fine)
AtMost(x, y, limit) == \A i \in DOMAIN x : 2 * Magnitude(x[i] - y[i]) <= limit * Fine
Larger(a, b) == IF a > b THEN a ELSE b

\* Each value comes back within half a scale, or within what the rounding of a small
\* scale costs 127 of it; stored again as it came back a block is as it was, unless
\* its scale is so small.
Q8Exact(x) ==
    LET b == QuantizeQ8(x)  y == Values(b, b.qs, 0)
    IN  /\ AtMost(x, y, Larger(b.d, 127))
        /\ b.d >= 127 => QuantizeQ8(y) = b
\* The extreme comes back up to the rounding of the scale; of the others those on
\* its side within half a scale, the opposite one within a whole.
Q4Exact(x) ==
    LET b == QuantizeQ4(x)  y == Values(b, CodesPaired(b.qs), 8)  slack == 8 * HalfStep(-Extreme(x), 8 * Fine)
        extreme == Extreme(x)
        top == CHOOSE i \in DOMAIN x : x[i] = extreme
    IN  Extreme(x) # 0 =>
            /\ 2 * Magnitude(x[top] - y[top]) <= slack * Fine
            /\ AtMost(x, y, (2 * Magnitude(b.d)) + slack)
            /\ \A i \in DOMAIN x : (x[i] < 0) # (b.d < 0) => 2 * Magnitude(x[i] - y[i]) <= (Magnitude(b.d) + slack) * Fine
\* No value takes the fourth code.
TernaryExact(x) ==
    LET b == QuantizeTernary(x)  codes == Codes2(b.qs)
    IN  (\A i \in DOMAIN codes : codes[i] # 3) /\ AtMost(x, Values(b, codes, 1), Larger(b.d, 1))
Tq1Exact(x) ==
    LET b == QuantizeTq1(x)  codes == Codes1(b.qs)
        mean == FoldLeft(LAMBDA a, v : a + Magnitude(v), 0, x)
    IN  /\ \A i \in DOMAIN x : (codes[i] = 1) <=> (x[i] >= 0)
        /\ 2 * Magnitude((b.d * Fine * Len(x)) - mean) <= HalfStep(mean, Len(x) * Fine) * Fine * Len(x)

\* An activation's integers fit their eight bits and are within half a scale of it,
\* however small the block; the kernels' order holds the same integers.
ActivationExact(x) ==
    LET a == Largest(x)
        near(q, d) == \A i \in DOMAIN x :
                        /\ q[i] \in -127 .. 127
                        /\ a > 0 => IF d >= NoReciprocal THEN 2 * Magnitude((127 * x[i]) - (q[i] * a)) <= a
                                    ELSE 2 * Magnitude(x[i] - (q[i] * d)) <= d
        block == QuantX(x)
        wide  == Prepare128(x)
    IN  /\ near(block.qs, block.d)
        /\ near(wide.plain, wide.d)
        /\ FoldLeft(LAMBDA s, v : s + v, 0, wide.qs) = wide.sum
StoredExact(x) == Q8Exact(x) /\ Q4Exact(x) /\ TernaryExact(x) /\ Tq1Exact(x)
=============================================================================
