-------------------------------- MODULE QuantBlocks --------------------------------
(***************************************************************************)
(* The block formats of quant.h and the kernels of llama.h that read them.  *)
(* A block is a record of its scales and of its bytes; what it holds is     *)
(* what quant.h's dequantize gives.  Every kernel takes a row of blocks and *)
(* the activations apart in its own way, a vector of Lanes bytes at a time, *)
(* and must sum the same products.  Integers of the codes are exact, scales *)
(* and sums are numbers of Matrices.                                        *)
(***************************************************************************)
EXTENDS Matrices, SequencesExt, FiniteSets

CONSTANT Lanes         \* 16: the bytes of a vector; a multiple of 4

Blk  == 2 * Lanes      \* kBlock
TBlk == 8 * Lanes      \* kBlockTq2_34x128
KBlk == 16 * Lanes     \* kKBlock

Bits(byte, at, n) == (byte \div 2 ^ at) % 2 ^ n
Low(byte) == Bits(byte, 0, 4)
High(byte) == Bits(byte, 4, 4)
At(s, i) == s[i + 1]                                   \* counted from 0
Load(s, at) == SubSeq(s, at + 1, at + Lanes)
Each(n, f(_)) == Evaluated([i \in 1 .. n |-> f(i - 1)])
Sums(n, f(_)) == Total(Each(n, f))

-----------------------------------------------------------------------------
(* quant.h: the codes of a block and what they are worth.                      *)

CodesSplit(qs) == Each(2 * Len(qs), LAMBDA i : IF i < Len(qs) THEN Low(At(qs, i)) ELSE High(At(qs, i - Len(qs))))
CodesPaired(qs) == Each(2 * Len(qs), LAMBDA i : Bits(At(qs, i \div 2), 4 * (i % 2), 4))
Codes2(qs) == Each(4 * Len(qs), LAMBDA i : Bits(At(qs, i \div 4), 2 * (i % 4), 2))
Codes1(qs) == Each(8 * Len(qs), LAMBDA i : Bits(At(qs, i \div 8), i % 8, 1))
\* i is in step g of two vectors by two, in its first or second half.
Codes5(qs, qh) ==
    Each(KBlk, LAMBDA i :
        LET g == i \div (4 * Lanes)  second == (i \div Blk) % 2  l == i % Blk
        IN  Bits(At(qs, (g * Blk) + l), 4 * second, 4) + (16 * Bits(At(qh, l), (2 * g) + second, 1)))
Codes6(ql, qh) ==
    Each(KBlk, LAMBDA i :
        LET half == i \div TBlk  j == (i \div Blk) % 4  l == i % Blk
        IN  Bits(At(ql, (half * 4 * Lanes) + (Blk * (j % 2)) + l), 4 * (j \div 2), 4)
              + (16 * Bits(At(qh, (half * Blk) + l), 2 * j, 2)))
KScaleMin(j, q) ==
    IF j < 4 THEN [d |-> At(q, j) % 64, m |-> At(q, j + 4) % 64]
    ELSE [d |-> Low(At(q, j + 4)) + (16 * Bits(At(q, j - 4), 6, 2)),
          m |-> High(At(q, j + 4)) + (16 * Bits(At(q, j), 6, 2))]

Dequantize(t, b) ==
    LET codes == CASE t = "q8" -> b.qs [] t = "q4" -> CodesPaired(b.qs) [] t = "q41" -> CodesSplit(b.qs)
                   [] t = "q5k" -> Codes5(b.qs, b.qh) [] t = "q6k" -> Codes6(b.ql, b.qh)
                   [] t = "tq2" -> Codes2(b.qs) [] t = "tq1" -> Codes1(b.qs)
        value(i) ==
          LET c == At(codes, i)
          IN  CASE t = "q8"  -> c * b.d
                [] t = "q4"  -> (c - 8) * b.d
                [] t = "q41" -> (c * b.d) + b.m
                [] t = "q5k" -> LET s == KScaleMin(i \div Blk, b.scales) IN (b.d * s.d * c) - (b.dmin * s.m)
                [] t = "q6k" -> LET half == i \div TBlk  j == (i \div Blk) % 4  l == i % Blk
                                IN  b.d * At(b.scales, (8 * half) + (l \div Lanes) + (2 * j)) * (c - 32)
                [] t = "tq2" -> (c - 1) * b.d
                [] t = "tq1" -> IF c = 1 THEN b.d ELSE -b.d
    IN  Each(Len(codes), LAMBDA i : value(i) % Prime)
DequantRow(t, row) == FlattenSeq([i \in DOMAIN row |-> Dequantize(t, row[i])])

-----------------------------------------------------------------------------
(* Activations: [q, d, s], the integers in order, those of each block with the *)
(* even ones first, and a scale per block.  Floats are their products.         *)

EvensFirst(q) == Each(Len(q), LAMBDA i : LET r == i % Blk
                                         IN  At(q, (i - r) + (IF r < Lanes THEN 2 * r ELSE (2 * (r - Lanes)) + 1)))
Activation(q, s) == [q |-> q, d |-> EvensFirst(q), s |-> s]
Floats(x) == Each(Len(x.q), LAMBDA i : (At(x.q, i) * At(x.s, i \div Blk)) % Prime)

Woven(a, b) == FlattenSeq(Zip(a, b))
WovenPairs(a, b) == FlattenSeq([i \in 1 .. Len(a) \div 2 |->
                    <<a[(2 * i) - 1], a[2 * i], b[(2 * i) - 1], b[2 * i]>>])
Lowest(v) == Each(Len(v), LAMBDA i : Low(At(v, i)))
Highest(v) == Each(Len(v), LAMBDA i : High(At(v, i)))
Less(v, n) == Each(Len(v), LAMBDA i : At(v, i) - n)
Plane(v, p) == Each(Len(v), LAMBDA i : Bits(At(v, i), 2 * p, 2))

\* dequant_block and dequant_rows.
DequantBlock(q4, b) == IF q4 THEN Woven(Less(Lowest(b.qs), 8), Less(Highest(b.qs), 8)) ELSE b.qs
DequantRows(q4, row) ==
    FlattenSeq([i \in DOMAIN row |-> LET v == DequantBlock(q4, row[i]) IN Each(Blk, LAMBDA j : (At(v, j) * row[i].d) % Prime)])

\* qgemv_rows on floats: four blocks at a time into four sums, the rest into the first.
QGemv(q4, row, f) ==
    LET part(b) == (row[b + 1].d * Dot(DequantBlock(q4, row[b + 1]), SubSeq(f, (b * Blk) + 1, (b + 1) * Blk))) % Prime
        whole   == (Len(row) \div 4) * 4
    IN  Total([u \in 1 .. 4 |-> Sums(whole \div 4, LAMBDA n : part((4 * n) + u - 1))]
                \o [b \in 1 .. Len(row) - whole |-> part(whole + b - 1)])

\* qgemv_sdot_rows on rows [first, last): four rows at a time share the zero point.
QGemvSdot(q4, W, x, first, last) ==
    LET at(b) == b * Blk
        xe(b) == Load(x.d, at(b))
        xo(b) == Load(x.d, at(b) + Lanes)
        shared(b) == -8 * (Total(xe(b)) + Total(xo(b)))
        nibbles(b, v, less) == Dot(Less(Lowest(v), less), xe(b)) + Dot(Less(Highest(v), less), xo(b))
        sum(row, b, quad) ==
          LET v == row[b + 1].qs
          IN  IF ~q4 THEN Dot(Load(v, 0), Load(x.q, at(b))) + Dot(Load(v, Lanes), Load(x.q, at(b) + Lanes))
              ELSE IF quad THEN shared(b) + nibbles(b, v, 0) ELSE nibbles(b, v, 8)
        value(o) ==
          LET quad == o < first + (((last - first) \div 4) * 4)
              row  == W[o + 1]
          IN  Sums(Len(row), LAMBDA b : (row[b + 1].d * At(x.s, b) * (sum(row, b, quad) % Prime)))
    IN  [o \in first + 1 .. last |-> value(o - 1)]

-----------------------------------------------------------------------------
(* The K-quants.  x is as above, at the first element of the block, sb the     *)
(* block's first activation scale.                                            *)

Unpack16(J, ql, qh, at, hat) ==        \* ql from at, qh from hat
    LET raw == Load(ql, at + (Blk * (J % 2)))
        nib == IF J < 2 THEN Lowest(raw) ELSE Highest(raw)
        hi  == Plane(Load(qh, hat), J)
    IN  Each(Lanes, LAMBDA i : At(nib, i) + (16 * At(hi, i)) - 32)
\* MUTATED: the high bits are the first half's for both.
Segment6_FirstHalf(b, half, n) ==
    Unpack16(n % 4, b.ql, b.qh, (half * 4 * Lanes) + (Lanes * (n \div 4)), Lanes * (n \div 4))
\* Segment n of a half: quarter n % 4, the first or second vector of it.
Segment6(b, half, n) ==
    Unpack16(n % 4, b.ql, b.qh, (half * 4 * Lanes) + (Lanes * (n \div 4)), (half * Blk) + (Lanes * (n \div 4)))
BlockQ6K(b, x, at) ==
    LET factor == Each(16, LAMBDA is : (b.d * At(b.scales, is) * At(x.s, (at \div Blk) + (is \div 2))) % Prime)
        term(half, n) == At(factor, (8 * half) + (2 * (n % 4)) + (n \div 4))
                           * Dot(Segment6(b, half, n), Load(x.q, at + (half * TBlk) + (Blk * (n % 4)) + (Lanes * (n \div 4))))
    IN  Sums(16, LAMBDA n : term(n \div 8, n % 8))
\* kq6k_multi_rows: the segments once, for all the activations.
MultiQ6K(row, xs) ==
    LET part(b, half) ==
          LET Q  == Each(8, LAMBDA n : Segment6(b.block, half, n))
              at == b.at + (half * TBlk)
              f(x, s, l) == b.block.d * At(b.block.scales, (8 * half) + (2 * s) + l) * At(x.s, (at \div Blk) + s)
          IN  [t \in DOMAIN xs |->
                 Sums(4, LAMBDA s : (f(xs[t], s, 0) % Prime) * Dot(At(Q, s), Load(xs[t].q, at + (Blk * s))))
                   + Sums(4, LAMBDA s : (f(xs[t], s, 1) % Prime) * Dot(At(Q, 4 + s), Load(xs[t].q, at + (Blk * s) + Lanes)))]
        parts == FlattenSeq([i \in DOMAIN row |->
                   [h \in 1 .. 2 |-> part([block |-> row[i], at |-> (i - 1) * KBlk], h - 1)]])
    IN  [t \in DOMAIN xs |-> Total([n \in DOMAIN parts |-> parts[n][t]])]
DequantQ6KNeon(b) ==
    Each(KBlk, LAMBDA i :
        LET half == i \div TBlk  j == (i \div Blk) % 4  is == (i \div Lanes) % 2
        IN  (b.d * At(b.scales, (8 * half) + is + (2 * j)) * At(Segment6(b, half, j + (4 * is)), i % Lanes)) % Prime)

BlockQ41(b, x, at) ==
    LET dot == Dot(Lowest(b.qs), Load(x.q, at)) + Dot(Highest(b.qs), Load(x.q, at + Lanes))
        sum == Total(Load(x.q, at)) + Total(Load(x.q, at + Lanes))
    IN  At(x.s, at \div Blk) * (((b.d * dot) + (b.m * sum)) % Prime)

\* kq5k_group32: bit SH of qh, the nibbles of group SH \div 2.
BlockQ5K(b, x, at) ==
    LET code(SH, v) ==
          LET raw == Load(b.qs, (Blk * (SH \div 2)) + (Lanes * v))
              nib == IF SH % 2 = 1 THEN Highest(raw) ELSE Lowest(raw)
          IN  Each(Lanes, LAMBDA i : At(nib, i) + (16 * Bits(At(b.qh, (Lanes * v) + i), SH, 1)))
        group(SH) ==
          LET s   == KScaleMin(SH, b.scales)
              xat == at + (Blk * SH)
              dot == Dot(code(SH, 0), Load(x.q, xat)) + Dot(code(SH, 1), Load(x.q, xat + Lanes))
              sum == Total(Load(x.q, xat)) + Total(Load(x.q, xat + Lanes))
          IN  At(x.s, (at \div Blk) + SH) * (((b.d * s.d * dot) - (b.dmin * s.m * sum)) % Prime)
    IN  Sums(8, group)

-----------------------------------------------------------------------------
(* The ternary format.                                                        *)

Unpack64(v) == WovenPairs(Woven(Plane(v, 0), Plane(v, 1)), Woven(Plane(v, 2), Plane(v, 3)))
BlockTq2(b, x, at) ==
    LET codes(h) == Less(Unpack64(Load(b.qs, Lanes * h)), 1)
        term(h, p) == b.d * At(x.s, (at \div Blk) + (2 * h) + (p \div 2))
                        * Dot(Load(codes(h), Lanes * p), Load(x.q, at + (4 * Lanes * h) + (Lanes * p)))
    IN  Sums(8, LAMBDA n : term(n \div 4, n % 4))

\* The activations in the order the planes of the bytes have the codes in.
Permuted(q) == Each(Len(q), LAMBDA i : LET r == i % (4 * Lanes) IN At(q, (i - r) + (4 * (r % Lanes)) + (r \div Lanes)))
\* vdotq_s32: four sums of neighbours.
VDot(a, b) == [j \in 1 .. 4 |-> LET w == Lanes \div 4
                                IN  Dot(SubSeq(a, ((j - 1) * w) + 1, j * w), SubSeq(b, ((j - 1) * w) + 1, j * w))]
BlockTq2p(b, x, at) ==
    LET pq == Permuted(SubSeq(x.q, at + 1, at + TBlk))
        scales(h) == LET s == (at \div Blk) + (2 * h) IN <<At(x.s, s), At(x.s, s), At(x.s, s + 1), At(x.s, s + 1)>>
        dots(h, p) == VDot(Less(Plane(Load(b.qs, Lanes * h), p), 1), Load(pq, (4 * Lanes * h) + (Lanes * p)))
        chunk(h) == LET s == scales(h) IN Total([j \in 1 .. 4 |-> s[j] * Sums(4, LAMBDA p : dots(h, p)[j])])
    IN  b.d * Sums(2, chunk)
\* One activation scale for the block and the sum of its integers: the codes are
\* dotted as they are and the sum taken off once.
BlockTq2b(b, x, at) ==
    LET pq == Permuted(SubSeq(x.q, at + 1, at + TBlk))
        dxs == b.d * At(x.s, at \div Blk)
        lanes == [j \in 1 .. 4 |-> Sums(8, LAMBDA n :
                    VDot(Plane(Load(b.qs, Lanes * (n \div 4)), n % 4), Load(pq, Lanes * n))[j])]
    IN  (dxs * Total(lanes)) - (dxs * Total(SubSeq(x.q, at + 1, at + TBlk)))

-----------------------------------------------------------------------------
(* gemv_w: the kernel of a tensor's dtype, under the switches.                 *)

ElemsOf(t) == CASE t \in {"q8", "q4", "q41"} -> Blk [] t \in {"q5k", "q6k"} -> KBlk [] OTHER -> TBlk
KqBlock(t, mode, b, x, at) ==
    CASE t = "q41" -> BlockQ41(b, x, at) [] t = "q5k" -> BlockQ5K(b, x, at) [] t = "q6k" -> BlockQ6K(b, x, at)
      [] t = "tq2" -> CASE mode = "block" -> BlockTq2b(b, x, at) [] mode = "per32" -> BlockTq2p(b, x, at)
                        [] OTHER -> BlockTq2(b, x, at)
\* Rows [first, last) of y = W x.
GemvW(t, sdot, mode, W, x, first, last) ==
    IF t \in {"q8", "q4"}
    THEN IF sdot THEN QGemvSdot(t = "q4", W, x, first, last)
         ELSE [o \in first + 1 .. last |-> QGemv(t = "q4", W[o], Floats(x))]
    ELSE IF sdot
         THEN [o \in first + 1 .. last |-> Sums(Len(W[o]), LAMBDA b : KqBlock(t, mode, W[o][b + 1], x, b * ElemsOf(t)))]
         ELSE [o \in first + 1 .. last |-> Dot(DequantRow(t, W[o]), Floats(x))]

\* dequant_row_kq of a row, dequant_rows of the blocks of 32.
DequantAny(t, row) ==
    CASE t \in {"q8", "q4"} -> DequantRows(t = "q4", row)
      [] t = "q6k" -> FlattenSeq([i \in DOMAIN row |-> DequantQ6KNeon(row[i])])
      [] OTHER -> DequantRow(t, row)
\* gemm_w: rows of activations against the tensor taken apart once.  <<>> when the
\* caller has to take the rows one by one.
GemmW(t, amx, least, W, fs) ==
    IF ~amx \/ (t \notin {"q8", "q4"} /\ Len(fs) < least) THEN <<>>
    ELSE LET deq == [o \in DOMAIN W |-> DequantAny(t, W[o])]
         IN  [m \in DOMAIN fs |-> [o \in DOMAIN W |-> Dot(fs[m], deq[o])]]

\* The ternary dots of quant.h count codes: bit 0 and twice bit 1, less the sum.
DotTernary(b, f) ==
    LET c == Codes2(b.qs)
        marked(at) == Sums(Len(c), LAMBDA i : Bits(At(c, i), at, 1) * At(f, i))
    IN  (b.d * ((marked(0) + (2 * marked(1))) - Total(f))) % Prime
DotTq1(b, f) ==
    LET c == Codes1(b.qs) IN (b.d * ((2 * Sums(Len(c), LAMBDA i : At(c, i) * At(f, i))) - Total(f))) % Prime

-----------------------------------------------------------------------------
(* What they must give.                                                       *)

Wanted(t, W, x) == [o \in DOMAIN W |-> Dot(DequantRow(t, W[o]), Floats(x))]

RowsExact(t, mode, W, x) ==
    LET y == Wanted(t, W, x)
    IN  \A sdot \in BOOLEAN : \A lo \in 0 .. Len(W) : \A hi \in lo .. Len(W) :
            \A o \in lo + 1 .. hi : GemvW(t, sdot, mode, W, x, lo, hi)[o] = y[o]
UnpackedExact(t, W, xs) ==
    /\ \A o \in DOMAIN W : DequantAny(t, W[o]) = DequantRow(t, W[o])
    /\ GemmW(t, TRUE, 2, W, [m \in DOMAIN xs |-> Floats(xs[m])])
         \in {<<>>, [m \in DOMAIN xs |-> Wanted(t, W, xs[m])]}
    /\ t = "q6k" => \A o \in DOMAIN W : MultiQ6K(W[o], xs) = [m \in DOMAIN xs |-> Wanted(t, W, xs[m])[o]]
    /\ t = "tq2" => \A o \in DOMAIN W, m \in DOMAIN xs : \A i \in DOMAIN W[o] :
                      LET f == SubSeq(Floats(xs[m]), ((i - 1) * TBlk) + 1, i * TBlk)
                      IN  DotTernary(W[o][i], f) = Dot(Dequantize(t, W[o][i]), f)
    /\ t = "tq1" => \A o \in DOMAIN W, m \in DOMAIN xs : \A i \in DOMAIN W[o] :
                      LET f == SubSeq(Floats(xs[m]), ((i - 1) * TBlk) + 1, i * TBlk)
                      IN  DotTq1(W[o][i], f) = Dot(Dequantize(t, W[o][i]), f)

\* Each bit of the bytes of a block is in one element's code, and no two bits of
\* one element weigh the same.
BitsPlaced(t, blank, fields) ==
    LET zero  == Dequantize(t, blank)
        bit(f, k, at) == Dequantize(t, [blank EXCEPT ![f][k] = 2 ^ at])
        moved(v) == {<<i, (v[i] - zero[i]) % Prime>> : i \in {j \in DOMAIN zero : v[j] # zero[j]}}
        spots == UNION {{<<f, k, at>> : k \in DOMAIN blank[f], at \in 0 .. 7} : f \in fields}
        all   == {moved(bit(s[1], s[2], s[3])) : s \in spots}
    IN  /\ \A m \in all : \E one \in m : m = {one}
        /\ Cardinality(all) = Cardinality(spots)
\* The twelve bytes of scales hold eight scales and eight minima, of six bits each.
ScalesPlaced ==
    LET none == [k \in 1 .. 12 |-> 0]
        all  == {[j \in 0 .. 7 |-> KScaleMin(j, [none EXCEPT ![k] = 2 ^ at])] : k \in 1 .. 12, at \in 0 .. 7}
        zero == [d |-> 0, m |-> 0]
    IN  /\ Cardinality(all) = 96
        /\ \A s \in all : /\ Cardinality({j \in 0 .. 7 : s[j] # zero}) = 1
                          /\ \A j \in 0 .. 7 : (s[j].d = 0 \/ s[j].m = 0) /\ s[j].d < 64 /\ s[j].m < 64
=============================================================================
