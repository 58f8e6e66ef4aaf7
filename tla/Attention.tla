-------------------------------- MODULE Attention --------------------------------
(***************************************************************************)
(* attention.h's fused causal attention: tiles of rows of scores, each only *)
(* as wide as its last row can see, in a buffer nobody cleared; and its     *)
(* backward pass from the probabilities kept, each chunk of heads through   *)
(* one panel it uses again and again.  DenseHead is the same attention      *)
(* written out over the whole triangle.                                     *)
(***************************************************************************)
EXTENDS Autograd, Chunks

CONSTANT Stale        \* what a buffer holds that was not cleared

ScaleQK == 4          \* 1 / sqrt(dh)

Tiles(T, tile) == [t \in 1 .. CeilDiv(T, tile) |-> ParChunks(T, tile)[t - 1]]

\* softmax_causal_tile: columns [0, i] live, the others below cols cleared, the rest left.
Causal(S, i, cols) ==
    SoftmaxRow(SubSeq(S, 1, i + 1)) \o [j \in 1 .. cols - (i + 1) |-> 0] \o SubSeq(S, cols + 1, Len(S))
CausalBwd(dP, P, i, cols) ==
    LET dot == Dot(SubSeq(dP, 1, i + 1), SubSeq(P, 1, i + 1))
    IN  Evaluated([j \in DOMAIN dP |->
          IF j <= i + 1 THEN ((dP[j] - dot) * P[j]) % Prime ELSE IF j <= cols THEN 0 ELSE dP[j]])

\* The tile's rows of the product, in columns [0, cols) of the buffer.
Written(buffer, product, cols) ==
    [r \in DOMAIN product |-> product[r] \o SubSeq(buffer[r], cols + 1, Len(buffer[r]))]

ForwardTile(q, k, v, h, t) ==      \* h: [P, out]
    LET i0 == t.lo
        cols == t.hi
        scores == Scaled(MatMul(Rows(q, i0, cols), Flipped(Rows(k, 0, cols))), ScaleQK)
        S == Written(Rows(h.P, i0, cols), scores, cols)
        soft == Evaluated([r \in DOMAIN S |-> Causal(S[r], i0 + r - 1, cols)])
        live == [r \in DOMAIN soft |-> SubSeq(soft[r], 1, cols)]
    IN  [P |-> Rows(h.P, 0, i0) \o soft \o Rows(h.P, cols, Len(h.P)),
         out |-> Rows(h.out, 0, i0) \o MatMul(live, Rows(v, 0, cols)) \o Rows(h.out, cols, Len(h.out))]
ForwardHead(q, k, v, tile) ==
    LET T == RowCount(q)
    IN  FoldLeft(LAMBDA h, t : ForwardTile(q, k, v, h, t),
                 [P |-> Build(T, T, LAMBDA i, j : Stale), out |-> Build(T, ColCount(q), LAMBDA i, j : Stale)],
                 Tiles(T, tile))

Added(x, lo, d) == [i \in DOMAIN x |-> IF i - lo \in DOMAIN d THEN Plus(<<x[i]>>, <<d[i - lo]>>)[1] ELSE x[i]]
BackwardTile(q, k, v, g, P, b, t) ==     \* b: [panel, dq, dk, dv]
    LET i0 == t.lo
        cols == t.hi
        go == Rows(g, i0, cols)
        Pt == [r \in 1 .. cols - i0 |-> SubSeq(P[i0 + r], 1, cols)]
        dP == Written(b.panel, MatMul(go, Flipped(Rows(v, 0, cols))), cols)
        dS == Evaluated([r \in DOMAIN dP |-> CausalBwd(dP[r], P[i0 + r], i0 + r - 1, cols)])
        live == [r \in DOMAIN dS |-> SubSeq(dS[r], 1, cols)]
    IN  [panel |-> dS \o SubSeq(b.panel, Len(dS) + 1, Len(b.panel)),
         dv |-> Added(b.dv, 0, MatMul(Flipped(Pt), go)),
         dq |-> Added(b.dq, i0, Scaled(MatMul(live, Rows(k, 0, cols)), ScaleQK)),
         dk |-> Added(b.dk, 0, Scaled(MatMul(Flipped(live), Rows(q, i0, cols)), ScaleQK))]

\* x: [q, k, v] and d: [B, T, H, dh].
ForwardAll(x, d, tile) ==
    [s \in 0 .. (d.B * d.H) - 1 |-> ForwardHead(HeadOf(x.q, d, s), HeadOf(x.k, d, s), HeadOf(x.v, d, s), tile)]
MhaCausal(x, d, tile) ==
    FoldLeft(LAMBDA o, s : WithHead(o, d, s - 1, ForwardAll(x, d, tile)[s - 1].out), Fill(x.q, Stale),
             [s \in 1 .. d.B * d.H |-> s])

\* The chunks one after the other: the heads of one share its panel.
MhaBackward(x, d, tile, g, threads, grads) ==
    LET heads == ForwardAll(x, d, tile)
        chunks == ParChunks(d.B * d.H, PerThread(d.B * d.H, threads))
        head(st, s) ==
            LET q == HeadOf(x.q, d, s)
                b == FoldLeft(LAMBDA a, t : BackwardTile(q, HeadOf(x.k, d, s), HeadOf(x.v, d, s), HeadOf(g, d, s), heads[s].P, a, t),
                              [panel |-> st.panel, dq |-> HeadOf(st.dq, d, s), dk |-> HeadOf(st.dk, d, s), dv |-> HeadOf(st.dv, d, s)],
                              Tiles(d.T, tile))
            IN  [panel |-> b.panel, dq |-> WithHead(st.dq, d, s, b.dq),
                 dk |-> WithHead(st.dk, d, s, b.dk), dv |-> WithHead(st.dv, d, s, b.dv)]
        chunk(st, c) ==
            FoldLeft(head, [st EXCEPT !.panel = Build(tile, d.T, LAMBDA i, j : Stale)],
                     [i \in 1 .. c.hi - c.lo |-> c.lo + i - 1])
    IN  FoldLeft(chunk, [panel |-> <<>>, dq |-> grads, dk |-> grads, dv |-> grads],
                 [i \in 1 .. Cardinality(DOMAIN chunks) |-> chunks[i - 1]])

-----------------------------------------------------------------------------

DenseRow(q, k, v, i) ==
    LET p == SoftmaxRow([j \in 1 .. i |-> (ScaleQK * Dot(q[i], k[j])) % Prime])
    IN  [c \in DOMAIN v[1] |-> Dot(p, SubSeq(Column(v, c), 1, i))]
DenseHead(q, k, v) == [i \in DOMAIN q |-> DenseRow(q, k, v, i)]

\* How row i of a head changes with q, k and v.
DenseRowTangent(q, k, v, dq, dk, dv, i) ==
    LET scores == Evaluated([j \in 1 .. i |-> (ScaleQK * Dot(q[i], k[j])) % Prime])
        change == Evaluated([j \in 1 .. i |-> (ScaleQK * (Dot(dq[i], k[j]) + Dot(q[i], dk[j]))) % Prime])
        p == SoftmaxRow(scores)
        dp == SoftmaxTangent(scores, change)
    IN  [c \in DOMAIN v[1] |->
          (Dot(dp, SubSeq(Column(v, c), 1, i)) + Dot(p, SubSeq(Column(dv, c), 1, i))) % Prime]

\* The change of sum(g * out) for each element of the operand `of`.
DenseGradient(x, d, g, of) ==
    LET zero == Fill(x.q, 0)
        along(e) ==
          Total([s \in 1 .. d.B * d.H |->
            LET h(m) == HeadOf(m, d, s - 1)
                dx(name) == IF name = of THEN h(e) ELSE h(zero)
            IN  Total([i \in 1 .. d.T |->
                  Dot(h(g)[i], DenseRowTangent(h(x.q), h(x.k), h(x.v), dx("q"), dx("k"), dx("v"), i))])])
    IN  Shaped(RowCount(x.q), ColCount(x.q), Evaluated([n \in 1 .. Numel(x.q) |-> along(Unit(x.q, n))]))

AttentionExact(x, d, tile, g, threads) ==
    LET out == MhaCausal(x, d, tile)
        prior == Fill(x.q, 3)
        back == MhaBackward(x, d, tile, g, threads, prior)
    IN  /\ \A s \in 0 .. (d.B * d.H) - 1 :
             HeadOf(out, d, s) = DenseHead(HeadOf(x.q, d, s), HeadOf(x.k, d, s), HeadOf(x.v, d, s))
        /\ back.dq = Plus(prior, DenseGradient(x, d, g, "q"))
        /\ back.dk = Plus(prior, DenseGradient(x, d, g, "k"))
        /\ back.dv = Plus(prior, DenseGradient(x, d, g, "v"))
=============================================================================
