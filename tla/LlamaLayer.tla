-------------------------------- MODULE LlamaLayer --------------------------------
(***************************************************************************)
(* A layer of llama.h on the CPU, over the numbers of Matrices.  Block is   *)
(* full attention: the projections, the output gate split off the queries   *)
(* in place, the rotation by absolute position, the rows put into the cache *)
(* of their key-value head, and attention by whichever of the five paths    *)
(* the length of the call and the switches select.  BlockLinear is the      *)
(* gated delta rule, with its state kept between calls.  The references     *)
(* take a sequence one token and one head at a time and keep no cache.      *)
(***************************************************************************)
EXTENDS DeltaRule

CONSTANTS Stale,       \* what a buffer or a cache row holds that was not written
          MinBlocked   \* 8: the shortest call that attends in blocks

AttnScale == 3         \* 1 / sqrt(dh)
Lesser(a, b) == IF a < b THEN a ELSE b
Greater(a, b) == IF a > b THEN a ELSE b
Mod(s) == Evaluated([i \in DOMAIN s |-> s[i] % Prime])
Span(row, first, n) == SubSeq(row, first + 1, first + n)     \* n from first, counted from 0
HeadAt(row, dh, n) == Span(row, n * dh, dh)
EachHead(row, heads, dh, f(_)) ==      \* f on the first heads of a row, the rest of it as it was
    FlattenSeq([n \in 1 .. heads |-> f(HeadAt(row, dh, n - 1))]) \o SubSeq(row, (heads * dh) + 1, Len(row))

-----------------------------------------------------------------------------
(* y = W x for each row x of a call, W being (out, in), by the paths that do   *)
(* not take the product as a whole.                                           *)

Linear(W, x) == MatMul(x, Flipped(W))

\* batched_q4_parts: one product with the weights stacked, its rows then split.
Fused(Ws, x) ==
    LET y == Linear(FlattenSeq(Ws), x)
        from(i) == Len(FlattenSeq(SubSeq(Ws, 1, i - 1)))
    IN  [i \in DOMAIN Ws |-> [t \in DOMAIN x |-> Span(y[t], from(i), Len(Ws[i]))]]

\* gemv_w_group on one row: a slice [first, last) of the outputs of all the weights,
\* counted through them, fills its part of each.
FillSlice(Ws, x, outs, first, last) ==
    FoldLeft(LAMBDA st, i :
        LET begin == Greater(first - st.offset, 0)
            end   == Lesser(last - st.offset, Len(Ws[i]))
        IN  [offset |-> st.offset + Len(Ws[i]),
             outs |-> [st.outs EXCEPT ![i] = Evaluated([o \in DOMAIN @ |->
                         IF begin < o /\ o <= end THEN Dot(Ws[i][o], x) ELSE @[o]])]],
        [offset |-> 0, outs |-> outs], [i \in DOMAIN Ws |-> i]).outs
Grouped(Ws, x, slice) ==
    LET total == Len(FlattenSeq(Ws))
    IN  FoldLeft(LAMBDA outs, s : FillSlice(Ws, x, outs, (s - 1) * slice, Lesser(s * slice, total)),
                 [i \in DOMAIN Ws |-> [o \in DOMAIN Ws[i] |-> Stale]],
                 [s \in 1 .. ((total + slice - 1) \div slice) |-> s])

\* gemm_kq_multi: positions in chunks of a width the kernel is instantiated for.
KqWidths == 1 .. 8 \cup {16}
ChunkWidth(chunk, rem) == IF chunk = 16 /\ rem >= 16 THEN 16 ELSE Lesser(8, rem)
GemmKqMulti(W, x, chunk) ==
    LET take(st, n) ==
          LET tc == ChunkWidth(chunk, Len(x) - st.c)
          IN  IF st.c >= Len(x) THEN st
              ELSE [c |-> st.c + tc,
                    y |-> st.y \o (IF tc \in KqWidths THEN Linear(W, Span(x, st.c, tc))
                                   ELSE Build(tc, Len(W), LAMBDA i, j : Stale))]
    IN  FoldLeft(take, [c |-> 0, y |-> <<>>], x).y

-----------------------------------------------------------------------------
(* The steps before attention.                                                *)

Rms(x, wt) ==
    LET r == RootOf(Total([i \in DOMAIN x |-> x[i] * x[i]]) * Recip(Len(x)))
    IN  Evaluated([i \in DOMAIN x |-> (((x[i] * r) % Prime) * wt[i]) % Prime])
RmsRows(x, wt) == Evaluated([t \in DOMAIN x |-> Rms(x[t], wt)])

\* m: [H, KVH, dh, rot, gate, halves, norm, bias, ctx].
RepOf(m) == m.H \div m.KVH
QD(m) == m.H * m.dh

\* The gate read only after every head of the queries has moved.
SplitGate_Late(m, row) ==
    LET q == Evaluated([i \in DOMAIN row |->
               IF i <= QD(m) THEN row[(((i - 1) \div m.dh) * m.dh) + i] ELSE row[i]])
    IN  [q |-> q, g |-> FlattenSeq([hd \in 1 .. m.H |-> HeadAt(q, m.dh, (2 * hd) - 1)])]
\* A row of attn_q, twice the queries' width: the gate goes to its own row and the
\* queries to the front of theirs, head after head, in place.
SplitGate(m, row) ==
    LET take(st, hd) ==
          LET q == Evaluated([i \in DOMAIN row |->
                     IF (i - 1) \div m.dh = hd - 1 THEN st.q[((hd - 1) * m.dh) + i] ELSE st.q[i]])
          IN  [q |-> q, g |-> st.g \o HeadAt(q, m.dh, (2 * hd) - 1)]
    IN  IF m.halves THEN [q |-> row, g |-> Span(row, QD(m), QD(m))]
        ELSE FoldLeft(take, [q |-> row, g |-> <<>>], [hd \in 1 .. m.H |-> hd])
CosOf(p, j) == ((5 * p * j) + (p * p) + 2) % Prime
SinOf(p, j) == ((3 * p) + (7 * j * p) + j) % Prime
Rotated(m) == IF 0 < m.rot /\ m.rot < m.dh THEN m.rot ELSE m.dh
RopeHead(m, r, p) ==       \* pairs (j, j + half), the rest left
    LET half == Rotated(m) \div 2
    IN  Mod([i \in DOMAIN r |->
          IF i <= half THEN (r[i] * CosOf(p, i)) - (r[i + half] * SinOf(p, i))
          ELSE IF i <= 2 * half THEN (r[i] * CosOf(p, i - half)) + (r[i - half] * SinOf(p, i - half))
          ELSE r[i]])

Biased(m, row, b) == IF m.bias THEN Mod([i \in DOMAIN row |-> IF i \in DOMAIN b THEN row[i] + b[i] ELSE row[i]]) ELSE row
Projected(m, w, o, h) ==
    IF m.gate \/ o.proj = "each" THEN <<Linear(w.q, h), Linear(w.k, h), Linear(w.v, h)>>
    ELSE IF o.proj = "grouped" /\ Len(h) = 1
         THEN LET outs == Grouped(<<w.q, w.k, w.v>>, h[1], o.slice) IN [i \in 1 .. 3 |-> <<outs[i]>>]
         ELSE Fused(<<w.q, w.k, w.v>>, h)
Prepared(m, row, heads, wt, p) ==
    EachHead(row, heads, m.dh, LAMBDA r : RopeHead(m, IF m.norm THEN Rms(r, wt) ELSE r, p))

-----------------------------------------------------------------------------
(* The cache: rows by key-value head and position.  A packed one holds them    *)
(* quantised, which loses something the first time and nothing after.          *)

Quant(row) == [i \in DOMAIN row |-> row[i] - (row[i] % 4)]
Stored(packed, row) == IF packed THEN Quant(row) ELSE row
Put(m, packed, rows, new, pos0) ==
    Evaluated([kv \in 1 .. m.KVH |-> Evaluated([s \in 1 .. m.ctx |->
        IF s - pos0 \in DOMAIN new THEN Stored(packed, HeadAt(new[s - pos0], m.dh, kv - 1)) ELSE rows[kv][s]])])
NewCache(m) == LET rows == [kv \in 1 .. m.KVH |-> Build(m.ctx, m.dh, LAMBDA s, i : Stale)]
               IN  [K |-> rows, V |-> rows]
AppendKV(m, o, c, k, v, pos0) == [K |-> Put(m, o.kq, c.K, k, pos0), V |-> Put(m, o.vq, c.V, v, pos0)]

\* kv_selfcheck_rows: what is stored is what storing it again would store.
SelfChecks(m, o, c, first, n) ==
    \A kv \in 1 .. m.KVH, s \in first + 1 .. first + n :
        /\ o.kq => Quant(c.K[kv][s]) = c.K[kv][s]
        /\ o.vq => Quant(c.V[kv][s]) = c.V[kv][s]

-----------------------------------------------------------------------------
(* Attention.  q: the call's rows, whose first H * dh numbers are the queries; *)
(* the result's rows are H * dh wide.                                          *)

Softmax(row) ==      \* of the live positions only
    LET m == CHOOSE x \in ToSet(row) : \A y \in ToSet(row) : Signed(y) <= Signed(x)
        e == Evaluated([s \in DOMAIN row |-> ExpOf(row[s] - m)])
        z == Recip(Total(e))
    IN  Evaluated([s \in DOMAIN row |-> (e[s] * z) % Prime])

GroupOf(m, row, kv) == [r \in 1 .. RepOf(m) |-> HeadAt(row, m.dh, (kv * RepOf(m)) + r - 1)]
WithGroup(m, row, kv, out) ==
    LET first == kv * RepOf(m) * m.dh
        flat  == FlattenSeq(out)
    IN  Evaluated([i \in DOMAIN row |-> IF i - first \in DOMAIN flat THEN flat[i - first] ELSE row[i]])

AttnGroup(qg, K, V, allow) ==
    LET S == Scaled(MatMul(qg, Flipped(SubSeq(K, 1, allow))), AttnScale)
    IN  MatMul([r \in DOMAIN S |-> Softmax(S[r])], SubSeq(V, 1, allow))

\* One query block of one group: rows of Rep heads for each of its tokens against
\* every position its last token sees, what the row's own token does not see cleared.
AttnBlockUnit(m, q, c, pos0, B, kv, blk, ao) ==
    LET t0   == blk * B
        bt   == Lesser(B, Len(q) - t0)
        most == pos0 + t0 + bt
        qb   == FlattenSeq([t \in 1 .. bt |-> GroupOf(m, q[t0 + t], kv)])
        S    == Scaled(MatMul(qb, Flipped(SubSeq(c.K[kv + 1], 1, most))), AttnScale)
        live(r) == pos0 + t0 + ((r - 1) \div RepOf(m)) + 1
        P    == [r \in DOMAIN S |-> Softmax(SubSeq(S[r], 1, live(r))) \o [s \in 1 .. most - live(r) |-> 0]]
        ob   == MatMul(P, SubSeq(c.V[kv + 1], 1, most))
    IN  [t \in DOMAIN ao |->
          IF t - t0 \in 1 .. bt THEN WithGroup(m, ao[t], kv, Span(ob, (t - t0 - 1) * RepOf(m), RepOf(m))) ELSE ao[t]]

\* The packed cache: the queries are quantised too, head by head.
Quantised(m, o, q) ==
    IF o.kq THEN [t \in DOMAIN q |-> EachHead(q[t], m.H, m.dh, LAMBDA r : Quant(r))] ELSE q

\* The units in any order; the pool's is from the last one down.
Units(m, T, B, pool) ==
    LET blocks == (T + B - 1) \div B
        all    == m.KVH * blocks
    IN  [u \in 1 .. all |-> LET n == IF pool THEN all - u ELSE u - 1
                            IN  [kv |-> n \div blocks, blk |-> n % blocks]]
AttnBlocked(m, o, q, c, pos0, ao) ==
    FoldLeft(LAMBDA a, u : AttnBlockUnit(m, q, c, pos0, o.block, u.kv, u.blk, a), ao,
             Units(m, Len(q), o.block, o.pool))

\* Head by head, each against the group of hd / Rep.
AttnNaive(m, o, q, c, pos0) ==
    [t \in DOMAIN q |-> FlattenSeq([hd \in 1 .. m.H |->
        LET kv == ((hd - 1) \div RepOf(m)) + 1
        IN  AttnGroup(<<HeadAt(q[t], m.dh, hd - 1)>>, c.K[kv], c.V[kv], pos0 + t)[1]])]
\* Token by token, one group after the other (the pool: one group per slice).
AttnTokens(m, q, c, pos0, ao) ==
    [t \in DOMAIN q |->
        FoldLeft(LAMBDA row, kv : WithGroup(m, row, kv - 1, AttnGroup(GroupOf(m, q[t], kv - 1), c.K[kv], c.V[kv], pos0 + t)),
                 ao[t], [kv \in 1 .. m.KVH |-> kv])]

AttnPath(m, o, T) ==
    LET packed  == o.kq \/ o.vq
        blocked == T >= MinBlocked /\ o.block > 0
    IN  IF o.naive \/ (T = 1 /\ ~o.batched) \/ (packed /\ ~(o.kq /\ o.vq /\ blocked)) THEN "naive"
        ELSE IF blocked THEN "blocked" ELSE "tokens"
Attend(m, o, q, c, pos0) ==
    LET ao == Build(Len(q), QD(m), LAMBDA t, i : Stale)
        qs == Quantised(m, o, q)
    IN  CASE AttnPath(m, o, Len(q)) = "naive"   -> AttnNaive(m, o, qs, c, pos0)
          [] AttnPath(m, o, Len(q)) = "blocked" -> AttnBlocked(m, o, qs, c, pos0, ao)
          [] OTHER                              -> AttnTokens(m, qs, c, pos0, ao)

-----------------------------------------------------------------------------
(* The layer.                                                                 *)

Ffn(w, o, x) ==
    LET h  == RmsRows(x, w.rms2)
        gu == IF o.proj = "each" THEN <<Linear(w.gate, h), Linear(w.up, h)>> ELSE Fused(<<w.gate, w.up>>, h)
        g  == Like(gu[1], LAMBDA t, i : ((gu[1][t][i] * SigmoidOf(gu[1][t][i])) % Prime) * gu[2][t][i])
    IN  Plus(x, Linear(w.down, g))

\* A call of rows x at pos0 on the cache c.
Block(m, w, o, x, c, pos0) ==
    LET p     == Projected(m, w, o, RmsRows(x, w.rms1))
        bq    == [t \in DOMAIN x |-> Biased(m, p[1][t], w.bq)]
        split == Evaluated([t \in DOMAIN x |-> IF m.gate THEN SplitGate(m, bq[t]) ELSE [q |-> bq[t], g |-> <<>>]])
        q     == Evaluated([t \in DOMAIN x |-> Prepared(m, split[t].q, m.H, w.qn, pos0 + t - 1)])
        k     == Evaluated([t \in DOMAIN x |-> Prepared(m, Biased(m, p[2][t], w.bk), m.KVH, w.kn, pos0 + t - 1)])
        v     == Evaluated([t \in DOMAIN x |-> Biased(m, p[3][t], w.bv)])
        cache == AppendKV(m, o, c, k, v, pos0)
        ao    == Attend(m, o, q, cache, pos0)
        gated == IF m.gate THEN Like(ao, LAMBDA t, i : ao[t][i] * SigmoidOf(split[t].g[i])) ELSE ao
    IN  [x |-> Ffn(w, o, Plus(x, Linear(w.o, gated))), cache |-> cache]

-----------------------------------------------------------------------------
(* The linear layer.  g: [Hk, Hv, Dk, Dv, taps]; st: [conv, S].                *)

SoftplusOf(x) == ((x * x * 2) + (3 * x) + 4) % Prime
L2Norm(row, heads, dh) ==
    EachHead(row, heads, dh, LAMBDA r : LET n == RootOf(Total([i \in DOMAIN r |-> r[i] * r[i]]))
                                        IN  Mod([i \in DOMAIN r |-> r[i] * n]))
GdnDecay(alpha, dt, a) == Mod([n \in DOMAIN alpha |-> ExpOf(a[n] * SoftplusOf(alpha[n] + dt[n]))])
GatedRmsNorm(out, wt, z, heads, dh) ==
    FlattenSeq([n \in 1 .. heads |->
        LET r == Rms(HeadAt(out, dh, n - 1), wt)
            f == HeadAt(z, dh, n - 1)
        IN  Mod([i \in DOMAIN r |-> r[i] * ((f[i] * SigmoidOf(f[i])) % Prime)])])
\* The file holds the taps of a channel side by side; the convolution reads a row per tap.
ConvKernelDense(flat, taps, channels) == Build(taps, channels, LAMBDA j, c : flat[((c - 1) * taps) + j])

BlockLinear(g, w, o, x, st) ==
    LET h     == RmsRows(x, w.rms1)
        qn    == g.Hk * g.Dk
        z     == Linear(w.z, h)
        beta  == LET b == Linear(w.beta, h) IN Like(b, LAMBDA t, n : SigmoidOf(b[t][n]))
        alpha == Linear(w.alpha, h)
        conv  == Conv1d(ConvKernelDense(w.conv, g.taps, (2 * qn) + (g.Hv * g.Dv)),
                        [state |-> st.conv, out |-> <<>>], Linear(w.qkv, h))
        heads(row, n, dh) == [i \in 1 .. n |-> HeadAt(row, dh, i - 1)]
        token(t) ==
          LET row == conv.out[t]
              q   == L2Norm(Span(row, 0, qn), g.Hk, g.Dk)
          IN  [q |-> heads(Mod([i \in 1 .. qn |-> q[i] * AttnScale]), g.Hk, g.Dk),
               k |-> heads(L2Norm(Span(row, qn, qn), g.Hk, g.Dk), g.Hk, g.Dk),
               v |-> heads(Span(row, 2 * qn, g.Hv * g.Dv), g.Hv, g.Dv),
               beta |-> beta[t], decay |-> GdnDecay(alpha[t], w.dt, w.a)]
        run   == FoldLeft(LAMBDA a, t : LET r == GdnStep(g.Hk, a.S, token(t))
                                        IN  [S |-> r.S, o |-> Append(a.o, FlattenSeq(r.o))],
                          [S |-> st.S, o |-> <<>>], [t \in DOMAIN x |-> t])
        out   == Evaluated([t \in DOMAIN x |-> GatedRmsNorm(run.o[t], w.norm, z[t], g.Hv, g.Dv)])
    IN  [x |-> Ffn(w, o, Plus(x, Linear(w.out, out))), st |-> [conv |-> conv.state, S |-> run.S]]
NewState(g) ==
    [conv |-> Build(g.taps - 1, (2 * g.Hk * g.Dk) + (g.Hv * g.Dv), LAMBDA j, c : 0),
     S |-> [n \in 1 .. g.Hv |-> Build(g.Dk, g.Dv, LAMBDA i, j : 0)]]

-----------------------------------------------------------------------------
(* References.                                                                *)

Apply(W, x) == Linear(W, <<x>>)[1]
RefFfn(w, x) ==
    LET h == Rms(x, w.rms2)
        silu(y) == (y * SigmoidOf(y)) % Prime
        g == Mod([i \in DOMAIN w.gate |-> silu(Dot(w.gate[i], h)) * Dot(w.up[i], h)])
    IN  Mod([i \in DOMAIN x |-> x[i] + Dot(w.down[i], g)])

\* Head hd's query, gate, key and value of a token, from the head's own rows of the weights.
RefAttention(m, w, o, xs) ==
    LET n == Evaluated([t \in DOMAIN xs |-> Rms(xs[t], w.rms1)])
        rows(W, b, first, t) ==
          Mod([i \in 1 .. m.dh |-> Dot(W[first + i], n[t]) + (IF m.bias THEN b[first + i] ELSE 0)])
        turned(r, wt, t) == RopeHead(m, IF m.norm THEN Rms(r, wt) ELSE r, t - 1)
        width == IF m.gate /\ ~m.halves THEN 2 * m.dh ELSE m.dh
        q(hd, t) == LET r == turned(rows(w.q, w.bq, hd * width, t), w.qn, t) IN IF o.kq THEN Quant(r) ELSE r
        gateRow(hd) == IF m.halves THEN QD(m) + (hd * m.dh) ELSE (hd * width) + m.dh
        g(hd, t) == Mod([i \in 1 .. m.dh |-> SigmoidOf(Dot(w.q[gateRow(hd) + i], n[t]))])
        K == Evaluated([kv \in 1 .. m.KVH |-> Evaluated([t \in DOMAIN xs |->
               Stored(o.kq, turned(rows(w.k, w.bk, (kv - 1) * m.dh, t), w.kn, t))])])
        V == Evaluated([kv \in 1 .. m.KVH |-> Evaluated([t \in DOMAIN xs |->
               Stored(o.vq, rows(w.v, w.bv, (kv - 1) * m.dh, t))])])
        head(hd, t) ==
          LET kv  == (hd \div (m.H \div m.KVH)) + 1
              qt  == q(hd, t)
              gt  == g(hd, t)
              p   == Softmax([s \in 1 .. t |-> (AttnScale * Dot(qt, K[kv][s])) % Prime])
              out == Mod([i \in 1 .. m.dh |-> Total([s \in 1 .. t |-> p[s] * V[kv][s][i]])])
          IN  IF m.gate THEN Mod([i \in 1 .. m.dh |-> out[i] * gt[i]]) ELSE out
        token(t) == LET out == Apply(w.o, FlattenSeq([hd \in 1 .. m.H |-> head(hd - 1, t)]))
                    IN  RefFfn(w, Mod([i \in DOMAIN out |-> xs[t][i] + out[i]]))
    IN  [x |-> Evaluated([t \in DOMAIN xs |-> token(t)]), K |-> K, V |-> V]

\* A value head at a time: its own channels of the stream, its own state.
RefLinear(g, w, xs) ==
    LET n  == Evaluated([t \in DOMAIN xs |-> Rms(xs[t], w.rms1)])
        qn == g.Hk * g.Dk
        stream(c, t) == IF t < 1 THEN 0 ELSE Dot(w.qkv[c], n[t])
        conv(c, t) == SigmoidOf(Total([j \in 1 .. g.taps |-> w.conv[((c - 1) * g.taps) + j] * stream(c, t - g.taps + j)]))
        channels(first, dh, t) == Evaluated([i \in 1 .. dh |-> conv(first + i, t)])
        unit(r) == L2Norm(r, 1, g.Dk)
        head(hv) ==      \* its gated outputs, one per token
          LET kh == ((hv - 1) % g.Hk) * g.Dk
              take(a, t) ==
                LET q == unit(channels(kh, g.Dk, t))
                    k == unit(channels(qn + kh, g.Dk, t))
                    v == channels((2 * qn) + ((hv - 1) * g.Dv), g.Dv, t)
                    b == SigmoidOf(Dot(w.beta[hv], n[t]))
                    S == Scaled(a.S, GdnDecay(<<Dot(w.alpha[hv], n[t])>>, <<w.dt[hv]>>, <<w.a[hv]>>)[1])
                    now == Plus(S, Outer(k, Mod([j \in DOMAIN v |-> b * (v[j] - Dot(k, Column(S, j)))])))
                    out == Mod([j \in DOMAIN v |-> AttnScale * Dot(q, Column(now, j))])
                    z == Evaluated([j \in DOMAIN v |-> Dot(w.z[((hv - 1) * g.Dv) + j], n[t])])
                IN  [S |-> now, o |-> Append(a.o, GatedRmsNorm(out, w.norm, z, 1, g.Dv))]
          IN  FoldLeft(take, [S |-> Build(g.Dk, g.Dv, LAMBDA i, j : 0), o |-> <<>>], [t \in DOMAIN xs |-> t]).o
        all == Evaluated([hv \in 1 .. g.Hv |-> head(hv)])
        token(t) == LET out == Apply(w.out, FlattenSeq([hv \in 1 .. g.Hv |-> all[hv][t]]))
                    IN  RefFfn(w, Mod([i \in DOMAIN out |-> xs[t][i] + out[i]]))
    IN  Evaluated([t \in DOMAIN xs |-> token(t)])

BlockInCalls(m, w, o, calls) ==
    FoldLeft(LAMBDA st, x : LET r == Block(m, w, o, x, st.cache, Len(st.x))
                            IN  [x |-> st.x \o r.x, cache |-> r.cache],
             [x |-> <<>>, cache |-> NewCache(m)], calls)
AttentionLayerExact(m, w, o, xs, lengths) ==
    LET run == BlockInCalls(m, w, o, Calls(xs, lengths))
        ref == RefAttention(m, w, o, xs)
    IN  /\ run.x = ref.x
        /\ \A kv \in 1 .. m.KVH, s \in 1 .. m.ctx :
             /\ run.cache.K[kv][s] = IF s <= Len(xs) THEN ref.K[kv][s] ELSE NewCache(m).K[kv][s]
             /\ run.cache.V[kv][s] = IF s <= Len(xs) THEN ref.V[kv][s] ELSE NewCache(m).V[kv][s]
        /\ SelfChecks(m, o, run.cache, 0, Len(xs))
LinearLayerExact(g, w, o, xs, lengths) ==
    FoldLeft(LAMBDA st, x : LET r == BlockLinear(g, w, o, x, st.st) IN [x |-> st.x \o r.x, st |-> r.st],
             [x |-> <<>>, st |-> NewState(g)], Calls(xs, lengths)).x = RefLinear(g, w, xs)
ProjectionsExact(Ws, x, slice, chunk) ==
    /\ Fused(Ws, x) = [i \in DOMAIN Ws |-> Linear(Ws[i], x)]
    /\ Grouped(Ws, x[1], slice) = [i \in DOMAIN Ws |-> Apply(Ws[i], x[1])]
    /\ GemmKqMulti(Ws[1], x, chunk) = Linear(Ws[1], x)
=============================================================================
