---------------------------------- MODULE Conv ----------------------------------
(***************************************************************************)
(* The convolutions and paddings of tensormark/autograd.h, and the im2col   *)
(* and col2im of train_engine.h, as maps between indices: an output is the  *)
(* sequence of products <<index in the weights, index in the input>> it     *)
(* sums, a moved element the index it comes from (Pad for a zero).  What a  *)
(* gradient sums is written the same way.  d holds the shape: B samples, C  *)
(* channels of H x W, O filters of kH x kW, stride s.  ConvOf, the paddings'*)
(* Mirror and the transposes of the forward maps are the references.        *)
(***************************************************************************)
EXTENDS Gemm

CONSTANTS MinRows,     (* the least rows of a chunk of tm_im2col            *)
          PlaneTasks,  (* tm_dw_chunks_mult()                               *)
          MinColumns   (* HW / 256 of the 1x1 path                          *)

Pad == -1

OutH(d) == (d.H - d.kH) \div d.s + 1
OutW(d) == (d.W - d.kW) \div d.s + 1
Taps(d) == d.C * d.kH * d.kW
Rows(d) == d.B * OutH(d) * OutW(d)
Planar(d, n, c, y, x) == ((n * d.C + c) * d.H + y) * d.W + x

\* The row r = (n, oy, ox) and the tap k = (c, ky, kx) counted out by the loops.
Gathered(d, r, k) ==
    LET pixels == OutH(d) * OutW(d)
        oy == (r % pixels) \div OutW(d)
        ox == (r % pixels) % OutW(d)
        kk == d.kH * d.kW
    IN  Planar(d, r \div pixels, k \div kk, (oy * d.s) + ((k % kk) \div d.kW), (ox * d.s) + ((k % kk) % d.kW))

ColumnsOf(d, rows) ==
    [i \in rows.lo * Taps(d) .. rows.hi * Taps(d) - 1 |-> Gathered(d, i \div Taps(d), i % Taps(d))]
TmIm2col(d) ==
    LET chunks == ParChunks(Rows(d), IF Rows(d) \div (4 * Threads) > MinRows THEN Rows(d) \div (4 * Threads) ELSE MinRows)
    IN  [c \in DOMAIN chunks |-> ColumnsOf(d, chunks[c])]
Samples(d) == ParChunks(d.B, AtLeast1(d.B \div 8))
Im2col(d) ==
    LET per == OutH(d) * OutW(d)
    IN  [c \in DOMAIN Samples(d) |->
            ColumnsOf(d, [lo |-> Samples(d)[c].lo * per, hi |-> Samples(d)[c].hi * per])]

\* col2im: the columns that each element of the input adds up, sample by sample, in the
\* order of the loops over the rows and the taps.
AddsInto(d, lo, hi, x) ==
    FlattenSeq([j \in 1 .. hi - lo |->
        IF Gathered(d, (lo + j - 1) \div Taps(d), (lo + j - 1) % Taps(d)) = x THEN <<lo + j - 1>> ELSE <<>>])
Col2im(d) ==
    LET per == OutH(d) * OutW(d) * Taps(d)
    IN  [c \in DOMAIN Samples(d) |->
           [x \in Samples(d)[c].lo * (d.C * d.H * d.W) .. Samples(d)[c].hi * (d.C * d.H * d.W) - 1 |->
              AddsInto(d, Samples(d)[c].lo * per, Samples(d)[c].hi * per, x)]]

OneByOne(d) == d.kH = 1 /\ d.kW = 1 /\ d.s = 1 /\ d.B = 1
Seen(terms, first(_), second(_)) == [k \in DOMAIN terms |-> <<first(terms[k][1]), second(terms[k][2])>>]
Same(i) == i
Swapped(terms) == [k \in DOMAIN terms |-> <<terms[k][2], terms[k][1]>>]

\* The products with the zeros around a plane add nothing.
Real(terms) == FlattenSeq([k \in DOMAIN terms |-> IF terms[k][2] = Pad THEN <<>> ELSE <<terms[k]>>])

\* The planes of the output are divided among the tasks that permute (R, O) into NCHW.
Planes(d) == ParChunks(d.B * d.O, AtLeast1((d.B * d.O) \div (2 * Threads)))
RowMajorAt(d, i) ==
    LET pixels == OutH(d) * OutW(d)
        p == i \div pixels
    IN  ((p \div d.O) * pixels + (i % pixels)) * d.O + (p % d.O)
Permuted(d, ro) ==
    LET pixels == OutH(d) * OutW(d)
    IN  [c \in DOMAIN Planes(d) |->
           [i \in Planes(d)[c].lo * pixels .. Planes(d)[c].hi * pixels - 1 |-> ro[RowMajorAt(d, i)]]]

Conv2d(d) ==
    IF OneByOne(d)
    THEN LET HW == d.H * d.W
             nc == IF d.O * HW * d.C < ParFlops THEN 1
                   ELSE IF Threads < AtLeast1(HW \div MinColumns) THEN Threads ELSE AtLeast1(HW \div MinColumns)
         IN  [b \in 0 .. nc - 1 |->
                LET s == Share(HW, nc, b)
                IN  Blas(Dims(d.O, s.hi - s.lo, d.C), FALSE, FALSE, View(0, d.C), View(s.lo, HW), View(s.lo, HW))]
    ELSE LET col == Merged(TmIm2col(d))
             ro == Merged(TmGemmNt(Rows(d), d.O, Taps(d), d.O))
         IN  Permuted(d, [i \in DOMAIN ro |-> Swapped(Seen(ro[i], LAMBDA c : col[c], Same))])

\* Backward, from the gradient g of the output: the products <<g, input>> of each
\* weight and the products <<weight, g>> of each element of the input.
GradRows(d) ==
    [r \in 0 .. Rows(d) * d.O - 1 |-> CHOOSE i \in 0 .. Rows(d) * d.O - 1 : RowMajorAt(d, i) = r]
WeightGrad(d) ==
    IF OneByOne(d)
    THEN <<Blas(Dims(d.O, d.C, d.H * d.W), FALSE, TRUE, View(0, d.H * d.W), View(0, d.H * d.W), View(0, d.C))>>
    ELSE LET go == GradRows(d)
             col == Merged(TmIm2col(d))
             dW == Merged(PsgemmTn(d.O, Taps(d), Rows(d)))
         IN  <<[i \in DOMAIN dW |-> Seen(dW[i], LAMBDA r : go[r], LAMBDA c : col[c])]>>
InputGrad(d) ==
    IF OneByOne(d)
    THEN <<Blas(Dims(d.C, d.H * d.W, d.O), TRUE, FALSE, View(0, d.C), View(0, d.H * d.W), View(0, d.H * d.W))>>
    ELSE LET go == GradRows(d)
             dcol == Merged(PsgemmNnM(Rows(d), Taps(d), d.O))
             into == Col2im(d)
         IN  [c \in DOMAIN into |-> [x \in DOMAIN into[c] |->
                FlattenSeq([k \in DOMAIN into[c][x] |->
                    Swapped(Seen(dcol[into[c][x][k]], LAMBDA r : go[r], Same))])]]

\* The padded input of conv2d_ex and _tm_zeropad_ex: rows of W moved into a zeroed plane.
Padded(d, p) == [d EXCEPT !.H = @ + p.t + p.b, !.W = @ + p.l + p.r]
ZeroPad(d, p) ==
    LET q == Padded(d, p)
    IN  [i \in 0 .. q.B * q.C * q.H * q.W - 1 |->
           LET y == ((i \div q.W) % q.H) - p.t
               x == (i % q.W) - p.l
               plane == i \div (q.H * q.W)
           IN  IF y \in 0 .. d.H - 1 /\ x \in 0 .. d.W - 1 THEN (plane * d.H + y) * d.W + x ELSE Pad]

Conv2dEx(d, p) ==
    IF OneByOne(d) /\ Padded(d, p) = d THEN Conv2d(d)
    ELSE LET q   == Padded(d, p)
             pad == ZeroPad(d, p)
             col == Merged(TmIm2col(q))
             real(terms) == Real(Seen(terms, Same, LAMBDA c : pad[col[c]]))
             ro  == Merged(TmGemmNt(Rows(q), q.O, Taps(q), q.O))
             direct == TmGemmNt(q.O, Rows(q), Taps(q), Rows(q))
         IN  IF d.B = 1 THEN [c \in DOMAIN direct |-> [i \in DOMAIN direct[c] |-> real(direct[c][i])]]
             ELSE Permuted(q, [i \in DOMAIN ro |-> real(Swapped(ro[i]))])

\* The epilogue adds the bias of its plane to each output: which bias, per task.
BiasEpilogue(planes, O, pixels) ==
    LET chunks == IF planes < 8 THEN <<[lo |-> 0, hi |-> planes]>>
                  ELSE ParChunks(planes, AtLeast1(planes \div Threads))
    IN  [c \in DOMAIN chunks |-> [i \in chunks[c].lo * pixels .. chunks[c].hi * pixels - 1 |-> (i \div pixels) % O]]

\* depthwise_conv2d: one filter per channel.  A row of outputs is one strip per
\* output, or for a 3x3 filter of stride 1 strips of four and then the rest.
DwTap(d, i, k) ==
    LET y == (i \div OutW(d)) % OutH(d)
        x == i % OutW(d)
        plane == i \div (OutH(d) * OutW(d))
    IN  <<((plane % d.C) * d.kH * d.kW) + k,
          (plane * d.H + y * d.s + (k \div d.kW)) * d.W + (x * d.s) + (k % d.kW)>>
Strips(d) ==
    LET wide == IF d.kH = 3 /\ d.kW = 3 /\ d.s = 1 THEN OutW(d) \div 4 ELSE 0
    IN  [t \in 0 .. wide + (OutW(d) - 4 * wide) - 1 |->
           IF t < wide THEN 4 * t .. 4 * t + 3 ELSE {4 * wide + (t - wide)}]
Depthwise(d) ==
    LET planes == ParChunks(d.B * d.C, AtLeast1((d.B * d.C) \div AtLeast1(Threads * PlaneTasks)))
    IN  [at \in (DOMAIN planes) \X (0 .. OutH(d) - 1) \X (DOMAIN Strips(d)) |->
           [i \in {(p * OutH(d) + at[2]) * OutW(d) + x : p \in planes[at[1]].lo .. planes[at[1]].hi - 1,
                                                     x \in Strips(d)[at[3]]} |->
              [k \in 1 .. d.kH * d.kW |-> DwTap(d, i, k - 1)]]]
DepthwiseGrads(d) ==
    LET out == 0 .. d.B * d.C * OutH(d) * OutW(d) - 1
        taps == out \X (0 .. d.kH * d.kW - 1)
    IN  [weight |-> [w \in 0 .. d.C * d.kH * d.kW - 1 |->
                       {<<t[1], DwTap(d, t[1], t[2])[2]>> : t \in {u \in taps : DwTap(d, u[1], u[2])[1] = w}}],
         input  |-> [x \in 0 .. d.B * d.C * d.H * d.W - 1 |->
                       {<<DwTap(d, t[1], t[2])[1], t[1]>> : t \in {u \in taps : DwTap(d, u[1], u[2])[2] = x}}]]

\* chpad and pad_symmetric: where a padded channel, row or column comes from.
ChannelFrom(c2, pre, C) ==
    LET c == c2 - pre
        low == IF c < 0 THEN -c - 1 ELSE c
    IN  IF low >= C THEN 2 * C - 1 - low ELSE low
EdgeFrom(i, n) == IF i < 1 THEN 0 ELSE IF i >= n + 1 THEN n - 1 ELSE i - 1

\* maxpool2x2: the window's cell that wins, the first of equal ones.
PoolWinner(window) ==
    FoldLeft(LAMBDA best, e : IF window[e + 1] > window[best + 1] THEN e ELSE best, 0, <<1, 2, 3>>)

-----------------------------------------------------------------------------
(* What they must give.                                                       *)

Transposed(forward, at, other) ==   \* the outputs each operand's element takes part in
    LET used == UNION {{<<i, t>> : t \in ToSet(forward[i])} : i \in DOMAIN forward}
    IN  [x \in {u[2][at] : u \in used} |-> {<<u[1], u[2][other]>> : u \in {v \in used : v[2][at] = x}}]
SumsTo(terms, set, pair(_)) == Len(terms) = Cardinality(set) /\ {pair(terms[k]) : k \in DOMAIN terms} = set

\* What the tap k of the output i reads, Pad outside of the input.
Tap(d, p, i, k) ==
    LET q == Padded(d, p)
        x == i % OutW(q)
        y == (i \div OutW(q)) % OutH(q)
        o == (i \div (OutW(q) * OutH(q))) % d.O
        n == i \div (OutW(q) * OutH(q) * d.O)
        c == k \div (d.kH * d.kW)
        ky == (k \div d.kW) % d.kH
        kx == k % d.kW
        row == (y * d.s + ky) - p.t
        column == (x * d.s + kx) - p.l
    IN  <<((o * d.C + c) * d.kH + ky) * d.kW + kx,
          IF row \in 0 .. d.H - 1 /\ column \in 0 .. d.W - 1 THEN Planar(d, n, c, row, column) ELSE Pad>>
ConvOf(d, p) ==
    [i \in 0 .. d.B * d.O * OutH(Padded(d, p)) * OutW(Padded(d, p)) - 1 |->
       Real([k \in 1 .. Taps(d) |-> Tap(d, p, i, k - 1)])]
NoPad == [t |-> 0, b |-> 0, l |-> 0, r |-> 0]

ConvolutionExact(d) ==
    LET ref == ConvOf(d, NoPad)
        dW  == Merged(WeightGrad(d))
        dX  == Merged(InputGrad(d))
        byW == Transposed(ref, 1, 2)
        byX == Transposed(ref, 2, 1)
    IN  /\ Computes(Conv2d(d), ref)
        /\ Disjoint(TmIm2col(d)) /\ (d.s = 1 => Merged(Im2col(d)) = Merged(TmIm2col(d)) /\ Disjoint(Im2col(d)))
        /\ Disjoint(InputGrad(d)) /\ Disjoint(WeightGrad(d))
        /\ \A w \in 0 .. d.O * Taps(d) - 1 : SumsTo(dW[w], byW[w], Same)
        /\ \A x \in 0 .. d.B * d.C * d.H * d.W - 1 :
             SumsTo(dX[x], IF x \in DOMAIN byX THEN byX[x] ELSE {}, LAMBDA t : <<t[2], t[1]>>)

FusedExact(d, p) ==
    LET q == Padded(d, p)
        bias == BiasEpilogue(d.B * d.O, d.O, OutH(q) * OutW(q))
    IN  /\ Computes(Conv2dEx(d, p), ConvOf(d, p))
        /\ Computes(bias, [i \in 0 .. d.B * d.O * OutH(q) * OutW(q) - 1 |-> (i \div (OutH(q) * OutW(q))) % d.O])

\* A depthwise filter is a convolution of one channel at a time.
DepthwiseExact(d) ==
    LET one(c) == ConvOf([d EXCEPT !.C = 1, !.O = 1, !.B = 1], NoPad)
        pixels == OutH(d) * OutW(d)
        ref == [i \in 0 .. d.B * d.C * pixels - 1 |->
                  LET p == i \div pixels
                      local == one(p)[i % pixels]
                  IN  [k \in DOMAIN local |-> <<(p % d.C) * d.kH * d.kW + local[k][1], p * d.H * d.W + local[k][2]>>]]
        grads == DepthwiseGrads(d)
        byW == Transposed(ref, 1, 2)
        byX == Transposed(ref, 2, 1)
    IN  /\ Computes(Depthwise(d), ref)
        /\ \A w \in DOMAIN grads.weight : grads.weight[w] = byW[w]
        /\ \A x \in DOMAIN grads.input :
             grads.input[x] = {<<t[2], t[1]>> : t \in IF x \in DOMAIN byX THEN byX[x] ELSE {}}

\* A symmetric padding repeats the edge: ... 1 0 | 0 1 .. n-1 | n-1 n-2 ...
Mirrored(i, n) == IF i % (2 * n) < n THEN i % (2 * n) ELSE (2 * n - 1) - (i % (2 * n))
PaddingsExact(n, pre, post) ==
    /\ \A i \in 0 .. n + pre + post - 1 : ChannelFrom(i, pre, n) = Mirrored(i - pre + 2 * n, n)
    /\ \A i \in 0 .. n + 1 : EdgeFrom(i, n) = Mirrored(i - 1 + 2 * n, n)
=============================================================================
