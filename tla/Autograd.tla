-------------------------------- MODULE Autograd --------------------------------
(***************************************************************************)
(* The tape of tensormark/autograd.h and the optimiser of optim.h.  An op   *)
(* [k, in, arg] on values pushes a node; Backward walks the nodes in        *)
(* reverse and adds what each op's closure computes into the gradients of   *)
(* its inputs.  A gradient is a buffer, held by number: an op may let an    *)
(* input share the buffer of its output's gradient (tm_grad_alias), take an *)
(* uninitialised one and overwrite it (tm_grad_fresh) or a zeroed one       *)
(* (tm_grad).  The parameters keep their buffers from one pass to the next. *)
(* The reference differentiates the same ops forward: Tangent gives the     *)
(* change of an output for a change of one element of one parameter.        *)
(***************************************************************************)
EXTENDS Matrices, SequencesExt

GeluC == 8          \* sqrt(2 / pi), 0.044715 and the scale of a dropped element
GeluK == 6
Beta1 == 3
Beta2 == 4
Epsilon == 9
LearningRate == 5
Decay == 2          \* the learning rate times the weight decay

-----------------------------------------------------------------------------
(* Forward.                                                                   *)

RowMax(row) == CHOOSE m \in ToSet(row) : \A x \in ToSet(row) : Signed(x) <= Signed(m)
SoftmaxRow(row) ==
    LET e == Evaluated([j \in DOMAIN row |-> ExpOf(row[j] - RowMax(row))])
        z == Recip(Total(e))
    IN  Evaluated([j \in DOMAIN row |-> (e[j] * z) % Prime])
SoftmaxRows(a) == Evaluated([i \in DOMAIN a |-> SoftmaxRow(a[i])])

Mean(row) == Total(row) * Recip(Len(row))
Rstd(row) == RootOf(Total([j \in DOMAIN row |-> (row[j] - Mean(row)) * (row[j] - Mean(row))]) * Recip(Len(row)))
Normal(row, j) == ((row[j] - Mean(row)) * Rstd(row)) % Prime
GeluArg(x) == (GeluC * (x + ((GeluK * x * x) % Prime) * x)) % Prime
Valid(op) == {b \in DOMAIN op.arg : op.arg[b] # 0}    \* labels; 0 is ignore_index
Winner(a) == CHOOSE p \in (1 .. 2) \X (1 .. 2) :
                /\ \A q \in (1 .. 2) \X (1 .. 2) : Signed(a[q[1]][q[2]]) <= Signed(a[p[1]][p[2]])
                /\ \A q \in (1 .. 2) \X (1 .. 2) :
                     a[q[1]][q[2]] = a[p[1]][p[2]] => (2 * p[1]) + p[2] <= (2 * q[1]) + q[2]

\* One operator for each op: its output from its inputs.
Add(a, b) == Plus(a, b)
AddRowvec(x, b) == Like(x, LAMBDA i, j : x[i][j] + b[1][j])
Relu(a) == Like(a, LAMBDA i, j : IF Positive(a[i][j]) THEN a[i][j] ELSE 0)
Gelu(a) == Like(a, LAMBDA i, j : Half * a[i][j] * (1 + TanhOf(GeluArg(a[i][j]))))
Sigmoid(a) == Like(a, LAMBDA i, j : SigmoidOf(a[i][j]))
Layernorm(a, gamma, beta) == Like(a, LAMBDA i, j : Normal(a[i], j) * gamma[1][j] + beta[1][j])
Concat(a, b) == [i \in DOMAIN a |-> a[i] \o b[i]]
Slice(a, at) == [i \in 1 .. at[2] - at[1] |-> SubSeq(a[at[1] + i], at[3] + 1, at[4])]
Gather(e, idx) == [i \in DOMAIN idx |-> e[idx[i]]]
Mul(a, b) == Times(a, b)
Scale(a, x) == Scaled(a, x)
Transpose2d(a) == Flipped(a)
Reshape(a, shape) == Shaped(shape[1], shape[2], Flat(a))
Dropout(a, mask) == Times(a, mask)      \* the mask holds 0 or the scale of what is kept
Maxpool2x2(a) == <<<<a[Winner(a)[1]][Winner(a)[2]]>>>>
SumAll(a) == <<<<Total(Flat(a))>>>>
MeanAll(a) == <<<<(Total(Flat(a)) * Recip(Numel(a))) % Prime>>>>
Mse(a, b) == <<<<(Dot(Flat(Minus(a, b)), Flat(Minus(a, b))) * Recip(Numel(a))) % Prime>>>>
\* The loss itself is only read by the caller: its logarithms are left out.
CrossEntropy(op) == <<<<Cardinality(Valid(op))>>>>

Forward(op, x) ==
    LET a == x[1]
        b == x[Len(x)]
    IN  CASE op.k = "matmul"      -> MatMul(a, b)
          [] op.k = "matmul_nt"   -> MatMul(a, Flipped(b))
          [] op.k = "add"         -> Add(a, b)
          [] op.k = "add_rowvec"  -> AddRowvec(a, b)
          [] op.k = "mul"         -> Mul(a, b)
          [] op.k = "scale"       -> Scale(a, op.arg)
          [] op.k = "relu"        -> Relu(a)
          [] op.k = "gelu"        -> Gelu(a)
          [] op.k = "sigmoid"     -> Sigmoid(a)
          [] op.k = "softmax"     -> SoftmaxRows(a)
          [] op.k = "layernorm"   -> Layernorm(a, x[2], b)
          [] op.k = "transpose2d" -> Transpose2d(a)
          [] op.k = "reshape"     -> Reshape(a, op.arg)
          [] op.k = "concat"      -> Concat(a, b)
          [] op.k = "slice"       -> Slice(a, op.arg)
          [] op.k = "gather"      -> Gather(a, op.arg)
          [] op.k = "dropout"     -> Dropout(a, op.arg)
          [] op.k = "maxpool2x2"  -> Maxpool2x2(a)
          [] op.k = "sum"         -> SumAll(a)
          [] op.k = "mean"        -> MeanAll(a)
          [] op.k = "mse"         -> Mse(a, b)
          [] op.k = "cross_entropy" -> CrossEntropy(op)

-----------------------------------------------------------------------------
(* The closures: what an op adds to the gradient of its j-th input, given the *)
(* gradient g of its output y.                                                *)

Scattered(a, g, from) ==     \* every element of g added to the one it was copied from
    Like(a, LAMBDA i, j : Total(Flat(Like(g, LAMBDA r, c : IF from[r][c] = <<i, j>> THEN g[r][c] ELSE 0))))
SlicePull(at, a, g) ==
    Scattered(a, g, [r \in DOMAIN g |-> [c \in DOMAIN g[r] |-> <<at[1] + r, at[3] + c>>]])
GatherPull(idx, a, g) == Scattered(a, g, [r \in DOMAIN g |-> [c \in DOMAIN g[r] |-> <<idx[r], c>>]])
Maxpool2x2Pull(a, g) == Scattered(a, g, <<<<Winner(a)>>>>)

ColumnSums(g) == <<[c \in 1 .. ColCount(g) |-> Total(Column(g, c))]>>
MatmulPull(a, b, g, j) == IF j = 1 THEN MatMul(g, Flipped(b)) ELSE MatMul(Flipped(a), g)
MatmulNtPull(a, w, g, j) == IF j = 1 THEN MatMul(g, w) ELSE MatMul(Flipped(g), a)
AddRowvecPull(g, j) == IF j = 1 THEN g ELSE ColumnSums(g)
ReluPull(a, g) == Like(a, LAMBDA i, c : IF Positive(a[i][c]) THEN g[i][c] ELSE 0)
GeluPull(a, g) ==
    Like(a, LAMBDA i, c :
      LET v == a[i][c]
          t == TanhOf(GeluArg(v))
      IN  g[i][c] * ((Half * (1 + t) + ((Half * v * (1 - t * t)) % Prime) * GeluC * (1 + 3 * GeluK * v * v)) % Prime))
SigmoidPull(y, g) == Like(y, LAMBDA i, c : g[i][c] * y[i][c] * (1 - y[i][c]))
SoftmaxPull(y, g) == Like(y, LAMBDA i, c : y[i][c] * (g[i][c] - Dot(g[i], y[i])))
LayernormPull(a, gamma, g) ==
    Like(a, LAMBDA i, c :
      LET dn == [k \in DOMAIN a[i] |-> (g[i][k] * gamma[1][k]) % Prime]
          n  == Recip(ColCount(a))
          s2 == Total([k \in DOMAIN a[i] |-> dn[k] * Normal(a[i], k)])
      IN  Rstd(a[i]) * ((dn[c] - n * Total(dn) - ((n * s2) % Prime) * Normal(a[i], c)) % Prime))
GammaPull(a, g) == <<[c \in 1 .. ColCount(g) |-> Total([i \in DOMAIN g |-> g[i][c] * Normal(a[i], c)])]>>
ConcatPull(a, g, j) ==
    [i \in DOMAIN g |-> IF j = 1 THEN SubSeq(g[i], 1, ColCount(a)) ELSE SubSeq(g[i], ColCount(a) + 1, ColCount(g))]
MsePull(a, b, s, first) == Scaled(Minus(a, b), 2 * s * Recip(Numel(a)) * (IF first THEN 1 ELSE -1))
CrossEntropyPull(op, a, s) ==
    Like(a, LAMBDA i, c :
      IF i \notin Valid(op) THEN 0
      ELSE s * Recip(Cardinality(Valid(op))) * (SoftmaxRow(a[i])[c] - (IF c = op.arg[i] THEN 1 ELSE 0)))

Pull(op, x, y, g, j) ==
    LET a == x[1]
        b == x[Len(x)]
        s == g[1][1]
    IN  CASE op.k = "matmul"      -> MatmulPull(a, b, g, j)
          [] op.k = "matmul_nt"   -> MatmulNtPull(a, b, g, j)
          [] op.k = "add"         -> g
          [] op.k = "add_rowvec"  -> AddRowvecPull(g, j)
          [] op.k = "mul"         -> Times(g, IF j = 1 THEN b ELSE a)
          [] op.k = "scale"       -> Scaled(g, op.arg)
          [] op.k = "relu"        -> ReluPull(a, g)
          [] op.k = "gelu"        -> GeluPull(a, g)
          [] op.k = "sigmoid"     -> SigmoidPull(y, g)
          [] op.k = "softmax"     -> SoftmaxPull(y, g)
          [] op.k = "layernorm"   -> IF j = 1 THEN LayernormPull(a, x[2], g)
                                     ELSE IF j = 2 THEN GammaPull(a, g) ELSE ColumnSums(g)
          [] op.k = "transpose2d" -> Flipped(g)
          [] op.k = "reshape"     -> Shaped(RowCount(a), ColCount(a), Flat(g))
          [] op.k = "concat"      -> ConcatPull(a, g, j)
          [] op.k = "slice"       -> SlicePull(op.arg, a, g)
          [] op.k = "gather"      -> GatherPull(op.arg, a, g)
          [] op.k = "maxpool2x2"  -> Maxpool2x2Pull(a, g)
          [] op.k = "dropout"     -> Times(g, op.arg)
          [] op.k = "sum"         -> Fill(a, s)
          [] op.k = "mean"        -> Fill(a, s * Recip(Numel(a)))
          [] op.k = "mse"         -> MsePull(a, b, s, op.in[j] = op.in[1])
          [] op.k = "cross_entropy" -> CrossEntropyPull(op, a, s)

-----------------------------------------------------------------------------
(* The tape.  m: the values, which of them want a gradient, the number of the *)
(* buffer of each gradient (0 for none), the buffers, and the nodes.          *)

Leaves(tensors, wants) ==
    [val |-> tensors, rg |-> wants, grad |-> [i \in DOMAIN tensors |-> 0], buf |-> <<>>, tape |-> <<>>]

Inputs(m, op) == Evaluated([i \in DOMAIN op.in |-> m.val[op.in[i]]])
Records(m, op) == op.k = "concat" \/ \E i \in DOMAIN op.in : m.rg[op.in[i]]
Push(m, op) ==
    [m EXCEPT !.val = Append(@, Forward(op, Inputs(m, op))), !.rg = Append(@, TRUE), !.grad = Append(@, 0),
              !.tape = IF Records(m, op) THEN Append(@, [op |-> op, out |-> Len(m.val) + 1]) ELSE @]

NewGrad(m, p, content) == [m EXCEPT !.buf = Append(@, content), !.grad[p] = Len(m.buf) + 1]
AddInto(m, p, d) == [m EXCEPT !.buf[m.grad[p]] = Plus(@, d)]

\* The input an op offers its output's buffer to: the first of an add that wants a
\* gradient and has none yet, the matrix of a bias add.
Aliases_Every(m, node, j) ==
    LET p == node.op.in[j]
    IN  node.op.k \in {"add", "add_rowvec"} /\ m.grad[p] = 0 /\ Numel(m.val[p]) = Numel(m.val[node.out])
Aliases(m, node, j) ==
    LET p == node.op.in[j]
    IN  /\ node.op.k = "add" \/ (node.op.k = "add_rowvec" /\ j = 1)
        /\ \A i \in 1 .. j - 1 : m.grad[node.op.in[i]] # m.grad[node.out]
        /\ m.grad[p] = 0
        /\ Numel(m.val[p]) = Numel(m.val[node.out])

\* Which inputs a closure writes for: concat asks none whether it wants it.
Wanted(m, op, j) == op.k = "concat" \/ m.rg[op.in[j]]
\* The nodes and their order within a closure.
Contribute(m, node, j) ==
    LET op == node.op
        p  == op.in[j]
        d  == Pull(op, Inputs(m, op), m.val[node.out], m.buf[m.grad[node.out]], j)
    IN  IF ~Wanted(m, op, j) \/ (op.k = "cross_entropy" /\ Valid(op) = {}) THEN m
        ELSE IF Aliases(m, node, j) THEN [m EXCEPT !.grad[p] = m.grad[node.out]]
        ELSE IF m.grad[p] = 0 THEN NewGrad(m, p, d)
        ELSE AddInto(m, p, d)
Propagate(m, node) ==
    IF m.grad[node.out] = 0 THEN m
    ELSE FoldLeft(LAMBDA s, j : Contribute(s, node, j), m, [j \in DOMAIN node.op.in |-> j])
Backward(m, loss) ==
    FoldLeft(Propagate, NewGrad(m, loss, Fill(m.val[loss], 1)), Reverse(m.tape))

\* tape_clear between two passes: the values of the pass are gone, the parameters
\* and whatever buffers they hold remain.
Cleared(m, n) ==
    [m EXCEPT !.val = SubSeq(@, 1, n), !.rg = SubSeq(@, 1, n), !.grad = SubSeq(@, 1, n), !.tape = <<>>]

-----------------------------------------------------------------------------
(* AdamW, over the parameters ps.  clip_grad_norm multiplies by k.            *)

InPlace(m, ps, change(_)) ==
    FoldLeft(LAMBDA s, p : IF s.grad[p] = 0 THEN s ELSE [s EXCEPT !.buf[s.grad[p]] = change(@)], m, ps)
ZeroGrad(m, ps) == InPlace(m, ps, LAMBDA g : Fill(g, 0))
ClipGradNorm(m, ps, k) == InPlace(m, ps, LAMBDA g : Scaled(g, k))

Power(x, n) == LET p[k \in 0 .. n] == IF k = 0 THEN 1 ELSE (x * p[k - 1]) % Prime IN p[n]
Slots(m, ps) == [p \in ToSet(ps) |-> [m |-> Fill(m.val[p], 0), v |-> Fill(m.val[p], 0)]]
Moments(slot, g) ==
    [m |-> Like(g, LAMBDA i, j : Beta1 * slot.m[i][j] + (1 - Beta1) * g[i][j]),
     v |-> Like(g, LAMBDA i, j : Beta2 * slot.v[i][j] + (1 - Beta2) * ((g[i][j] * g[i][j]) % Prime))]
Updated(w, slot, t, decays) ==
    LET bc1 == Recip(1 - Power(Beta1, t))
        bc2 == Recip(1 - Power(Beta2, t))
    IN  Like(w, LAMBDA i, j :
               w[i][j] - LearningRate * ((slot.m[i][j] * bc1) % Prime) * Recip(RootOf((slot.v[i][j] * bc2) % Prime) + Epsilon)
                       - (IF decays THEN Decay ELSE 0) * w[i][j])
\* o: [m, slots, t].  A parameter without a gradient is passed over.
Step(o, ps, decays(_)) ==
    LET moved == {p \in ToSet(ps) : o.m.grad[p] # 0}
        slots == [p \in ToSet(ps) |->
                    IF p \in moved THEN Moments(o.slots[p], o.m.buf[o.m.grad[p]]) ELSE o.slots[p]]
    IN  [m |-> [o.m EXCEPT !.val = [p \in DOMAIN @ |->
                  IF p \in moved THEN Updated(@[p], slots[p], o.t + 1, decays(p)) ELSE @[p]]],
         slots |-> slots, t |-> o.t + 1]

-----------------------------------------------------------------------------
(* The reference: the change of each op's output for changes dx of its inputs. *)

SoftmaxTangent(row, d) ==
    LET y == SoftmaxRow(row) IN Evaluated([j \in DOMAIN row |-> (y[j] * (d[j] - Dot(y, d))) % Prime])
Tangent(op, x, dx) ==
    LET a == x[1]
        b == x[Len(x)]
        da == dx[1]
        db == dx[Len(dx)]
    IN  CASE op.k = "matmul" -> Plus(MatMul(da, b), MatMul(a, db))
          [] op.k = "matmul_nt" -> Plus(MatMul(da, Flipped(b)), MatMul(a, Flipped(db)))
          [] op.k = "mul" -> Plus(Times(da, b), Times(a, db))
          [] op.k = "relu" -> Like(a, LAMBDA i, j : IF Positive(a[i][j]) THEN da[i][j] ELSE 0)
          [] op.k = "gelu" ->
               Like(a, LAMBDA i, j :
                 LET t  == TanhOf(GeluArg(a[i][j]))
                     du == (GeluC * (da[i][j] + ((3 * GeluK * a[i][j] * a[i][j]) % Prime) * da[i][j])) % Prime
                 IN  Half * (da[i][j] * (1 + t) + a[i][j] * (((1 - t * t) * du) % Prime)))
          [] op.k = "sigmoid" -> Like(a, LAMBDA i, j : SigmoidOf(a[i][j]) * (1 - SigmoidOf(a[i][j])) * da[i][j])
          [] op.k = "softmax" -> [i \in DOMAIN a |-> SoftmaxTangent(a[i], da[i])]
          [] op.k = "layernorm" ->
               Like(a, LAMBDA i, j :
                 LET row == a[i]
                     r   == Rstd(row)
                     dm  == Mean(da[i]) % Prime
                     dv  == Total([k \in DOMAIN row |-> 2 * (row[k] - Mean(row)) * (da[i][k] - dm)]) * Recip(Len(row))
                     dr  == (-Half * ((r * r * r) % Prime) * (dv % Prime)) % Prime
                     dn  == ((da[i][j] - dm) * r + ((row[j] - Mean(row)) % Prime) * dr) % Prime
                 IN  dn * x[2][1][j] + Normal(row, j) * dx[2][1][j] + db[1][j])
          [] op.k = "maxpool2x2" -> <<<<da[Winner(a)[1]][Winner(a)[2]]>>>>
          [] op.k = "mse" -> <<<<(2 * Dot(Flat(Minus(a, b)), Flat(Minus(da, db))) * Recip(Numel(a))) % Prime>>>>
          [] op.k = "cross_entropy" ->
               <<<<(Total([i \in DOMAIN a |->
                     IF i \notin Valid(op) THEN 0
                     ELSE Dot(SoftmaxRow(a[i]), da[i]) - da[i][op.arg[i]]]) * Recip(Cardinality(Valid(op)))) % Prime>>>>
          [] OTHER -> Forward(op, dx)      \* the op is linear

RunOps(m, ops) == FoldLeft(Push, m, ops)
RateOfChange(m, ops, final, p, k) ==
    LET start == [i \in DOMAIN m.val |-> IF i = p THEN Unit(m.val[i], k) ELSE Fill(m.val[i], 0)]
        tangents == FoldLeft(LAMBDA ts, op :
                      Append(ts, Tangent(op, Inputs(final, op), Evaluated([i \in DOMAIN op.in |-> ts[op.in[i]]]))), start, ops)
    IN  Last(tangents)[1][1]
Gradient(m, ops, p) ==
    LET final == RunOps(m, ops)
    IN  Shaped(RowCount(m.val[p]), ColCount(m.val[p]),
               Evaluated([k \in 1 .. Numel(m.val[p]) |-> RateOfChange(m, ops, final, p, k)]))

\* The values the loss, value n + Len(ops), depends on.
Reached(ops, n) ==
    FoldLeft(LAMBDA s, i : IF n + i \in s THEN s \cup ToSet(ops[i].in) ELSE s,
             {n + Len(ops)}, Reverse([i \in DOMAIN ops |-> i]))
GradOf(m, p) == IF m.grad[p] = 0 THEN Fill(m.val[p], 0) ELSE m.buf[m.grad[p]]
Pass(m, ops) == LET f == RunOps(m, ops) IN Backward(f, Len(f.val))

\* One optimiser step of two micro-batches, twice, against the same from the
\* forward derivatives: the gradients of the two add up, are scaled once, moved
\* by once, and begin again at zero.
TrainingExact(m, ops) ==
    LET n  == Len(m.val)
        ps == SelectSeq([i \in 1 .. n |-> i], LAMBDA i : m.rg[i])
        decays(p) == p = 1
        step(o) == LET zero  == [o EXCEPT !.m = ZeroGrad(@, ps)]
                       one   == Cleared(Pass(zero.m, ops), n)
                       two   == Cleared(Pass(one, ops), n)
                   IN  Step([zero EXCEPT !.m = ClipGradNorm(two, ps, 6)], ps, decays)
        ref(o)  == LET g     == [p \in ToSet(ps) |-> Scaled(Gradient(o.m, ops, p), 12)]
                       slots == [p \in ToSet(ps) |-> Moments(o.slots[p], g[p])]
                   IN  [m |-> [o.m EXCEPT !.val = [p \in DOMAIN @ |->
                                 IF p \in ToSet(ps) \cap Reached(ops, n) THEN Updated(@[p], slots[p], o.t + 1, decays(p)) ELSE @[p]]],
                        slots |-> slots, t |-> o.t + 1]
        begin == [m |-> m, slots |-> Slots(m, ps), t |-> 0]
    IN  step(step(begin)).m.val = ref(ref(begin)).m.val

\* After one pass every parameter's gradient is the derivative of the loss.
GradientsOf(m, ops) ==
    LET after == Pass(m, ops)
    IN  \A p \in DOMAIN m.val : m.rg[p] => GradOf(after, p) = Gradient(m, ops, p)
=============================================================================
