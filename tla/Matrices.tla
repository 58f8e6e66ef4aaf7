-------------------------------- MODULE Matrices --------------------------------
(***************************************************************************)
(* The numbers the training code is checked over: matrices (sequences of    *)
(* rows) of integers modulo a prime, where a product, a mean and a quotient *)
(* are exact.  A float32 kernel is checked for the products it sums and the *)
(* places it puts them, not for its rounding.  A transcendental function is *)
(* some fixed function of the field; what the kernels may use of it is the  *)
(* rule of its derivative.                                                  *)
(***************************************************************************)
EXTENDS Integers, Sequences

CONSTANT Prime

Recips == [x \in 0 .. Prime - 1 |->
             IF x = 0 THEN 0 ELSE CHOOSE y \in 1 .. Prime - 1 : (x * y) % Prime = 1]
Recip(x) == Recips[x % Prime]
Half == Recip(2)
Signed(x) == IF x > Prime \div 2 THEN x - Prime ELSE x
Positive(x) == Signed(x) > 0

ExpOf(x) == 1 + (((x % Prime) * 7 + 3) % (Prime - 1))     \* never 0
TanhOf(x) == (x * x * 3 + 5) % Prime
SigmoidOf(x) == (x * x * 5 + x + 2) % Prime
RootOf(x) == 1 + ((x * 11 + 4) % (Prime - 1))

Total(s) == LET t[k \in 0 .. Len(s)] == IF k = 0 THEN 0 ELSE (t[k - 1] + s[k]) % Prime
            IN  t[Len(s)]
Dot(a, b) == Total([k \in DOMAIN a |-> a[k] * b[k]])

RowCount(a) == Len(a)
ColCount(a) == Len(a[1])
Numel(a) == RowCount(a) * ColCount(a)
SameShape(a, b) == RowCount(a) = RowCount(b) /\ ColCount(a) = ColCount(b)

\* The sequence itself; TLC evaluates its elements here, once.
Evaluated(s) == s \o <<>>
Build(rows, cols, at(_, _)) ==
    Evaluated([i \in 1 .. rows |-> Evaluated([j \in 1 .. cols |-> at(i, j) % Prime])])
Like(a, at(_, _)) == Build(RowCount(a), ColCount(a), at)
Fill(a, x) == Like(a, LAMBDA i, j : x)
Plus(a, b) == Like(a, LAMBDA i, j : a[i][j] + b[i][j])
Minus(a, b) == Like(a, LAMBDA i, j : a[i][j] - b[i][j])
Times(a, b) == Like(a, LAMBDA i, j : a[i][j] * b[i][j])
Scaled(a, x) == Like(a, LAMBDA i, j : a[i][j] * x)
Column(a, j) == Evaluated([i \in DOMAIN a |-> a[i][j]])
Flipped(a) == Build(ColCount(a), RowCount(a), LAMBDA i, j : a[j][i])
MatMul(a, b) == Build(RowCount(a), ColCount(b), LAMBDA i, j : Dot(a[i], Column(b, j)))
Flat(a) == Evaluated([k \in 1 .. Numel(a) |-> a[((k - 1) \div ColCount(a)) + 1][((k - 1) % ColCount(a)) + 1]])
Shaped(rows, cols, s) == Build(rows, cols, LAMBDA i, j : s[((i - 1) * cols) + j])
Unit(a, k) == Shaped(RowCount(a), ColCount(a), [i \in 1 .. Numel(a) |-> IF i = k THEN 1 ELSE 0])

\* Head s of the tensors of attention.h and kda.h: (batch * time) rows, the heads
\* side by side in the columns, and the same with one head replaced.
HeadRow(d, s) == (s \div d.H) * d.T
HeadCol(d, s) == (s % d.H) * d.dh
HeadOf(x, d, s) == Build(d.T, d.dh, LAMBDA i, j : x[HeadRow(d, s) + i][HeadCol(d, s) + j])
WithHead(x, d, s, h) ==
    Like(x, LAMBDA i, j :
        IF i - HeadRow(d, s) \in 1 .. d.T /\ j - HeadCol(d, s) \in 1 .. d.dh
        THEN h[i - HeadRow(d, s)][j - HeadCol(d, s)] ELSE x[i][j])
Rows(x, lo, hi) == SubSeq(x, lo + 1, hi)      \* rows [lo, hi), counted from 0
Outer(a, b) == Build(Len(a), Len(b), LAMBDA i, j : a[i] * b[j])
=============================================================================
