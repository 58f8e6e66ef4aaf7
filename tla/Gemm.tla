---------------------------------- MODULE Gemm ----------------------------------
(***************************************************************************)
(* The matrix products of tensormark/train_engine.h and autograd.h and the  *)
(* way they are divided among the threads.  A product is a family of parts, *)
(* one per task; a part maps each index of C it writes to the products it   *)
(* adds up, in order, as pairs <<index in A, index in B>>.  So a part that  *)
(* writes outside C, an element written twice or left out, a wrong stride   *)
(* and a changed order of summation all show.  Product is the reference.    *)
(***************************************************************************)
EXTENDS Chunks, Sequences, SequencesExt

CONSTANTS Threads,      (* nchunk()                                         *)
          Tiny,         (* TM_TINY_GEMM                                     *)
          SplitM, SplitN, SplitK, SmallC, (* split thresholds, and the 4096 of psgemm_nn_k *)
          ParFlops      (* tm_gemm_par_threshold()                          *)

\* cblas_sgemm, row-major: op(A) op(B) into C, with the offsets and the leading
\* dimensions the caller passes.
Blas(d, transA, transB, a, b, c) ==
    [i \in {c.at + m * c.ld + n : m \in 0 .. d.M - 1, n \in 0 .. d.N - 1} |->
        LET m == (i - c.at) \div c.ld
            n == (i - c.at) % c.ld
        IN  [k \in 1 .. d.K |->
               <<a.at + (IF transA THEN (k - 1) * a.ld + m ELSE m * a.ld + k - 1),
                 b.at + (IF transB THEN n * b.ld + k - 1 ELSE (k - 1) * b.ld + n)>>]]
Dims(M, N, K) == [M |-> M, N |-> N, K |-> K]
View(at, ld) == [at |-> at, ld |-> ld]

TinyNn(M, N, K) == Blas(Dims(M, N, K), FALSE, FALSE, View(0, K), View(0, N), View(0, N))
TinyNt(M, N, K, ldc) == Blas(Dims(M, N, K), FALSE, TRUE, View(0, K), View(0, K), View(0, ldc))

\* Blocks of 4 x 4, the columns left over of each block row, and the rows left over.
TinyTn(M, N, K) ==
    LET rowsAt == {4 * i : i \in 0 .. M \div 4 - 1}
        m0 == M - (M % 4)
        n0 == N - (N % 4)
    IN  [at \in (rowsAt \cup {m0}) \X {4 * j : j \in 0 .. N \div 4} |->
            LET m == at[1]
                n == at[2]
                rows == IF m = m0 THEN M % 4 ELSE 4
                cols == IF m = m0 THEN (IF n = 0 THEN N ELSE 0) ELSE IF n = n0 THEN N % 4 ELSE 4
            IN  Blas(Dims(rows, cols, K), TRUE, FALSE, View(m, M), View(n, N), View(m * N + n, N))]

Tasks == 0 .. Threads - 1

PsgemmNnM(M, N, K) ==
    IF M * N * K < Tiny THEN <<TinyNn(M, N, K)>>
    ELSE IF M * N * K < SplitM \/ M < Threads * 2
    THEN <<Blas(Dims(M, N, K), FALSE, FALSE, View(0, K), View(0, N), View(0, N))>>
    ELSE [b \in Tasks |->
            LET s == Share(M, Threads, b)
            IN  Blas(Dims(s.hi - s.lo, N, K), FALSE, FALSE, View(s.lo * K, K), View(0, N), View(s.lo * N, N))]

PsgemmNt(M, N, K, ldc) ==
    IF M * N * K < Tiny THEN <<TinyNt(M, N, K, ldc)>>
    ELSE IF M * N * K < SplitN \/ N < Threads * 2
    THEN <<Blas(Dims(M, N, K), FALSE, TRUE, View(0, K), View(0, K), View(0, ldc))>>
    ELSE [b \in Tasks |->
            LET s == Share(N, Threads, b)
            IN  Blas(Dims(M, s.hi - s.lo, K), FALSE, TRUE, View(0, K), View(s.lo * K, K), View(s.lo, ldc))]

PsgemmTn(M, N, K) ==
    IF M * N * K < Tiny THEN TinyTn(M, N, K)
    ELSE IF M * N * K < SplitM \/ M < Threads * 2
    THEN <<Blas(Dims(M, N, K), TRUE, FALSE, View(0, M), View(0, N), View(0, N))>>
    ELSE [b \in Tasks |->
            LET s == Share(M, Threads, b)
            IN  Blas(Dims(s.hi - s.lo, N, K), TRUE, FALSE, View(s.lo, M), View(0, N), View(s.lo * N, N))]

\* The reduction over K: a partial product per task, added up per element in the
\* order of the tasks, the elements in chunks.
PsgemmNnK(M, N, K) ==
    IF M * N * K < SplitK \/ K < Threads * 4 \/ M * N < SmallC
    THEN <<Blas(Dims(M, N, K), FALSE, FALSE, View(0, K), View(0, N), View(0, N))>>
    ELSE LET partial == [b \in Tasks |->
                           LET s == Share(K, Threads, b)
                           IN  Blas(Dims(M, N, s.hi - s.lo), FALSE, FALSE, View(s.lo, K), View(s.lo * N, N), View(0, N))]
             chunks == ParChunks(M * N, AtLeast1((M * N) \div (2 * Threads)))
         IN  [c \in DOMAIN chunks |->
                [i \in chunks[c].lo .. chunks[c].hi - 1 |-> FlattenSeq([b \in 1 .. Threads |-> partial[b - 1][i]])]]

\* autograd.h's NT product, divided over the longer of M and N.
TmGemmNt_ShareOfN(M, N, K, ldc) ==
    [b \in Tasks |->
        LET s == Share(N, Threads, b)
        IN  Blas(Dims(s.hi - s.lo, N, K), FALSE, TRUE, View(s.lo * K, K), View(0, K), View(s.lo * ldc, ldc))]
TmGemmNt(M, N, K, ldc) ==
    LET whole == Blas(Dims(M, N, K), FALSE, TRUE, View(0, K), View(0, K), View(0, ldc))
    IN  IF M * N * K < ParFlops THEN <<whole>>
        ELSE IF N >= M THEN PsgemmNt(M, N, K, ldc)
        ELSE IF M < Threads * 2 THEN <<whole>>
        ELSE [b \in Tasks |->
                LET s == Share(M, Threads, b)
                IN  Blas(Dims(s.hi - s.lo, N, K), FALSE, TRUE, View(s.lo * K, K), View(0, K), View(s.lo * ldc, ldc))]

-----------------------------------------------------------------------------
(* What the parts give together, and what they must give.                     *)

Disjoint(parts) == \A s, t \in DOMAIN parts : s = t \/ DOMAIN parts[s] \cap DOMAIN parts[t] = {}
Merged(parts) ==
    [i \in UNION {DOMAIN parts[t] : t \in DOMAIN parts} |->
        parts[CHOOSE t \in DOMAIN parts : i \in DOMAIN parts[t]][i]]

Product(M, N, K, transA, transB) ==
    [i \in 0 .. M * N - 1 |->
        [k \in 1 .. K |-> <<IF transA THEN (k - 1) * M + (i \div N) ELSE (i \div N) * K + k - 1,
                            IF transB THEN (i % N) * K + k - 1 ELSE (k - 1) * N + (i % N)>>]]

Computes(parts, product) == Disjoint(parts) /\ Merged(parts) = product

ProductsExact(M, N, K) ==
    /\ Computes(PsgemmNnM(M, N, K), Product(M, N, K, FALSE, FALSE))
    /\ Computes(PsgemmTn(M, N, K), Product(M, N, K, TRUE, FALSE))
    /\ Computes(PsgemmNnK(M, N, K), Product(M, N, K, FALSE, FALSE))
    /\ Computes(PsgemmNt(M, N, K, N), Product(M, N, K, FALSE, TRUE))
    /\ Computes(TmGemmNt(M, N, K, N), Product(M, N, K, FALSE, TRUE))
    \* into a wider C the columns past N stay as they are
    /\ \A parts \in {PsgemmNt(M, N, K, N + 1), TmGemmNt(M, N, K, N + 1)} :
         /\ Disjoint(parts)
         /\ DOMAIN Merged(parts) = {i \in 0 .. M * (N + 1) - 1 : i % (N + 1) < N}
         /\ \A i \in DOMAIN Merged(parts) :
              Merged(parts)[i] = Product(M, N, K, FALSE, TRUE)[(i \div (N + 1)) * N + (i % (N + 1))]
=============================================================================
