------------------------------ MODULE KernelProofs ------------------------------
(* Theorems about Chunks, Gemm and Conv, for any sizes, shapes and thresholds      *)
(* and any number of threads: a kernel of the training engine that is divided by   *)
(* one of the rules of Chunks does every unit of its work once; the parts of each  *)
(* matrix product make up the product; and the convolutions, their paddings and    *)
(* their gradients, through im2col and col2im or around them, are the reference's. *)
EXTENDS Conv, InductionLemmas

-------------------------------------------------------------------------------
(* Whole numbers. *)

\* A quotient is the largest number whose multiple still fits.
LEMMA Quotient ==
    ASSUME NEW a \in Nat, NEW b \in Nat \ {0}
    PROVE  /\ a \div b \in Nat
           /\ b * (a \div b) <= a /\ a < b * (a \div b) + b
  OBVIOUS

\* Factors other than zero keep an order.
LEMMA ProductOrder ==
    ASSUME NEW b \in Nat, NEW x \in Nat, NEW y \in Nat, x <= y
    PROVE  b * x <= b * y
  OBVIOUS

\* What has the smaller multiple is smaller.
LEMMA ProductBelow ==
    ASSUME NEW b \in Nat, NEW x \in Nat, NEW y \in Nat, b * x < b * y
    PROVE  x < y
<1>1. ASSUME y <= x PROVE FALSE
  <2>1. b * y <= b * x
    BY <1>1, ProductOrder
  <2>2. QED
    BY <2>1
<1>2. QED
  BY <1>1

\* A number is below a quotient by the multiple it would have.
LEMMA BelowQuotient ==
    ASSUME NEW a \in Nat, NEW b \in Nat \ {0}, NEW i \in Nat
    PROVE  i < a \div b <=> b * (i + 1) <= a
<1> DEFINE q == a \div b
<1>1. q \in Nat /\ b * q <= a /\ a < b * q + b
  BY Quotient
<1> HIDE DEF q
<1>2. b * (q + 1) = b * q + b
  BY <1>1
<1>3. ASSUME i < q PROVE b * (i + 1) <= a
  <2>1. b * (i + 1) <= b * q
    BY <1>1, <1>3, ProductOrder
  <2>2. QED
    BY <1>1, <2>1
<1>4. ASSUME b * (i + 1) <= a PROVE i < q
  <2>1. b * (i + 1) < b * (q + 1)
    BY <1>1, <1>2, <1>4
  <2>2. i + 1 < q + 1
    BY <1>1, <2>1, ProductBelow
  <2>3. QED
    BY <1>1, <2>2
<1>5. QED
  BY <1>3, <1>4 DEF q

\* A quotient that meets its defining bounds is the quotient.
LEMMA QuotientIs ==
    ASSUME NEW a \in Nat, NEW b \in Nat \ {0}, NEW q \in Nat, b * q <= a, a < b * q + b
    PROVE  a \div b = q
<1> DEFINE d == a \div b
<1>1. d \in Nat /\ b * d <= a /\ a < b * d + b
  BY Quotient
<1> HIDE DEF d
<1>2. b * (d + 1) = b * d + b /\ b * (q + 1) = b * q + b
  BY <1>1
<1>3. b * d < b * (q + 1) /\ b * q < b * (d + 1)
  BY <1>1, <1>2
<1>4. d < q + 1 /\ q < d + 1
  BY <1>1, <1>3, ProductBelow
<1>5. QED
  BY <1>1, <1>4 DEF d

\* The quotient rounded up is the least number whose multiple is enough.
LEMMA CeilDivIs ==
    ASSUME NEW a \in Nat, NEW b \in Nat \ {0}
    PROVE  /\ CeilDiv(a, b) \in Nat /\ a <= b * CeilDiv(a, b)
           /\ \A k \in Nat : k < CeilDiv(a, b) <=> b * k < a
<1> DEFINE q == (a + b - 1) \div b
<1>1. a + b - 1 \in Nat
  OBVIOUS
<1>2. q \in Nat /\ b * q <= a + b - 1 /\ a + b - 1 < b * q + b
  BY <1>1, Quotient
<1>3. \A k \in Nat : k < q <=> b * (k + 1) <= a + b - 1
  BY <1>1, BelowQuotient
<1> HIDE DEF q
<1>4. \A k \in Nat : b * (k + 1) = b * k + b /\ b * k \in Nat
  OBVIOUS
<1>5. q = CeilDiv(a, b)
  BY DEF CeilDiv, q
<1>6. a <= b * q
  BY <1>2
<1>7. \A k \in Nat : k < q <=> b * k < a
  BY <1>3, <1>4
<1>8. QED
  BY <1>2, <1>5, <1>6, <1>7

-------------------------------------------------------------------------------
(* Every unit of the work once. *)

\* The units of a task.
Units(task) == task.lo .. task.hi - 1

\* Each of n units belongs to one task, and no task goes beyond the work.
EachOnce(n, tasks) ==
    /\ \A b \in DOMAIN tasks : Units(tasks[b]) \subseteq 0 .. n - 1
    /\ \A i \in 0 .. n - 1 : \E b \in DOMAIN tasks :
          i \in Units(tasks[b]) /\ \A a \in DOMAIN tasks : i \in Units(tasks[a]) => a = b

Shares(n, parts) == [b \in 0 .. parts - 1 |-> Share(n, parts, b)]

\* A unit is in a share as it is between the share's exact ends.
LEMMA InShare ==
    ASSUME NEW n \in Nat, NEW parts \in Nat \ {0}, NEW b \in Nat, NEW i \in Nat
    PROVE  i \in Units(Share(n, parts, b)) <=>
             n * b < parts * (i + 1) /\ parts * (i + 1) <= n * (b + 1)
<1> DEFINE lo == (n * b) \div parts
           hi == (n * (b + 1)) \div parts
<1>1. n * b \in Nat /\ n * (b + 1) \in Nat /\ parts * (i + 1) \in Nat
  OBVIOUS
<1>2. i < lo <=> parts * (i + 1) <= n * b
  BY <1>1, BelowQuotient
<1>3. i < hi <=> parts * (i + 1) <= n * (b + 1)
  BY <1>1, BelowQuotient
<1>4. lo \in Nat /\ hi \in Nat
  BY <1>1, Quotient
<1>5. Share(n, parts, b).lo = lo /\ Share(n, parts, b).hi = hi
  BY DEF Share
<1> HIDE DEF lo, hi
<1>6. i \in Units(Share(n, parts, b)) <=> lo <= i /\ i < hi
  BY <1>4, <1>5 DEF Units
<1>7. QED
  BY <1>1, <1>2, <1>3, <1>4, <1>6

\* train_engine.h (psgemm_*): the shares of a product's rows or columns, M * b / nchunk to
\* M * (b + 1) / nchunk, are the rows or columns once each, also when the division leaves
\* a rest or there are fewer of them than threads.
THEOREM SharesCover ==
    \A n \in Nat : \A parts \in Nat \ {0} : EachOnce(n, Shares(n, parts))
<1> SUFFICES ASSUME NEW n \in Nat, NEW parts \in Nat \ {0}
             PROVE  EachOnce(n, Shares(n, parts))
  OBVIOUS
<1>1. DOMAIN Shares(n, parts) = 0 .. parts - 1
  BY DEF Shares
<1>2. \A b \in 0 .. parts - 1 : Shares(n, parts)[b] = Share(n, parts, b)
  BY DEF Shares
<1>3. ASSUME NEW b \in 0 .. parts - 1
      PROVE  Units(Share(n, parts, b)) \subseteq 0 .. n - 1
  <2> DEFINE lo == Share(n, parts, b).lo
             hi == Share(n, parts, b).hi
  <2>1. b \in Nat /\ b + 1 <= parts
    OBVIOUS
  <2>2. n * b \in Nat /\ n * (b + 1) \in Nat /\ n * (b + 1) <= n * parts /\ n * parts = parts * n
    BY <2>1, ProductOrder
  <2>3. lo \in Nat /\ hi \in Nat /\ parts * hi <= n * (b + 1)
    BY <2>1, <2>2, Quotient DEF Share
  <2> HIDE DEF lo, hi
  <2>4. parts * hi < parts * (n + 1)
    BY <2>2, <2>3
  <2>5. hi < n + 1
    BY <2>3, <2>4, ProductBelow
  <2>6. QED
    BY <2>3, <2>5 DEF Units, lo, hi
<1>4. ASSUME NEW i \in 0 .. n - 1
      PROVE  \E b \in 0 .. parts - 1 :
               /\ i \in Units(Share(n, parts, b))
               /\ \A a \in 0 .. parts - 1 : i \in Units(Share(n, parts, a)) => a = b
  <2> DEFINE unit == parts * (i + 1)
             b == (unit - 1) \div n
  <2>1. n \in Nat \ {0} /\ i \in Nat /\ i + 1 <= n
    OBVIOUS
  <2>2. unit \in Nat /\ unit >= 1 /\ unit - 1 \in Nat
    BY <2>1
  <2>3. b \in Nat /\ n * b <= unit - 1 /\ unit - 1 < n * b + n
    BY <2>1, <2>2, Quotient
  <2>4. unit <= parts * n /\ parts * n = n * parts
    BY <2>1, ProductOrder
  <2> HIDE DEF b
  <2>5. n * b < unit /\ unit <= n * (b + 1)
    <3> HIDE DEF unit
    <3>1. n * (b + 1) = n * b + n
      BY <2>1, <2>3
    <3>2. QED
      BY <2>1, <2>2, <2>3, <3>1
  <2>6. b < parts
    <3> HIDE DEF unit
    <3>1. n * b < n * parts
      BY <2>1, <2>2, <2>3, <2>4, <2>5
    <3>2. QED
      BY <2>1, <2>3, <3>1, ProductBelow
  <2>7. i \in Units(Share(n, parts, b))
    BY <2>1, <2>3, <2>5, InShare
  <2>8. ASSUME NEW a \in 0 .. parts - 1, i \in Units(Share(n, parts, a))
        PROVE  a = b
    <3>1. n * a < unit /\ unit <= n * (a + 1)
      BY <2>1, <2>8, InShare
    <3> HIDE DEF unit
    <3>2. n * a < n * (b + 1) /\ n * b < n * (a + 1)
      BY <2>1, <2>2, <2>3, <2>5, <3>1
    <3>3. a < b + 1 /\ b < a + 1
      BY <2>1, <2>3, <3>2, ProductBelow
    <3>4. QED
      BY <2>3, <3>3
  <2>9. QED
    BY <2>3, <2>6, <2>7, <2>8
<1>5. QED
  BY <1>1, <1>2, <1>3, <1>4 DEF EachOnce

\* A chunk that is not cut off by the end of the work, or is.
LEMMA InChunk ==
    ASSUME NEW n \in Nat, NEW chunk \in Nat \ {0}, NEW b \in Nat, NEW i \in 0 .. n - 1, chunk < n,
           b \in DOMAIN ParChunks(n, chunk)
    PROVE  i \in Units(ParChunks(n, chunk)[b]) <=> b = i \div chunk
<1> DEFINE part == ParChunks(n, chunk)[b]
           q == i \div chunk
<1>1. part = [lo |-> b * chunk, hi |-> IF (b + 1) * chunk < n THEN (b + 1) * chunk ELSE n]
  BY DEF ParChunks
<1>2. /\ b * chunk = chunk * b /\ (b + 1) * chunk = chunk * b + chunk /\ chunk * b \in Nat
      /\ chunk * (b + 1) = chunk * b + chunk
  OBVIOUS
<1>3. i \in Units(part) <=> chunk * b <= i /\ i < chunk * b + chunk
  BY <1>1, <1>2 DEF Units
<1>4. i \in Nat /\ q \in Nat /\ chunk * q <= i /\ i < chunk * q + chunk
  BY Quotient
<1> HIDE DEF part, q
<1>5. ASSUME b = q PROVE i \in Units(part)
  BY <1>3, <1>4, <1>5
<1>6. ASSUME i \in Units(part) PROVE b = q
  BY <1>2, <1>3, <1>4, <1>6, QuotientIs DEF q
<1>7. QED
  BY <1>5, <1>6 DEF part, q

\* The chunks of a divided work are numbered from 0 to its size over theirs.
LEMMA ChunkNumbers ==
    ASSUME NEW n \in Nat, NEW chunk \in Nat \ {0}
    PROVE  /\ n <= chunk => ParChunks(n, chunk) = [b \in 0 .. 0 |-> [lo |-> 0, hi |-> n]]
           /\ chunk < n => \A b : b \in DOMAIN ParChunks(n, chunk) <=> b \in Nat /\ chunk * b < n
<1>1. ASSUME n <= chunk
      PROVE  ParChunks(n, chunk) = [b \in 0 .. 0 |-> [lo |-> 0, hi |-> n]]
  BY <1>1 DEF ParChunks
<1>2. ASSUME chunk < n, NEW b
      PROVE  b \in DOMAIN ParChunks(n, chunk) <=> b \in Nat /\ chunk * b < n
  <2>1. /\ CeilDiv(n, chunk) \in Nat
        /\ \A k \in Nat : k < CeilDiv(n, chunk) <=> chunk * k < n
    BY CeilDivIs
  <2>2. DOMAIN ParChunks(n, chunk) = 0 .. CeilDiv(n, chunk) - 1
    BY <1>2 DEF ParChunks
  <2>3. b \in 0 .. CeilDiv(n, chunk) - 1 <=> b \in Nat /\ b < CeilDiv(n, chunk)
    BY <2>1
  <2>4. QED
    BY <2>1, <2>2, <2>3
<1>3. QED
  BY <1>1, <1>2

\* train_engine.h (par_chunks): the calls body(b * chunk, min(n, (b + 1) * chunk)) are the n
\* units once each, for every amount of work and every size of a chunk.
THEOREM ParChunksCover ==
    \A n \in Nat : \A chunk \in Nat \ {0} : EachOnce(n, ParChunks(n, chunk))
<1> SUFFICES ASSUME NEW n \in Nat, NEW chunk \in Nat \ {0}
             PROVE  EachOnce(n, ParChunks(n, chunk))
  OBVIOUS
<1> DEFINE parts == ParChunks(n, chunk)
<1>1. CASE n <= chunk
  <2>1. parts = [b \in 0 .. 0 |-> [lo |-> 0, hi |-> n]]
    BY <1>1, ChunkNumbers
  <2> HIDE DEF parts
  <2>2. DOMAIN parts = {0} /\ Units(parts[0]) = 0 .. n - 1
    BY <2>1 DEF Units
  <2>3. QED
    BY <2>2, Zenon DEF EachOnce, parts
<1>2. CASE chunk < n
  <2>1. \A b : b \in DOMAIN parts <=> b \in Nat /\ chunk * b < n
    BY <1>2, ChunkNumbers
  <2>2. ASSUME NEW b \in DOMAIN parts
        PROVE  Units(parts[b]) \subseteq 0 .. n - 1
    <3>1. parts[b] = [lo |-> b * chunk, hi |-> IF (b + 1) * chunk < n THEN (b + 1) * chunk ELSE n]
      BY <1>2 DEF ParChunks
    <3>2. b \in Nat
      BY <2>1
    <3>3. b * chunk \in Nat /\ (b + 1) * chunk \in Nat
      BY <3>2
    <3> HIDE DEF parts
    <3>4. QED
      BY <3>1, <3>3 DEF Units
  <2>3. ASSUME NEW i \in 0 .. n - 1
        PROVE  \E b \in DOMAIN parts :
                 i \in Units(parts[b]) /\ \A a \in DOMAIN parts : i \in Units(parts[a]) => a = b
    <3> DEFINE b == i \div chunk
    <3>1. b \in Nat /\ chunk * b <= i
      BY Quotient
    <3> HIDE DEF b
    <3>2. b \in DOMAIN parts
      BY <2>1, <3>1
    <3>3. \A a \in DOMAIN parts : i \in Units(parts[a]) <=> a = b
      BY <1>2, <2>1, InChunk DEF b
    <3>4. QED
      BY <3>2, <3>3
  <2>4. QED
    BY <2>2, <2>3 DEF EachOnce
<1>3. QED
  BY <1>1, <1>2

\* autograd.h (layernorm, tm_sum_range): when every thread has a chunk and every chunk a slot
\* for its partial result, the slot r0 / chunk, no two chunks share one, the slots are the
\* ceil(n / chunk) that layernorm allocates, and those are no more than the threads, which
\* is what tm_sum_range allocates.
THEOREM SlotForEachChunk ==
    \A n \in Nat \ {0} : \A threads \in Nat \ {0} :
        LET slots == CeilDiv(n, PerThread(n, threads))
        IN  SlotsExact(n, threads, slots) /\ slots <= threads
<1> SUFFICES ASSUME NEW n \in Nat \ {0}, NEW threads \in Nat \ {0}
             PROVE  LET slots == CeilDiv(n, PerThread(n, threads))
                    IN  SlotsExact(n, threads, slots) /\ slots <= threads
  OBVIOUS
<1> DEFINE size == PerThread(n, threads)
           slots == CeilDiv(n, size)
           parts == ParChunks(n, size)
<1>1. size \in Nat \ {0} /\ n <= threads * size
  <2>1. CeilDiv(n, threads) \in Nat /\ n <= threads * CeilDiv(n, threads)
    BY CeilDivIs
  <2>2. CeilDiv(n, threads) # 0
    BY <2>1
  <2>3. size = CeilDiv(n, threads)
    BY <2>1, <2>2 DEF PerThread, AtLeast1
  <2>4. QED
    BY <2>1, <2>2, <2>3
<1> HIDE DEF size
<1>2. /\ slots \in Nat /\ n <= size * slots
      /\ \A k \in Nat : k < slots <=> size * k < n
  BY <1>1, CeilDivIs
<1> HIDE DEF slots
<1>3. slots <= threads
  <2>1. ~(size * threads < n)
    BY <1>1
  <2>2. QED
    BY <1>2, <2>1
<1>4. EachOnce(n, parts)
  BY <1>1, ParChunksCover
<1>5. \A b \in DOMAIN parts : b \in 0 .. slots - 1 /\ SlotOf(parts[b], size) = b
  <2>1. CASE n <= size
    <3>1. parts = [b \in 0 .. 0 |-> [lo |-> 0, hi |-> n]]
      BY <1>1, <2>1, ChunkNumbers
    <3>2. size * 0 < n /\ 0 \div size = 0
      BY <1>1, QuotientIs
    <3>3. 0 < slots
      BY <1>2, <3>2
    <3> HIDE DEF parts
    <3>4. QED
      BY <1>2, <3>1, <3>2, <3>3 DEF SlotOf
  <2>2. CASE size < n
    <3> SUFFICES ASSUME NEW b \in DOMAIN parts
                 PROVE  b \in 0 .. slots - 1 /\ SlotOf(parts[b], size) = b
      OBVIOUS
    <3>1. b \in Nat /\ size * b < n
      BY <1>1, <2>2, ChunkNumbers
    <3>2. parts[b].lo = b * size
      BY <1>1, <2>2 DEF ParChunks
    <3>3. b * size \in Nat /\ size * b <= b * size /\ b * size < size * b + size
      BY <1>1, <3>1
    <3>4. (b * size) \div size = b
      BY <1>1, <3>1, <3>3, QuotientIs
    <3>5. b < slots
      BY <1>2, <3>1
    <3>6. QED
      BY <1>2, <3>1, <3>2, <3>4, <3>5 DEF SlotOf
  <2>3. QED
    BY <1>1, <2>1, <2>2
<1>6. \A i \in 0 .. n - 1 : \E b \in DOMAIN parts : i \in parts[b].lo .. parts[b].hi - 1
  BY <1>4, Zenon DEF EachOnce, Units
<1> HIDE DEF parts
<1>7. SlotsExact(n, threads, slots)
  BY <1>5, <1>6, Zenon DEF SlotsExact, parts, size
<1>8. QED
  BY <1>3, <1>7 DEF slots, size

-------------------------------------------------------------------------------
(* Rows and columns. *)

\* What the element in row m and column n of a product sums, in order.
Pairs(K, transA, transB, lda, ldb, m, n) ==
    [k \in 1 .. K |-> <<IF transA THEN (k - 1) * lda + m ELSE m * lda + k - 1,
                        IF transB THEN n * ldb + k - 1 ELSE (k - 1) * ldb + n>>]

\* The indices of rows r0 .. r1 - 1 and columns c0 .. c1 - 1 of a C of width ld.
Cells(r, ld) == {m * ld + n : m \in r.r0 .. r.r1 - 1, n \in r.c0 .. r.c1 - 1}
Rect(r0, r1, c0, c1) == [r0 |-> r0, r1 |-> r1, c0 |-> c0, c1 |-> c1]
Rects == [r0 : Nat, r1 : Nat, c0 : Nat, c1 : Nat]
InRect(r, m, n) == m \in r.r0 .. r.r1 - 1 /\ n \in r.c0 .. r.c1 - 1
Narrow(r, ld) == \A m, n : InRect(r, m, n) => n < ld

\* The product of M x N in a C of width ld.
Wide(M, N, K, transA, transB, lda, ldb, ld) ==
    [i \in Cells(Rect(0, M, 0, N), ld) |->
        Pairs(K, transA, transB, lda, ldb, i \div ld, i % ld)]

\* The call that computes the rectangle r of it.
BlasOn(r, K, transA, transB, lda, ldb, ld) ==
    Blas(Dims(r.r1 - r.r0, r.c1 - r.c0, K), transA, transB,
         View(IF transA THEN r.r0 ELSE r.r0 * lda, lda),
         View(IF transB THEN r.c0 * ldb ELSE r.c0, ldb), View(r.r0 * ld + r.c0, ld))

\* A cell of a rectangle is a row and a column of it, in rows of ld.
LEMMA CellOf ==
    ASSUME NEW r, NEW ld
    PROVE  \A i : i \in Cells(r, ld) <=> \E m, n : InRect(r, m, n) /\ i = m * ld + n
  BY DEF Cells, InRect

\* A sum of multiples is a multiple of the sum.
LEMMA Distributes == \A a, b, c \in Int : b * c + (a - b) * c = a * c
  OBVIOUS

\* A place gives back its row and its column.
LEMMA RowAndColumn ==
    ASSUME NEW ld \in Nat \ {0}, NEW m \in Nat, NEW n \in 0 .. ld - 1
    PROVE  (m * ld + n) \div ld = m /\ (m * ld + n) % ld = n
<1> DEFINE i == m * ld + n
<1>1. i \in Nat /\ ld * m <= i /\ i < ld * m + ld /\ i = ld * m + n
  OBVIOUS
<1> HIDE DEF i
<1>2. i \div ld = m
  BY <1>1, QuotientIs
<1>3. i % ld = i - ld * (i \div ld)
  BY <1>1
<1>4. QED
  BY <1>1, <1>2, <1>3 DEF i

\* A place is in one row and one column.
LEMMA OneCell ==
    ASSUME NEW ld \in Nat \ {0}, NEW m \in Nat, NEW n \in 0 .. ld - 1,
           NEW u \in Nat, NEW v \in 0 .. ld - 1, m * ld + n = u * ld + v
    PROVE  m = u /\ n = v
  BY RowAndColumn

\* The call on a rectangle writes the rectangle, and to each cell its sum.
LEMMA BlasIs ==
    ASSUME NEW ld \in Nat \ {0}, NEW K \in Nat, NEW transA \in BOOLEAN, NEW transB \in BOOLEAN,
           NEW lda \in Nat, NEW ldb \in Nat, NEW r \in Rects, Narrow(r, ld)
    PROVE  LET part == BlasOn(r, K, transA, transB, lda, ldb, ld)
           IN  /\ DOMAIN part = Cells(r, ld)
               /\ \A m, n : InRect(r, m, n) =>
                     part[m * ld + n] = Pairs(K, transA, transB, lda, ldb, m, n)
<1> DEFINE part == BlasOn(r, K, transA, transB, lda, ldb, ld)
           aat == IF transA THEN r.r0 ELSE r.r0 * lda
           bat == IF transB THEN r.c0 * ldb ELSE r.c0
           cat == r.r0 * ld + r.c0
           D == {cat + m * ld + n : m \in 0 .. (r.r1 - r.r0) - 1, n \in 0 .. (r.c1 - r.c0) - 1}
           sum(m, n) == [k \in 1 .. K |->
                          <<aat + (IF transA THEN (k - 1) * lda + m ELSE m * lda + k - 1),
                            bat + (IF transB THEN n * ldb + k - 1 ELSE (k - 1) * ldb + n)>>]
<1>1. r.r0 \in Nat /\ r.r1 \in Nat /\ r.c0 \in Nat /\ r.c1 \in Nat
  BY DEF Rects
<1>2. part = [i \in D |-> sum((i - cat) \div ld, (i - cat) % ld)]
  BY DEF BlasOn, Blas, Dims, View
<1>3. D = Cells(r, ld)
  <2>1. ASSUME NEW m \in 0 .. (r.r1 - r.r0) - 1, NEW n \in 0 .. (r.c1 - r.c0) - 1
        PROVE  cat + m * ld + n \in Cells(r, ld)
    <3>1. r.r0 + m \in r.r0 .. r.r1 - 1 /\ r.c0 + n \in r.c0 .. r.c1 - 1
      BY <1>1
    <3>2. cat + m * ld + n = (r.r0 + m) * ld + (r.c0 + n)
      BY <1>1
    <3> HIDE DEF cat
    <3>3. QED
      BY <3>1, <3>2 DEF Cells
  <2>2. ASSUME NEW m \in r.r0 .. r.r1 - 1, NEW n \in r.c0 .. r.c1 - 1
        PROVE  m * ld + n \in D
    <3>1. m - r.r0 \in 0 .. (r.r1 - r.r0) - 1 /\ n - r.c0 \in 0 .. (r.c1 - r.c0) - 1
      BY <1>1
    <3>2. m * ld + n = cat + (m - r.r0) * ld + (n - r.c0)
      BY <1>1
    <3> HIDE DEF cat
    <3>3. QED
      BY <3>1, <3>2
  <2> HIDE DEF cat
  <2>3. QED
    BY <2>1, <2>2 DEF Cells
<1>4. ASSUME NEW m, NEW n, InRect(r, m, n)
      PROVE  part[m * ld + n] = Pairs(K, transA, transB, lda, ldb, m, n)
  <2> DEFINE i == m * ld + n
             u == m - r.r0
             v == n - r.c0
  <2>1. /\ m \in r.r0 .. r.r1 - 1 /\ n \in r.c0 .. r.c1 - 1 /\ m \in Nat /\ n \in Nat
        /\ u \in Nat /\ v \in 0 .. ld - 1
    <3>1. n < ld
      BY <1>4, Zenon DEF Narrow
    <3>2. m \in r.r0 .. r.r1 - 1 /\ n \in r.c0 .. r.c1 - 1
      BY <1>4 DEF InRect
    <3>3. QED
      BY <1>1, <3>1, <3>2
  <2>2. i \in D
    <3>1. i \in Cells(r, ld)
      BY <1>4, CellOf, Zenon
    <3> HIDE DEF D
    <3>2. QED
      BY <1>3, <3>1
  <2>3. i - cat = u * ld + v
    BY <1>1, <2>1
  <2>4. (u * ld + v) \div ld = u /\ (u * ld + v) % ld = v
    <3> HIDE DEF u, v
    <3>1. QED
      BY <2>1, RowAndColumn
  <2>5. part[i] = sum(u, v)
    <3> HIDE DEF part, D, sum, cat, i, u, v
    <3>1. part[i] = sum((i - cat) \div ld, (i - cat) % ld)
      BY <1>2, <2>2
    <3>2. QED
      BY <2>3, <2>4, <3>1
  <2>6. \A k \in 1 .. K : /\ transA => aat + ((k - 1) * lda + u) = (k - 1) * lda + m
                          /\ ~transA => aat + (u * lda + k - 1) = m * lda + k - 1
                          /\ transB => bat + (v * ldb + k - 1) = n * ldb + k - 1
                          /\ ~transB => bat + ((k - 1) * ldb + v) = (k - 1) * ldb + n
    <3> SUFFICES ASSUME NEW k \in 1 .. K
                 PROVE  /\ transA => aat + ((k - 1) * lda + u) = (k - 1) * lda + m
                        /\ ~transA => aat + (u * lda + k - 1) = m * lda + k - 1
                        /\ transB => bat + (v * ldb + k - 1) = n * ldb + k - 1
                        /\ ~transB => bat + ((k - 1) * ldb + v) = (k - 1) * ldb + n
      OBVIOUS
    <3>1. (k - 1) * lda \in Nat /\ (k - 1) * ldb \in Nat
      OBVIOUS
    <3>2. r.r0 * lda + u * lda = m * lda /\ r.c0 * ldb + v * ldb = n * ldb
      <4>1. m \in Int /\ n \in Int
        BY <1>1, <2>1
      <4>2. QED
        BY <1>1, <4>1, Distributes
    <3>3. r.r0 * lda \in Nat /\ u * lda \in Nat /\ r.c0 * ldb \in Nat /\ v * ldb \in Nat
      BY <1>1, <2>1
    <3>4. transA => aat + ((k - 1) * lda + u) = (k - 1) * lda + m
      BY <1>1, <2>1, <3>1
    <3>5. ~transB => bat + ((k - 1) * ldb + v) = (k - 1) * ldb + n
      BY <1>1, <2>1, <3>1
    <3>6. ~transA => aat + (u * lda + k - 1) = m * lda + k - 1
      <4> HIDE DEF u
      <4>1. QED
        BY <3>2, <3>3
    <3>7. transB => bat + (v * ldb + k - 1) = n * ldb + k - 1
      <4> HIDE DEF v
      <4>1. QED
        BY <3>2, <3>3
    <3>8. QED
      BY <3>4, <3>5, <3>6, <3>7
  <2>7. sum(u, v) = Pairs(K, transA, transB, lda, ldb, m, n)
    <3> HIDE DEF aat, bat, u, v
    <3>1. QED
      BY <2>6 DEF Pairs
  <2>8. QED
    BY <2>5, <2>7
<1>5. DOMAIN part = Cells(r, ld)
  BY <1>2, <1>3
<1>6. QED
  BY <1>4, <1>5, Zenon

\* Parts that write what the whole holds, each place in one of them, compute it.
LEMMA PartsCompute ==
    ASSUME NEW parts, NEW whole, whole = [i \in DOMAIN whole |-> whole[i]],
           \A t \in DOMAIN parts : \A i \in DOMAIN parts[t] :
              i \in DOMAIN whole /\ parts[t][i] = whole[i],
           \A i \in DOMAIN whole : \E t \in DOMAIN parts : i \in DOMAIN parts[t],
           \A s, t \in DOMAIN parts :
              \A i : i \in DOMAIN parts[s] /\ i \in DOMAIN parts[t] => s = t
    PROVE  Computes(parts, whole)
<1> DEFINE D == UNION {DOMAIN parts[t] : t \in DOMAIN parts}
           at(i) == CHOOSE t \in DOMAIN parts : i \in DOMAIN parts[t]
<1>1. Disjoint(parts)
  BY DEF Disjoint
<1>2. D = DOMAIN whole
  <2>1. \A i : i \in D <=> \E t \in DOMAIN parts : i \in DOMAIN parts[t]
    OBVIOUS
  <2> HIDE DEF D
  <2>2. \A i \in D : i \in DOMAIN whole
    BY <2>1, Zenon
  <2>3. \A i \in DOMAIN whole : i \in D
    BY <2>1, Zenon
  <2>4. QED
    BY <2>2, <2>3
<1>3. \A i \in DOMAIN whole : at(i) \in DOMAIN parts /\ i \in DOMAIN parts[at(i)]
  OBVIOUS
<1>4. \A i \in DOMAIN whole : parts[at(i)][i] = whole[i]
  <2> HIDE DEF at
  <2>1. QED
    BY <1>3
<1>5. Merged(parts) = [i \in D |-> parts[at(i)][i]]
  BY DEF Merged
<1>6. [i \in D |-> parts[at(i)][i]] = [i \in DOMAIN whole |-> whole[i]]
  <2> HIDE DEF D, at
  <2>1. QED
    BY <1>2, <1>4
<1>7. Merged(parts) = whole
  BY <1>5, <1>6, Zenon
<1>8. QED
  BY <1>1, <1>7 DEF Computes

\* Rectangles that hold each cell of M x N once, and no other.
Tiles(rects, M, N) ==
    /\ \A t \in DOMAIN rects : rects[t] \in Rects
    /\ \A t \in DOMAIN rects : \A m, n : InRect(rects[t], m, n) => m < M /\ n < N
    /\ \A m \in 0 .. M - 1, n \in 0 .. N - 1 : \E t \in DOMAIN rects : InRect(rects[t], m, n)
    /\ \A s, t \in DOMAIN rects : \A m, n : InRect(rects[s], m, n) /\ InRect(rects[t], m, n) => s = t

\* The rows and columns of a rectangle are numbers.
LEMMA InRectType ==
    \A r \in Rects : \A m, n : InRect(r, m, n) => m \in Nat /\ n \in Nat
  BY DEF Rects, InRect

\* Where each cell of the whole is, and what it sums.
LEMMA WideIs ==
    ASSUME NEW ld \in Nat \ {0}, NEW M \in Nat, NEW N \in Nat, N <= ld, NEW K,
           NEW transA, NEW transB, NEW lda, NEW ldb
    PROVE  LET whole == Wide(M, N, K, transA, transB, lda, ldb, ld)
           IN  /\ DOMAIN whole = Cells(Rect(0, M, 0, N), ld)
               /\ \A m \in 0 .. M - 1, n \in 0 .. N - 1 :
                     /\ m * ld + n \in DOMAIN whole
                     /\ whole[m * ld + n] = Pairs(K, transA, transB, lda, ldb, m, n)
<1> DEFINE whole == Wide(M, N, K, transA, transB, lda, ldb, ld)
           sum(m, n) == Pairs(K, transA, transB, lda, ldb, m, n)
           C == Cells(Rect(0, M, 0, N), ld)
<1>1. whole = [i \in C |-> sum(i \div ld, i % ld)]
  BY DEF Wide
<1>2. ASSUME NEW m \in 0 .. M - 1, NEW n \in 0 .. N - 1
      PROVE  m * ld + n \in C /\ whole[m * ld + n] = sum(m, n)
  <2>1. InRect(Rect(0, M, 0, N), m, n)
    BY DEF InRect, Rect
  <2>2. m * ld + n \in C
    BY <2>1, CellOf
  <2>3. (m * ld + n) \div ld = m /\ (m * ld + n) % ld = n
    <3>1. m \in Nat /\ n \in 0 .. ld - 1
      OBVIOUS
    <3>2. QED
      BY <3>1, RowAndColumn
  <2> HIDE DEF C, whole, sum
  <2>4. whole[m * ld + n] = sum((m * ld + n) \div ld, (m * ld + n) % ld)
    BY <1>1, <2>2
  <2>5. QED
    BY <2>2, <2>3, <2>4
<1>3. DOMAIN whole = C
  BY <1>1
<1>4. QED
  BY <1>2, <1>3, Zenon

\* The calls on rectangles that tile a product compute it.
LEMMA TilesCompute ==
    ASSUME NEW ld \in Nat \ {0}, NEW M \in Nat, NEW N \in Nat, N <= ld, NEW K \in Nat,
           NEW transA \in BOOLEAN, NEW transB \in BOOLEAN, NEW lda \in Nat, NEW ldb \in Nat,
           NEW rects, Tiles(rects, M, N), NEW parts, DOMAIN parts = DOMAIN rects,
           \A t \in DOMAIN rects : parts[t] = BlasOn(rects[t], K, transA, transB, lda, ldb, ld)
    PROVE  Computes(parts, Wide(M, N, K, transA, transB, lda, ldb, ld))
<1> DEFINE whole == Wide(M, N, K, transA, transB, lda, ldb, ld)
           sum(m, n) == Pairs(K, transA, transB, lda, ldb, m, n)
<1>1. ASSUME NEW t \in DOMAIN rects
      PROVE  /\ \A i : i \in DOMAIN parts[t] <=> \E m, n : InRect(rects[t], m, n) /\ i = m * ld + n
             /\ \A m, n : InRect(rects[t], m, n) => parts[t][m * ld + n] = sum(m, n)
  <2>1. rects[t] \in Rects /\ \A m, n : InRect(rects[t], m, n) => m < M /\ n < N
    BY DEF Tiles
  <2>2. Narrow(rects[t], ld)
    BY <2>1, InRectType DEF Narrow
  <2>3. LET part == BlasOn(rects[t], K, transA, transB, lda, ldb, ld)
        IN  /\ DOMAIN part = Cells(rects[t], ld)
            /\ \A m, n : InRect(rects[t], m, n) =>
                  part[m * ld + n] = Pairs(K, transA, transB, lda, ldb, m, n)
    BY <2>1, <2>2, BlasIs
  <2>4. parts[t] = BlasOn(rects[t], K, transA, transB, lda, ldb, ld)
    OBVIOUS
  <2>5. DOMAIN parts[t] = Cells(rects[t], ld)
    BY <2>3, <2>4, Zenon
  <2>6. \A m, n : InRect(rects[t], m, n) => parts[t][m * ld + n] = sum(m, n)
    BY <2>3, <2>4, Zenon
  <2>7. \A i : i \in Cells(rects[t], ld) <=> \E m, n : InRect(rects[t], m, n) /\ i = m * ld + n
    BY CellOf
  <2>8. QED
    BY <2>5, <2>6, <2>7, Zenon
<1>2. /\ DOMAIN whole = Cells(Rect(0, M, 0, N), ld)
      /\ \A m \in 0 .. M - 1, n \in 0 .. N - 1 :
            m * ld + n \in DOMAIN whole /\ whole[m * ld + n] = sum(m, n)
  BY WideIs
<1>3. whole = [i \in DOMAIN whole |-> whole[i]]
  BY DEF Wide
<1>4. \A t \in DOMAIN rects : \A m, n : InRect(rects[t], m, n) => m \in 0 .. M - 1 /\ n \in 0 .. N - 1
  BY InRectType DEF Tiles
<1> HIDE DEF whole, sum
<1>5. ASSUME NEW t \in DOMAIN parts, NEW i \in DOMAIN parts[t]
      PROVE  i \in DOMAIN whole /\ parts[t][i] = whole[i]
  <2>1. PICK m, n : InRect(rects[t], m, n) /\ i = m * ld + n
    BY <1>1
  <2>2. m \in 0 .. M - 1 /\ n \in 0 .. N - 1
    BY <1>4, <2>1
  <2>3. parts[t][i] = sum(m, n)
    BY <1>1, <2>1
  <2>4. i \in DOMAIN whole /\ whole[i] = sum(m, n)
    BY <1>2, <2>1, <2>2
  <2>5. QED
    BY <2>3, <2>4
<1>6. ASSUME NEW i \in DOMAIN whole
      PROVE  \E t \in DOMAIN parts : i \in DOMAIN parts[t]
  <2>1. PICK m, n : InRect(Rect(0, M, 0, N), m, n) /\ i = m * ld + n
    BY <1>2, CellOf
  <2>2. m \in 0 .. M - 1 /\ n \in 0 .. N - 1
    BY <2>1 DEF InRect, Rect
  <2>3. PICK t \in DOMAIN rects : InRect(rects[t], m, n)
    BY <2>2 DEF Tiles
  <2>4. QED
    BY <1>1, <2>1, <2>3
<1>7. ASSUME NEW s \in DOMAIN parts, NEW t \in DOMAIN parts, NEW i,
             i \in DOMAIN parts[s], i \in DOMAIN parts[t]
      PROVE  s = t
  <2>1. PICK m, n : InRect(rects[s], m, n) /\ i = m * ld + n
    BY <1>1, <1>7
  <2>2. PICK u, v : InRect(rects[t], u, v) /\ i = u * ld + v
    BY <1>1, <1>7
  <2>3. m \in 0 .. M - 1 /\ n \in 0 .. N - 1 /\ u \in 0 .. M - 1 /\ v \in 0 .. N - 1
    BY <1>4, <2>1, <2>2
  <2>4. m \in Nat /\ u \in Nat /\ n \in 0 .. ld - 1 /\ v \in 0 .. ld - 1
    BY <2>3
  <2>5. m = u /\ n = v
    BY <2>1, <2>2, <2>4, OneCell
  <2>6. QED
    BY <2>1, <2>2, <2>5 DEF Tiles
<1>8. Computes(parts, whole)
  BY <1>3, <1>5, <1>6, <1>7, PartsCompute
<1>9. QED
  BY <1>8 DEF whole

-------------------------------------------------------------------------------
(* The ways to divide a product. *)

\* The sides of a rectangle are those it was made with.
LEMMA RectFields ==
    \A r0, r1, c0, c1 : /\ Rect(r0, r1, c0, c1).r0 = r0 /\ Rect(r0, r1, c0, c1).r1 = r1
                        /\ Rect(r0, r1, c0, c1).c0 = c0 /\ Rect(r0, r1, c0, c1).c1 = c1
  BY DEF Rect

\* A rectangle holds the rows and the columns between its sides.
LEMMA InRectIs ==
    \A r0, r1, c0, c1, m, n :
       InRect(Rect(r0, r1, c0, c1), m, n) <=> m \in r0 .. r1 - 1 /\ n \in c0 .. c1 - 1
  BY DEF Rect, InRect

\* Sides that are numbers make a rectangle.
LEMMA RectType ==
    \A r0, r1, c0, c1 \in Nat : Rect(r0, r1, c0, c1) \in Rects
  BY DEF Rect, Rects

\* The ends of a share are numbers.
LEMMA ShareType ==
    ASSUME NEW n \in Nat, NEW parts \in Nat \ {0}, NEW b \in Nat
    PROVE  Share(n, parts, b).lo \in Nat /\ Share(n, parts, b).hi \in Nat
<1>1. n * b \in Nat /\ n * (b + 1) \in Nat
  OBVIOUS
<1>2. QED
  BY <1>1, Quotient DEF Share

\* All of it is one rectangle.
LEMMA OneTile ==
    ASSUME NEW M \in Nat, NEW N \in Nat
    PROVE  Tiles(<<Rect(0, M, 0, N)>>, M, N)
<1> DEFINE r == Rect(0, M, 0, N)
           rects == <<r>>
<1>1. r \in Rects
  BY RectType
<1>2. \A m, n : InRect(r, m, n) <=> m \in 0 .. M - 1 /\ n \in 0 .. N - 1
  BY InRectIs
<1> HIDE DEF r
<1>3. DOMAIN rects = {1} /\ rects[1] = r
  OBVIOUS
<1> HIDE DEF rects
<1>4. Tiles(rects, M, N)
  BY <1>1, <1>2, <1>3 DEF Tiles
<1>5. QED
  BY <1>4 DEF rects, r

\* The shares of the rows.
LEMMA RowTiles ==
    ASSUME NEW M \in Nat, NEW N \in Nat, Threads \in Nat \ {0}
    PROVE  Tiles([b \in Tasks |-> Rect(Share(M, Threads, b).lo, Share(M, Threads, b).hi, 0, N)], M, N)
<1> DEFINE lo(b) == Share(M, Threads, b).lo
           hi(b) == Share(M, Threads, b).hi
           rects == [b \in Tasks |-> Rect(lo(b), hi(b), 0, N)]
<1>1. DOMAIN rects = Tasks /\ \A b \in Tasks : rects[b] = Rect(lo(b), hi(b), 0, N) /\ b \in Nat
  BY DEF Tasks
<1>2. \A b \in Tasks : lo(b) \in Nat /\ hi(b) \in Nat
  BY <1>1, ShareType
<1>3. EachOnce(M, Shares(M, Threads))
  BY SharesCover
<1>4. DOMAIN Shares(M, Threads) = Tasks
      /\ \A b \in Tasks : Units(Shares(M, Threads)[b]) = lo(b) .. hi(b) - 1
  BY DEF Shares, Tasks, Units
<1> HIDE DEF lo, hi, rects
<1>5. \A b \in Tasks : lo(b) .. hi(b) - 1 \subseteq 0 .. M - 1
  BY <1>3, <1>4 DEF EachOnce
<1>6. \A m \in 0 .. M - 1 : \E b \in Tasks :
         m \in lo(b) .. hi(b) - 1 /\ \A a \in Tasks : m \in lo(a) .. hi(a) - 1 => a = b
  <2> DEFINE S == Shares(M, Threads)
  <2> HIDE DEF S
  <2>1. \A m \in 0 .. M - 1 : \E b \in Tasks :
           m \in Units(S[b]) /\ \A a \in Tasks : m \in Units(S[a]) => a = b
    BY <1>3, <1>4, Zenon DEF EachOnce, S
  <2>2. \A b \in Tasks : Units(S[b]) = lo(b) .. hi(b) - 1
    BY <1>4, Zenon DEF S
  <2>3. ASSUME NEW m \in 0 .. M - 1
        PROVE  \E b \in Tasks :
                 m \in lo(b) .. hi(b) - 1 /\ \A a \in Tasks : m \in lo(a) .. hi(a) - 1 => a = b
    <3>1. PICK b \in Tasks : m \in Units(S[b]) /\ \A a \in Tasks : m \in Units(S[a]) => a = b
      BY <2>1, Zenon
    <3>2. m \in lo(b) .. hi(b) - 1
      BY <2>2, <3>1, Zenon
    <3>3. \A a \in Tasks : m \in lo(a) .. hi(a) - 1 => a = b
      BY <2>2, <3>1, Zenon
    <3>4. QED
      BY <3>2, <3>3, Zenon
  <2>4. QED
    BY <2>3, Zenon
<1>7. \A b \in Tasks : \A m, n : InRect(rects[b], m, n) <=> m \in lo(b) .. hi(b) - 1 /\ n \in 0 .. N - 1
  BY <1>1, InRectIs
<1>8. \A b \in Tasks : rects[b] \in Rects
  BY <1>1, <1>2, RectType
<1>9. \A b \in Tasks : \A m, n : InRect(rects[b], m, n) => m < M /\ n < N
  <2> SUFFICES ASSUME NEW b \in Tasks, NEW m, NEW n, InRect(rects[b], m, n)
               PROVE  m < M /\ n < N
    OBVIOUS
  <2>1. m \in 0 .. M - 1 /\ n \in 0 .. N - 1
    BY <1>5, <1>7
  <2>2. QED
    BY <2>1
<1>10. \A m \in 0 .. M - 1, n \in 0 .. N - 1 : \E b \in Tasks : InRect(rects[b], m, n)
  BY <1>6, <1>7, Zenon
<1>11. \A s, t \in Tasks : \A m, n : InRect(rects[s], m, n) /\ InRect(rects[t], m, n) => s = t
  <2> SUFFICES ASSUME NEW s \in Tasks, NEW t \in Tasks, NEW m, NEW n,
                      InRect(rects[s], m, n), InRect(rects[t], m, n)
               PROVE  s = t
    OBVIOUS
  <2>1. m \in lo(s) .. hi(s) - 1 /\ m \in lo(t) .. hi(t) - 1
    BY <1>7
  <2>2. m \in 0 .. M - 1
    BY <1>5, <2>1, Zenon
  <2>3. QED
    BY <1>6, <2>1, <2>2, Zenon
<1>12. Tiles(rects, M, N)
  BY <1>1, <1>8, <1>9, <1>10, <1>11, Zenon DEF Tiles
<1>13. QED
  BY <1>12, Zenon DEF rects, lo, hi

\* The shares of the columns.
LEMMA ColumnTiles ==
    ASSUME NEW M \in Nat, NEW N \in Nat, NEW calls \in Nat \ {0}
    PROVE  Tiles([b \in 0 .. calls - 1 |-> Rect(0, M, Share(N, calls, b).lo, Share(N, calls, b).hi)], M, N)
<1> DEFINE T == 0 .. calls - 1
           lo(b) == Share(N, calls, b).lo
           hi(b) == Share(N, calls, b).hi
           rects == [b \in T |-> Rect(0, M, lo(b), hi(b))]
<1>1. DOMAIN rects = T /\ \A b \in T : rects[b] = Rect(0, M, lo(b), hi(b)) /\ b \in Nat
  OBVIOUS
<1>2. \A b \in T : lo(b) \in Nat /\ hi(b) \in Nat
  BY <1>1, ShareType
<1>3. EachOnce(N, Shares(N, calls))
  BY SharesCover
<1>4. DOMAIN Shares(N, calls) = T
      /\ \A b \in T : Units(Shares(N, calls)[b]) = lo(b) .. hi(b) - 1
  BY DEF Shares, Units
<1> HIDE DEF lo, hi, rects, T
<1>5. \A b \in T : lo(b) .. hi(b) - 1 \subseteq 0 .. N - 1
  BY <1>3, <1>4 DEF EachOnce
<1>6. \A n \in 0 .. N - 1 : \E b \in T :
         n \in lo(b) .. hi(b) - 1 /\ \A a \in T : n \in lo(a) .. hi(a) - 1 => a = b
  <2> DEFINE S == Shares(N, calls)
  <2> HIDE DEF S
  <2>1. \A n \in 0 .. N - 1 : \E b \in T :
           n \in Units(S[b]) /\ \A a \in T : n \in Units(S[a]) => a = b
    BY <1>3, <1>4, Zenon DEF EachOnce, S
  <2>2. \A b \in T : Units(S[b]) = lo(b) .. hi(b) - 1
    BY <1>4, Zenon DEF S
  <2>3. ASSUME NEW n \in 0 .. N - 1
        PROVE  \E b \in T :
                 n \in lo(b) .. hi(b) - 1 /\ \A a \in T : n \in lo(a) .. hi(a) - 1 => a = b
    <3>1. PICK b \in T : n \in Units(S[b]) /\ \A a \in T : n \in Units(S[a]) => a = b
      BY <2>1, Zenon
    <3>2. n \in lo(b) .. hi(b) - 1
      BY <2>2, <3>1, Zenon
    <3>3. \A a \in T : n \in lo(a) .. hi(a) - 1 => a = b
      BY <2>2, <3>1, Zenon
    <3>4. QED
      BY <3>2, <3>3, Zenon
  <2>4. QED
    BY <2>3, Zenon
<1>7. \A b \in T : \A m, n : InRect(rects[b], m, n) <=> m \in 0 .. M - 1 /\ n \in lo(b) .. hi(b) - 1
  BY <1>1, InRectIs
<1>8. \A b \in T : rects[b] \in Rects
  BY <1>1, <1>2, RectType
<1>9. \A b \in T : \A m, n : InRect(rects[b], m, n) => m < M /\ n < N
  <2> SUFFICES ASSUME NEW b \in T, NEW m, NEW n, InRect(rects[b], m, n)
               PROVE  m < M /\ n < N
    OBVIOUS
  <2>1. m \in 0 .. M - 1 /\ n \in 0 .. N - 1
    BY <1>5, <1>7
  <2>2. QED
    BY <2>1
<1>10. \A m \in 0 .. M - 1, n \in 0 .. N - 1 : \E b \in T : InRect(rects[b], m, n)
  BY <1>6, <1>7, Zenon
<1>11. \A s, t \in T : \A m, n : InRect(rects[s], m, n) /\ InRect(rects[t], m, n) => s = t
  <2> SUFFICES ASSUME NEW s \in T, NEW t \in T, NEW m, NEW n,
                      InRect(rects[s], m, n), InRect(rects[t], m, n)
               PROVE  s = t
    OBVIOUS
  <2>1. n \in lo(s) .. hi(s) - 1 /\ n \in lo(t) .. hi(t) - 1
    BY <1>7
  <2>2. n \in 0 .. N - 1
    BY <1>5, <2>1, Zenon
  <2>3. QED
    BY <1>6, <2>1, <2>2, Zenon
<1>12. Tiles(rects, M, N)
  BY <1>1, <1>8, <1>9, <1>10, <1>11, Zenon DEF Tiles
<1>13. QED
  BY <1>12, Zenon DEF rects, lo, hi, T

\* A call for all of a product, for some of its rows and for some of its columns.
LEMMA OneCall ==
    ASSUME NEW M \in Nat, NEW N \in Nat, NEW K, NEW transA \in BOOLEAN, NEW transB \in BOOLEAN,
           NEW lda \in Nat, NEW ldb \in Nat, NEW ld \in Nat
    PROVE  BlasOn(Rect(0, M, 0, N), K, transA, transB, lda, ldb, ld)
             = Blas(Dims(M, N, K), transA, transB, View(0, lda), View(0, ldb), View(0, ld))
<1>1. 0 * lda = 0 /\ 0 * ldb = 0 /\ 0 * ld + 0 = 0 /\ M - 0 = M /\ N - 0 = N
  OBVIOUS
<1>2. QED
  BY <1>1, RectFields DEF BlasOn

\* The call on the rows lo .. hi - 1 of a product.
LEMMA RowCall ==
    ASSUME NEW lo \in Nat, NEW hi \in Nat, NEW N \in Nat, NEW K,
           NEW transA \in BOOLEAN, NEW transB \in BOOLEAN,
           NEW lda \in Nat, NEW ldb \in Nat, NEW ld \in Nat
    PROVE  BlasOn(Rect(lo, hi, 0, N), K, transA, transB, lda, ldb, ld)
             = Blas(Dims(hi - lo, N, K), transA, transB,
                    View(IF transA THEN lo ELSE lo * lda, lda), View(0, ldb), View(lo * ld, ld))
<1>1. 0 * ldb = 0 /\ lo * ld + 0 = lo * ld /\ N - 0 = N
  OBVIOUS
<1>2. QED
  BY <1>1, RectFields DEF BlasOn

\* The call on the columns lo .. hi - 1 of a product.
LEMMA ColumnCall ==
    ASSUME NEW lo \in Nat, NEW hi \in Nat, NEW M \in Nat, NEW K,
           NEW transA \in BOOLEAN, NEW transB \in BOOLEAN,
           NEW lda \in Nat, NEW ldb \in Nat, NEW ld \in Nat
    PROVE  BlasOn(Rect(0, M, lo, hi), K, transA, transB, lda, ldb, ld)
             = Blas(Dims(M, hi - lo, K), transA, transB,
                    View(0, lda), View(IF transB THEN lo * ldb ELSE lo, ldb), View(lo, ld))
<1>1. 0 * lda = 0 /\ 0 * ld + lo = lo /\ M - 0 = M
  OBVIOUS
<1>2. QED
  BY <1>1, RectFields DEF BlasOn

\* The product in one call, divided by rows, and divided by columns.
LEMMA OneComputes ==
    ASSUME NEW M \in Nat, NEW N \in Nat, NEW K \in Nat, NEW transA \in BOOLEAN, NEW transB \in BOOLEAN,
           NEW lda \in Nat, NEW ldb \in Nat, NEW ld \in Nat \ {0}, N <= ld
    PROVE  Computes(<<Blas(Dims(M, N, K), transA, transB, View(0, lda), View(0, ldb), View(0, ld))>>,
                    Wide(M, N, K, transA, transB, lda, ldb, ld))
<1> DEFINE part == Blas(Dims(M, N, K), transA, transB, View(0, lda), View(0, ldb), View(0, ld))
           parts == <<part>>
           rects == <<Rect(0, M, 0, N)>>
<1>1. Tiles(rects, M, N)
  BY OneTile
<1>2. part = BlasOn(Rect(0, M, 0, N), K, transA, transB, lda, ldb, ld)
  BY OneCall
<1> HIDE DEF part
<1>3. DOMAIN rects = {1} /\ DOMAIN parts = {1} /\ rects[1] = Rect(0, M, 0, N) /\ parts[1] = part
  OBVIOUS
<1> HIDE DEF parts, rects
<1>4. DOMAIN parts = DOMAIN rects
      /\ \A t \in DOMAIN rects : parts[t] = BlasOn(rects[t], K, transA, transB, lda, ldb, ld)
  BY <1>2, <1>3
<1>5. Computes(parts, Wide(M, N, K, transA, transB, lda, ldb, ld))
  BY <1>1, <1>4, TilesCompute
<1>6. QED
  BY <1>5, Zenon DEF parts, part

RowParts(M, N, K, transA, transB, lda, ldb, ld) ==
    [b \in Tasks |->
        LET s == Share(M, Threads, b)
        IN  Blas(Dims(s.hi - s.lo, N, K), transA, transB,
                 View(IF transA THEN s.lo ELSE s.lo * lda, lda), View(0, ldb), View(s.lo * ld, ld))]
ColumnParts(calls, M, N, K, transA, transB, lda, ldb, ld) ==
    [b \in 0 .. calls - 1 |->
        LET s == Share(N, calls, b)
        IN  Blas(Dims(M, s.hi - s.lo, K), transA, transB,
                 View(0, lda), View(IF transB THEN s.lo * ldb ELSE s.lo, ldb), View(s.lo, ld))]

\* The calls on the shares of the rows compute the product.
LEMMA RowsCompute ==
    ASSUME NEW M \in Nat, NEW N \in Nat, NEW K \in Nat, NEW transA \in BOOLEAN, NEW transB \in BOOLEAN,
           NEW lda \in Nat, NEW ldb \in Nat, NEW ld \in Nat \ {0}, N <= ld, Threads \in Nat \ {0}
    PROVE  Computes(RowParts(M, N, K, transA, transB, lda, ldb, ld),
                    Wide(M, N, K, transA, transB, lda, ldb, ld))
<1> DEFINE lo(b) == Share(M, Threads, b).lo
           hi(b) == Share(M, Threads, b).hi
           rects == [b \in Tasks |-> Rect(lo(b), hi(b), 0, N)]
           parts == RowParts(M, N, K, transA, transB, lda, ldb, ld)
           call(b) == Blas(Dims(hi(b) - lo(b), N, K), transA, transB,
                           View(IF transA THEN lo(b) ELSE lo(b) * lda, lda), View(0, ldb), View(lo(b) * ld, ld))
<1>1. Tiles(rects, M, N)
  BY RowTiles
<1>2. parts = [b \in Tasks |-> call(b)]
  BY DEF RowParts
<1>3. \A b \in Tasks : lo(b) \in Nat /\ hi(b) \in Nat
  BY ShareType DEF Tasks
<1> HIDE DEF lo, hi
<1>4. \A b \in Tasks : call(b) = BlasOn(Rect(lo(b), hi(b), 0, N), K, transA, transB, lda, ldb, ld)
  BY <1>3, RowCall
<1> HIDE DEF call
<1>5. DOMAIN rects = Tasks /\ DOMAIN parts = Tasks
      /\ \A b \in Tasks : rects[b] = Rect(lo(b), hi(b), 0, N) /\ parts[b] = call(b)
  BY <1>2
<1> HIDE DEF parts, rects
<1>6. DOMAIN parts = DOMAIN rects
      /\ \A t \in DOMAIN rects : parts[t] = BlasOn(rects[t], K, transA, transB, lda, ldb, ld)
  BY <1>4, <1>5
<1>7. Computes(parts, Wide(M, N, K, transA, transB, lda, ldb, ld))
  BY <1>1, <1>6, TilesCompute
<1>8. QED
  BY <1>7, Zenon DEF parts

\* The calls on the shares of the columns compute the product.
LEMMA ColumnsCompute ==
    ASSUME NEW M \in Nat, NEW N \in Nat, NEW K \in Nat, NEW transA \in BOOLEAN, NEW transB \in BOOLEAN,
           NEW lda \in Nat, NEW ldb \in Nat, NEW ld \in Nat \ {0}, N <= ld, NEW calls \in Nat \ {0}
    PROVE  Computes(ColumnParts(calls, M, N, K, transA, transB, lda, ldb, ld),
                    Wide(M, N, K, transA, transB, lda, ldb, ld))
<1> DEFINE T == 0 .. calls - 1
           lo(b) == Share(N, calls, b).lo
           hi(b) == Share(N, calls, b).hi
           rects == [b \in T |-> Rect(0, M, lo(b), hi(b))]
           parts == ColumnParts(calls, M, N, K, transA, transB, lda, ldb, ld)
           call(b) == Blas(Dims(M, hi(b) - lo(b), K), transA, transB,
                           View(0, lda), View(IF transB THEN lo(b) * ldb ELSE lo(b), ldb), View(lo(b), ld))
<1>1. Tiles(rects, M, N)
  BY ColumnTiles
<1>2. parts = [b \in T |-> call(b)]
  BY DEF ColumnParts
<1>3. \A b \in T : lo(b) \in Nat /\ hi(b) \in Nat
  BY ShareType
<1> HIDE DEF lo, hi
<1>4. \A b \in T : call(b) = BlasOn(Rect(0, M, lo(b), hi(b)), K, transA, transB, lda, ldb, ld)
  BY <1>3, ColumnCall
<1> HIDE DEF call
<1>5. DOMAIN rects = T /\ DOMAIN parts = T
      /\ \A b \in T : rects[b] = Rect(0, M, lo(b), hi(b)) /\ parts[b] = call(b)
  BY <1>2
<1> HIDE DEF parts, rects, T
<1>6. DOMAIN parts = DOMAIN rects
      /\ \A t \in DOMAIN rects : parts[t] = BlasOn(rects[t], K, transA, transB, lda, ldb, ld)
  BY <1>4, <1>5
<1>7. Computes(parts, Wide(M, N, K, transA, transB, lda, ldb, ld))
  BY <1>1, <1>6, TilesCompute
<1>8. QED
  BY <1>7, Zenon DEF parts

\* The multiples of four up to n.
Fours(n) == {4 * i : i \in 0 .. n \div 4}
\* The rests of a division by four start at one of them.
LEMMA FoursAre ==
    ASSUME NEW n \in Nat
    PROVE  /\ n - (n % 4) \in Nat /\ n % 4 \in 0 .. 3 /\ n - (n % 4) = 4 * (n \div 4) /\ n \div 4 \in Nat
           /\ \A x \in Fours(n) : \E k \in Nat : x = 4 * k /\ k <= n \div 4
           /\ \A k \in Nat : k <= n \div 4 => 4 * k \in Fours(n)
           /\ {4 * i : i \in 0 .. n \div 4 - 1} \cup {n - (n % 4)} = Fours(n)
<1> DEFINE q == n \div 4
<1>1. q \in Nat /\ n % 4 \in 0 .. 3 /\ n = 4 * q + (n % 4)
  OBVIOUS
<1> HIDE DEF q
<1>2. n - (n % 4) = 4 * q /\ n - (n % 4) \in Nat
  BY <1>1
<1>3. \A x \in {4 * i : i \in 0 .. q} : \E k \in Nat : x = 4 * k /\ k <= q
  BY <1>1
<1>4. \A k \in Nat : k <= q => 4 * k \in {4 * i : i \in 0 .. q}
  BY <1>1
<1>5. {4 * i : i \in 0 .. q - 1} \cup {4 * q} = {4 * i : i \in 0 .. q}
  BY <1>1
<1>6. QED
  BY <1>1, <1>2, <1>3, <1>4, <1>5 DEF Fours, q

\* TinyTn's blocks: four by four, the columns left over in each row of blocks, and the
\* rows left over.
BlockRows(M, m) == IF m = M - (M % 4) THEN M % 4 ELSE 4
BlockColumns(M, N, m, n) ==
    IF m = M - (M % 4) THEN (IF n = 0 THEN N ELSE 0) ELSE IF n = N - (N % 4) THEN N % 4 ELSE 4
BlockAt(M, N, m, n) == Rect(m, m + BlockRows(M, m), n, n + BlockColumns(M, N, m, n))

\* A block holds its four rows, or those left over with every column, and its four columns.
LEMMA InBlock ==
    ASSUME NEW M \in Nat, NEW N \in Nat, NEW x \in Fours(M), NEW y \in Fours(N), NEW i, NEW j
    PROVE  InRect(BlockAt(M, N, x, y), i, j) <=>
             /\ i \in x .. x + 3 /\ i \in 0 .. M - 1
             /\ IF x = M - (M % 4) THEN y = 0 /\ j \in 0 .. N - 1 ELSE j \in y .. y + 3 /\ j \in 0 .. N - 1
<1> DEFINE rows == BlockRows(M, x)
           cols == BlockColumns(M, N, x, y)
           m0 == M - (M % 4)
           n0 == N - (N % 4)
<1>1. InRect(BlockAt(M, N, x, y), i, j) <=> i \in x .. (x + rows) - 1 /\ j \in y .. (y + cols) - 1
  BY InRectIs DEF BlockAt
<1>2. PICK a \in Nat : x = 4 * a /\ a <= M \div 4
  BY FoursAre
<1>3. PICK b \in Nat : y = 4 * b /\ b <= N \div 4
  BY FoursAre
<1>4. /\ m0 \in Nat /\ M % 4 \in 0 .. 3 /\ m0 = 4 * (M \div 4) /\ M \div 4 \in Nat /\ M = m0 + (M % 4)
      /\ n0 \in Nat /\ N % 4 \in 0 .. 3 /\ n0 = 4 * (N \div 4) /\ N \div 4 \in Nat /\ N = n0 + (N % 4)
  BY FoursAre
<1>5. rows = IF x = m0 THEN M % 4 ELSE 4
  BY DEF BlockRows
<1>6. cols = IF x = m0 THEN (IF y = 0 THEN N ELSE 0) ELSE IF y = n0 THEN N % 4 ELSE 4
  BY DEF BlockColumns
<1> DEFINE p == M \div 4
           q == N \div 4
           u == M % 4
           v == N % 4
<1>7. /\ p \in Nat /\ q \in Nat /\ u \in 0 .. 3 /\ v \in 0 .. 3
      /\ M = 4 * p + u /\ N = 4 * q + v /\ m0 = 4 * p /\ n0 = 4 * q /\ a <= p /\ b <= q
  BY <1>2, <1>3, <1>4
<1>8. rows = IF x = m0 THEN u ELSE 4
  BY <1>5
<1>9. cols = IF x = m0 THEN (IF y = 0 THEN N ELSE 0) ELSE IF y = n0 THEN v ELSE 4
  BY <1>6
<1> HIDE DEF rows, cols, m0, n0, p, q, u, v
<1>10. i \in x .. (x + rows) - 1 <=> i \in x .. x + 3 /\ i \in 0 .. M - 1
  BY <1>2, <1>7, <1>8
<1>11. CASE x = m0
  <2>1. j \in y .. (y + cols) - 1 <=> y = 0 /\ j \in 0 .. N - 1
    BY <1>3, <1>7, <1>9, <1>11
  <2>2. QED
    BY <1>1, <1>10, <1>11, <2>1 DEF m0
<1>12. CASE x # m0
  <2>1. j \in y .. (y + cols) - 1 <=> j \in y .. y + 3 /\ j \in 0 .. N - 1
    BY <1>3, <1>7, <1>9, <1>12
  <2>2. QED
    BY <1>1, <1>10, <1>12, <2>1 DEF m0
<1>13. QED
  BY <1>11, <1>12

\* They tile the product.
LEMMA BlockTiles ==
    ASSUME NEW M \in Nat, NEW N \in Nat
    PROVE  Tiles([t \in Fours(M) \X Fours(N) |-> BlockAt(M, N, t[1], t[2])], M, N)
<1> DEFINE rects == [t \in Fours(M) \X Fours(N) |-> BlockAt(M, N, t[1], t[2])]
           m0 == M - (M % 4)
<1>1. /\ DOMAIN rects = Fours(M) \X Fours(N)
      /\ \A x \in Fours(M), y \in Fours(N) : rects[<<x, y>>] = BlockAt(M, N, x, y)
  OBVIOUS
<1>2. \A t \in DOMAIN rects : \E x \in Fours(M), y \in Fours(N) :
         t = <<x, y>> /\ rects[t] = BlockAt(M, N, x, y)
  BY <1>1
<1> HIDE DEF rects
<1>3. ASSUME NEW x \in Fours(M), NEW y \in Fours(N)
      PROVE  BlockAt(M, N, x, y) \in Rects
  <2>1. x \in Nat /\ y \in Nat
    BY FoursAre
  <2>2. M % 4 \in Nat /\ N % 4 \in Nat
    OBVIOUS
  <2>3. BlockRows(M, x) \in Nat /\ BlockColumns(M, N, x, y) \in Nat
    BY <2>2 DEF BlockRows, BlockColumns
  <2>4. x + BlockRows(M, x) \in Nat /\ y + BlockColumns(M, N, x, y) \in Nat
    BY <2>1, <2>3
  <2>5. QED
    BY <2>1, <2>4, RectType DEF BlockAt
<1>4. ASSUME NEW x \in Fours(M), NEW y \in Fours(N), NEW i, NEW j, InRect(BlockAt(M, N, x, y), i, j)
      PROVE  /\ i \in x .. x + 3 /\ i \in 0 .. M - 1 /\ j \in 0 .. N - 1
             /\ IF x = m0 THEN y = 0 ELSE j \in y .. y + 3
  BY <1>4, InBlock
<1>5. ASSUME NEW i \in 0 .. M - 1, NEW j \in 0 .. N - 1
      PROVE  \E t \in DOMAIN rects : InRect(rects[t], i, j)
  <2> DEFINE p == i \div 4
             q == j \div 4
             x == 4 * p
             y == IF x = m0 THEN 0 ELSE 4 * q
  <2>1. /\ p \in Nat /\ q \in Nat /\ p <= M \div 4 /\ q <= N \div 4
        /\ i \in 4 * p .. 4 * p + 3 /\ j \in 4 * q .. 4 * q + 3
    OBVIOUS
  <2>2. x \in Fours(M)
    BY <2>1, FoursAre
  <2>3. y \in Fours(N)
    <3>1. 4 * q \in Fours(N)
      BY <2>1, FoursAre
    <3>2. 4 * 0 \in Fours(N) /\ 4 * 0 = 0
      <4>1. 0 \in Nat /\ 0 <= N \div 4
        OBVIOUS
      <4>2. QED
        BY <4>1, FoursAre
    <3>3. QED
      BY <3>1, <3>2
  <2>4. InRect(BlockAt(M, N, x, y), i, j)
    <3> HIDE DEF p, q
    <3>1. i \in x .. x + 3
      BY <2>1
    <3>2. IF x = m0 THEN y = 0 ELSE j \in y .. y + 3
      BY <2>1
    <3> HIDE DEF x, y
    <3>3. QED
      BY <2>2, <2>3, <3>1, <3>2, InBlock
  <2> HIDE DEF x, y
  <2>5. QED
    BY <1>1, <2>2, <2>3, <2>4
<1>6. ASSUME NEW s \in DOMAIN rects, NEW t \in DOMAIN rects, NEW i, NEW j,
             InRect(rects[s], i, j), InRect(rects[t], i, j)
      PROVE  s = t
  <2>1. PICK x \in Fours(M), y \in Fours(N) : s = <<x, y>> /\ rects[s] = BlockAt(M, N, x, y)
    BY <1>2
  <2>2. PICK z \in Fours(M), w \in Fours(N) : t = <<z, w>> /\ rects[t] = BlockAt(M, N, z, w)
    BY <1>2
  <2>3. PICK a \in Nat : x = 4 * a
    BY FoursAre
  <2>4. PICK b \in Nat : y = 4 * b
    BY FoursAre
  <2>5. PICK c \in Nat : z = 4 * c
    BY FoursAre
  <2>6. PICK d \in Nat : w = 4 * d
    BY FoursAre
  <2>7. /\ i \in x .. x + 3 /\ i \in 0 .. M - 1 /\ j \in 0 .. N - 1
        /\ IF x = m0 THEN y = 0 ELSE j \in y .. y + 3
    BY <1>4, <1>6, <2>1
  <2>8. /\ i \in z .. z + 3 /\ IF z = m0 THEN w = 0 ELSE j \in w .. w + 3
    BY <1>4, <1>6, <2>2
  <2> HIDE DEF m0
  <2>9. x = z
    BY <2>3, <2>5, <2>7, <2>8
  <2>10. y = w
    BY <2>4, <2>6, <2>7, <2>8, <2>9
  <2>11. QED
    BY <2>1, <2>2, <2>9, <2>10
<1>7. \A t \in DOMAIN rects : rects[t] \in Rects
  BY <1>2, <1>3
<1>8. \A t \in DOMAIN rects : \A m, n : InRect(rects[t], m, n) => m < M /\ n < N
  <2> SUFFICES ASSUME NEW t \in DOMAIN rects, NEW m, NEW n, InRect(rects[t], m, n)
               PROVE  m < M /\ n < N
    OBVIOUS
  <2>1. m \in 0 .. M - 1 /\ n \in 0 .. N - 1
    BY <1>2, <1>4
  <2>2. QED
    BY <2>1
<1>9. Tiles(rects, M, N)
  BY <1>5, <1>6, <1>7, <1>8, Zenon DEF Tiles
<1>10. QED
  BY <1>9, Zenon DEF rects

\* The blocks of psgemm_tn for a small product compute it.
LEMMA BlocksCompute ==
    ASSUME NEW M \in Nat, NEW N \in Nat \ {0}, NEW K \in Nat
    PROVE  Computes(TinyTn(M, N, K), Wide(M, N, K, TRUE, FALSE, M, N, N))
<1> DEFINE rects == [t \in Fours(M) \X Fours(N) |-> BlockAt(M, N, t[1], t[2])]
           call(x, y) == Blas(Dims(BlockRows(M, x), BlockColumns(M, N, x, y), K), TRUE, FALSE,
                              View(x, M), View(y, N), View(x * N + y, N))
           parts == [t \in Fours(M) \X Fours(N) |-> call(t[1], t[2])]
<1>1. TinyTn(M, N, K) = parts
  <2>1. {4 * i : i \in 0 .. M \div 4 - 1} \cup {M - (M % 4)} = Fours(M)
    BY FoursAre
  <2>2. TinyTn(M, N, K) =
          [t \in ({4 * i : i \in 0 .. M \div 4 - 1} \cup {M - (M % 4)}) \X {4 * j : j \in 0 .. N \div 4} |->
             call(t[1], t[2])]
    BY DEF TinyTn, BlockRows, BlockColumns
  <2> HIDE DEF call
  <2>3. QED
    BY <2>1, <2>2, Zenon DEF Fours
<1>2. Tiles(rects, M, N)
  BY BlockTiles
<1>3. ASSUME NEW x \in Fours(M), NEW y \in Fours(N)
      PROVE  call(x, y) = BlasOn(BlockAt(M, N, x, y), K, TRUE, FALSE, M, N, N)
  <2> DEFINE rows == BlockRows(M, x)
             cols == BlockColumns(M, N, x, y)
  <2>1. x \in Nat /\ y \in Nat
    BY FoursAre
  <2>2. M % 4 \in Nat /\ N % 4 \in Nat
    OBVIOUS
  <2>3. rows \in Nat /\ cols \in Nat
    BY <2>2 DEF BlockRows, BlockColumns
  <2> HIDE DEF rows, cols
  <2>4. (x + rows) - x = rows /\ (y + cols) - y = cols
    BY <2>1, <2>3
  <2> DEFINE r == BlockAt(M, N, x, y)
  <2>5. r.r0 = x /\ r.r1 = x + rows /\ r.c0 = y /\ r.c1 = y + cols
    BY RectFields DEF BlockAt, rows, cols
  <2> HIDE DEF r
  <2>6. BlasOn(r, K, TRUE, FALSE, M, N, N)
          = Blas(Dims(r.r1 - r.r0, r.c1 - r.c0, K), TRUE, FALSE,
                 View(r.r0, M), View(r.c0, N), View(r.r0 * N + r.c0, N))
    BY DEF BlasOn
  <2>7. BlasOn(r, K, TRUE, FALSE, M, N, N)
          = Blas(Dims(rows, cols, K), TRUE, FALSE, View(x, M), View(y, N), View(x * N + y, N))
    BY <2>4, <2>5, <2>6
  <2>8. QED
    BY <2>7, Zenon DEF r, rows, cols
<1>4. /\ DOMAIN rects = Fours(M) \X Fours(N) /\ DOMAIN parts = Fours(M) \X Fours(N)
      /\ \A x \in Fours(M), y \in Fours(N) :
            rects[<<x, y>>] = BlockAt(M, N, x, y) /\ parts[<<x, y>>] = call(x, y)
  <2> HIDE DEF call
  <2>1. QED
    OBVIOUS
<1> HIDE DEF rects, parts, call
<1>5. DOMAIN parts = DOMAIN rects
      /\ \A t \in DOMAIN rects : parts[t] = BlasOn(rects[t], K, TRUE, FALSE, M, N, N)
  <2>1. ASSUME NEW t \in DOMAIN rects PROVE parts[t] = BlasOn(rects[t], K, TRUE, FALSE, M, N, N)
    <3>1. PICK x \in Fours(M), y \in Fours(N) : t = <<x, y>>
      BY <1>4
    <3>2. rects[t] = BlockAt(M, N, x, y) /\ parts[t] = call(x, y)
      BY <1>4, <3>1
    <3>3. QED
      BY <1>3, <3>2
  <2>2. QED
    BY <1>4, <2>1
<1>6. Computes(parts, Wide(M, N, K, TRUE, FALSE, M, N, N))
  <2>1. N \in Nat /\ N <= N /\ TRUE \in BOOLEAN /\ FALSE \in BOOLEAN
    OBVIOUS
  <2>2. QED
    BY <1>2, <1>5, <2>1, TilesCompute
<1>7. QED
  BY <1>1, <1>6

\* The cells of a C of its own width are the indices below M * N.
LEMMA AllCells ==
    ASSUME NEW M \in Nat, NEW N \in Nat \ {0}
    PROVE  Cells(Rect(0, M, 0, N), N) = 0 .. M * N - 1
<1> DEFINE C == Cells(Rect(0, M, 0, N), N)
<1>1. ASSUME NEW i \in C PROVE i \in 0 .. M * N - 1
  <2>1. PICK m, n : InRect(Rect(0, M, 0, N), m, n) /\ i = m * N + n
    BY CellOf
  <2>2. m \in 0 .. M - 1 /\ n \in 0 .. N - 1
    BY <2>1, InRectIs
  <2>3. N * (m + 1) <= N * M
    BY <2>2, ProductOrder
  <2>4. m * N + n >= 0 /\ m * N + n < N * (m + 1)
    BY <2>2
  <2>5. N * M = M * N /\ N * M \in Nat /\ m * N + n \in Int /\ N * (m + 1) \in Int
    BY <2>2
  <2>6. QED
    BY <2>1, <2>3, <2>4, <2>5
<1>2. ASSUME NEW i \in 0 .. M * N - 1 PROVE i \in C
  <2> DEFINE m == i \div N
             n == i - N * m
  <2>1. i \in Nat /\ i < N * M /\ N * M = M * N
    OBVIOUS
  <2>2. m \in Nat /\ N * m <= i /\ i < N * m + N
    BY <2>1, Quotient
  <2> HIDE DEF m
  <2>3. n \in 0 .. N - 1 /\ m * N + n = i
    BY <2>1, <2>2
  <2>4. N * m < N * M
    BY <2>1, <2>2
  <2>5. m < M
    BY <2>2, <2>4, ProductBelow
  <2>6. InRect(Rect(0, M, 0, N), m, n)
    BY <2>2, <2>3, <2>5, InRectIs
  <2> HIDE DEF n
  <2>7. QED
    BY <2>3, <2>6, CellOf
<1> HIDE DEF C
<1>3. QED
  BY <1>1, <1>2 DEF C

\* In a C of its own width the wide product is the product.
LEMMA WideIsProduct ==
    ASSUME NEW M \in Nat, NEW N \in Nat \ {0}, NEW K \in Nat, NEW transA \in BOOLEAN, NEW transB \in BOOLEAN
    PROVE  Wide(M, N, K, transA, transB, IF transA THEN M ELSE K, IF transB THEN K ELSE N, N)
             = Product(M, N, K, transA, transB)
<1> DEFINE C == Cells(Rect(0, M, 0, N), N)
           sum(i) == Pairs(K, transA, transB, IF transA THEN M ELSE K, IF transB THEN K ELSE N, i \div N, i % N)
<1>1. C = 0 .. M * N - 1
  BY AllCells
<1>2. \A i : sum(i) = [k \in 1 .. K |-> <<IF transA THEN (k - 1) * M + (i \div N) ELSE (i \div N) * K + k - 1,
                                         IF transB THEN (i % N) * K + k - 1 ELSE (k - 1) * N + (i % N)>>]
  BY DEF Pairs
<1>3. Product(M, N, K, transA, transB) = [i \in 0 .. M * N - 1 |-> sum(i)]
  BY <1>2 DEF Product
<1>4. Wide(M, N, K, transA, transB, IF transA THEN M ELSE K, IF transB THEN K ELSE N, N) = [i \in C |-> sum(i)]
  BY DEF Wide
<1>5. QED
  BY <1>1, <1>3, <1>4, Zenon

-------------------------------------------------------------------------------
(* The products of psgemm_nn_k: sums of partial sums. *)

\* The call on k = lo .. hi - 1, and what the product sums for the element i.
PartialCall(M, N, K, lo, hi) ==
    Blas(Dims(M, N, hi - lo), FALSE, FALSE, View(lo, K), View(lo * N, N), View(0, N))
SumAt(N, K, i) == Pairs(K, FALSE, FALSE, K, N, i \div N, i % N)

\* What psgemm_nn_k's call on k = lo .. hi - 1 sums for an element is a piece of what the
\* product sums.
LEMMA PartialIs ==
    ASSUME NEW M \in Nat, NEW N \in Nat \ {0}, NEW K \in Nat, NEW lo \in Nat, NEW hi \in lo .. K,
           NEW i \in 0 .. M * N - 1
    PROVE  PartialCall(M, N, K, lo, hi)[i] = SubSeq(SumAt(N, K, i), lo + 1, hi)
<1> DEFINE m == i \div N
           n == i % N
           D == {0 + u * N + v : u \in 0 .. M - 1, v \in 0 .. N - 1}
           sum(u, v) == [k \in 1 .. hi - lo |-> <<lo + (u * K + k - 1), lo * N + ((k - 1) * N + v)>>]
           part == Blas(Dims(M, N, hi - lo), FALSE, FALSE, View(lo, K), View(lo * N, N), View(0, N))
           P == Pairs(K, FALSE, FALSE, K, N, m, n)
<1>1. part = [j \in D |-> sum((j - 0) \div N, (j - 0) % N)]
  BY DEF Blas, Dims, View
<1>2. D = 0 .. M * N - 1
  <2> DEFINE Z == {u * N + v : u \in 0 .. M - 1, v \in 0 .. N - 1}
  <2>1. D = Z
    <3>1. \A u \in 0 .. M - 1, v \in 0 .. N - 1 : 0 + u * N + v = u * N + v
      OBVIOUS
    <3>2. QED
      BY <3>1
  <2>2. Cells(Rect(0, M, 0, N), N) = Z
    BY DEF Cells, Rect
  <2>3. Cells(Rect(0, M, 0, N), N) = 0 .. M * N - 1
    BY AllCells, Zenon
  <2> HIDE DEF D, Z
  <2>4. QED
    BY <2>1, <2>2, <2>3
<1>3. i - 0 = i
  OBVIOUS
<1> HIDE DEF D, sum, part
<1>4. part[i] = sum(m, n)
  BY <1>1, <1>2, <1>3
<1>5. m \in Nat /\ n \in Nat
  BY Quotient
<1> HIDE DEF m, n
<1>6. sum(m, n) = SubSeq(P, lo + 1, hi)
  <2>1. SubSeq(P, lo + 1, hi) = [k \in 1 .. hi - lo |-> P[lo + k]]
    <3>1. P = [k \in 1 .. K |-> P[k]]
      BY DEF Pairs
    <3> HIDE DEF P
    <3>2. (1 + hi) - (lo + 1) = hi - lo
      OBVIOUS
    <3>3. QED
      OBVIOUS
  <2>2. ASSUME NEW k \in 1 .. hi - lo
        PROVE  P[lo + k] = <<lo + (m * K + k - 1), lo * N + ((k - 1) * N + n)>>
    <3>1. lo + k \in 1 .. K
      OBVIOUS
    <3>2. P[lo + k] = <<m * K + (lo + k) - 1, ((lo + k) - 1) * N + n>>
      BY <3>1 DEF Pairs
    <3>3. m * K \in Nat /\ m * K + (lo + k) - 1 = lo + (m * K + k - 1)
      BY <1>5
    <3>4. ((lo + k) - 1) * N + n = lo * N + ((k - 1) * N + n)
      BY <1>5
    <3>5. QED
      BY <3>2, <3>3, <3>4
  <2> HIDE DEF P
  <2>3. QED
    BY <2>1, <2>2 DEF sum
<1>7. QED
  BY <1>4, <1>6 DEF part, P, m, n, PartialCall, SumAt

\* The ends of the shares of K, which cut it at rising places.
Ends(K, parts) == [t \in 0 .. parts |-> (K * t) \div parts]

\* The shares of the inner dimension begin and end at rising places.
LEMMA ShareEnds ==
    ASSUME NEW K \in Nat, NEW parts \in Nat \ {0}
    PROVE  /\ Rising(Ends(K, parts), parts, K)
           /\ \A t \in 1 .. parts :
                 /\ Share(K, parts, t - 1).lo = Ends(K, parts)[t - 1]
                 /\ Share(K, parts, t - 1).hi = Ends(K, parts)[t]
<1> DEFINE at(t) == (K * t) \div parts
           cut == Ends(K, parts)
<1>1. ASSUME NEW t \in 0 .. parts PROVE at(t) \in 0 .. K
  <2>1. t \in Nat /\ t <= parts /\ K * t \in Nat
    OBVIOUS
  <2>2. K * t <= K * parts /\ K * parts = parts * K
    BY <2>1, ProductOrder
  <2>3. at(t) \in Nat /\ parts * at(t) <= K * t
    BY <2>1, Quotient
  <2> HIDE DEF at
  <2>4. parts * at(t) < parts * (K + 1)
    BY <2>1, <2>2, <2>3
  <2>5. at(t) < K + 1
    BY <2>3, <2>4, ProductBelow
  <2>6. QED
    BY <2>3, <2>5
<1>2. at(0) = 0
  <2>1. K * 0 = 0 /\ parts * 0 = 0
    OBVIOUS
  <2>2. QED
    BY <2>1, QuotientIs
<1>3. at(parts) = K
  <2>1. K * parts \in Nat /\ parts * K <= K * parts /\ K * parts < parts * K + parts
    OBVIOUS
  <2>2. QED
    BY <2>1, QuotientIs
<1>4. ASSUME NEW t \in 0 .. parts - 1 PROVE at(t) <= at(t + 1)
  <2>1. t \in Nat /\ K * t \in Nat /\ K * (t + 1) \in Nat /\ K * t <= K * (t + 1)
    OBVIOUS
  <2>2. at(t) \in Nat /\ parts * at(t) <= K * t
    BY <2>1, Quotient
  <2>3. at(t + 1) \in Nat /\ K * (t + 1) < parts * at(t + 1) + parts
    BY <2>1, Quotient
  <2> HIDE DEF at
  <2>4. parts * at(t) < parts * (at(t + 1) + 1)
    BY <2>1, <2>2, <2>3
  <2>5. at(t) < at(t + 1) + 1
    BY <2>2, <2>3, <2>4, ProductBelow
  <2>6. QED
    BY <2>2, <2>3, <2>5
<1>5. ASSUME NEW t \in 1 .. parts
      PROVE  Share(K, parts, t - 1).lo = at(t - 1) /\ Share(K, parts, t - 1).hi = at(t)
  <2>1. (t - 1) + 1 = t
    OBVIOUS
  <2>2. QED
    BY <2>1 DEF Share
<1>6. cut = [t \in 0 .. parts |-> at(t)]
  BY DEF Ends
<1> HIDE DEF at, cut
<1>7. /\ cut \in [0 .. parts -> 0 .. K]
      /\ \A t \in 0 .. parts : cut[t] = at(t)
  BY <1>1, <1>6
<1>8. /\ 0 \in 0 .. parts /\ parts \in 0 .. parts
      /\ \A t \in 0 .. parts - 1 : t \in 0 .. parts /\ t + 1 \in 0 .. parts
      /\ \A t \in 1 .. parts : t \in 0 .. parts /\ t - 1 \in 0 .. parts
  OBVIOUS
<1>9. cut[0] = 0 /\ cut[parts] = K
  BY <1>2, <1>3, <1>7, <1>8, Zenon
<1>10. \A t \in 0 .. parts - 1 : cut[t] <= cut[t + 1]
  BY <1>4, <1>7, <1>8, Zenon
<1>11. \A t \in 1 .. parts : Share(K, parts, t - 1).lo = cut[t - 1] /\ Share(K, parts, t - 1).hi = cut[t]
  BY <1>5, <1>7, <1>8, Zenon
<1>12. Rising(cut, parts, K)
  BY <1>7, <1>9, <1>10, Zenon DEF Rising
<1>13. QED
  BY <1>11, <1>12 DEF cut

\* The pieces of what an element sums that the tasks sum.
PartialSums(partial, sum, K) ==
    \A b \in Tasks : partial[b] = SubSeq(sum, Share(K, Threads, b).lo + 1, Share(K, Threads, b).hi)

\* The partial sums of an element, added up in the order of the tasks, sum what the
\* product sums.
LEMMA PartialsAdd ==
    ASSUME NEW N \in Nat \ {0}, NEW K \in Nat, NEW i \in Nat, Threads \in Nat \ {0}, NEW partial,
           PartialSums(partial, SumAt(N, K, i), K)
    PROVE  FlattenSeq([b \in 1 .. Threads |-> partial[b - 1]]) = SumAt(N, K, i)
<1> DEFINE m == i \div N
           n == i % N
           P == SumAt(N, K, i)
           cut == Ends(K, Threads)
           pieces == [b \in 1 .. Threads |-> partial[b - 1]]
<1>a. m \in Nat /\ n \in Nat
  BY Quotient
<1>b. P = [k \in 1 .. K |-> <<m * K + k - 1, (k - 1) * N + n>>]
  BY DEF Pairs, SumAt
<1> HIDE DEF m, n, P
<1>1. P \in Seq(Nat \X Nat) /\ Len(P) = K
  <2> DEFINE E == Nat \X Nat
  <2>1. ASSUME NEW k \in 1 .. K
        PROVE  <<m * K + k - 1, (k - 1) * N + n>> \in E
    <3>1. m * K \in Nat /\ k - 1 \in Nat
      BY <1>a
    <3>2. (k - 1) * N \in Nat
      BY <3>1
    <3>3. m * K + k - 1 \in Nat /\ (k - 1) * N + n \in Nat
      BY <1>a, <3>1, <3>2
    <3>4. QED
      BY <3>3
  <2> HIDE DEF E
  <2>2. P = [k \in 1 .. K |-> <<m * K + k - 1, (k - 1) * N + n>>]
    BY <1>b
  <2>3. P \in [1 .. K -> E]
    BY <2>1, <2>2
  <2>4. QED
    BY <2>3, SeqOfFunction DEF E
<1>2. /\ Rising(cut, Threads, K)
      /\ \A t \in 1 .. Threads : /\ Share(K, Threads, t - 1).lo = cut[t - 1]
                                /\ Share(K, Threads, t - 1).hi = cut[t]
  BY ShareEnds
<1> HIDE DEF cut
<1>3. \A t \in 1 .. Threads : t - 1 \in Tasks
  BY DEF Tasks
<1>4. ASSUME NEW t \in 1 .. Threads
      PROVE  partial[t - 1] = SubSeq(P, cut[t - 1] + 1, cut[t])
  <2>1. partial[t - 1] = SubSeq(P, Share(K, Threads, t - 1).lo + 1, Share(K, Threads, t - 1).hi)
    BY <1>3, Zenon DEF PartialSums, P
  <2>2. QED
    BY <1>2, <2>1, Zenon
<1>5. pieces = Pieces(P, cut, Threads)
  BY <1>4 DEF Pieces
<1> HIDE DEF pieces
<1>6. Rising(cut, Threads, Len(P)) /\ Threads \in Nat
  BY <1>1, <1>2
<1>7. FlattenSeq(Pieces(P, cut, Threads)) = P
  BY <1>1, <1>6, PiecesFlatten
<1>8. QED
  BY <1>5, <1>7 DEF pieces, P

\* psgemm_nn_k when it divides K computes the product.
KParts(M, N, K) ==
    LET partial == [b \in Tasks |->
                      LET s == Share(K, Threads, b)
                      IN  Blas(Dims(M, N, s.hi - s.lo), FALSE, FALSE, View(s.lo, K), View(s.lo * N, N), View(0, N))]
        chunks == ParChunks(M * N, AtLeast1((M * N) \div (2 * Threads)))
    IN  [c \in DOMAIN chunks |->
           [i \in chunks[c].lo .. chunks[c].hi - 1 |-> FlattenSeq([b \in 1 .. Threads |-> partial[b - 1][i]])]]

\* The partial sums of the shares, added up in the order of the threads, are the product.
LEMMA PartialsCompute ==
    ASSUME NEW M \in Nat, NEW N \in Nat \ {0}, NEW K \in Nat, Threads \in Nat \ {0}
    PROVE  Computes(KParts(M, N, K), Product(M, N, K, FALSE, FALSE))
<1> DEFINE lo(b) == Share(K, Threads, b).lo
           hi(b) == Share(K, Threads, b).hi
           call(b) == PartialCall(M, N, K, lo(b), hi(b))
           sum(i) == SumAt(N, K, i)
           size == AtLeast1((M * N) \div (2 * Threads))
           chunks == ParChunks(M * N, size)
           partial == [b \in Tasks |-> call(b)]
           whole == Product(M, N, K, FALSE, FALSE)
           parts == KParts(M, N, K)
           added(i) == FlattenSeq([b \in 1 .. Threads |-> partial[b - 1][i]])
<1>1. parts = [c \in DOMAIN chunks |-> [i \in Units(chunks[c]) |-> added(i)]]
  BY DEF KParts, Units, PartialCall
<1>2. EachOnce(M * N, chunks)
  <2>1. M * N \in Nat /\ (M * N) \div (2 * Threads) \in Nat
    <3>1. M * N \in Nat /\ 2 * Threads \in Nat \ {0}
      OBVIOUS
    <3>2. QED
      BY <3>1, Quotient
  <2>2. size \in Nat \ {0}
    BY <2>1 DEF AtLeast1
  <2> HIDE DEF size
  <2>3. QED
    BY <2>1, <2>2, ParChunksCover
<1> HIDE DEF chunks
<1>3. whole = [i \in 0 .. M * N - 1 |-> sum(i)]
  <2>1. \A i : sum(i) = [k \in 1 .. K |-> <<(i \div N) * K + k - 1, (k - 1) * N + (i % N)>>]
    BY DEF Pairs, SumAt
  <2> HIDE DEF sum
  <2>2. QED
    BY <2>1 DEF Product
<1>4. ASSUME NEW i \in 0 .. M * N - 1 PROVE added(i) = sum(i)
  <2> DEFINE of == [b \in Tasks |-> partial[b][i]]
             pieces == [b \in 1 .. Threads |-> of[b - 1]]
  <2>1. ASSUME NEW b \in Tasks PROVE of[b] = SubSeq(sum(i), lo(b) + 1, hi(b))
    <3>1. of[b] = call(b)[i]
      OBVIOUS
    <3>2. lo(b) \in Nat /\ hi(b) \in lo(b) .. K
      <4> DEFINE cut == Ends(K, Threads)
      <4>1. /\ Rising(cut, Threads, K)
            /\ \A t \in 1 .. Threads : /\ Share(K, Threads, t - 1).lo = cut[t - 1]
                                      /\ Share(K, Threads, t - 1).hi = cut[t]
        BY ShareEnds
      <4> HIDE DEF cut, lo, hi
      <4>2. b \in 0 .. Threads - 1 /\ b + 1 \in 1 .. Threads /\ (b + 1) - 1 = b
            /\ b \in 0 .. Threads /\ b + 1 \in 0 .. Threads
        BY DEF Tasks
      <4>3. lo(b) = cut[b] /\ hi(b) = cut[b + 1]
        BY <4>1, <4>2, Zenon DEF lo, hi
      <4>4. cut[b] \in 0 .. K /\ cut[b + 1] \in 0 .. K /\ cut[b] <= cut[b + 1]
        BY <4>1, <4>2 DEF Rising
      <4>5. QED
        BY <4>3, <4>4
    <3> HIDE DEF lo, hi
    <3>3. \A l \in Nat : \A h \in l .. K : PartialCall(M, N, K, l, h)[i] = SubSeq(SumAt(N, K, i), l + 1, h)
      BY PartialIs
    <3>4. call(b)[i] = SubSeq(sum(i), lo(b) + 1, hi(b))
      BY <3>2, <3>3
    <3>5. QED
      BY <3>1, <3>4
  <2> HIDE DEF of
  <2>2. PartialSums(of, sum(i), K)
    BY <2>1 DEF PartialSums
  <2>3. FlattenSeq(pieces) = sum(i)
    BY <2>2, PartialsAdd
  <2>4. pieces = [b \in 1 .. Threads |-> partial[b - 1][i]]
    <3>1. \A b \in 1 .. Threads : b - 1 \in Tasks
      BY DEF Tasks
    <3> HIDE DEF partial
    <3>2. QED
      BY <3>1 DEF of
  <2>5. QED
    BY <2>3, <2>4
<1> HIDE DEF added, sum
<1>5. DOMAIN whole = 0 .. M * N - 1
  BY <1>3
<1>6. DOMAIN parts = DOMAIN chunks
  BY <1>1
<1>7. ASSUME NEW c \in DOMAIN chunks
      PROVE  /\ DOMAIN parts[c] = Units(chunks[c])
             /\ \A i \in Units(chunks[c]) : i \in 0 .. M * N - 1 /\ parts[c][i] = whole[i]
  <2>1. parts[c] = [i \in Units(chunks[c]) |-> added(i)]
    BY <1>1
  <2>2. Units(chunks[c]) \subseteq 0 .. M * N - 1
    BY <1>2 DEF EachOnce
  <2> HIDE DEF parts, whole
  <2>3. \A i \in 0 .. M * N - 1 : whole[i] = sum(i)
    BY <1>3
  <2>4. QED
    BY <1>4, <2>1, <2>2, <2>3
<1> HIDE DEF parts, whole
<1>8. \A t \in DOMAIN parts : \A i \in DOMAIN parts[t] : i \in DOMAIN whole /\ parts[t][i] = whole[i]
  BY <1>5, <1>6, <1>7
<1>9. \A i \in DOMAIN whole : \E t \in DOMAIN parts : i \in DOMAIN parts[t]
  BY <1>2, <1>5, <1>6, <1>7 DEF EachOnce
<1>10. \A s, t \in DOMAIN parts : \A i : i \in DOMAIN parts[s] /\ i \in DOMAIN parts[t] => s = t
  <2> SUFFICES ASSUME NEW s \in DOMAIN chunks, NEW t \in DOMAIN chunks, NEW i,
                      i \in Units(chunks[s]), i \in Units(chunks[t])
               PROVE  s = t
    BY <1>6, <1>7
  <2>1. i \in 0 .. M * N - 1
    BY <1>7
  <2>2. QED
    BY <1>2, <2>1 DEF EachOnce
<1>11. whole = [i \in DOMAIN whole |-> whole[i]]
  BY <1>3
<1>12. Computes(parts, whole)
  BY <1>8, <1>9, <1>10, <1>11, PartsCompute
<1>13. QED
  BY <1>12 DEF parts, whole

-------------------------------------------------------------------------------
(* The products. *)

\* psgemm_nn_m, which divides the rows.
LEMMA NnMComputes ==
    ASSUME NEW M \in Nat, NEW N \in Nat \ {0}, NEW K \in Nat, Threads \in Nat \ {0}
    PROVE  Computes(PsgemmNnM(M, N, K), Product(M, N, K, FALSE, FALSE))
<1> DEFINE one == <<Blas(Dims(M, N, K), FALSE, FALSE, View(0, K), View(0, N), View(0, N))>>
           rows == RowParts(M, N, K, FALSE, FALSE, K, N, N)
           wide == Wide(M, N, K, FALSE, FALSE, K, N, N)
<1>1. N \in Nat /\ N <= N
  OBVIOUS
<1>2. wide = Product(M, N, K, FALSE, FALSE)
  BY WideIsProduct
<1>3. Computes(one, wide)
  BY <1>1, OneComputes
<1>4. Computes(rows, wide)
  BY <1>1, RowsCompute
<1>5. PsgemmNnM(M, N, K) \in {one, rows}
  BY Zenon DEF PsgemmNnM, TinyNn, RowParts
<1> HIDE DEF one, rows, wide
<1>6. QED
  BY <1>2, <1>3, <1>4, <1>5

\* psgemm_tn, which divides the rows and computes a small product in blocks.
LEMMA TnComputes ==
    ASSUME NEW M \in Nat, NEW N \in Nat \ {0}, NEW K \in Nat, Threads \in Nat \ {0}
    PROVE  Computes(PsgemmTn(M, N, K), Product(M, N, K, TRUE, FALSE))
<1> DEFINE one == <<Blas(Dims(M, N, K), TRUE, FALSE, View(0, M), View(0, N), View(0, N))>>
           rows == RowParts(M, N, K, TRUE, FALSE, M, N, N)
           wide == Wide(M, N, K, TRUE, FALSE, M, N, N)
<1>1. N \in Nat /\ N <= N
  OBVIOUS
<1>2. wide = Product(M, N, K, TRUE, FALSE)
  BY WideIsProduct
<1>3. Computes(one, wide)
  BY <1>1, OneComputes
<1>4. Computes(rows, wide)
  BY <1>1, RowsCompute
<1>5. Computes(TinyTn(M, N, K), wide)
  BY BlocksCompute
<1>6. PsgemmTn(M, N, K) \in {TinyTn(M, N, K), one, rows}
  BY Zenon DEF PsgemmTn, RowParts
<1> HIDE DEF one, rows, wide
<1>7. QED
  BY <1>2, <1>3, <1>4, <1>5, <1>6

\* psgemm_nn_k, which divides the sums.
LEMMA NnKComputes ==
    ASSUME NEW M \in Nat, NEW N \in Nat \ {0}, NEW K \in Nat, Threads \in Nat \ {0}
    PROVE  Computes(PsgemmNnK(M, N, K), Product(M, N, K, FALSE, FALSE))
<1> DEFINE one == <<Blas(Dims(M, N, K), FALSE, FALSE, View(0, K), View(0, N), View(0, N))>>
           wide == Wide(M, N, K, FALSE, FALSE, K, N, N)
<1>1. N \in Nat /\ N <= N
  OBVIOUS
<1>2. wide = Product(M, N, K, FALSE, FALSE)
  BY WideIsProduct
<1>3. Computes(one, wide)
  BY <1>1, OneComputes
<1>4. Computes(KParts(M, N, K), Product(M, N, K, FALSE, FALSE))
  BY PartialsCompute
<1>5. PsgemmNnK(M, N, K) \in {one, KParts(M, N, K)}
  BY Zenon DEF PsgemmNnK, KParts
<1> HIDE DEF one, wide
<1>6. QED
  BY <1>2, <1>3, <1>4, <1>5

\* psgemm_nt, which divides the columns, into a C that may be wider than the product.
LEMMA NtComputes ==
    ASSUME NEW M \in Nat, NEW N \in Nat, NEW K \in Nat, NEW ldc \in Nat \ {0}, N <= ldc,
           Threads \in Nat \ {0}
    PROVE  Computes(PsgemmNt(M, N, K, ldc), Wide(M, N, K, FALSE, TRUE, K, K, ldc))
<1> DEFINE one == <<Blas(Dims(M, N, K), FALSE, TRUE, View(0, K), View(0, K), View(0, ldc))>>
           columns == ColumnParts(Threads, M, N, K, FALSE, TRUE, K, K, ldc)
           wide == Wide(M, N, K, FALSE, TRUE, K, K, ldc)
<1>1. Computes(one, wide)
  BY OneComputes
<1>2. Computes(columns, wide)
  BY ColumnsCompute
<1>3. PsgemmNt(M, N, K, ldc) \in {one, columns}
  BY Zenon DEF PsgemmNt, TinyNt, ColumnParts, Tasks
<1> HIDE DEF one, columns
<1>4. QED
  BY <1>1, <1>2, <1>3

\* tm_gemm_nt, which divides the longer side.
LEMMA TmNtComputes ==
    ASSUME NEW M \in Nat, NEW N \in Nat, NEW K \in Nat, NEW ldc \in Nat \ {0}, N <= ldc,
           Threads \in Nat \ {0}
    PROVE  Computes(TmGemmNt(M, N, K, ldc), Wide(M, N, K, FALSE, TRUE, K, K, ldc))
<1> DEFINE one == <<Blas(Dims(M, N, K), FALSE, TRUE, View(0, K), View(0, K), View(0, ldc))>>
           rows == RowParts(M, N, K, FALSE, TRUE, K, K, ldc)
           wide == Wide(M, N, K, FALSE, TRUE, K, K, ldc)
<1>1. Computes(one, wide)
  BY OneComputes
<1>2. Computes(rows, wide)
  BY RowsCompute
<1>3. Computes(PsgemmNt(M, N, K, ldc), wide)
  BY NtComputes
<1>4. TmGemmNt(M, N, K, ldc) \in {one, rows, PsgemmNt(M, N, K, ldc)}
  BY Zenon DEF TmGemmNt, RowParts
<1> HIDE DEF one, rows, wide
<1>5. QED
  BY <1>1, <1>2, <1>3, <1>4 DEF wide

\* The cells of a product in a wider C.
LEMMA WideCells ==
    ASSUME NEW M \in Nat, NEW N \in Nat, NEW ld \in Nat \ {0}, N <= ld
    PROVE  Cells(Rect(0, M, 0, N), ld) = {i \in 0 .. M * ld - 1 : i % ld < N}
<1> DEFINE C == Cells(Rect(0, M, 0, N), ld)
           A == Cells(Rect(0, M, 0, ld), ld)
<1>1. A = 0 .. M * ld - 1
  BY AllCells
<1>2. ASSUME NEW i \in C PROVE i \in A /\ i % ld < N
  <2>1. PICK m, n : InRect(Rect(0, M, 0, N), m, n) /\ i = m * ld + n
    BY CellOf
  <2>2. m \in 0 .. M - 1 /\ n \in 0 .. N - 1 /\ n \in 0 .. ld - 1 /\ m \in Nat
    BY <2>1, InRectIs
  <2>3. InRect(Rect(0, M, 0, ld), m, n)
    BY <2>2, InRectIs
  <2>4. i % ld = n
    BY <2>1, <2>2, RowAndColumn
  <2>5. i \in A
    BY <2>1, <2>3, CellOf
  <2>6. QED
    BY <2>2, <2>4, <2>5
<1>3. ASSUME NEW i \in A, i % ld < N PROVE i \in C
  <2>1. PICK m, n : InRect(Rect(0, M, 0, ld), m, n) /\ i = m * ld + n
    BY CellOf
  <2>2. m \in 0 .. M - 1 /\ n \in 0 .. ld - 1 /\ m \in Nat
    BY <2>1, InRectIs
  <2>3. i % ld = n
    BY <2>1, <2>2, RowAndColumn
  <2>4. InRect(Rect(0, M, 0, N), m, n)
    BY <1>3, <2>2, <2>3, InRectIs
  <2>5. QED
    BY <2>1, <2>4, CellOf
<1> HIDE DEF A, C
<1>4. C = {i \in 0 .. M * ld - 1 : i % ld < N}
  BY <1>1, <1>2, <1>3
<1>5. QED
  BY <1>4 DEF C

\* A product in a C one column wider is the product, and nothing is written past its columns.
InWider(parts, M, N, K) ==
    /\ Disjoint(parts)
    /\ DOMAIN Merged(parts) = {i \in 0 .. M * (N + 1) - 1 : i % (N + 1) < N}
    /\ \A i \in DOMAIN Merged(parts) :
          Merged(parts)[i] = Product(M, N, K, FALSE, TRUE)[(i \div (N + 1)) * N + (i % (N + 1))]

\* A product into a wider C has its values in its own columns and writes no other.
LEMMA WiderIs ==
    ASSUME NEW M \in Nat, NEW N \in Nat \ {0}, NEW K \in Nat, NEW parts,
           Computes(parts, Wide(M, N, K, FALSE, TRUE, K, K, N + 1))
    PROVE  InWider(parts, M, N, K)
<1> DEFINE ld == N + 1
           C == Cells(Rect(0, M, 0, N), ld)
           wide == Wide(M, N, K, FALSE, TRUE, K, K, ld)
           product == Product(M, N, K, FALSE, TRUE)
           D == Cells(Rect(0, M, 0, N), N)
           sum(m, n) == Pairs(K, FALSE, TRUE, K, K, m, n)
<1>1. Disjoint(parts) /\ Merged(parts) = wide
  BY DEF Computes
<1>2. ld \in Nat \ {0} /\ N <= ld
  OBVIOUS
<1>3. wide = [i \in C |-> sum(i \div ld, i % ld)]
  BY DEF Wide
<1>4. product = [i \in D |-> sum(i \div N, i % N)]
  <2>1. Wide(M, N, K, FALSE, TRUE, K, K, N) = product
    BY WideIsProduct
  <2>2. Wide(M, N, K, FALSE, TRUE, K, K, N) = [i \in D |-> sum(i \div N, i % N)]
    BY DEF Wide
  <2> HIDE DEF product, D, sum
  <2>3. QED
    BY <2>1, <2>2
<1>5. C = {i \in 0 .. M * ld - 1 : i % ld < N}
  BY <1>2, WideCells
<1>6. ASSUME NEW i \in C
      PROVE  wide[i] = product[(i \div ld) * N + (i % ld)]
  <2>1. PICK m, n : InRect(Rect(0, M, 0, N), m, n) /\ i = m * ld + n
    BY CellOf
  <2>2. m \in Nat /\ n \in 0 .. N - 1 /\ n \in 0 .. ld - 1
    BY <2>1, InRectIs
  <2>3. i \div ld = m /\ i % ld = n
    BY <1>2, <2>1, <2>2, RowAndColumn
  <2>4. (m * N + n) \div N = m /\ (m * N + n) % N = n
    BY <2>2, RowAndColumn
  <2>5. m * N + n \in D
    BY <2>1, CellOf
  <2> HIDE DEF ld, wide, product, sum, C, D
  <2>6. wide[i] = sum(m, n)
    BY <1>3, <2>3
  <2>7. product[m * N + n] = sum(m, n)
    BY <1>4, <2>4, <2>5
  <2>8. QED
    BY <2>3, <2>6, <2>7
<1>7. DOMAIN wide = C
  BY <1>3
<1> HIDE DEF wide, product, C
<1>8. DOMAIN Merged(parts) = {i \in 0 .. M * ld - 1 : i % ld < N}
  BY <1>1, <1>5, <1>7
<1>9. \A i \in DOMAIN Merged(parts) : Merged(parts)[i] = product[(i \div ld) * N + (i % ld)]
  BY <1>1, <1>6, <1>7
<1>10. QED
  BY <1>1, <1>8, <1>9, Zenon DEF InWider, ld, product

\* train_engine.h (psgemm_nn_m, psgemm_tn, psgemm_nn_k, psgemm_nt) and autograd.h (tm_gemm_nt):
\* for products of every size, any number of threads and any thresholds, the parts of the tasks
\* write no element twice and no index outside C, and each element adds up exactly the products
\* of the reference, in its order: also the blocks of a small TN product and what is left over
\* of them, the shares that do not come out even, and the partial sums of the reduction over K.
\* Into a C one column wider the column past N stays as it is.
THEOREM ProductsAlwaysExact ==
    Threads \in Nat \ {0} =>
      \A M \in Nat : \A N \in Nat \ {0} : \A K \in Nat : ProductsExact(M, N, K)
<1> SUFFICES ASSUME Threads \in Nat \ {0}, NEW M \in Nat, NEW N \in Nat \ {0}, NEW K \in Nat
             PROVE  ProductsExact(M, N, K)
  OBVIOUS
<1>1. Computes(PsgemmNnM(M, N, K), Product(M, N, K, FALSE, FALSE))
  BY NnMComputes
<1>2. Computes(PsgemmTn(M, N, K), Product(M, N, K, TRUE, FALSE))
  BY TnComputes
<1>3. Computes(PsgemmNnK(M, N, K), Product(M, N, K, FALSE, FALSE))
  BY NnKComputes
<1>4. Wide(M, N, K, FALSE, TRUE, K, K, N) = Product(M, N, K, FALSE, TRUE)
  BY WideIsProduct
<1>5. N \in Nat /\ N <= N /\ N + 1 \in Nat \ {0} /\ N <= N + 1
  OBVIOUS
<1>6. /\ Computes(PsgemmNt(M, N, K, N), Wide(M, N, K, FALSE, TRUE, K, K, N))
      /\ Computes(PsgemmNt(M, N, K, N + 1), Wide(M, N, K, FALSE, TRUE, K, K, N + 1))
  BY <1>5, NtComputes
<1>7. /\ Computes(TmGemmNt(M, N, K, N), Wide(M, N, K, FALSE, TRUE, K, K, N))
      /\ Computes(TmGemmNt(M, N, K, N + 1), Wide(M, N, K, FALSE, TRUE, K, K, N + 1))
  BY <1>5, TmNtComputes
<1>8. Computes(PsgemmNt(M, N, K, N), Product(M, N, K, FALSE, TRUE))
      /\ Computes(TmGemmNt(M, N, K, N), Product(M, N, K, FALSE, TRUE))
  BY <1>4, <1>6, <1>7
<1>9. \A parts \in {PsgemmNt(M, N, K, N + 1), TmGemmNt(M, N, K, N + 1)} : InWider(parts, M, N, K)
  <2>1. InWider(PsgemmNt(M, N, K, N + 1), M, N, K)
    BY <1>6, WiderIs
  <2>2. InWider(TmGemmNt(M, N, K, N + 1), M, N, K)
    BY <1>7, WiderIs
  <2>3. QED
    BY <2>1, <2>2
<1>10. QED
  BY <1>1, <1>2, <1>3, <1>8, <1>9, Zenon DEF ProductsExact, InWider

-------------------------------------------------------------------------------
(* Numbers of mixed radix. *)

\* A number is its quotient and its remainder.
LEMMA DivMod ==
    ASSUME NEW i \in Nat, NEW b \in Nat \ {0}
    PROVE  /\ i \div b \in Nat /\ i % b \in 0 .. b - 1
           /\ i = (i \div b) * b + (i % b)
<1>1. i \div b \in Nat /\ b * (i \div b) <= i /\ i < b * (i \div b) + b
  BY Quotient
<1>2. i % b = i - b * (i \div b)
  OBVIOUS
<1>3. (i \div b) * b = b * (i \div b)
  BY <1>1
<1>4. QED
  BY <1>1, <1>2, <1>3

\* A quotient is below the number of its multiples, and so is what has a quotient.
LEMMA DivBelow ==
    ASSUME NEW n \in Nat, NEW b \in Nat \ {0}, NEW i \in 0 .. n * b - 1
    PROVE  i \in Nat /\ i \div b \in 0 .. n - 1
<1>1. n * b \in Nat /\ i \in Nat /\ b * n = n * b
  OBVIOUS
<1>2. i \div b \in Nat /\ b * (i \div b) <= i
  BY <1>1, Quotient
<1>3. b * (i \div b) < b * n
  BY <1>1, <1>2
<1>4. i \div b < n
  BY <1>2, <1>3, ProductBelow
<1>5. QED
  BY <1>1, <1>2, <1>4

\* A place of a row below n is below n rows.
LEMMA PlaceBelow ==
    ASSUME NEW n \in Nat, NEW b \in Nat \ {0}, NEW m \in 0 .. n - 1, NEW r \in 0 .. b - 1
    PROVE  m * b + r \in 0 .. n * b - 1
<1>1. b * (m + 1) <= b * n
  BY ProductOrder
<1>2. b * (m + 1) = m * b + b /\ b * n = n * b /\ m * b \in Nat
  OBVIOUS
<1>3. QED
  BY <1>1, <1>2

\* Two digits may be divided off one after the other.
DigitsApart(i, a, b) ==
    /\ a * b \in Nat \ {0}
    /\ i \div (a * b) = (i \div b) \div a
    /\ (i % (a * b)) \div b = (i \div b) % a
    /\ (i % (a * b)) % b = i % b
    /\ i % (a * b) = ((i \div b) % a) * b + (i % b)
\* Dividing by a * b is dividing by b and then by a.
LEMMA TwoDigits ==
    ASSUME NEW i \in Nat, NEW a \in Nat \ {0}, NEW b \in Nat \ {0}
    PROVE  DigitsApart(i, a, b)
<1> DEFINE q == i \div b
           r == i % b
           Q == q \div a
           R == q % a
           ab == a * b
           low == R * b + r
<1>1. q \in Nat /\ r \in 0 .. b - 1 /\ i = q * b + r
  BY DivMod
<1> HIDE DEF q, r
<1>2. Q \in Nat /\ R \in 0 .. a - 1 /\ q = Q * a + R
  BY <1>1, DivMod
<1> HIDE DEF Q, R
<1>3. ab \in Nat \ {0}
  OBVIOUS
<1>4. low \in 0 .. ab - 1
  BY <1>1, <1>2, PlaceBelow
<1>5. i = Q * ab + low
  <2>1. q * b = (Q * a) * b + R * b
    BY <1>1, <1>2
  <2>2. (Q * a) * b = Q * (a * b)
    BY <1>2
  <2>3. (Q * a) * b \in Nat /\ R * b \in Nat
    BY <1>2
  <2>4. QED
    BY <1>1, <2>1, <2>2, <2>3
<1> HIDE DEF ab
<1>6. low \div b = R /\ low % b = r
  BY <1>1, <1>2, RowAndColumn
<1> HIDE DEF low
<1>7. i \div ab = Q /\ i % ab = low
  BY <1>2, <1>3, <1>4, <1>5, RowAndColumn
<1>8. ab \in Nat \ {0} /\ i \div ab = Q /\ (i % ab) \div b = R /\ (i % ab) % b = r /\ i % ab = low
  BY <1>3, <1>6, <1>7
<1>9. QED
  BY <1>8 DEF ab, Q, R, q, r, low, DigitsApart

-------------------------------------------------------------------------------
(* Work divided into runs of equal length. *)

\* A place is in the run of its quotient.
LEMMA InRun ==
    ASSUME NEW w \in Nat \ {0}, NEW lo \in Nat, NEW hi \in Nat, NEW i
    PROVE  i \in lo * w .. hi * w - 1 <=> i \in Nat /\ i \div w \in lo .. hi - 1
<1>1. lo * w \in Nat /\ hi * w \in Nat /\ lo * w = w * lo /\ hi * w = w * hi
  OBVIOUS
<1>2. i \in lo * w .. hi * w - 1 => i \in Nat
  BY <1>1
<1>3. ASSUME i \in Nat
      PROVE  i \in lo * w .. hi * w - 1 <=> i \div w \in lo .. hi - 1
  <2> DEFINE q == i \div w
  <2>1. q \in Nat
    BY <1>3, Quotient
  <2>2. \A k \in Nat : k <= q <=> w * k <= i
    <3> SUFFICES ASSUME NEW k \in Nat PROVE k <= q <=> w * k <= i
      OBVIOUS
    <3>1. CASE k = 0
      BY <1>3, <2>1, <3>1
    <3>2. CASE k # 0
      <4>1. k - 1 \in Nat /\ (k - 1) + 1 = k
        BY <3>2
      <4>2. k - 1 < q <=> w * ((k - 1) + 1) <= i
        BY <1>3, <4>1, BelowQuotient
      <4> HIDE DEF q
      <4>3. QED
        BY <2>1, <4>1, <4>2
    <3>3. QED
      BY <3>1, <3>2
  <2> HIDE DEF q
  <2>3. (lo <= q <=> w * lo <= i) /\ (hi <= q <=> w * hi <= i)
    BY <2>2
  <2>4. i \in lo * w .. hi * w - 1 <=> q \in lo .. hi - 1
    BY <1>1, <1>3, <2>1, <2>3
  <2>5. QED
    BY <2>4 DEF q
<1>4. QED
  BY <1>2, <1>3

\* The ends of the chunks of par_chunks are numbers.
LEMMA ChunkType ==
    ASSUME NEW n \in Nat, NEW chunk \in Nat \ {0}, NEW b \in DOMAIN ParChunks(n, chunk)
    PROVE  ParChunks(n, chunk)[b].lo \in Nat /\ ParChunks(n, chunk)[b].hi \in Nat
<1>1. CASE n <= chunk
  BY <1>1 DEF ParChunks
<1>2. CASE chunk < n
  <2>1. b \in Nat
    BY <1>2, ChunkNumbers
  <2>2. ParChunks(n, chunk)[b] = [lo |-> b * chunk, hi |-> IF (b + 1) * chunk < n THEN (b + 1) * chunk ELSE n]
    BY <1>2 DEF ParChunks
  <2>3. b * chunk \in Nat /\ (b + 1) * chunk \in Nat
    BY <2>1
  <2>4. QED
    BY <2>2, <2>3
<1>3. QED
  BY <1>1, <1>2

\* The run of a task is a part of the whole.
LEMMA RunInside ==
    ASSUME NEW n \in Nat, NEW w \in Nat \ {0}, NEW tasks, EachOnce(n, tasks), NEW t \in DOMAIN tasks,
           tasks[t].lo \in Nat, tasks[t].hi \in Nat,
           NEW i \in tasks[t].lo * w .. tasks[t].hi * w - 1
    PROVE  i \in 0 .. n * w - 1
<1> DEFINE lo == tasks[t].lo
           hi == tasks[t].hi
<1>1. Units(tasks[t]) \subseteq 0 .. n - 1 /\ Units(tasks[t]) = lo .. hi - 1
  <2>1. t \in DOMAIN tasks /\ EachOnce(n, tasks)
    OBVIOUS
  <2>2. Units(tasks[t]) \subseteq 0 .. n - 1
    BY <2>1, Zenon DEF EachOnce
  <2>3. Units(tasks[t]) = lo .. hi - 1
    BY Zenon DEF Units
  <2>4. QED
    BY <2>2, <2>3
<1>2. lo \in Nat /\ hi \in Nat /\ i \in lo * w .. hi * w - 1
  OBVIOUS
<1> HIDE DEF lo, hi
<1>3. i \in Nat /\ i \div w \in lo .. hi - 1
  BY <1>2, InRun
<1>4. i \div w \in 0 .. n - 1
  BY <1>1, <1>3, Zenon
<1>5. 0 \in Nat /\ 0 * w = 0
  OBVIOUS
<1>6. i \in 0 * w .. n * w - 1
  BY <1>3, <1>4, <1>5, InRun
<1>7. QED
  BY <1>5, <1>6

\* parts write the runs of w places of their tasks, with what the whole has there.
WritesRuns(parts, tasks, whole, w) ==
    /\ DOMAIN parts = DOMAIN tasks
    /\ \A t \in DOMAIN tasks :
          /\ DOMAIN parts[t] = tasks[t].lo * w .. tasks[t].hi * w - 1
          /\ \A i \in DOMAIN parts[t] : parts[t][i] = whole[i]

\* Tasks that take each of n units once, between two numbers each.
Divides(n, tasks) ==
    /\ EachOnce(n, tasks)
    /\ \A t \in DOMAIN tasks : tasks[t].lo \in Nat /\ tasks[t].hi \in Nat

\* The chunks of par_chunks divide the work.
LEMMA ChunksDivide ==
    ASSUME NEW n \in Nat, NEW chunk \in Nat \ {0}
    PROVE  Divides(n, ParChunks(n, chunk))
  BY ParChunksCover, ChunkType DEF Divides

\* One chunk of everything divides the work.
LEMMA OneChunkDivides ==
    ASSUME NEW n \in Nat
    PROVE  Divides(n, <<[lo |-> 0, hi |-> n]>>)
<1> DEFINE tasks == <<[lo |-> 0, hi |-> n]>>
<1>1. DOMAIN tasks = {1} /\ tasks[1].lo = 0 /\ tasks[1].hi = n
  OBVIOUS
<1> HIDE DEF tasks
<1>2. EachOnce(n, tasks)
  BY <1>1 DEF EachOnce, Units
<1>3. Divides(n, tasks)
  BY <1>1, <1>2 DEF Divides
<1>4. QED
  BY <1>3 DEF tasks

\* The runs of such tasks make up the whole.
LEMMA RunsCompute ==
    ASSUME NEW n \in Nat, NEW w \in Nat \ {0}, NEW whole, NEW parts, NEW tasks, Divides(n, tasks),
           whole = [i \in DOMAIN whole |-> whole[i]], DOMAIN whole = 0 .. n * w - 1,
           WritesRuns(parts, tasks, whole, w)
    PROVE  Computes(parts, whole)
<1>1. EachOnce(n, tasks)
  BY DEF Divides
<1>2. \A t \in DOMAIN tasks : tasks[t].lo \in Nat /\ tasks[t].hi \in Nat
  BY DEF Divides
<1>3. /\ DOMAIN parts = DOMAIN tasks
      /\ \A t \in DOMAIN tasks :
            /\ DOMAIN parts[t] = tasks[t].lo * w .. tasks[t].hi * w - 1
            /\ \A i \in DOMAIN parts[t] : parts[t][i] = whole[i]
  BY DEF WritesRuns
<1>4. \A t \in DOMAIN tasks : \A i :
         i \in DOMAIN parts[t] <=> i \in Nat /\ i \div w \in Units(tasks[t])
  <2> SUFFICES ASSUME NEW t \in DOMAIN tasks, NEW i
               PROVE  i \in DOMAIN parts[t] <=> i \in Nat /\ i \div w \in Units(tasks[t])
    OBVIOUS
  <2> DEFINE lo == tasks[t].lo
             hi == tasks[t].hi
  <2>1. DOMAIN parts[t] = lo * w .. hi * w - 1 /\ Units(tasks[t]) = lo .. hi - 1
    BY <1>3 DEF Units
  <2>2. lo \in Nat /\ hi \in Nat
    BY <1>2
  <2> HIDE DEF lo, hi
  <2>3. i \in lo * w .. hi * w - 1 <=> i \in Nat /\ i \div w \in lo .. hi - 1
    BY <2>2, InRun
  <2>4. QED
    BY <2>1, <2>3, Zenon
<1>5. \A i : i \in DOMAIN whole <=> i \in Nat /\ i \div w \in 0 .. n - 1
  <2> SUFFICES ASSUME NEW i PROVE i \in DOMAIN whole <=> i \in Nat /\ i \div w \in 0 .. n - 1
    OBVIOUS
  <2>1. 0 * w = 0 /\ 0 \in Nat
    OBVIOUS
  <2>2. i \in 0 * w .. n * w - 1 <=> i \in Nat /\ i \div w \in 0 .. n - 1
    BY InRun
  <2>3. QED
    BY <2>1, <2>2
<1>6. \A t \in DOMAIN parts : \A i \in DOMAIN parts[t] : i \in DOMAIN whole /\ parts[t][i] = whole[i]
  <2> SUFFICES ASSUME NEW t \in DOMAIN tasks, NEW i \in DOMAIN parts[t]
               PROVE  i \in DOMAIN whole /\ parts[t][i] = whole[i]
    BY <1>3
  <2>1. i \in Nat /\ i \div w \in Units(tasks[t])
    BY <1>4, Zenon
  <2>2. i \div w \in 0 .. n - 1
    BY <1>1, <2>1, Zenon DEF EachOnce
  <2>3. QED
    BY <1>3, <1>5, <2>1, <2>2, Zenon
<1>7. \A i \in DOMAIN whole : \E t \in DOMAIN parts : i \in DOMAIN parts[t]
  <2> SUFFICES ASSUME NEW i \in DOMAIN whole PROVE \E t \in DOMAIN tasks : i \in DOMAIN parts[t]
    BY <1>3
  <2>1. i \in Nat /\ i \div w \in 0 .. n - 1
    BY <1>5, Zenon
  <2>2. \E t \in DOMAIN tasks : i \div w \in Units(tasks[t])
    BY <1>1, <2>1, Zenon DEF EachOnce
  <2>3. QED
    BY <1>4, <2>1, <2>2, Zenon
<1>8. \A s, t \in DOMAIN parts : \A i : i \in DOMAIN parts[s] /\ i \in DOMAIN parts[t] => s = t
  <2> SUFFICES ASSUME NEW s \in DOMAIN tasks, NEW t \in DOMAIN tasks, NEW i,
                      i \in DOMAIN parts[s], i \in DOMAIN parts[t]
               PROVE  s = t
    BY <1>3
  <2>1. i \in Nat /\ i \div w \in Units(tasks[s]) /\ i \div w \in Units(tasks[t])
    BY <1>4, Zenon
  <2>2. i \div w \in 0 .. n - 1
    BY <1>1, <2>1, Zenon DEF EachOnce
  <2>3. \E b \in DOMAIN tasks : \A a \in DOMAIN tasks : i \div w \in Units(tasks[a]) => a = b
    BY <1>1, <2>2, Zenon DEF EachOnce
  <2>4. QED
    BY <2>1, <2>3, Zenon
<1>9. QED
  BY <1>6, <1>7, <1>8, PartsCompute

-------------------------------------------------------------------------------
(* Shapes of convolutions. *)

Positive == Nat \ {0}
Shapes == [B : Positive, C : Positive, O : Positive, H : Positive, W : Positive,
           kH : Positive, kW : Positive, s : Positive]

\* The filter fits into the plane.
Fits(d) == d \in Shapes /\ d.kH <= d.H /\ d.kW <= d.W
Pixels(d) == OutH(d) * OutW(d)

\* One more than the steps that fit: none of them leaves the plane.
LEMMA Strides ==
    ASSUME NEW n \in Positive, NEW k \in Positive, NEW s \in Positive, k <= n
    PROVE  /\ (n - k) \div s + 1 \in Positive
           /\ \A y \in 0 .. (n - k) \div s : \A t \in 0 .. k - 1 : y * s + t \in 0 .. n - 1
<1> DEFINE q == (n - k) \div s
<1>1. n \in Nat \ {0} /\ k \in Nat \ {0} /\ s \in Nat \ {0} /\ n - k \in Nat
  BY DEF Positive
<1>2. q \in Nat /\ s * q <= n - k
  BY <1>1, Quotient
<1> HIDE DEF q
<1>3. ASSUME NEW y \in 0 .. q, NEW t \in 0 .. k - 1 PROVE y * s + t \in 0 .. n - 1
  <2>1. s * y <= s * q
    BY <1>1, <1>2, ProductOrder
  <2>2. y * s = s * y /\ s * y \in Nat
    BY <1>1, <1>2
  <2>3. QED
    BY <1>1, <1>2, <2>1, <2>2
<1>4. q + 1 \in Positive
  BY <1>2 DEF Positive
<1>5. QED
  BY <1>3, <1>4 DEF q

\* Every dimension of a convolution whose filter fits is positive.
LEMMA ShapeType ==
    ASSUME NEW d, Fits(d)
    PROVE  /\ d.B \in Nat \ {0} /\ d.C \in Nat \ {0} /\ d.O \in Nat \ {0} /\ d.H \in Nat \ {0}
           /\ d.W \in Nat \ {0} /\ d.kH \in Nat \ {0} /\ d.kW \in Nat \ {0} /\ d.s \in Nat \ {0}
           /\ OutH(d) \in Nat \ {0} /\ OutW(d) \in Nat \ {0} /\ Pixels(d) \in Nat \ {0}
           /\ d.kH * d.kW \in Nat \ {0} /\ Taps(d) \in Nat \ {0} /\ Taps(d) = d.C * (d.kH * d.kW)
           /\ Rows(d) \in Nat \ {0} /\ Rows(d) = d.B * Pixels(d)
<1>1. /\ d.B \in Nat \ {0} /\ d.C \in Nat \ {0} /\ d.O \in Nat \ {0} /\ d.H \in Nat \ {0}
      /\ d.W \in Nat \ {0} /\ d.kH \in Nat \ {0} /\ d.kW \in Nat \ {0} /\ d.s \in Nat \ {0}
      /\ d.kH <= d.H /\ d.kW <= d.W
  BY DEF Fits, Shapes, Positive
<1> DEFINE kH == d.kH
           kW == d.kW
           B == d.B
           C == d.C
           oh == OutH(d)
           ow == OutW(d)
<1>2. oh \in Nat \ {0} /\ ow \in Nat \ {0}
  <2>1. (d.H - d.kH) \div d.s + 1 \in Positive /\ (d.W - d.kW) \div d.s + 1 \in Positive
    BY <1>1, Strides DEF Positive
  <2>2. QED
    BY <2>1 DEF OutH, OutW, Positive
<1>3. \A a, b \in Nat \ {0} : a * b \in Nat \ {0}
  OBVIOUS
<1>4. \A a, b, c \in Nat \ {0} : a * b * c = a * (b * c)
  OBVIOUS
<1>5. Taps(d) = C * kH * kW /\ Rows(d) = B * oh * ow /\ Pixels(d) = oh * ow
  BY DEF Taps, Rows, Pixels
<1>6. kH \in Nat \ {0} /\ kW \in Nat \ {0} /\ B \in Nat \ {0} /\ C \in Nat \ {0}
  BY <1>1
<1> HIDE DEF kH, kW, B, C, oh, ow
<1>7. kH * kW \in Nat \ {0} /\ oh * ow \in Nat \ {0}
  BY <1>2, <1>3, <1>6
<1>8. C * (kH * kW) \in Nat \ {0} /\ B * (oh * ow) \in Nat \ {0}
  BY <1>3, <1>6, <1>7
<1>9. C * kH * kW = C * (kH * kW) /\ B * oh * ow = B * (oh * ow)
  BY <1>2, <1>4, <1>6
<1>10. /\ oh \in Nat \ {0} /\ ow \in Nat \ {0} /\ Pixels(d) \in Nat \ {0}
       /\ kH * kW \in Nat \ {0} /\ Taps(d) \in Nat \ {0} /\ Taps(d) = C * (kH * kW)
       /\ Rows(d) \in Nat \ {0} /\ Rows(d) = B * Pixels(d)
  BY <1>2, <1>5, <1>7, <1>8, <1>9
<1>11. QED
  BY <1>1, <1>10 DEF kH, kW, B, C, oh, ow

\* Where the tap k of the window at (y, x) of sample n is, in a plane of d.
LEMMA GatheredIs ==
    ASSUME NEW d, Fits(d), NEW n \in Nat, NEW y \in 0 .. OutH(d) - 1, NEW x \in 0 .. OutW(d) - 1,
           NEW k \in Nat
    PROVE  Gathered(d, n * Pixels(d) + (y * OutW(d) + x), k)
             = Planar(d, n, k \div (d.kH * d.kW), y * d.s + ((k \div d.kW) % d.kH), x * d.s + (k % d.kW))
<1> DEFINE P == Pixels(d)
           oh == OutH(d)
           ow == OutW(d)
           kH == d.kH
           kW == d.kW
           low == y * ow + x
           r == n * P + low
<1>1. oh \in Nat \ {0} /\ ow \in Nat \ {0} /\ P \in Nat \ {0} /\ kH \in Nat \ {0} /\ kW \in Nat \ {0}
      /\ y \in 0 .. oh - 1 /\ x \in 0 .. ow - 1
  BY ShapeType
<1>2. P = oh * ow
  BY DEF Pixels
<1>3. Gathered(d, r, k) = Planar(d, r \div P, k \div (kH * kW),
                                 (((r % P) \div ow) * d.s) + ((k % (kH * kW)) \div kW),
                                 (((r % P) % ow) * d.s) + ((k % (kH * kW)) % kW))
  BY DEF Gathered, Pixels
<1> HIDE DEF P, oh, ow, kH, kW
<1>4. low \in 0 .. P - 1 /\ low \div ow = y /\ low % ow = x
  <2>1. low \in 0 .. oh * ow - 1
    BY <1>1, PlaceBelow
  <2>2. y \in Nat
    BY <1>1
  <2>3. low \div ow = y /\ low % ow = x
    BY <1>1, <2>2, RowAndColumn
  <2>4. QED
    BY <1>2, <2>1, <2>3
<1> HIDE DEF low
<1>5. r \div P = n /\ r % P = low
  BY <1>1, <1>4, RowAndColumn
<1> HIDE DEF r
<1>6. (k % (kH * kW)) \div kW = (k \div kW) % kH /\ (k % (kH * kW)) % kW = k % kW
  <2>1. k \in Nat /\ kH \in Nat \ {0} /\ kW \in Nat \ {0}
    BY <1>1
  <2>2. DigitsApart(k, kH, kW)
    BY <2>1, TwoDigits, Zenon
  <2>3. QED
    BY <2>2, Zenon DEF DigitsApart
<1>7. Gathered(d, r, k) = Planar(d, n, k \div (kH * kW), y * d.s + ((k \div kW) % kH), x * d.s + (k % kW))
  BY <1>3, <1>4, <1>5, <1>6
<1>8. QED
  BY <1>7 DEF r, low, P, ow, kH, kW

\* All the columns of im2col, one for each row and tap.
Columns(d) == [i \in 0 .. Rows(d) * Taps(d) - 1 |-> Gathered(d, i \div Taps(d), i % Taps(d))]

\* im2col of autograd.h, divided by rows, and of train_engine.h, divided by samples, write
\* every column once, and the one of its row and tap.
THEOREM ColumnsWrittenOnce ==
    ASSUME Threads \in Nat \ {0}, MinRows \in Nat \ {0}
    PROVE  \A d : Fits(d) => Computes(TmIm2col(d), Columns(d)) /\ Computes(Im2col(d), Columns(d))
<1> SUFFICES ASSUME NEW d, Fits(d)
             PROVE  Computes(TmIm2col(d), Columns(d)) /\ Computes(Im2col(d), Columns(d))
  OBVIOUS
<1> DEFINE R == Rows(d)
           T == Taps(d)
           P == Pixels(d)
           B == d.B
           whole == Columns(d)
<1>1. R \in Nat \ {0} /\ T \in Nat \ {0} /\ P \in Nat \ {0} /\ B \in Nat \ {0} /\ R = B * P
  BY ShapeType
<1>2. /\ whole = [i \in DOMAIN whole |-> whole[i]] /\ DOMAIN whole = 0 .. R * T - 1
      /\ \A i \in 0 .. R * T - 1 : whole[i] = Gathered(d, i \div T, i % T)
  BY DEF Columns
<1> DEFINE chunk == IF R \div (4 * Threads) > MinRows THEN R \div (4 * Threads) ELSE MinRows
           rows == ParChunks(R, chunk)
           each == AtLeast1(B \div 8)
           samples == ParChunks(B, each)
<1>3. chunk \in Nat \ {0}
  <2>1. R \div (4 * Threads) \in Nat
    BY <1>1, Quotient
  <2>2. QED
    BY <2>1
<1>4. each \in Nat \ {0}
  <2>1. B \div 8 \in Nat
    BY <1>1, Quotient
  <2>2. QED
    BY <2>1 DEF AtLeast1
<1>5. TmIm2col(d) = [c \in DOMAIN rows |-> ColumnsOf(d, rows[c])]
  BY DEF TmIm2col
<1>6. Im2col(d) = [c \in DOMAIN samples |->
                     ColumnsOf(d, [lo |-> samples[c].lo * P, hi |-> samples[c].hi * P])]
  BY DEF Im2col, Samples, Pixels
<1>7. \A c \in DOMAIN rows : rows[c].lo \in Nat /\ rows[c].hi \in Nat
  BY <1>1, <1>3, ChunkType
<1>8. \A c \in DOMAIN samples : samples[c].lo \in Nat /\ samples[c].hi \in Nat
  BY <1>1, <1>4, ChunkType
<1>9. \A task : /\ DOMAIN ColumnsOf(d, task) = task.lo * T .. task.hi * T - 1
                /\ \A i \in task.lo * T .. task.hi * T - 1 :
                      ColumnsOf(d, task)[i] = Gathered(d, i \div T, i % T)
  BY DEF ColumnsOf
<1> HIDE DEF R, T, P, B, whole, chunk, each
<1>10. \A a, b, c \in Nat : a * b * c = a * (b * c)
  OBVIOUS
<1>11. WritesRuns(TmIm2col(d), rows, whole, T)
  <2>1. EachOnce(R, rows)
    BY <1>1, <1>3, ParChunksCover
  <2> HIDE DEF rows
  <2> DEFINE parts == TmIm2col(d)
  <2>2. DOMAIN parts = DOMAIN rows /\ \A c \in DOMAIN rows : parts[c] = ColumnsOf(d, rows[c])
    BY <1>5
  <2> HIDE DEF parts
  <2>3. ASSUME NEW c \in DOMAIN rows
        PROVE  /\ DOMAIN parts[c] = rows[c].lo * T .. rows[c].hi * T - 1
               /\ \A i \in DOMAIN parts[c] : parts[c][i] = whole[i]
    <3>1. /\ DOMAIN parts[c] = rows[c].lo * T .. rows[c].hi * T - 1
          /\ \A i \in DOMAIN parts[c] : parts[c][i] = Gathered(d, i \div T, i % T)
      BY <1>9, <2>2, Zenon
    <3>2. \A i \in DOMAIN parts[c] : i \in 0 .. R * T - 1
      BY <1>1, <1>7, <2>1, <3>1, RunInside
    <3>3. QED
      BY <1>2, <3>1, <3>2, Zenon
  <2>4. QED
    BY <2>2, <2>3, Zenon DEF WritesRuns, parts
<1>12. WritesRuns(Im2col(d), samples, whole, P * T)
  <2>1. EachOnce(B, samples)
    BY <1>1, <1>4, ParChunksCover
  <2> HIDE DEF samples
  <2> DEFINE parts == Im2col(d)
             PT == P * T
             task(c) == [lo |-> samples[c].lo * P, hi |-> samples[c].hi * P]
  <2>2. DOMAIN parts = DOMAIN samples /\ \A c \in DOMAIN samples : parts[c] = ColumnsOf(d, task(c))
    BY <1>6
  <2> HIDE DEF parts
  <2>3. PT \in Nat \ {0} /\ R * T = B * PT
    <3>1. \A a, b \in Nat \ {0} : a * b \in Nat \ {0}
      OBVIOUS
    <3>2. R * T = B * P * T
      BY <1>1
    <3>3. QED
      BY <1>1, <1>10, <3>1, <3>2
  <2>4. ASSUME NEW c \in DOMAIN samples
        PROVE  /\ DOMAIN parts[c] = samples[c].lo * PT .. samples[c].hi * PT - 1
               /\ \A i \in DOMAIN parts[c] : parts[c][i] = whole[i]
    <3>1. task(c).lo = samples[c].lo * P /\ task(c).hi = samples[c].hi * P
      OBVIOUS
    <3>2. samples[c].lo \in Nat /\ samples[c].hi \in Nat
      BY <1>8
    <3>3. task(c).lo * T = samples[c].lo * PT /\ task(c).hi * T = samples[c].hi * PT
      BY <1>1, <1>10, <3>1, <3>2
    <3> HIDE DEF task
    <3>4. /\ DOMAIN parts[c] = task(c).lo * T .. task(c).hi * T - 1
          /\ \A i \in DOMAIN parts[c] : parts[c][i] = Gathered(d, i \div T, i % T)
      BY <1>9, <2>2, Zenon
    <3> HIDE DEF PT
    <3>5. \A i \in DOMAIN parts[c] : i \in 0 .. B * PT - 1
      BY <1>1, <2>1, <2>3, <3>2, <3>3, <3>4, RunInside
    <3>6. QED
      BY <1>2, <2>3, <3>3, <3>4, <3>5, Zenon
  <2> HIDE DEF PT
  <2>5. WritesRuns(parts, samples, whole, PT)
    BY <2>2, <2>4, Zenon DEF WritesRuns
  <2>6. QED
    BY <2>5 DEF parts, PT
<1>13. B * (P * T) = R * T /\ P * T \in Nat \ {0}
  <2>1. \A a, b \in Nat \ {0} : a * b \in Nat \ {0}
    OBVIOUS
  <2>2. R * T = B * P * T
    BY <1>1
  <2>3. B * P * T = B * (P * T)
    BY <1>1, <1>10
  <2>4. QED
    BY <1>1, <2>1, <2>2, <2>3
<1>14. Divides(R, rows) /\ Divides(B, samples)
  BY <1>1, <1>3, <1>4, ChunksDivide
<1>15. R \in Nat /\ B \in Nat
  BY <1>1
<1> HIDE DEF rows, samples
<1>16. Computes(TmIm2col(d), whole)
  BY <1>1, <1>2, <1>11, <1>14, <1>15, RunsCompute
<1>17. Computes(Im2col(d), whole)
  BY <1>2, <1>12, <1>13, <1>14, <1>15, RunsCompute
<1>18. QED
  BY <1>16, <1>17 DEF whole

-------------------------------------------------------------------------------
(* Where an output is, and what its taps read. *)

\* The sample, filter, row and column of the output i, and its row of im2col.
SampleOf(d, i) == (i \div Pixels(d)) \div d.O
FilterOf(d, i) == (i \div Pixels(d)) % d.O
LineOf(d, i) == (i \div OutW(d)) % OutH(d)
CrossOf(d, i) == i % OutW(d)
RowOf(d, i) == SampleOf(d, i) * Pixels(d) + (LineOf(d, i) * OutW(d) + CrossOf(d, i))
Outputs(d) == 0 .. (d.B * d.O) * Pixels(d) - 1

\* The parts of an output's place are in their ranges and give it back.
LEMMA PlaceIs ==
    ASSUME NEW d, Fits(d), NEW i \in Outputs(d)
    PROVE  /\ i \in Nat /\ SampleOf(d, i) \in 0 .. d.B - 1 /\ FilterOf(d, i) \in 0 .. d.O - 1
           /\ LineOf(d, i) \in 0 .. OutH(d) - 1 /\ CrossOf(d, i) \in 0 .. OutW(d) - 1
           /\ i % Pixels(d) = LineOf(d, i) * OutW(d) + CrossOf(d, i)
           /\ i \div Pixels(d) = SampleOf(d, i) * d.O + FilterOf(d, i)
           /\ RowOf(d, i) \in 0 .. Rows(d) - 1
           /\ RowMajorAt(d, i) = RowOf(d, i) * d.O + FilterOf(d, i)
<1> DEFINE P == Pixels(d)
           B == d.B
           O == d.O
           oh == OutH(d)
           ow == OutW(d)
           plane == i \div P
           low == i % P
           n == plane \div O
           o == plane % O
           y == (i \div ow) % oh
           x == i % ow
<1>1. P \in Nat \ {0} /\ B \in Nat \ {0} /\ O \in Nat \ {0} /\ oh \in Nat \ {0} /\ ow \in Nat \ {0}
      /\ Rows(d) = B * P
  BY ShapeType
<1>2. P = oh * ow
  BY DEF Pixels
<1>3. i \in 0 .. (B * O) * P - 1 /\ B * O \in Nat
  BY <1>1 DEF Outputs
<1>4. RowMajorAt(d, i) = (n * P + low) * O + o
  BY DEF RowMajorAt, Pixels
<1>5. /\ SampleOf(d, i) = n /\ FilterOf(d, i) = o /\ LineOf(d, i) = y /\ CrossOf(d, i) = x
      /\ RowOf(d, i) = n * P + (y * ow + x)
  BY DEF SampleOf, FilterOf, LineOf, CrossOf, RowOf
<1> HIDE DEF P, B, O, oh, ow
<1>6. i \in Nat /\ plane \in 0 .. B * O - 1
  BY <1>1, <1>3, DivBelow
<1>7. low = y * ow + x
  <2>1. DigitsApart(i, oh, ow)
    BY <1>1, <1>6, TwoDigits, Zenon
  <2>2. QED
    BY <1>2, <2>1 DEF DigitsApart
<1>8. x \in 0 .. ow - 1 /\ i \div ow \in Nat /\ low \in 0 .. P - 1
  BY <1>1, <1>6, DivMod
<1>9. y \in 0 .. oh - 1
  BY <1>1, <1>8, DivMod
<1> HIDE DEF x, y, low
<1>10. n \in 0 .. B - 1 /\ plane \in Nat
  BY <1>1, <1>6, DivBelow
<1>11. o \in 0 .. O - 1 /\ plane = n * O + o
  BY <1>1, <1>10, DivMod
<1> HIDE DEF n, o, plane
<1>12. n * P + low \in 0 .. B * P - 1
  BY <1>1, <1>8, <1>10, PlaceBelow
<1>13. /\ i \in Nat /\ n \in 0 .. B - 1 /\ o \in 0 .. O - 1 /\ y \in 0 .. oh - 1 /\ x \in 0 .. ow - 1
       /\ low = y * ow + x /\ plane = n * O + o /\ RowOf(d, i) \in 0 .. Rows(d) - 1
       /\ RowMajorAt(d, i) = RowOf(d, i) * O + o
  BY <1>1, <1>4, <1>5, <1>6, <1>7, <1>9, <1>8, <1>10, <1>11, <1>12
<1>14. QED
  BY <1>5, <1>13 DEF P, B, O, oh, ow, plane, low

\* The channel, row and column of a filter's tap k.
LEMMA TapParts ==
    ASSUME NEW d, Fits(d), NEW k \in 0 .. Taps(d) - 1
    PROVE  /\ k \in Nat
           /\ k \div (d.kH * d.kW) \in 0 .. d.C - 1
           /\ (k \div d.kW) % d.kH \in 0 .. d.kH - 1
           /\ k % d.kW \in 0 .. d.kW - 1
           /\ \A o \in Nat : ((o * d.C + (k \div (d.kH * d.kW))) * d.kH + ((k \div d.kW) % d.kH)) * d.kW + (k % d.kW)
                               = o * Taps(d) + k
<1> DEFINE C == d.C
           kH == d.kH
           kW == d.kW
           T == Taps(d)
           area == kH * kW
           c == k \div area
           q == k \div kW
           ky == q % kH
           kx == k % kW
<1>1. C \in Nat \ {0} /\ kH \in Nat \ {0} /\ kW \in Nat \ {0} /\ area \in Nat \ {0} /\ T = C * area /\ T \in Nat \ {0}
  BY ShapeType
<1>2. k \in 0 .. T - 1
  OBVIOUS
<1> HIDE DEF C, kH, kW, T
<1>3. k \in Nat
  BY <1>1, <1>2
<1>4. c = q \div kH
  <2>1. DigitsApart(k, kH, kW)
    BY <1>1, <1>3, TwoDigits, Zenon
  <2>2. QED
    BY <2>1, Zenon DEF DigitsApart
<1> HIDE DEF area
<1>5. c \in 0 .. C - 1
  BY <1>1, <1>2, <1>3, DivBelow
<1> HIDE DEF c
<1>6. q \in Nat /\ kx \in 0 .. kW - 1 /\ k = q * kW + kx
  BY <1>1, <1>3, DivMod
<1> HIDE DEF q, kx
<1>7. ky \in 0 .. kH - 1 /\ q = c * kH + ky
  BY <1>1, <1>4, <1>6, DivMod
<1> HIDE DEF ky
<1>8. ASSUME NEW o \in Nat PROVE ((o * C + c) * kH + ky) * kW + kx = o * T + k
  <2>1. \A a, b, e \in Nat : (a + b) * e = a * e + b * e
    OBVIOUS
  <2>2. \A a, b, e \in Nat : (a * b) * e = a * (b * e)
    OBVIOUS
  <2>3. \A a, b \in Nat : a * b \in Nat
    OBVIOUS
  <2>4. C \in Nat /\ c \in Nat /\ kH \in Nat /\ ky \in Nat /\ kW \in Nat /\ kx \in Nat /\ o \in Nat
    BY <1>1, <1>5, <1>6, <1>7
  <2>5. (o * C + c) * kH + ky = (o * C) * kH + q
    BY <1>7, <2>1, <2>3, <2>4
  <2>6. ((o * C) * kH + q) * kW = ((o * C) * kH) * kW + q * kW
    BY <1>6, <2>1, <2>3, <2>4
  <2>7. ((o * C) * kH) * kW = o * T
    <3>1. ((o * C) * kH) * kW = (o * C) * (kH * kW)
      BY <2>2, <2>3, <2>4
    <3>2. (o * C) * (kH * kW) = o * (C * (kH * kW))
      BY <2>2, <2>3, <2>4
    <3>3. QED
      BY <1>1, <3>1, <3>2 DEF area
  <2>8. o * T \in Nat /\ q * kW \in Nat
    BY <1>1, <1>6, <2>3, <2>4
  <2>9. QED
    BY <1>3, <1>6, <2>4, <2>5, <2>6, <2>7, <2>8
<1>9. k \in Nat /\ c \in 0 .. C - 1 /\ ky \in 0 .. kH - 1 /\ kx \in 0 .. kW - 1
      /\ \A o \in Nat : ((o * C + c) * kH + ky) * kW + kx = o * T + k
  BY <1>3, <1>5, <1>6, <1>7, <1>8
<1>10. QED
  BY <1>9 DEF C, kH, kW, T, area, c, q, ky, kx

Margins == [t : Nat, b : Nat, l : Nat, r : Nat]

\* The padded plane has the filters and the channels of the plane.
LEMMA PaddedIs ==
    ASSUME NEW d \in Shapes, NEW p \in Margins
    PROVE  LET q == Padded(d, p)
           IN  /\ q \in Shapes /\ q.B = d.B /\ q.C = d.C /\ q.O = d.O /\ q.s = d.s
               /\ q.kH = d.kH /\ q.kW = d.kW
               /\ q.H = d.H + p.t + p.b /\ q.W = d.W + p.l + p.r
<1> DEFINE q == Padded(d, p)
<1>1. /\ p.t \in Nat /\ p.b \in Nat /\ p.l \in Nat /\ p.r \in Nat
      /\ d.H \in Positive /\ d.W \in Positive
  BY DEF Margins, Shapes
<1>2. q = [d EXCEPT !.H = d.H + p.t + p.b, !.W = d.W + p.l + p.r]
  BY DEF Padded
<1>3. d.H + p.t + p.b \in Positive /\ d.W + p.l + p.r \in Positive
  BY <1>1 DEF Positive
<1> DEFINE h == d.H + p.t + p.b
           w == d.W + p.l + p.r
<1> HIDE DEF h, w
<1>4. q = [d EXCEPT !.H = h, !.W = w] /\ h \in Positive /\ w \in Positive
  BY <1>2, <1>3 DEF h, w
<1> HIDE DEF q
<1>5. q \in Shapes /\ q.B = d.B /\ q.C = d.C /\ q.O = d.O /\ q.s = d.s /\ q.kH = d.kH /\ q.kW = d.kW
      /\ q.H = h /\ q.W = w
  BY <1>4 DEF Shapes
<1>6. QED
  BY <1>5 DEF q, h, w

\* A place of a plane is its channel's plane, its row and its column.
LEMMA PlanarIs ==
    ASSUME NEW n \in Nat, NEW C \in Nat \ {0}, NEW H \in Nat \ {0}, NEW W \in Nat \ {0}, NEW B \in Nat,
           NEW c \in 0 .. C - 1, NEW y \in 0 .. H - 1, NEW x \in 0 .. W - 1, n \in 0 .. B - 1
    PROVE  LET i == ((n * C + c) * H + y) * W + x
           IN  /\ i \in 0 .. B * C * H * W - 1
               /\ i % W = x /\ (i \div W) % H = y /\ i \div (H * W) = n * C + c
<1> DEFINE plane == n * C + c
           line == plane * H + y
           i == line * W + x
<1>1. plane \in 0 .. B * C - 1 /\ B * C \in Nat
  BY PlaceBelow
<1> HIDE DEF plane
<1>2. line \in 0 .. B * C * H - 1 /\ B * C * H \in Nat /\ line \in Nat
  BY <1>1, PlaceBelow
<1>3. line \div H = plane /\ line % H = y
  BY <1>1, RowAndColumn
<1> HIDE DEF line
<1>4. i \in 0 .. B * C * H * W - 1
  BY <1>2, PlaceBelow
<1>5. i \div W = line /\ i % W = x /\ i \in Nat
  BY <1>2, RowAndColumn
<1> HIDE DEF i
<1>6. i \div (H * W) = plane
  <2>1. DigitsApart(i, H, W)
    BY <1>5, TwoDigits, Zenon
  <2>2. QED
    BY <1>3, <1>5, <2>1 DEF DigitsApart
<1>7. i \in 0 .. B * C * H * W - 1 /\ i % W = x /\ (i \div W) % H = y /\ i \div (H * W) = plane
  BY <1>3, <1>4, <1>5, <1>6
<1>8. QED
  BY <1>7 DEF plane, line, i

\* What the padded plane holds at a place.
LEMMA PadIs ==
    ASSUME NEW d \in Shapes, NEW p \in Margins, NEW n \in 0 .. d.B - 1, NEW c \in 0 .. d.C - 1,
           NEW y \in 0 .. Padded(d, p).H - 1, NEW x \in 0 .. Padded(d, p).W - 1
    PROVE  /\ Planar(Padded(d, p), n, c, y, x) \in DOMAIN ZeroPad(d, p)
           /\ ZeroPad(d, p)[Planar(Padded(d, p), n, c, y, x)]
                = IF y - p.t \in 0 .. d.H - 1 /\ x - p.l \in 0 .. d.W - 1
                  THEN Planar(d, n, c, y - p.t, x - p.l) ELSE Pad
<1> DEFINE q == Padded(d, p)
           B == q.B
           C == q.C
           H == q.H
           W == q.W
           i == ((n * C + c) * H + y) * W + x
           pad == ZeroPad(d, p)
           held(j) == IF ((j \div W) % H) - p.t \in 0 .. d.H - 1 /\ (j % W) - p.l \in 0 .. d.W - 1
                      THEN ((j \div (H * W)) * d.H + (((j \div W) % H) - p.t)) * d.W + ((j % W) - p.l) ELSE Pad
<1>1. /\ q \in Shapes /\ B = d.B /\ C = d.C
  BY PaddedIs
<1>2. B \in Nat \ {0} /\ C \in Nat \ {0} /\ H \in Nat \ {0} /\ W \in Nat \ {0}
  BY <1>1 DEF Shapes, Positive
<1>3. pad = [j \in 0 .. B * C * H * W - 1 |-> held(j)]
  BY DEF ZeroPad
<1>4. Planar(q, n, c, y, x) = i
  BY DEF Planar
<1>5. n \in 0 .. B - 1 /\ c \in 0 .. C - 1 /\ y \in 0 .. H - 1 /\ x \in 0 .. W - 1
  BY <1>1
<1>6. Planar(d, n, c, y - p.t, x - p.l) = ((n * C + c) * d.H + (y - p.t)) * d.W + (x - p.l)
  BY <1>1 DEF Planar
<1> HIDE DEF B, C, H, W, pad, q
<1>7. i \in 0 .. B * C * H * W - 1 /\ i % W = x /\ (i \div W) % H = y /\ i \div (H * W) = n * C + c
  <2>1. n \in Nat /\ B \in Nat
    BY <1>2, <1>5
  <2>2. QED
    BY <1>2, <1>5, <2>1, PlanarIs
<1> HIDE DEF i
<1>8. i \in DOMAIN pad /\ pad[i] = held(i)
  <2> HIDE DEF held
  <2>1. QED
    BY <1>3, <1>7
<1>9. held(i) = IF y - p.t \in 0 .. d.H - 1 /\ x - p.l \in 0 .. d.W - 1
                THEN ((n * C + c) * d.H + (y - p.t)) * d.W + (x - p.l) ELSE Pad
  BY <1>7
<1> HIDE DEF held
<1>10. i \in DOMAIN pad /\ pad[i] = IF y - p.t \in 0 .. d.H - 1 /\ x - p.l \in 0 .. d.W - 1
                                    THEN Planar(d, n, c, y - p.t, x - p.l) ELSE Pad
  BY <1>6, <1>8, <1>9
<1>11. QED
  BY <1>4, <1>10 DEF q, pad

\* A tap of an output reads, in the padded plane, what im2col gathers for its row.
LEMMA TapIs ==
    ASSUME NEW d \in Shapes, NEW p \in Margins, Fits(Padded(d, p)),
           NEW i \in Outputs(Padded(d, p)), NEW k \in 0 .. Taps(d) - 1
    PROVE  LET q == Padded(d, p)
           IN  /\ Gathered(q, RowOf(q, i), k) \in DOMAIN ZeroPad(d, p)
               /\ Tap(d, p, i, k) = <<FilterOf(q, i) * Taps(d) + k, ZeroPad(d, p)[Gathered(q, RowOf(q, i), k)]>>
<1> DEFINE q == Padded(d, p)
           T == Taps(d)
           n == SampleOf(q, i)
           o == FilterOf(q, i)
           y == LineOf(q, i)
           x == CrossOf(q, i)
           c == k \div (d.kH * d.kW)
           ky == (k \div d.kW) % d.kH
           kx == k % d.kW
           Y == y * d.s + ky
           X == x * d.s + kx
           pad == ZeroPad(d, p)
<1>1. q \in Shapes /\ q.B = d.B /\ q.C = d.C /\ q.O = d.O /\ q.s = d.s /\ q.kH = d.kH /\ q.kW = d.kW
  BY PaddedIs
<1>2. Taps(q) = T
  BY <1>1 DEF Taps
<1>3. Fits(q) /\ i \in Outputs(q)
  OBVIOUS
<1>4. /\ i \in Nat /\ n \in 0 .. d.B - 1 /\ o \in 0 .. d.O - 1
      /\ y \in 0 .. OutH(q) - 1 /\ x \in 0 .. OutW(q) - 1
  BY <1>1, <1>3, PlaceIs
<1>5. /\ k \in Nat /\ c \in 0 .. d.C - 1 /\ ky \in 0 .. d.kH - 1 /\ kx \in 0 .. d.kW - 1
      /\ ((o * d.C + c) * d.kH + ky) * d.kW + kx = o * T + k
  <2>1. k \in 0 .. Taps(q) - 1 /\ o \in Nat
    BY <1>2, <1>4
  <2>2. /\ k \in Nat
        /\ k \div (q.kH * q.kW) \in 0 .. q.C - 1
        /\ (k \div q.kW) % q.kH \in 0 .. q.kH - 1
        /\ k % q.kW \in 0 .. q.kW - 1
        /\ \A f \in Nat : ((f * q.C + (k \div (q.kH * q.kW))) * q.kH + ((k \div q.kW) % q.kH)) * q.kW + (k % q.kW)
                            = f * Taps(q) + k
    BY <1>3, <2>1, TapParts
  <2>3. /\ k \in Nat /\ c \in 0 .. d.C - 1 /\ ky \in 0 .. d.kH - 1 /\ kx \in 0 .. d.kW - 1
        /\ \A f \in Nat : ((f * d.C + c) * d.kH + ky) * d.kW + kx = f * T + k
    BY <1>1, <1>2, <2>2
  <2> HIDE DEF c, ky, kx, T, o
  <2>4. QED
    BY <2>1, <2>3
<1>6. Gathered(q, RowOf(q, i), k) = Planar(q, n, c, Y, X)
  <2>1. n \in Nat /\ k \in Nat
    BY <1>4, <1>5
  <2>2. Gathered(q, n * Pixels(q) + (y * OutW(q) + x), k)
          = Planar(q, n, k \div (q.kH * q.kW), y * q.s + ((k \div q.kW) % q.kH), x * q.s + (k % q.kW))
    BY <1>3, <1>4, <2>1, GatheredIs
  <2>3. RowOf(q, i) = n * Pixels(q) + (y * OutW(q) + x)
    BY DEF RowOf
  <2>4. QED
    BY <1>1, <2>2, <2>3
<1>7. Y \in 0 .. q.H - 1 /\ X \in 0 .. q.W - 1
  <2>1. /\ q.H \in Positive /\ q.kH \in Positive /\ q.s \in Positive /\ q.kH <= q.H
        /\ q.W \in Positive /\ q.kW \in Positive /\ q.kW <= q.W
    BY <1>3 DEF Fits, Shapes
  <2>2. /\ \A u \in 0 .. (q.H - q.kH) \div q.s : \A t \in 0 .. q.kH - 1 : u * q.s + t \in 0 .. q.H - 1
        /\ \A u \in 0 .. (q.W - q.kW) \div q.s : \A t \in 0 .. q.kW - 1 : u * q.s + t \in 0 .. q.W - 1
    BY <2>1, Strides
  <2>3. (q.H - q.kH) \div q.s \in Int /\ (q.W - q.kW) \div q.s \in Int
    BY <2>1 DEF Positive
  <2>4. y \in 0 .. (q.H - q.kH) \div q.s /\ x \in 0 .. (q.W - q.kW) \div q.s
    <3> HIDE DEF y, x, q
    <3> DEFINE u == (q.H - q.kH) \div q.s
               v == (q.W - q.kW) \div q.s
    <3>1. OutH(q) = u + 1 /\ OutW(q) = v + 1 /\ u \in Int /\ v \in Int
      BY <2>3 DEF OutH, OutW
    <3> HIDE DEF u, v
    <3>2. y \in 0 .. u /\ x \in 0 .. v
      BY <1>4, <3>1
    <3>3. QED
      BY <3>2 DEF u, v
  <2> HIDE DEF q, y, x, ky, kx
  <2>5. QED
    BY <1>1, <1>5, <2>2, <2>4
<1>8. /\ Planar(q, n, c, Y, X) \in DOMAIN pad
      /\ pad[Planar(q, n, c, Y, X)] = IF Y - p.t \in 0 .. d.H - 1 /\ X - p.l \in 0 .. d.W - 1
                                      THEN Planar(d, n, c, Y - p.t, X - p.l) ELSE Pad
  BY <1>4, <1>5, <1>7, PadIs
<1>9. Tap(d, p, i, k) = <<((o * d.C + c) * d.kH + ky) * d.kW + kx,
                          IF Y - p.t \in 0 .. d.H - 1 /\ X - p.l \in 0 .. d.W - 1
                          THEN Planar(d, n, c, Y - p.t, X - p.l) ELSE Pad>>
  <2>1. /\ i % OutW(q) = x /\ (i \div OutW(q)) % OutH(q) = y
        /\ (i \div (OutW(q) * OutH(q))) % d.O = o /\ i \div (OutW(q) * OutH(q) * d.O) = n
    <3>1. OutH(q) \in Nat \ {0} /\ OutW(q) \in Nat \ {0} /\ Pixels(q) \in Nat \ {0} /\ q.O \in Nat \ {0}
      BY <1>3, ShapeType
    <3>2. OutW(q) * OutH(q) = Pixels(q)
      BY <3>1 DEF Pixels
    <3>3. DigitsApart(i, q.O, Pixels(q))
      BY <1>4, <3>1, TwoDigits, Zenon
    <3>4. i \div (q.O * Pixels(q)) = n
      BY <3>3 DEF DigitsApart, SampleOf
    <3>5. q.O * Pixels(q) = Pixels(q) * q.O
      BY <3>1
    <3>6. i \div (OutW(q) * OutH(q) * d.O) = n
      BY <1>1, <3>2, <3>4, <3>5
    <3>7. x = i % OutW(q) /\ y = (i \div OutW(q)) % OutH(q) /\ o = (i \div Pixels(q)) % q.O
      BY DEF CrossOf, LineOf, FilterOf
    <3>8. QED
      BY <1>1, <3>2, <3>6, <3>7
  <2>2. Tap(d, p, i, k) =
          LET x0 == i % OutW(q)
              y0 == (i \div OutW(q)) % OutH(q)
              o0 == (i \div (OutW(q) * OutH(q))) % d.O
              n0 == i \div (OutW(q) * OutH(q) * d.O)
              Y0 == y0 * d.s + ky
              X0 == x0 * d.s + kx
          IN  <<((o0 * d.C + c) * d.kH + ky) * d.kW + kx,
                IF Y0 - p.t \in 0 .. d.H - 1 /\ X0 - p.l \in 0 .. d.W - 1
                THEN Planar(d, n0, c, Y0 - p.t, X0 - p.l) ELSE Pad>>
    BY DEF Tap
  <2> HIDE DEF q, n, o, y, x, c, ky, kx
  <2>3. QED
    BY <2>1, <2>2
<1>10. /\ Gathered(q, RowOf(q, i), k) \in DOMAIN pad
       /\ Tap(d, p, i, k) = <<o * T + k, pad[Gathered(q, RowOf(q, i), k)]>>
  BY <1>5, <1>6, <1>8, <1>9
<1>11. QED
  BY <1>10 DEF q, T, o, pad

-------------------------------------------------------------------------------
(* The products an output sums. *)

\* Without zeros around the plane no product is left out.
LEMMA RealAll ==
    ASSUME NEW T \in Nat, NEW terms \in [1 .. T -> Nat \X Nat]
    PROVE  Real(terms) = terms
<1> DEFINE E == Nat \X Nat
           cut == [t \in 0 .. T |-> t]
           ones == [k \in 1 .. T |-> <<terms[k]>>]
<1>1. terms \in Seq(E) /\ Len(terms) = T
  <2>1. terms \in [1 .. T -> E]
    OBVIOUS
  <2> HIDE DEF E
  <2>2. QED
    BY <2>1, SeqOfFunction
<1>2. \A k \in 1 .. T : terms[k] \in E /\ terms[k][2] # Pad
  <2>1. \A e \in E : e[2] # Pad
    BY DEF Pad
  <2> HIDE DEF E
  <2>2. \A k \in 1 .. T : terms[k] \in E
    BY DEF E
  <2>3. QED
    BY <2>1, <2>2
<1>3. DOMAIN terms = 1 .. T
  OBVIOUS
<1> HIDE DEF E
<1>4. Rising(cut, T, T)
  BY DEF Rising
<1>5. ones = Pieces(terms, cut, T)
  <2>1. \A t \in 1 .. T : cut[t - 1] + 1 = t /\ cut[t] = t
    OBVIOUS
  <2>2. ASSUME NEW t \in 1 .. T PROVE SubSeq(terms, t, t) = <<terms[t]>>
    <3> DEFINE s == SubSeq(terms, t, t)
    <3>1. t \in Nat /\ 1 <= t /\ t <= Len(terms)
      BY <1>1
    <3>2. s \in Seq(E) /\ Len(s) = 1 /\ s[1] = terms[t]
      BY <1>1, <3>1
    <3> HIDE DEF s
    <3>3. s = <<s[1]>>
      BY <3>2
    <3>4. QED
      BY <3>2, <3>3 DEF s
  <2> HIDE DEF cut
  <2>3. \A t \in 1 .. T : SubSeq(terms, cut[t - 1] + 1, cut[t]) = <<terms[t]>>
    BY <2>1, <2>2
  <2>4. QED
    BY <2>3 DEF Pieces
<1>6. Real(terms) = FlattenSeq(ones)
  BY <1>2, <1>3 DEF Real
<1> HIDE DEF ones, cut
<1>7. FlattenSeq(Pieces(terms, cut, T)) = terms
  BY <1>1, <1>4, PiecesFlatten
<1>8. QED
  BY <1>5, <1>6, <1>7

\* Without margins the padded plane is the plane.
LEMMA NothingPadded ==
    ASSUME NEW d \in Shapes
    PROVE  /\ NoPad \in Margins /\ Padded(d, NoPad) = d
           /\ \A j \in DOMAIN ZeroPad(d, NoPad) : j \in Nat /\ ZeroPad(d, NoPad)[j] = j
<1> DEFINE H == d.H
           W == d.W
           BC == d.B * d.C
           pad == ZeroPad(d, NoPad)
<1>1. /\ NoPad \in Margins /\ NoPad.t = 0 /\ NoPad.b = 0 /\ NoPad.l = 0 /\ NoPad.r = 0
  BY DEF NoPad, Margins
<1>2. H \in Nat \ {0} /\ W \in Nat \ {0} /\ d.B \in Nat \ {0} /\ d.C \in Nat \ {0}
  BY DEF Shapes, Positive
<1>3. Padded(d, NoPad) = d
  <2>1. H + 0 + 0 = H /\ W + 0 + 0 = W
    BY <1>2
  <2>2. Padded(d, NoPad) = [d EXCEPT !.H = H + 0 + 0, !.W = W + 0 + 0]
    BY <1>1 DEF Padded
  <2>3. QED
    BY <2>1, <2>2 DEF Shapes
<1>4. BC \in Nat
  BY <1>2
<1>5. pad = [j \in 0 .. BC * H * W - 1 |->
               IF ((j \div W) % H) - 0 \in 0 .. H - 1 /\ (j % W) - 0 \in 0 .. W - 1
               THEN ((j \div (H * W)) * H + (((j \div W) % H) - 0)) * W + ((j % W) - 0) ELSE Pad]
  BY <1>1, <1>3 DEF ZeroPad
<1> HIDE DEF H, W, BC, pad
<1>6. ASSUME NEW j \in 0 .. BC * H * W - 1
      PROVE  j \in Nat /\ pad[j] = j
  <2> DEFINE line == j \div W
             y == line % H
             x == j % W
             plane == j \div (H * W)
  <2>1. BC * H * W \in Nat /\ j \in Nat
    BY <1>2, <1>4
  <2>2. pad[j] = IF y - 0 \in 0 .. H - 1 /\ x - 0 \in 0 .. W - 1
                 THEN (plane * H + (y - 0)) * W + (x - 0) ELSE Pad
    BY <1>5
  <2>3. plane = line \div H
    <3>1. DigitsApart(j, H, W)
      BY <1>2, <2>1, TwoDigits, Zenon
    <3>2. QED
      BY <3>1, Zenon DEF DigitsApart
  <2>4. line \in Nat /\ x \in 0 .. W - 1 /\ j = line * W + x
    BY <1>2, <2>1, DivMod
  <2> HIDE DEF line, x, plane
  <2>5. plane \in Nat /\ y \in 0 .. H - 1 /\ line = plane * H + y
    BY <1>2, <2>3, <2>4, DivMod
  <2> HIDE DEF y
  <2>6. y - 0 = y /\ x - 0 = x
    BY <2>4, <2>5
  <2>7. QED
    BY <2>1, <2>2, <2>4, <2>5, <2>6
<1>7. DOMAIN pad = 0 .. BC * H * W - 1
  BY <1>5
<1>8. QED
  BY <1>1, <1>3, <1>6, <1>7 DEF pad

\* The products of an output, in terms of the rows of im2col.
TapsOf(d, p, i) ==
    LET q == Padded(d, p)
    IN  [k \in 1 .. Taps(d) |-> <<FilterOf(q, i) * Taps(d) + (k - 1),
                                  ZeroPad(d, p)[Gathered(q, RowOf(q, i), k - 1)]>>]

\* The reference is defined on the outputs of the padded plane.
LEMMA ConvIs ==
    ASSUME NEW d \in Shapes, NEW p \in Margins, Fits(Padded(d, p))
    PROVE  ConvOf(d, p) = [i \in Outputs(Padded(d, p)) |-> Real(TapsOf(d, p, i))]
<1> DEFINE q == Padded(d, p)
           outputs == Outputs(q)
           terms(i) == [k \in 1 .. Taps(d) |-> Tap(d, p, i, k - 1)]
<1>1. q.B = d.B /\ q.C = d.C /\ q.O = d.O /\ q.kH = d.kH /\ q.kW = d.kW
  BY PaddedIs
<1>2. 0 .. d.B * d.O * OutH(q) * OutW(q) - 1 = outputs
  <2>1. d.B \in Nat /\ d.O \in Nat /\ OutH(q) \in Nat /\ OutW(q) \in Nat
    BY <1>1, ShapeType
  <2>2. \A a, b, e \in Nat : a * b * e = a * (b * e) /\ a * b \in Nat
    OBVIOUS
  <2>3. d.B * d.O * OutH(q) * OutW(q) = (d.B * d.O) * Pixels(q)
    BY <2>1, <2>2 DEF Pixels
  <2> HIDE DEF q
  <2>4. QED
    BY <1>1, <2>3 DEF Outputs
<1>3. ConvOf(d, p) = [i \in outputs |-> Real(terms(i))]
  <2>1. ConvOf(d, p) = [i \in 0 .. d.B * d.O * OutH(q) * OutW(q) - 1 |-> Real(terms(i))]
    BY DEF ConvOf
  <2> HIDE DEF q, outputs, terms
  <2>2. QED
    BY <1>2, <2>1
<1>4. ASSUME NEW i \in outputs
      PROVE  terms(i) = TapsOf(d, p, i)
  <2>1. ASSUME NEW k \in 1 .. Taps(d)
        PROVE  Tap(d, p, i, k - 1) = <<FilterOf(q, i) * Taps(d) + (k - 1),
                                       ZeroPad(d, p)[Gathered(q, RowOf(q, i), k - 1)]>>
    <3>1. Taps(d) \in Nat
      <4>1. Taps(q) = Taps(d)
        BY <1>1 DEF Taps
      <4>2. QED
        BY <4>1, ShapeType
    <3>2. k - 1 \in 0 .. Taps(d) - 1
      BY <3>1
    <3>3. QED
      BY <3>2, TapIs
  <2> HIDE DEF q
  <2>2. QED
    BY <2>1 DEF TapsOf, q
<1> HIDE DEF terms
<1>5. [i \in outputs |-> Real(terms(i))] = [i \in outputs |-> Real(TapsOf(d, p, i))]
  <2> HIDE DEF outputs
  <2>1. QED
    BY <1>4
<1>6. QED
  BY <1>3, <1>5

\* Without margins an output sums all of its taps.
LEMMA UnpaddedIs ==
    ASSUME NEW d, Fits(d)
    PROVE  /\ DOMAIN ConvOf(d, NoPad) = Outputs(d)
           /\ ConvOf(d, NoPad) = [i \in DOMAIN ConvOf(d, NoPad) |-> ConvOf(d, NoPad)[i]]
           /\ \A i \in Outputs(d) :
                 ConvOf(d, NoPad)[i] = [k \in 1 .. Taps(d) |-> <<FilterOf(d, i) * Taps(d) + (k - 1),
                                                                 Gathered(d, RowOf(d, i), k - 1)>>]
<1> DEFINE pad == ZeroPad(d, NoPad)
           T == Taps(d)
           real == ConvOf(d, NoPad)
<1>1. d \in Shapes
  BY DEF Fits
<1>2. /\ NoPad \in Margins /\ Padded(d, NoPad) = d
      /\ \A j \in DOMAIN pad : j \in Nat /\ pad[j] = j
  BY <1>1, NothingPadded
<1>3. real = [i \in Outputs(d) |-> Real(TapsOf(d, NoPad, i))]
  BY <1>1, <1>2, ConvIs
<1>4. T \in Nat
  BY ShapeType
<1>5. ASSUME NEW i \in Outputs(d)
      PROVE  real[i] = [k \in 1 .. T |-> <<FilterOf(d, i) * T + (k - 1), Gathered(d, RowOf(d, i), k - 1)>>]
  <2> DEFINE o == FilterOf(d, i)
             g(k) == Gathered(d, RowOf(d, i), k - 1)
             terms == [k \in 1 .. T |-> <<o * T + (k - 1), g(k)>>]
  <2>1. o \in Nat
    BY PlaceIs
  <2>2. ASSUME NEW k \in 1 .. T
        PROVE  g(k) \in DOMAIN pad
    <3>1. k - 1 \in 0 .. Taps(d) - 1
      BY <1>4
    <3>2. QED
      BY <1>1, <1>2, <3>1, TapIs
  <2>3. TapsOf(d, NoPad, i) = [k \in 1 .. T |-> <<o * T + (k - 1), pad[g(k)]>>]
    BY <1>2 DEF TapsOf
  <2> HIDE DEF o, g, T, pad
  <2>4. TapsOf(d, NoPad, i) = terms
    BY <1>2, <2>2, <2>3
  <2>5. terms \in [1 .. T -> Nat \X Nat]
    <3>1. \A k \in 1 .. T : o * T + (k - 1) \in Nat
      <4>1. o * T \in Nat
        BY <1>4, <2>1
      <4>2. QED
        BY <4>1
    <3>2. \A k \in 1 .. T : g(k) \in Nat
      BY <1>2, <2>2
    <3>3. QED
      BY <3>1, <3>2
  <2> HIDE DEF terms
  <2>6. Real(terms) = terms
    BY <1>4, <2>5, RealAll
  <2>7. real[i] = terms
    BY <1>3, <2>4, <2>6
  <2>8. QED
    BY <2>7 DEF terms, o, g, T
<1>6. DOMAIN real = Outputs(d) /\ real = [i \in DOMAIN real |-> real[i]]
  BY <1>3
<1>7. QED
  BY <1>5, <1>6

-------------------------------------------------------------------------------
(* The convolutions. *)

\* What parts that compute the whole hold.
LEMMA ComputesAt ==
    ASSUME NEW parts, NEW whole, Computes(parts, whole)
    PROVE  /\ Merged(parts) = whole
           /\ \A s, t \in DOMAIN parts : \A i : i \in DOMAIN parts[s] /\ i \in DOMAIN parts[t] => s = t
           /\ \A i : i \in DOMAIN whole <=> \E t \in DOMAIN parts : i \in DOMAIN parts[t]
           /\ \A t \in DOMAIN parts : \A i \in DOMAIN parts[t] : parts[t][i] = whole[i]
<1> DEFINE D == UNION {DOMAIN parts[t] : t \in DOMAIN parts}
           at(i) == CHOOSE t \in DOMAIN parts : i \in DOMAIN parts[t]
<1>1. Disjoint(parts) /\ Merged(parts) = whole
  BY DEF Computes
<1>2. \A s, t \in DOMAIN parts : \A i : i \in DOMAIN parts[s] /\ i \in DOMAIN parts[t] => s = t
  BY <1>1 DEF Disjoint
<1>3. whole = [i \in D |-> parts[at(i)][i]]
  BY <1>1 DEF Merged
<1>4. \A i : i \in D <=> \E t \in DOMAIN parts : i \in DOMAIN parts[t]
  OBVIOUS
<1>5. ASSUME NEW t \in DOMAIN parts, NEW i \in DOMAIN parts[t]
      PROVE  parts[t][i] = whole[i]
  <2>1. at(i) \in DOMAIN parts /\ i \in DOMAIN parts[at(i)]
    OBVIOUS
  <2>2. i \in D
    BY <1>4
  <2> HIDE DEF at, D
  <2>3. whole[i] = parts[at(i)][i]
    BY <1>3, <2>2
  <2>4. at(i) = t
    BY <1>2, <2>1, Zenon
  <2>5. QED
    BY <2>3, <2>4
<1>6. DOMAIN whole = D
  BY <1>3
<1> HIDE DEF D
<1>7. \A i : i \in DOMAIN whole <=> \E t \in DOMAIN parts : i \in DOMAIN parts[t]
  BY <1>4, <1>6
<1>8. QED
  BY <1>1, <1>2, <1>5, <1>7

\* Parts that have the places of others, and the whole's values, compute it.
LEMMA SamePlaces ==
    ASSUME NEW parts, NEW whole, Computes(parts, whole), NEW others, NEW total,
           DOMAIN others = DOMAIN parts, \A t \in DOMAIN parts : DOMAIN others[t] = DOMAIN parts[t],
           total = [i \in DOMAIN total |-> total[i]], DOMAIN total = DOMAIN whole,
           \A t \in DOMAIN parts : \A i \in DOMAIN parts[t] : others[t][i] = total[i]
    PROVE  Computes(others, total)
<1>1. /\ \A s, t \in DOMAIN parts : \A i : i \in DOMAIN parts[s] /\ i \in DOMAIN parts[t] => s = t
      /\ \A i : i \in DOMAIN whole <=> \E t \in DOMAIN parts : i \in DOMAIN parts[t]
  BY ComputesAt
<1>2. \A t \in DOMAIN others : \A i \in DOMAIN others[t] : i \in DOMAIN total /\ others[t][i] = total[i]
  BY <1>1, Zenon
<1>3. \A i \in DOMAIN total : \E t \in DOMAIN others : i \in DOMAIN others[t]
  BY <1>1, Zenon
<1>4. \A s, t \in DOMAIN others : \A i : i \in DOMAIN others[s] /\ i \in DOMAIN others[t] => s = t
  BY <1>1, Zenon
<1>5. QED
  BY <1>2, <1>3, <1>4, PartsCompute

\* The tasks that permute the rows into planes write every output once.
LEMMA PermutedComputes ==
    ASSUME Threads \in Nat \ {0}, NEW d, Fits(d), NEW ro, NEW whole,
           whole = [i \in DOMAIN whole |-> whole[i]], DOMAIN whole = Outputs(d),
           \A i \in Outputs(d) : ro[RowMajorAt(d, i)] = whole[i]
    PROVE  Computes(Permuted(d, ro), whole)
<1> DEFINE n == d.B * d.O
           P == Pixels(d)
           each == AtLeast1(n \div (2 * Threads))
           tasks == ParChunks(n, each)
           parts == Permuted(d, ro)
<1>1. n \in Nat /\ P \in Nat \ {0}
  BY ShapeType
<1>2. Outputs(d) = 0 .. n * P - 1
  BY DEF Outputs
<1>3. parts = [c \in DOMAIN tasks |-> [i \in tasks[c].lo * P .. tasks[c].hi * P - 1 |-> ro[RowMajorAt(d, i)]]]
  BY DEF Permuted, Planes, Pixels
<1> HIDE DEF n, P, parts
<1>4. each \in Nat \ {0}
  <2>1. n \div (2 * Threads) \in Nat
    BY <1>1, Quotient
  <2>2. QED
    BY <2>1 DEF AtLeast1
<1> HIDE DEF each
<1>5. Divides(n, tasks)
  BY <1>1, <1>4, ChunksDivide
<1> HIDE DEF tasks
<1>6. /\ EachOnce(n, tasks)
      /\ \A t \in DOMAIN tasks : tasks[t].lo \in Nat /\ tasks[t].hi \in Nat
  BY <1>5 DEF Divides
<1>7. ASSUME NEW t \in DOMAIN tasks
      PROVE  /\ DOMAIN parts[t] = tasks[t].lo * P .. tasks[t].hi * P - 1
             /\ \A i \in DOMAIN parts[t] : parts[t][i] = whole[i]
  <2>1. /\ DOMAIN parts[t] = tasks[t].lo * P .. tasks[t].hi * P - 1
        /\ \A i \in DOMAIN parts[t] : parts[t][i] = ro[RowMajorAt(d, i)]
    BY <1>3
  <2>2. \A i \in DOMAIN parts[t] : i \in 0 .. n * P - 1
    BY <1>1, <1>6, <2>1, RunInside
  <2>3. QED
    BY <1>2, <2>1, <2>2, Zenon
<1>8. DOMAIN parts = DOMAIN tasks
  BY <1>3
<1>9. WritesRuns(parts, tasks, whole, P)
  BY <1>7, <1>8, Zenon DEF WritesRuns
<1>10. Computes(parts, whole)
  BY <1>1, <1>2, <1>5, <1>9, RunsCompute
<1>11. QED
  BY <1>10 DEF parts

\* The column of a row and a tap, and the products of a row and a filter.
LEMMA ColumnAt ==
    ASSUME NEW d, Fits(d), NEW r \in 0 .. Rows(d) - 1, NEW k \in 1 .. Taps(d)
    PROVE  Columns(d)[r * Taps(d) + k - 1] = Gathered(d, r, k - 1)
<1> DEFINE T == Taps(d)
           R == Rows(d)
           j == r * T + (k - 1)
<1>1. T \in Nat \ {0} /\ R \in Nat \ {0}
  BY ShapeType
<1>2. Columns(d) = [i \in 0 .. R * T - 1 |-> Gathered(d, i \div T, i % T)]
  BY DEF Columns
<1>3. r \in 0 .. R - 1 /\ k \in 1 .. T
  OBVIOUS
<1> HIDE DEF T, R
<1>4. r \in Nat /\ k - 1 \in 0 .. T - 1 /\ r * T + k - 1 = j
  BY <1>1, <1>3
<1>5. j \in 0 .. R * T - 1 /\ j \div T = r /\ j % T = k - 1
  <2>1. j \in 0 .. R * T - 1
    BY <1>1, <1>3, <1>4, PlaceBelow
  <2>2. j \div T = r /\ j % T = k - 1
    BY <1>1, <1>4, RowAndColumn
  <2>3. QED
    BY <2>1, <2>2
<1> HIDE DEF j
<1>6. Columns(d)[j] = Gathered(d, r, k - 1)
  BY <1>2, <1>5
<1>7. QED
  BY <1>4, <1>6 DEF T

SumsRow(product, O, T, r, o) ==
    /\ r * O + o \in DOMAIN product
    /\ product[r * O + o] = [k \in 1 .. T |-> <<r * T + k - 1, o * T + k - 1>>]
\* A product of a row with a transposed row.
LEMMA ProductAt ==
    ASSUME NEW R \in Nat, NEW O \in Nat \ {0}, NEW T \in Nat, NEW r \in 0 .. R - 1, NEW o \in 0 .. O - 1
    PROVE  SumsRow(Product(R, O, T, FALSE, TRUE), O, T, r, o)
<1> DEFINE j == r * O + o
<1>1. j \in 0 .. R * O - 1
  BY PlaceBelow
<1>2. j \div O = r /\ j % O = o
  <2>1. r \in Nat
    OBVIOUS
  <2>2. QED
    BY <2>1, RowAndColumn
<1> HIDE DEF j
<1>3. Product(R, O, T, FALSE, TRUE)
        = [i \in 0 .. R * O - 1 |-> [k \in 1 .. T |-> <<(i \div O) * T + k - 1, (i % O) * T + k - 1>>]]
  BY DEF Product
<1>4. j \in DOMAIN Product(R, O, T, FALSE, TRUE)
      /\ Product(R, O, T, FALSE, TRUE)[j] = [k \in 1 .. T |-> <<r * T + k - 1, o * T + k - 1>>]
  BY <1>1, <1>2, <1>3
<1>5. QED
  BY <1>4, Zenon DEF j, SumsRow

\* tm_gemm_nt into a C of its own width.
LEMMA TmNtProduct ==
    ASSUME NEW M \in Nat, NEW N \in Nat \ {0}, NEW K \in Nat, Threads \in Nat \ {0}
    PROVE  Computes(TmGemmNt(M, N, K, N), Product(M, N, K, FALSE, TRUE))
<1>1. Computes(TmGemmNt(M, N, K, N), Wide(M, N, K, FALSE, TRUE, K, K, N))
  <2>1. N \in Nat /\ N <= N
    OBVIOUS
  <2>2. QED
    BY <2>1, TmNtComputes, Zenon
<1>2. Wide(M, N, K, FALSE, TRUE, K, K, N) = Product(M, N, K, FALSE, TRUE)
  <2>1. FALSE \in BOOLEAN /\ TRUE \in BOOLEAN
    OBVIOUS
  <2>2. Wide(M, N, K, FALSE, TRUE, IF FALSE THEN M ELSE K, IF TRUE THEN K ELSE N, N)
          = Product(M, N, K, FALSE, TRUE)
    BY <2>1, WideIsProduct
  <2>3. QED
    BY <2>2
<1>3. QED
  BY <1>1, <1>2

\* The convolution by im2col and one product: an output gathers its taps.
LEMMA GatheredConvolves ==
    ASSUME Threads \in Nat \ {0}, MinRows \in Nat \ {0}, NEW d, Fits(d), ~OneByOne(d)
    PROVE  Computes(Conv2d(d), ConvOf(d, NoPad))
<1> DEFINE T == Taps(d)
           R == Rows(d)
           O == d.O
           col == Merged(TmIm2col(d))
           ro == Merged(TmGemmNt(R, O, T, O))
           out == [i \in DOMAIN ro |-> Swapped(Seen(ro[i], LAMBDA c : col[c], Same))]
           whole == ConvOf(d, NoPad)
<1>1. T \in Nat \ {0} /\ R \in Nat \ {0} /\ O \in Nat \ {0}
  BY ShapeType
<1>2. Conv2d(d) = Permuted(d, out)
  BY DEF Conv2d
<1>3. col = Columns(d)
  <2>1. Computes(TmIm2col(d), Columns(d))
    BY ColumnsWrittenOnce
  <2>2. QED
    BY <2>1 DEF Computes
<1>4. ro = Product(R, O, T, FALSE, TRUE)
  <2>1. Computes(TmGemmNt(R, O, T, O), Product(R, O, T, FALSE, TRUE))
    <3> HIDE DEF R, O, T
    <3>1. QED
      BY <1>1, TmNtProduct
  <2>2. QED
    BY <2>1 DEF Computes
<1>5. ASSUME NEW r \in 0 .. R - 1, NEW o \in 0 .. O - 1
      PROVE  out[r * O + o] = [k \in 1 .. T |-> <<o * T + k - 1, Gathered(d, r, k - 1)>>]
  <2> DEFINE j == r * O + o
             terms == [k \in 1 .. T |-> <<r * T + k - 1, o * T + k - 1>>]
  <2>1. j \in DOMAIN ro /\ ro[j] = terms
    <3> DEFINE product == Product(R, O, T, FALSE, TRUE)
    <3> HIDE DEF R, O, T, ro
    <3>1. R \in Nat /\ T \in Nat
      BY <1>1
    <3>2. SumsRow(product, O, T, r, o)
      BY <1>1, <3>1, ProductAt, Zenon
    <3>3. SumsRow(ro, O, T, r, o)
      BY <1>4, <3>2, Zenon
    <3>4. QED
      BY <3>3, Zenon DEF SumsRow
  <2>2. \A k \in 1 .. T : col[r * T + k - 1] = Gathered(d, r, k - 1)
    BY <1>3, ColumnAt
  <2> HIDE DEF ro, col, j, T
  <2>3. out[j] = Swapped(Seen(terms, LAMBDA c : col[c], Same))
    BY <2>1
  <2>4. Seen(terms, LAMBDA c : col[c], Same) = [k \in 1 .. T |-> <<col[r * T + k - 1], o * T + k - 1>>]
    BY DEF Seen, Same
  <2>5. Swapped([k \in 1 .. T |-> <<col[r * T + k - 1], o * T + k - 1>>])
          = [k \in 1 .. T |-> <<o * T + k - 1, col[r * T + k - 1]>>]
    BY DEF Swapped
  <2>6. [k \in 1 .. T |-> <<o * T + k - 1, col[r * T + k - 1]>>]
          = [k \in 1 .. T |-> <<o * T + k - 1, Gathered(d, r, k - 1)>>]
    BY <2>2
  <2> HIDE DEF out, terms
  <2>7. out[j] = [k \in 1 .. T |-> <<o * T + k - 1, Gathered(d, r, k - 1)>>]
    BY <2>3, <2>4, <2>5, <2>6
  <2>8. QED
    BY <2>7 DEF j
<1>6. /\ DOMAIN whole = Outputs(d)
      /\ whole = [i \in DOMAIN whole |-> whole[i]]
      /\ \A i \in Outputs(d) :
            whole[i] = [k \in 1 .. T |-> <<FilterOf(d, i) * T + (k - 1), Gathered(d, RowOf(d, i), k - 1)>>]
  BY UnpaddedIs
<1>7. ASSUME NEW i \in Outputs(d)
      PROVE  out[RowMajorAt(d, i)] = whole[i]
  <2> DEFINE r == RowOf(d, i)
             o == FilterOf(d, i)
  <2>1. r \in 0 .. R - 1 /\ o \in 0 .. O - 1 /\ RowMajorAt(d, i) = r * O + o
    BY PlaceIs
  <2>2. whole[i] = [k \in 1 .. T |-> <<o * T + (k - 1), Gathered(d, r, k - 1)>>]
    BY <1>6
  <2> HIDE DEF r, o, out, T, R, O, whole
  <2>3. out[r * O + o] = [k \in 1 .. T |-> <<o * T + k - 1, Gathered(d, r, k - 1)>>]
    BY <1>5, <2>1
  <2>4. \A k \in 1 .. T : o * T + k - 1 = o * T + (k - 1)
    <3>1. o * T \in Int
      BY <1>1, <2>1
    <3>2. QED
      BY <1>1, <3>1
  <2>5. QED
    BY <2>1, <2>2, <2>3, <2>4
<1> HIDE DEF out, whole
<1>8. Computes(Permuted(d, out), whole)
  BY <1>6, <1>7, PermutedComputes
<1>9. QED
  BY <1>2, <1>8 DEF whole

\* A 1x1 filter on one sample: the outputs of a filter are the places of the plane.
LEMMA PlaneOfOutputs ==
    ASSUME NEW d, Fits(d), OneByOne(d)
    PROVE  /\ Taps(d) = d.C /\ Pixels(d) = d.H * d.W /\ Outputs(d) = 0 .. d.O * (d.H * d.W) - 1
           /\ \A i \in Outputs(d) : /\ FilterOf(d, i) = i \div (d.H * d.W)
                                    /\ \A k \in Nat : Gathered(d, RowOf(d, i), k) = k * (d.H * d.W) + (i % (d.H * d.W))
<1> DEFINE C == d.C
           O == d.O
           H == d.H
           W == d.W
           P == H * W
<1>1. /\ d.kH = 1 /\ d.kW = 1 /\ d.s = 1 /\ d.B = 1
      /\ C \in Nat \ {0} /\ O \in Nat \ {0} /\ H \in Nat \ {0} /\ W \in Nat \ {0}
  BY ShapeType DEF OneByOne
<1>2. OutH(d) = H /\ OutW(d) = W
  <2>1. (H - 1) \div 1 + 1 = H /\ (W - 1) \div 1 + 1 = W
    <3> HIDE DEF H, W
    <3>1. QED
      BY <1>1
  <2>2. QED
    BY <1>1, <2>1 DEF OutH, OutW
<1>3. Pixels(d) = P /\ Taps(d) = C
  <2>1. C * 1 * 1 = C
    BY <1>1
  <2>2. QED
    BY <1>1, <1>2, <2>1 DEF Pixels, Taps
<1>4. P \in Nat \ {0}
  BY <1>3, ShapeType
<1>5. Outputs(d) = 0 .. O * P - 1
  <2>1. 1 * O = O
    BY <1>1
  <2>2. QED
    BY <1>1, <1>3, <2>1 DEF Outputs
<1>6. ASSUME NEW i \in Outputs(d)
      PROVE  /\ FilterOf(d, i) = i \div P
             /\ \A k \in Nat : Gathered(d, RowOf(d, i), k) = k * P + (i % P)
  <2> DEFINE n == SampleOf(d, i)
             o == FilterOf(d, i)
             y == LineOf(d, i)
             x == CrossOf(d, i)
  <2>1. /\ n \in 0 .. d.B - 1 /\ o \in 0 .. d.O - 1 /\ y \in 0 .. OutH(d) - 1 /\ x \in 0 .. OutW(d) - 1
        /\ i % Pixels(d) = y * OutW(d) + x /\ i \div Pixels(d) = n * d.O + o
    BY PlaceIs
  <2>2. n = 0 /\ y \in Nat /\ x \in Nat /\ o \in Nat /\ i % P = y * W + x
    BY <1>1, <1>2, <1>3, <2>1
  <2>3. i \div P = o
    <3>1. 0 * d.O + o = o
      BY <1>1, <2>2
    <3>2. QED
      BY <1>3, <2>1, <2>2, <3>1
  <2>4. ASSUME NEW k \in Nat
        PROVE  Gathered(d, RowOf(d, i), k) = k * P + (i % P)
    <3>1. n \in Nat
      BY <2>2
    <3>2. Gathered(d, n * Pixels(d) + (y * OutW(d) + x), k)
            = Planar(d, n, k \div (d.kH * d.kW), y * d.s + ((k \div d.kW) % d.kH), x * d.s + (k % d.kW))
      BY <2>1, <3>1, GatheredIs
    <3>3. k \div (1 * 1) = k /\ y * 1 + ((k \div 1) % 1) = y /\ x * 1 + (k % 1) = x
      <4> HIDE DEF y, x
      <4>1. k \div 1 = k /\ k % 1 = 0 /\ 1 * 1 = 1
        OBVIOUS
      <4>2. y * 1 = y /\ x * 1 = x
        BY <2>2
      <4>3. QED
        BY <2>2, <4>1, <4>2
    <3>4. Planar(d, n, k \div (d.kH * d.kW), y * d.s + ((k \div d.kW) % d.kH), x * d.s + (k % d.kW))
            = Planar(d, 0, k, y, x)
      BY <1>1, <2>2, <3>3
    <3>5. Planar(d, 0, k, y, x) = ((0 * C + k) * H + y) * W + x
      BY DEF Planar
    <3>6. ((0 * C + k) * H + y) * W + x = k * P + (y * W + x)
      <4> HIDE DEF y, x, C, H, W
      <4>1. 0 * C + k = k
        BY <1>1
      <4>2. \A a, b, e \in Nat : (a + b) * e = a * e + b * e /\ (a * b) * e = a * (b * e) /\ a * b \in Nat
        OBVIOUS
      <4>3. H \in Nat /\ W \in Nat
        BY <1>1
      <4>4. (k * H + y) * W = k * (H * W) + y * W /\ k * (H * W) \in Nat /\ y * W \in Nat
        BY <2>2, <4>2, <4>3
      <4>5. QED
        BY <2>2, <4>1, <4>4
    <3>7. RowOf(d, i) = n * Pixels(d) + (y * OutW(d) + x)
      BY DEF RowOf
    <3>8. QED
      BY <2>2, <3>2, <3>4, <3>5, <3>6, <3>7
  <2>5. QED
    BY <2>3, <2>4
<1>7. QED
  BY <1>3, <1>5, <1>6

\* The convolution of 1x1 filters without im2col: one product, divided by columns.
LEMMA PlaneConvolves ==
    ASSUME Threads \in Nat \ {0}, MinColumns \in Nat \ {0}, NEW d, Fits(d), OneByOne(d)
    PROVE  Computes(Conv2d(d), ConvOf(d, NoPad))
<1> DEFINE C == d.C
           O == d.O
           P == d.H * d.W
           most == AtLeast1(P \div MinColumns)
           nc == IF O * P * C < ParFlops THEN 1 ELSE IF Threads < most THEN Threads ELSE most
           whole == ConvOf(d, NoPad)
<1>1. /\ Taps(d) = C /\ Pixels(d) = P /\ Outputs(d) = 0 .. O * P - 1
      /\ \A i \in Outputs(d) : /\ FilterOf(d, i) = i \div P
                               /\ \A k \in Nat : Gathered(d, RowOf(d, i), k) = k * P + (i % P)
  BY PlaneOfOutputs
<1>2. C \in Nat \ {0} /\ O \in Nat \ {0} /\ P \in Nat \ {0}
  BY <1>1, ShapeType
<1>3. nc \in Nat \ {0}
  <2> HIDE DEF P, O, C
  <2>1. P \div MinColumns \in Nat
    BY <1>2, Quotient
  <2>2. most \in Nat \ {0}
    BY <2>1 DEF AtLeast1
  <2> HIDE DEF most
  <2>3. QED
    BY <2>2
<1>4. Conv2d(d) = ColumnParts(nc, O, P, C, FALSE, FALSE, C, P, P)
  <2>1. Conv2d(d) = [b \in 0 .. nc - 1 |->
                       LET s == Share(P, nc, b)
                       IN  Blas(Dims(O, s.hi - s.lo, C), FALSE, FALSE, View(0, C), View(s.lo, P), View(s.lo, P))]
    BY DEF Conv2d
  <2> HIDE DEF nc, O, P, C
  <2>2. QED
    BY <2>1 DEF ColumnParts
<1>5. Computes(Conv2d(d), Wide(O, P, C, FALSE, FALSE, C, P, P))
  <2> HIDE DEF nc, O, P, C
  <2>1. O \in Nat /\ P \in Nat /\ C \in Nat /\ P <= P /\ FALSE \in BOOLEAN
    BY <1>2
  <2>2. Computes(ColumnParts(nc, O, P, C, FALSE, FALSE, C, P, P), Wide(O, P, C, FALSE, FALSE, C, P, P))
    BY <1>2, <1>3, <2>1, ColumnsCompute, Zenon
  <2>3. QED
    BY <1>4, <2>2
<1>6. Wide(O, P, C, FALSE, FALSE, C, P, P) = Product(O, P, C, FALSE, FALSE)
  <2> HIDE DEF O, P, C
  <2>1. O \in Nat /\ C \in Nat /\ FALSE \in BOOLEAN
    BY <1>2
  <2>2. Wide(O, P, C, FALSE, FALSE, IF FALSE THEN O ELSE C, IF FALSE THEN C ELSE P, P)
          = Product(O, P, C, FALSE, FALSE)
    BY <1>2, <2>1, WideIsProduct, Zenon
  <2>3. QED
    BY <2>2
<1>7. Product(O, P, C, FALSE, FALSE)
        = [i \in 0 .. O * P - 1 |-> [k \in 1 .. C |-> <<(i \div P) * C + k - 1, (k - 1) * P + (i % P)>>]]
  BY DEF Product
<1>8. /\ DOMAIN whole = Outputs(d)
      /\ whole = [i \in DOMAIN whole |-> whole[i]]
      /\ \A i \in Outputs(d) :
            whole[i] = [k \in 1 .. Taps(d) |-> <<FilterOf(d, i) * Taps(d) + (k - 1), Gathered(d, RowOf(d, i), k - 1)>>]
  BY UnpaddedIs
<1>9. ASSUME NEW i \in 0 .. O * P - 1
      PROVE  whole[i] = [k \in 1 .. C |-> <<(i \div P) * C + k - 1, (k - 1) * P + (i % P)>>]
  <2> HIDE DEF whole, O, P, C
  <2>1. whole[i] = [k \in 1 .. C |-> <<FilterOf(d, i) * C + (k - 1), Gathered(d, RowOf(d, i), k - 1)>>]
    BY <1>1, <1>8
  <2>2. i \in Outputs(d) /\ i \in Nat
    BY <1>1, <1>2
  <2>3. ASSUME NEW k \in 1 .. C
        PROVE  /\ FilterOf(d, i) * C + (k - 1) = (i \div P) * C + k - 1
               /\ Gathered(d, RowOf(d, i), k - 1) = (k - 1) * P + (i % P)
    <3>1. k - 1 \in Nat
      BY <1>2
    <3>2. (i \div P) * C \in Int
      <4>1. i \div P \in Nat
        BY <1>2, <2>2, Quotient
      <4>2. QED
        BY <1>2, <4>1
    <3>3. FilterOf(d, i) = i \div P /\ Gathered(d, RowOf(d, i), k - 1) = (k - 1) * P + (i % P)
      BY <1>1, <2>2, <3>1
    <3> DEFINE m == (i \div P) * C
    <3> HIDE DEF m
    <3>4. m + (k - 1) = m + k - 1
      BY <1>2, <3>2 DEF m
    <3>5. QED
      BY <3>3, <3>4 DEF m
  <2>4. QED
    BY <2>1, <2>3
<1>10. DOMAIN whole = 0 .. O * P - 1 /\ whole = [i \in DOMAIN whole |-> whole[i]]
  BY <1>1, <1>8
<1>11. whole = Product(O, P, C, FALSE, FALSE)
  <2> HIDE DEF whole, O, P, C
  <2>1. QED
    BY <1>7, <1>9, <1>10
<1>12. QED
  BY <1>5, <1>6, <1>11

\* autograd.h (conv2d): by im2col and one product, or for a 1x1 filter on one sample in
\* shares of the plane, every output is written once, by one task, and sums the products of
\* the convolution in the order of its filter's weights.
THEOREM ConvolutionForward ==
    ASSUME Threads \in Nat \ {0}, MinRows \in Nat \ {0}, MinColumns \in Nat \ {0}
    PROVE  \A d : Fits(d) => Computes(Conv2d(d), ConvOf(d, NoPad))
<1> SUFFICES ASSUME NEW d, Fits(d)
             PROVE  Computes(Conv2d(d), ConvOf(d, NoPad))
  OBVIOUS
<1>1. CASE OneByOne(d)
  BY <1>1, PlaneConvolves
<1>2. CASE ~OneByOne(d)
  BY <1>2, GatheredConvolves
<1>3. QED
  BY <1>1, <1>2

\* conv2d_ex on one sample: one product writes the planes of the output directly.
LEMMA DirectConvolves ==
    ASSUME Threads \in Nat \ {0}, MinRows \in Nat \ {0}, NEW d \in Shapes, NEW p \in Margins,
           Fits(Padded(d, p)), d.B = 1, ~(OneByOne(d) /\ Padded(d, p) = d)
    PROVE  Computes(Conv2dEx(d, p), ConvOf(d, p))
<1> DEFINE q == Padded(d, p)
           T == Taps(q)
           R == Rows(q)
           O == q.O
           pad == ZeroPad(d, p)
           col == Merged(TmIm2col(q))
           real(terms) == Real(Seen(terms, Same, LAMBDA c : pad[col[c]]))
           direct == TmGemmNt(O, R, T, R)
           parts == [c \in DOMAIN direct |-> [i \in DOMAIN direct[c] |-> real(direct[c][i])]]
           product == Product(O, R, T, FALSE, TRUE)
           whole == ConvOf(d, p)
<1>1. q.B = 1 /\ q.O = d.O /\ Taps(d) = T
  <2>1. q.B = d.B /\ q.C = d.C /\ q.O = d.O /\ q.kH = d.kH /\ q.kW = d.kW
    BY PaddedIs
  <2>2. QED
    BY <2>1 DEF Taps
<1>2. T \in Nat \ {0} /\ R \in Nat \ {0} /\ O \in Nat \ {0} /\ R = Pixels(q)
  <2>1. Pixels(q) \in Nat \ {0} /\ R = q.B * Pixels(q) /\ T \in Nat \ {0} /\ R \in Nat \ {0} /\ O \in Nat \ {0}
    BY ShapeType
  <2> HIDE DEF q, R, T
  <2>2. QED
    BY <1>1, <2>1
<1>3. Conv2dEx(d, p) = parts
  BY DEF Conv2dEx
<1>4. col = Columns(q)
  <2>1. Computes(TmIm2col(q), Columns(q))
    BY ColumnsWrittenOnce
  <2>2. QED
    BY <2>1 DEF Computes
<1>5. Computes(direct, product)
  <2> HIDE DEF O, R, T
  <2>1. O \in Nat /\ T \in Nat
    BY <1>2
  <2>2. QED
    BY <1>2, <2>1, TmNtProduct
<1>6. whole = [i \in Outputs(q) |-> Real(TapsOf(d, p, i))]
  BY ConvIs
<1>7. Outputs(q) = 0 .. O * R - 1 /\ DOMAIN product = 0 .. O * R - 1
  <2>1. 1 * O = O
    BY <1>2
  <2>2. QED
    BY <1>1, <1>2, <2>1 DEF Outputs, Product
<1>8. ASSUME NEW i \in Outputs(q)
      PROVE  real(product[i]) = Real(TapsOf(d, p, i))
  <2> DEFINE r == RowOf(q, i)
             o == FilterOf(q, i)
  <2>1. /\ SampleOf(q, i) \in 0 .. q.B - 1 /\ o \in 0 .. O - 1
        /\ i % Pixels(q) = LineOf(q, i) * OutW(q) + CrossOf(q, i)
        /\ i \div Pixels(q) = SampleOf(q, i) * O + o /\ r \in 0 .. R - 1
    BY PlaceIs
  <2>2. r = SampleOf(q, i) * Pixels(q) + (LineOf(q, i) * OutW(q) + CrossOf(q, i))
    BY DEF RowOf
  <2>3. i = o * R + r
    <3>1. i \in Nat
      BY PlaceIs
    <3> HIDE DEF q, O, R, r, o
    <3>2. SampleOf(q, i) = 0
      BY <1>1, <2>1
    <3>3. 0 * Pixels(q) = 0 /\ 0 * O = 0 /\ o \in Nat /\ R \in Nat \ {0}
      BY <1>2, <2>1
    <3>4. i = (i \div R) * R + (i % R)
      <4>1. R \in Nat \ {0}
        BY <1>2
      <4>2. QED
        BY <3>1, <4>1, DivMod
    <3> DEFINE low == LineOf(q, i) * OutW(q) + CrossOf(q, i)
    <3> HIDE DEF low
    <3>5. i % R = low /\ i \div R = 0 * O + o /\ r = 0 * R + low
      BY <1>2, <2>1, <2>2, <3>2 DEF low
    <3>6. i \div R = o /\ r = i % R
      <4>1. i % R \in 0 .. R - 1
        BY <3>1, <3>3, DivMod
      <4>2. \A z \in Nat : 0 * z + o = o
        BY <3>3
      <4>3. low \in Nat /\ 0 * R = 0 /\ O \in Nat /\ R \in Nat
        BY <1>2, <3>5, <4>1
      <4>4. i \div R = o
        BY <3>5, <4>2, <4>3
      <4>5. r = low
        BY <3>5, <4>3
      <4>6. QED
        BY <3>5, <4>4, <4>5
    <3>7. QED
      BY <3>4, <3>6
  <2> DEFINE terms == [k \in 1 .. T |-> <<o * T + k - 1, r * T + k - 1>>]
  <2>4. product[i] = terms
    <3> HIDE DEF q, O, R, T, r, o
    <3>1. O \in Nat /\ T \in Nat /\ r \in 0 .. R - 1 /\ o \in 0 .. O - 1
      BY <1>2, <2>1
    <3>2. SumsRow(Product(O, R, T, FALSE, TRUE), R, T, o, r)
      BY <1>2, <3>1, ProductAt, Zenon
    <3>3. QED
      BY <2>3, <3>2, Zenon DEF SumsRow
  <2>5. \A k \in 1 .. T : col[r * T + k - 1] = Gathered(q, r, k - 1)
    BY <1>4, <2>1, ColumnAt
  <2>6. TapsOf(d, p, i) = [k \in 1 .. T |-> <<o * T + (k - 1), pad[Gathered(q, r, k - 1)]>>]
    BY <1>1 DEF TapsOf
  <2>7. Seen(terms, Same, LAMBDA c : pad[col[c]]) = [k \in 1 .. T |-> <<o * T + k - 1, pad[col[r * T + k - 1]]>>]
    <3> HIDE DEF q, T, r, o, pad, col
    <3>1. QED
      BY DEF Seen, Same
  <2>8. [k \in 1 .. T |-> <<o * T + k - 1, pad[col[r * T + k - 1]]>>]
          = [k \in 1 .. T |-> <<o * T + (k - 1), pad[Gathered(q, r, k - 1)]>>]
    <3> HIDE DEF q, O, T, r, o, pad, col
    <3>1. \A k \in 1 .. T : o * T + k - 1 = o * T + (k - 1)
      <4>1. o * T \in Int
        BY <1>2, <2>1
      <4>2. QED
        BY <1>2, <4>1
    <3>2. QED
      BY <2>5, <3>1
  <2> HIDE DEF terms, product, pad, col
  <2>9. QED
    BY <2>4, <2>6, <2>7, <2>8
<1> HIDE DEF q, T, R, O, direct, product, real, whole
<1>9. DOMAIN whole = DOMAIN product /\ whole = [i \in DOMAIN whole |-> whole[i]]
  BY <1>6, <1>7
<1>10. DOMAIN parts = DOMAIN direct
       /\ \A c \in DOMAIN direct : /\ DOMAIN parts[c] = DOMAIN direct[c]
                                   /\ \A i \in DOMAIN direct[c] : parts[c][i] = real(direct[c][i])
  OBVIOUS
<1> HIDE DEF parts
<1>11. \A c \in DOMAIN direct : \A i \in DOMAIN direct[c] : parts[c][i] = whole[i]
  <2> SUFFICES ASSUME NEW c \in DOMAIN direct, NEW i \in DOMAIN direct[c]
               PROVE  parts[c][i] = whole[i]
    OBVIOUS
  <2>1. direct[c][i] = product[i] /\ i \in DOMAIN product
    BY <1>5, ComputesAt
  <2>2. i \in Outputs(q)
    BY <1>7, <2>1
  <2>3. whole[i] = Real(TapsOf(d, p, i))
    BY <1>6, <2>2
  <2>4. QED
    BY <1>8, <1>10, <2>1, <2>2, <2>3
<1>12. Computes(parts, whole)
  BY <1>5, <1>9, <1>10, <1>11, SamePlaces
<1>13. QED
  BY <1>3, <1>12 DEF whole

\* conv2d_ex on more samples: a product of rows, permuted into planes.
LEMMA PaddedConvolves ==
    ASSUME Threads \in Nat \ {0}, MinRows \in Nat \ {0}, NEW d \in Shapes, NEW p \in Margins,
           Fits(Padded(d, p)), d.B # 1
    PROVE  Computes(Conv2dEx(d, p), ConvOf(d, p))
<1> DEFINE q == Padded(d, p)
           T == Taps(q)
           R == Rows(q)
           O == q.O
           pad == ZeroPad(d, p)
           col == Merged(TmIm2col(q))
           real(terms) == Real(Seen(terms, Same, LAMBDA c : pad[col[c]]))
           ro == Merged(TmGemmNt(R, O, T, O))
           out == [i \in DOMAIN ro |-> real(Swapped(ro[i]))]
           whole == ConvOf(d, p)
<1>1. q.O = d.O /\ Taps(d) = T
  <2>1. q.C = d.C /\ q.O = d.O /\ q.kH = d.kH /\ q.kW = d.kW
    BY PaddedIs
  <2>2. QED
    BY <2>1 DEF Taps
<1>2. T \in Nat \ {0} /\ R \in Nat \ {0} /\ O \in Nat \ {0}
  BY ShapeType
<1>3. Conv2dEx(d, p) = Permuted(q, out)
  BY DEF Conv2dEx, OneByOne
<1>4. col = Columns(q)
  <2>1. Computes(TmIm2col(q), Columns(q))
    BY ColumnsWrittenOnce
  <2>2. QED
    BY <2>1 DEF Computes
<1>5. ro = Product(R, O, T, FALSE, TRUE)
  <2>1. Computes(TmGemmNt(R, O, T, O), Product(R, O, T, FALSE, TRUE))
    <3> HIDE DEF R, O, T
    <3>1. QED
      BY <1>2, TmNtProduct
  <2>2. QED
    BY <2>1 DEF Computes
<1>6. whole = [i \in Outputs(q) |-> Real(TapsOf(d, p, i))]
  BY ConvIs
<1>7. ASSUME NEW i \in Outputs(q)
      PROVE  out[RowMajorAt(q, i)] = whole[i]
  <2> DEFINE r == RowOf(q, i)
             o == FilterOf(q, i)
             j == r * O + o
             terms == [k \in 1 .. T |-> <<r * T + k - 1, o * T + k - 1>>]
             turned == [k \in 1 .. T |-> <<o * T + k - 1, r * T + k - 1>>]
  <2>1. r \in 0 .. R - 1 /\ o \in 0 .. O - 1 /\ RowMajorAt(q, i) = j
    BY PlaceIs
  <2>2. j \in DOMAIN ro /\ ro[j] = terms
    <3> HIDE DEF q, O, R, T, r, o, ro
    <3>1. R \in Nat /\ T \in Nat
      BY <1>2
    <3>2. SumsRow(Product(R, O, T, FALSE, TRUE), O, T, r, o)
      BY <1>2, <2>1, <3>1, ProductAt, Zenon
    <3>3. SumsRow(ro, O, T, r, o)
      BY <1>5, <3>2, Zenon
    <3>4. QED
      BY <3>3, Zenon DEF SumsRow
  <2>3. \A k \in 1 .. T : col[r * T + k - 1] = Gathered(q, r, k - 1)
    BY <1>4, <2>1, ColumnAt
  <2>4. TapsOf(d, p, i) = [k \in 1 .. T |-> <<o * T + (k - 1), pad[Gathered(q, r, k - 1)]>>]
    BY <1>1 DEF TapsOf
  <2> HIDE DEF q, T, r, o, pad, col, O, R, ro
  <2>5. Swapped(terms) = turned
    BY DEF Swapped
  <2>6. Seen(turned, Same, LAMBDA c : pad[col[c]]) = [k \in 1 .. T |-> <<o * T + k - 1, pad[col[r * T + k - 1]]>>]
    BY DEF Seen, Same
  <2>7. [k \in 1 .. T |-> <<o * T + k - 1, pad[col[r * T + k - 1]]>>]
          = [k \in 1 .. T |-> <<o * T + (k - 1), pad[Gathered(q, r, k - 1)]>>]
    <3>1. \A k \in 1 .. T : o * T + k - 1 = o * T + (k - 1)
      <4>1. o * T \in Int
        BY <1>2, <2>1
      <4>2. QED
        BY <1>2, <4>1
    <3>2. QED
      BY <2>3, <3>1
  <2> HIDE DEF terms, turned, j
  <2>8. out[j] = real(turned)
    <3> HIDE DEF real
    <3>1. QED
      BY <2>2, <2>5
  <2>9. real(turned) = Real(TapsOf(d, p, i))
    BY <2>4, <2>6, <2>7
  <2> HIDE DEF out, real, whole
  <2>10. whole[i] = Real(TapsOf(d, p, i))
    BY <1>6
  <2>11. QED
    BY <2>1, <2>8, <2>9, <2>10
<1>8. DOMAIN whole = Outputs(q) /\ whole = [i \in DOMAIN whole |-> whole[i]]
  <2> HIDE DEF whole
  <2>1. QED
    BY <1>6
<1> HIDE DEF out, whole, q
<1>9. Fits(q)
  BY DEF q
<1>10. Computes(Permuted(q, out), whole)
  BY <1>7, <1>8, <1>9, PermutedComputes
<1>11. QED
  BY <1>3, <1>10 DEF whole

\* The epilogue's tasks add to each output the bias of its filter, once.
LEMMA BiasComputes ==
    ASSUME Threads \in Nat \ {0}, NEW planes \in Nat \ {0}, NEW O \in Nat \ {0}, NEW pixels \in Nat \ {0}
    PROVE  Computes(BiasEpilogue(planes, O, pixels), [i \in 0 .. planes * pixels - 1 |-> (i \div pixels) % O])
<1> DEFINE each == AtLeast1(planes \div Threads)
           tasks == IF planes < 8 THEN <<[lo |-> 0, hi |-> planes]>> ELSE ParChunks(planes, each)
           parts == BiasEpilogue(planes, O, pixels)
           whole == [i \in 0 .. planes * pixels - 1 |-> (i \div pixels) % O]
<1>1. parts = [c \in DOMAIN tasks |-> [i \in tasks[c].lo * pixels .. tasks[c].hi * pixels - 1 |-> (i \div pixels) % O]]
  BY DEF BiasEpilogue
<1>2. Divides(planes, tasks)
  <2>1. each \in Nat \ {0}
    <3>1. planes \div Threads \in Nat
      BY Quotient
    <3>2. QED
      BY <3>1 DEF AtLeast1
  <2> HIDE DEF each
  <2>2. planes \in Nat
    OBVIOUS
  <2>3. Divides(planes, ParChunks(planes, each)) /\ Divides(planes, <<[lo |-> 0, hi |-> planes]>>)
    BY <2>1, <2>2, ChunksDivide, OneChunkDivides, Zenon
  <2>4. QED
    BY <2>3
<1> HIDE DEF parts, tasks
<1>3. /\ EachOnce(planes, tasks)
      /\ \A t \in DOMAIN tasks : tasks[t].lo \in Nat /\ tasks[t].hi \in Nat
  BY <1>2 DEF Divides
<1>4. DOMAIN whole = 0 .. planes * pixels - 1 /\ whole = [i \in DOMAIN whole |-> whole[i]]
      /\ \A i \in 0 .. planes * pixels - 1 : whole[i] = (i \div pixels) % O
  OBVIOUS
<1> HIDE DEF whole
<1>5. ASSUME NEW t \in DOMAIN tasks
      PROVE  /\ DOMAIN parts[t] = tasks[t].lo * pixels .. tasks[t].hi * pixels - 1
             /\ \A i \in DOMAIN parts[t] : parts[t][i] = whole[i]
  <2>1. /\ DOMAIN parts[t] = tasks[t].lo * pixels .. tasks[t].hi * pixels - 1
        /\ \A i \in DOMAIN parts[t] : parts[t][i] = (i \div pixels) % O
    BY <1>1
  <2>2. \A i \in DOMAIN parts[t] : i \in 0 .. planes * pixels - 1
    BY <1>3, <2>1, RunInside
  <2>3. QED
    BY <1>4, <2>1, <2>2, Zenon
<1>6. DOMAIN parts = DOMAIN tasks
  BY <1>1
<1>7. WritesRuns(parts, tasks, whole, pixels)
  BY <1>5, <1>6, Zenon DEF WritesRuns
<1>8. Computes(parts, whole)
  BY <1>2, <1>4, <1>7, RunsCompute
<1>9. QED
  BY <1>8 DEF parts, whole

\* autograd.h (conv2d_ex, tm_zeropad_ex): with any margins of zeros, and the bias added by
\* the epilogue, every output is written once and sums its products with the plane, the
\* zeros around it left out, in the order of its filter's weights; and it gets the bias of
\* its own filter once.
THEOREM FusedAlwaysExact ==
    ASSUME Threads \in Nat \ {0}, MinRows \in Nat \ {0}, MinColumns \in Nat \ {0}
    PROVE  \A d \in Shapes : \A p \in Margins : Fits(Padded(d, p)) => FusedExact(d, p)
<1> SUFFICES ASSUME NEW d \in Shapes, NEW p \in Margins, Fits(Padded(d, p))
             PROVE  FusedExact(d, p)
  OBVIOUS
<1> DEFINE q == Padded(d, p)
<1>1. Computes(Conv2dEx(d, p), ConvOf(d, p))
  <2>1. CASE OneByOne(d) /\ q = d
    <3>1. p = NoPad
      <4>1. q.H = d.H + p.t + p.b /\ q.W = d.W + p.l + p.r
        BY PaddedIs
      <4>2. d.H \in Nat /\ d.W \in Nat /\ p.t \in Nat /\ p.b \in Nat /\ p.l \in Nat /\ p.r \in Nat
        BY DEF Shapes, Positive, Margins
      <4> HIDE DEF q
      <4>3. p.t = 0 /\ p.b = 0 /\ p.l = 0 /\ p.r = 0
        BY <2>1, <4>1, <4>2
      <4>4. p = [t |-> p.t, b |-> p.b, l |-> p.l, r |-> p.r]
        BY DEF Margins
      <4>5. QED
        BY <4>3, <4>4 DEF NoPad
    <3>2. Fits(d)
      BY <2>1
    <3>3. Conv2dEx(d, p) = Conv2d(d)
      BY <2>1 DEF Conv2dEx
    <3>4. Computes(Conv2d(d), ConvOf(d, NoPad))
      BY <3>2, ConvolutionForward
    <3>5. QED
      BY <3>1, <3>3, <3>4
  <2>2. CASE ~(OneByOne(d) /\ q = d) /\ d.B = 1
    BY <2>2, DirectConvolves
  <2>3. CASE d.B # 1
    BY <2>3, PaddedConvolves
  <2>4. QED
    BY <2>1, <2>2, <2>3
<1>2. Computes(BiasEpilogue(d.B * d.O, d.O, OutH(q) * OutW(q)),
               [i \in 0 .. d.B * d.O * OutH(q) * OutW(q) - 1 |-> (i \div (OutH(q) * OutW(q))) % d.O])
  <2> DEFINE planes == d.B * d.O
             O == d.O
             pixels == OutH(q) * OutW(q)
  <2>1. planes \in Nat \ {0} /\ O \in Nat \ {0} /\ pixels \in Nat \ {0}
    <3>1. OutH(q) \in Nat \ {0} /\ OutW(q) \in Nat \ {0}
      BY ShapeType
    <3>2. d.B \in Nat \ {0} /\ d.O \in Nat \ {0}
      BY DEF Shapes, Positive
    <3>3. \A a, b \in Nat \ {0} : a * b \in Nat \ {0}
      OBVIOUS
    <3>4. QED
      BY <3>1, <3>2, <3>3
  <2>2. d.B * d.O * OutH(q) * OutW(q) = planes * pixels
    <3>1. OutH(q) \in Nat /\ OutW(q) \in Nat
      BY ShapeType
    <3>2. \A a, b, c \in Nat : a * b * c = a * (b * c)
      OBVIOUS
    <3> HIDE DEF q
    <3>3. planes * OutH(q) * OutW(q) = planes * pixels
      BY <2>1, <3>1, <3>2
    <3>4. QED
      BY <3>3
  <2> HIDE DEF planes, O, pixels
  <2>3. Computes(BiasEpilogue(planes, O, pixels), [i \in 0 .. planes * pixels - 1 |-> (i \div pixels) % O])
    BY <2>1, BiasComputes
  <2>4. QED
    BY <2>2, <2>3 DEF planes, O, pixels
<1>3. QED
  BY <1>1, <1>2 DEF FusedExact

\* autograd.h (chpad, pad_symmetric): a channel, row or column of the padding mirrors the
\* input about its edge, when the padding is not longer than the input.
THEOREM PaddingsMirror ==
    \A n \in Nat \ {0} : \A pre, post \in 0 .. n : PaddingsExact(n, pre, post)
<1> SUFFICES ASSUME NEW n \in Nat \ {0}, NEW pre \in 0 .. n, NEW post \in 0 .. n
             PROVE  PaddingsExact(n, pre, post)
  OBVIOUS
<1>1. ASSUME NEW j \in 0 .. 2 * n - 1
      PROVE  j % (2 * n) = j /\ (j + 2 * n) % (2 * n) = j
  <2>1. 2 * n \in Nat \ {0} /\ 0 \in Nat /\ 1 \in Nat
    OBVIOUS
  <2>2. \A m \in Nat : (m * (2 * n) + j) % (2 * n) = j
    BY <2>1, RowAndColumn
  <2>3. 0 * (2 * n) + j = j /\ 1 * (2 * n) + j = j + 2 * n
    OBVIOUS
  <2>4. QED
    BY <2>1, <2>2, <2>3
<1>2. ASSUME NEW i \in 0 .. n + pre + post - 1
      PROVE  ChannelFrom(i, pre, n) = Mirrored(i - pre + 2 * n, n)
  <2> DEFINE c == i - pre
             j == c + 2 * n
  <2>1. c \in -n .. 2 * n - 1 /\ j = c + 2 * n
    OBVIOUS
  <2>2. CASE c < 0
    <3>1. j \in 0 .. 2 * n - 1 /\ j >= n
      BY <2>2
    <3>2. j % (2 * n) = j
      BY <1>1, <3>1
    <3>3. Mirrored(j, n) = (2 * n - 1) - j
      BY <3>1, <3>2 DEF Mirrored
    <3>4. ChannelFrom(i, pre, n) = -c - 1
      BY <2>1, <2>2 DEF ChannelFrom
    <3>5. QED
      BY <3>3, <3>4
  <2>3. CASE c >= 0
    <3>1. c \in 0 .. 2 * n - 1
      BY <2>1, <2>3
    <3>2. j % (2 * n) = c
      BY <1>1, <3>1
    <3>3. Mirrored(j, n) = IF c < n THEN c ELSE (2 * n - 1) - c
      BY <3>2 DEF Mirrored
    <3>4. ChannelFrom(i, pre, n) = IF c >= n THEN 2 * n - 1 - c ELSE c
      BY <2>3 DEF ChannelFrom
    <3> HIDE DEF c
    <3>5. QED
      BY <3>1, <3>3, <3>4 DEF c
  <2>4. QED
    BY <2>1, <2>2, <2>3
<1>3. ASSUME NEW i \in 0 .. n + 1
      PROVE  EdgeFrom(i, n) = Mirrored(i - 1 + 2 * n, n)
  <2> DEFINE j == i - 1 + 2 * n
  <2>1. CASE i = 0
    <3>1. j = 2 * n - 1 /\ j \in 0 .. 2 * n - 1
      BY <2>1
    <3>2. j % (2 * n) = 2 * n - 1
      BY <1>1, <3>1
    <3>3. Mirrored(j, n) = 0
      BY <3>2 DEF Mirrored
    <3>4. QED
      BY <2>1, <3>3 DEF EdgeFrom
  <2>2. CASE i # 0
    <3>1. i - 1 \in 0 .. 2 * n - 1
      BY <2>2
    <3>2. j % (2 * n) = i - 1
      BY <1>1, <3>1
    <3>3. Mirrored(j, n) = IF i - 1 < n THEN i - 1 ELSE (2 * n - 1) - (i - 1)
      BY <3>2 DEF Mirrored
    <3>4. EdgeFrom(i, n) = IF i >= n + 1 THEN n - 1 ELSE i - 1
      BY <2>2 DEF EdgeFrom
    <3> HIDE DEF j
    <3>5. Mirrored(j, n) = EdgeFrom(i, n)
      BY <3>3, <3>4
    <3>6. QED
      BY <3>5 DEF j
  <2>3. QED
    BY <2>1, <2>2
<1>4. QED
  BY <1>2, <1>3 DEF PaddingsExact

-------------------------------------------------------------------------------
(* Depthwise convolutions. *)

\* The strips of a row hold each of its outputs once.
LEMMA StripsCover ==
    ASSUME NEW d, Fits(d)
    PROVE  /\ \A t \in DOMAIN Strips(d) : Strips(d)[t] \subseteq 0 .. OutW(d) - 1
           /\ \A x \in 0 .. OutW(d) - 1 : \E t \in DOMAIN Strips(d) :
                 x \in Strips(d)[t] /\ \A u \in DOMAIN Strips(d) : x \in Strips(d)[u] => u = t
<1> DEFINE ow == OutW(d)
           wide == IF d.kH = 3 /\ d.kW = 3 /\ d.s = 1 THEN ow \div 4 ELSE 0
           strips == Strips(d)
<1>1. ow \in Nat \ {0}
  BY ShapeType
<1>2. strips = [t \in 0 .. wide + (ow - 4 * wide) - 1 |-> IF t < wide THEN 4 * t .. 4 * t + 3 ELSE {4 * wide + (t - wide)}]
  BY DEF Strips
<1> HIDE DEF strips, ow
<1>3. wide \in Nat /\ 4 * wide <= ow
  <2>1. ow \div 4 \in Nat /\ 4 * (ow \div 4) <= ow
    BY <1>1, Quotient
  <2>2. QED
    BY <1>1, <2>1
<1> HIDE DEF wide
<1>4. DOMAIN strips = 0 .. ow - 3 * wide - 1
  BY <1>1, <1>2, <1>3
<1>5. ASSUME NEW t \in DOMAIN strips, NEW x
      PROVE  x \in strips[t] <=> IF t < wide THEN x \in 4 * t .. 4 * t + 3 ELSE x = 4 * wide + (t - wide)
  BY <1>2
<1>6. ASSUME NEW t \in DOMAIN strips
      PROVE  strips[t] \subseteq 0 .. ow - 1
  BY <1>1, <1>3, <1>4, <1>5
<1>7. ASSUME NEW x \in 0 .. ow - 1
      PROVE  \E t \in DOMAIN strips : x \in strips[t] /\ \A u \in DOMAIN strips : x \in strips[u] => u = t
  <2>1. CASE x < 4 * wide
    <3> DEFINE t == x \div 4
    <3>1. t \in Nat /\ 4 * t <= x /\ x < 4 * t + 4
      BY <1>1, Quotient
    <3> HIDE DEF t
    <3>2. t \in DOMAIN strips /\ t < wide
      BY <1>1, <1>3, <1>4, <2>1, <3>1
    <3>3. x \in strips[t]
      BY <1>1, <1>5, <3>1, <3>2
    <3>4. \A u \in DOMAIN strips : x \in strips[u] => u = t
      BY <1>1, <1>3, <1>4, <1>5, <2>1, <3>1, <3>2
    <3>5. QED
      BY <3>2, <3>3, <3>4
  <2>2. CASE x >= 4 * wide
    <3> DEFINE t == wide + (x - 4 * wide)
    <3>1. t \in DOMAIN strips /\ ~(t < wide) /\ 4 * wide + (t - wide) = x
      BY <1>1, <1>3, <1>4, <2>2
    <3>2. x \in strips[t]
      BY <1>5, <3>1
    <3>3. \A u \in DOMAIN strips : x \in strips[u] => u = t
      BY <1>1, <1>3, <1>4, <1>5, <2>2
    <3>4. QED
      BY <3>1, <3>2, <3>3
  <2>3. QED
    BY <1>1, <1>3, <2>1, <2>2
<1>8. QED
  BY <1>6, <1>7 DEF strips, ow

\* What a depthwise convolution computes, tap by tap.
DwTaps(d, i) == [k \in 1 .. d.kH * d.kW |-> DwTap(d, i, k - 1)]
DwOutputs(d) == 0 .. (d.B * d.C) * Pixels(d) - 1
DwOf(d) == [i \in DwOutputs(d) |-> DwTaps(d, i)]

\* An output is one of its plane's, in its line and in its strip.
InStrip(i, oh, ow, p, y, x) ==
    i \in Nat /\ i \div (oh * ow) = p /\ (i \div ow) % oh = y /\ i % ow = x
\* The place of a line and a strip of a plane is in them.
LEMMA StripOf ==
    ASSUME NEW oh \in Nat \ {0}, NEW ow \in Nat \ {0}, NEW p \in Nat, NEW y \in 0 .. oh - 1, NEW x \in 0 .. ow - 1
    PROVE  InStrip((p * oh + y) * ow + x, oh, ow, p, y, x)
<1> DEFINE line == p * oh + y
           i == (p * oh + y) * ow + x
<1>1. line \in Nat /\ line \div oh = p /\ line % oh = y
  <2>1. p * oh \in Nat
    OBVIOUS
  <2>2. QED
    BY <2>1, RowAndColumn
<1> HIDE DEF line
<1>2. i = line * ow + x
  BY DEF line
<1> HIDE DEF i
<1>3. i \div ow = line /\ i % ow = x
  BY <1>1, <1>2, RowAndColumn
<1>4. i \in Nat
  <2>1. line * ow \in Nat
    BY <1>1
  <2>2. QED
    BY <1>2, <2>1
<1>5. DigitsApart(i, oh, ow)
  BY <1>4, TwoDigits, Zenon
<1>6. QED
  <2>1. i \in Nat /\ i \div (oh * ow) = p /\ (i \div ow) % oh = y /\ i % ow = x
    BY <1>1, <1>3, <1>4, <1>5 DEF DigitsApart
  <2>2. QED
    BY <2>1, Zenon DEF i, InStrip

\* Its strips, line by line and plane by plane, write every output once.
LEMMA StripsCompute ==
    ASSUME Threads \in Nat \ {0}, PlaneTasks \in Nat, NEW d, Fits(d)
    PROVE  Computes(Depthwise(d), DwOf(d))
<1> DEFINE n == d.B * d.C
           oh == OutH(d)
           ow == OutW(d)
           P == oh * ow
           size == AtLeast1(n \div AtLeast1(Threads * PlaneTasks))
           planes == ParChunks(n, size)
           strips == Strips(d)
           units == (DOMAIN planes) \X (0 .. oh - 1) \X (DOMAIN strips)
           parts == Depthwise(d)
           whole == DwOf(d)
           cells(at) == {(p * oh + at[2]) * ow + x : p \in planes[at[1]].lo .. planes[at[1]].hi - 1, x \in strips[at[3]]}
<1>1. n \in Nat \ {0} /\ oh \in Nat \ {0} /\ ow \in Nat \ {0} /\ P \in Nat \ {0}
  <2>1. \A a, b \in Nat \ {0} : a * b \in Nat \ {0}
    OBVIOUS
  <2>2. d.B \in Nat \ {0} /\ d.C \in Nat \ {0} /\ oh \in Nat \ {0} /\ ow \in Nat \ {0}
    BY ShapeType
  <2> HIDE DEF oh, ow
  <2>3. QED
    BY <2>1, <2>2
<1>2. parts = [at \in units |-> [i \in cells(at) |-> DwTaps(d, i)]]
  BY DEF Depthwise, DwTaps
<1>3. whole = [i \in 0 .. n * P - 1 |-> DwTaps(d, i)]
  BY DEF DwOf, DwOutputs, Pixels
<1>4. /\ \A t \in DOMAIN strips : strips[t] \subseteq 0 .. ow - 1
      /\ \A x \in 0 .. ow - 1 : \E t \in DOMAIN strips :
            x \in strips[t] /\ \A u \in DOMAIN strips : x \in strips[u] => u = t
  BY StripsCover
<1> HIDE DEF strips, parts, whole, n
<1>5. Divides(n, planes)
  <2>1. size \in Nat \ {0}
    <3> DEFINE m == AtLeast1(Threads * PlaneTasks)
    <3>1. m \in Nat \ {0}
      <4>1. Threads * PlaneTasks \in Nat
        OBVIOUS
      <4>2. QED
        BY <4>1 DEF AtLeast1
    <3> HIDE DEF m
    <3>2. n \div m \in Nat
      BY <1>1, <3>1, Quotient
    <3>3. AtLeast1(n \div m) \in Nat \ {0}
      BY <3>2 DEF AtLeast1
    <3>4. QED
      BY <3>3 DEF m
  <2> HIDE DEF size
  <2>2. QED
    BY <1>1, <2>1, ChunksDivide
<1> HIDE DEF planes
<1>6. /\ EachOnce(n, planes)
      /\ \A c \in DOMAIN planes : planes[c].lo \in Nat /\ planes[c].hi \in Nat
  BY <1>5 DEF Divides
<1> HIDE DEF oh, ow
<1>7. ASSUME NEW c \in DOMAIN planes, NEW y \in 0 .. oh - 1, NEW t \in DOMAIN strips, NEW i
      PROVE  i \in cells(<<c, y, t>>)
               <=> /\ i \in Nat /\ i \div P \in Units(planes[c]) /\ (i \div ow) % oh = y /\ i % ow \in strips[t]
  <2> DEFINE at == <<c, y, t>>
  <2>1. i \in cells(at) <=> \E p \in Units(planes[c]), x \in strips[t] : i = (p * oh + y) * ow + x
    BY DEF Units
  <2>2. \A p \in Units(planes[c]) : p \in Nat
    BY <1>6 DEF Units
  <2>3. \A x \in strips[t] : x \in 0 .. ow - 1
    BY <1>4
  <2>4. ASSUME NEW p \in Units(planes[c]), NEW x \in strips[t], i = (p * oh + y) * ow + x
        PROVE  i \in Nat /\ i \div P = p /\ (i \div ow) % oh = y /\ i % ow = x
    <3>1. p \in Nat /\ x \in 0 .. ow - 1
      BY <2>2, <2>3
    <3>2. InStrip((p * oh + y) * ow + x, oh, ow, p, y, x)
      BY <1>1, <3>1, StripOf, Zenon
    <3>3. QED
      BY <2>4, <3>2 DEF InStrip
  <2>5. ASSUME i \in Nat, (i \div ow) % oh = y
        PROVE  i = ((i \div P) * oh + y) * ow + (i % ow)
    <3> DEFINE line == i \div ow
               x == i % ow
               p == i \div P
    <3>1. line \in Nat /\ i = line * ow + x
      BY <1>1, <2>5, DivMod
    <3>2. DigitsApart(i, oh, ow)
      BY <1>1, <2>5, TwoDigits, Zenon
    <3>3. p = line \div oh /\ line % oh = y
      BY <2>5, <3>2 DEF DigitsApart
    <3> HIDE DEF line, x, p
    <3>4. line = (line \div oh) * oh + (line % oh)
      BY <1>1, <3>1, DivMod
    <3>5. i = (p * oh + y) * ow + x
      BY <3>1, <3>3, <3>4
    <3>6. QED
      BY <3>5 DEF p, x
  <2> HIDE DEF cells, at, P
  <2>6. ASSUME i \in cells(at)
        PROVE  i \in Nat /\ i \div P \in Units(planes[c]) /\ (i \div ow) % oh = y /\ i % ow \in strips[t]
    <3>1. PICK p \in Units(planes[c]), x \in strips[t] : i = (p * oh + y) * ow + x
      BY <2>1, <2>6, Zenon
    <3>2. i \in Nat /\ i \div P = p /\ (i \div ow) % oh = y /\ i % ow = x
      BY <2>4, <3>1, Zenon
    <3>3. QED
      BY <3>2, Zenon
  <2>7. ASSUME i \in Nat, i \div P \in Units(planes[c]), (i \div ow) % oh = y, i % ow \in strips[t]
        PROVE  i \in cells(at)
    BY <2>1, <2>5, <2>7, Zenon
  <2>8. QED
    BY <2>6, <2>7, Zenon DEF at
<1>8. /\ DOMAIN parts = units
      /\ \A at \in units : /\ DOMAIN parts[at] = cells(at)
                           /\ \A i \in cells(at) : parts[at][i] = DwTaps(d, i)
  <2> HIDE DEF units, cells
  <2>1. QED
    BY <1>2
<1>9. \A at : at \in units <=> \E c \in DOMAIN planes, y \in 0 .. oh - 1, t \in DOMAIN strips : at = <<c, y, t>>
  <2> DEFINE cs == DOMAIN planes
             ys == 0 .. oh - 1
             ts == DOMAIN strips
  <2> HIDE DEF cs, ys, ts
  <2>1. \A at : at \in cs \X ys \X ts <=> \E c \in cs, y \in ys, t \in ts : at = <<c, y, t>>
    OBVIOUS
  <2>2. QED
    BY <2>1, Zenon DEF cs, ys, ts
<1>10. \A i : i \in DOMAIN whole <=> i \in Nat /\ i \div P \in 0 .. n - 1
  <2> SUFFICES ASSUME NEW i PROVE i \in DOMAIN whole <=> i \in Nat /\ i \div P \in 0 .. n - 1
    OBVIOUS
  <2> HIDE DEF P
  <2>1. 0 * P = 0 /\ 0 \in Nat /\ n \in Nat
    BY <1>1
  <2>2. i \in 0 * P .. n * P - 1 <=> i \in Nat /\ i \div P \in 0 .. n - 1
    BY <1>1, <2>1, InRun
  <2>3. QED
    BY <1>3, <2>1, <2>2
<1> DEFINE In(i, c, y, t) == /\ i \in Nat /\ i \div P \in Units(planes[c]) /\ (i \div ow) % oh = y
                             /\ i % ow \in strips[t]
<1>11. ASSUME NEW at \in units, NEW i \in DOMAIN parts[at]
       PROVE  \E c \in DOMAIN planes, y \in 0 .. oh - 1, t \in DOMAIN strips : at = <<c, y, t>> /\ In(i, c, y, t)
  <2>1. PICK c \in DOMAIN planes, y \in 0 .. oh - 1, t \in DOMAIN strips : at = <<c, y, t>>
    BY <1>9, Zenon
  <2> HIDE DEF cells, units, P
  <2>2. i \in cells(<<c, y, t>>)
    BY <1>8, <2>1, Zenon
  <2>3. In(i, c, y, t)
    BY <1>7, <2>2, Zenon
  <2>4. QED
    BY <2>1, <2>3, Zenon
<1>12. \A at \in units : \A i \in DOMAIN parts[at] : i \in DOMAIN whole /\ parts[at][i] = whole[i]
  <2> SUFFICES ASSUME NEW at \in units, NEW i \in DOMAIN parts[at]
               PROVE  i \in DOMAIN whole /\ parts[at][i] = whole[i]
    OBVIOUS
  <2> HIDE DEF units, cells, P
  <2>1. PICK c \in DOMAIN planes, y \in 0 .. oh - 1, t \in DOMAIN strips : at = <<c, y, t>> /\ In(i, c, y, t)
    BY <1>11, Zenon
  <2>2. i \div P \in 0 .. n - 1 /\ i \in Nat
    BY <1>6, <2>1, Zenon DEF EachOnce
  <2>3. i \in DOMAIN whole
    BY <1>10, <2>2, Zenon
  <2>4. whole[i] = DwTaps(d, i)
    BY <1>3, <2>3
  <2>5. QED
    BY <1>8, <2>3, <2>4, Zenon
<1>13. \A i \in DOMAIN whole : \E at \in units : i \in DOMAIN parts[at]
  <2> SUFFICES ASSUME NEW i \in DOMAIN whole
               PROVE  \E at \in units : i \in DOMAIN parts[at]
    OBVIOUS
  <2> DEFINE y == (i \div ow) % oh
  <2>1. i \in Nat /\ i \div P \in 0 .. n - 1
    BY <1>10
  <2>2. y \in 0 .. oh - 1 /\ i % ow \in 0 .. ow - 1
    <3>1. i \div ow \in Nat /\ i % ow \in 0 .. ow - 1
      BY <1>1, <2>1, DivMod
    <3>2. QED
      BY <1>1, <3>1, DivMod
  <2> HIDE DEF y, P, units, cells
  <2>3. PICK c \in DOMAIN planes : i \div P \in Units(planes[c])
    BY <1>6, <2>1, Zenon DEF EachOnce
  <2>4. PICK t \in DOMAIN strips : i % ow \in strips[t]
    BY <1>4, <2>2, Zenon
  <2>5. i \in cells(<<c, y, t>>)
    BY <1>7, <2>1, <2>2, <2>3, <2>4, Zenon DEF y
  <2>6. <<c, y, t>> \in units
    BY <1>9, <2>2, Zenon
  <2>7. QED
    BY <1>8, <2>5, <2>6, Zenon
<1>14. \A a, b \in units : \A i : i \in DOMAIN parts[a] /\ i \in DOMAIN parts[b] => a = b
  <2> SUFFICES ASSUME NEW a \in units, NEW b \in units, NEW i, i \in DOMAIN parts[a], i \in DOMAIN parts[b]
               PROVE  a = b
    OBVIOUS
  <2> HIDE DEF units, cells, P
  <2>1. PICK c \in DOMAIN planes, y \in 0 .. oh - 1, t \in DOMAIN strips : a = <<c, y, t>> /\ In(i, c, y, t)
    BY <1>11, Zenon
  <2>2. PICK e \in DOMAIN planes, v \in 0 .. oh - 1, u \in DOMAIN strips : b = <<e, v, u>> /\ In(i, e, v, u)
    BY <1>11, Zenon
  <2>3. i \div P \in 0 .. n - 1
    BY <1>6, <2>1, Zenon DEF EachOnce
  <2>4. c = e
    <3>1. \E g \in DOMAIN planes : \A h \in DOMAIN planes : i \div P \in Units(planes[h]) => h = g
      BY <1>6, <2>3, Zenon DEF EachOnce
    <3>2. QED
      BY <2>1, <2>2, <3>1, Zenon
  <2>5. t = u
    <3>1. i % ow \in 0 .. ow - 1
      BY <1>4, <2>1
    <3>2. \E g \in DOMAIN strips : \A h \in DOMAIN strips : i % ow \in strips[h] => h = g
      BY <1>4, <3>1, Zenon
    <3>3. QED
      BY <2>1, <2>2, <3>2, Zenon
  <2>6. QED
    BY <2>1, <2>2, <2>4, <2>5, Zenon
<1>15. whole = [i \in DOMAIN whole |-> whole[i]]
  BY <1>3
<1> HIDE DEF units, cells
<1>16. DOMAIN parts = units
  BY <1>8
<1>17. Computes(parts, whole)
  BY <1>12, <1>13, <1>14, <1>15, <1>16, PartsCompute
<1>18. QED
  BY <1>17 DEF parts, whole

\* One channel, one filter and one sample of it.
Single(d) == [d EXCEPT !.C = 1, !.O = 1, !.B = 1]

\* The shape of one channel has the planes of the whole.
LEMMA SingleIs ==
    ASSUME NEW d, Fits(d)
    PROVE  /\ Fits(Single(d)) /\ OutH(Single(d)) = OutH(d) /\ OutW(Single(d)) = OutW(d)
           /\ Pixels(Single(d)) = Pixels(d) /\ Taps(Single(d)) = d.kH * d.kW
           /\ Outputs(Single(d)) = 0 .. Pixels(d) - 1
<1> DEFINE e == Single(d)
<1>1. d \in Shapes /\ d.kH <= d.H /\ d.kW <= d.W
  BY DEF Fits
<1>2. /\ e \in Shapes /\ e.C = 1 /\ e.O = 1 /\ e.B = 1 /\ e.H = d.H /\ e.W = d.W
      /\ e.kH = d.kH /\ e.kW = d.kW /\ e.s = d.s
  <2>1. 1 \in Positive
    BY DEF Positive
  <2>2. e = [d EXCEPT !.C = 1, !.O = 1, !.B = 1]
    BY DEF Single
  <2> HIDE DEF e
  <2>3. QED
    BY <1>1, <2>1, <2>2 DEF Shapes
<1> HIDE DEF e
<1>3. OutH(e) = OutH(d) /\ OutW(e) = OutW(d)
  BY <1>2 DEF OutH, OutW
<1>4. Pixels(e) = Pixels(d)
  BY <1>3 DEF Pixels
<1>5. d.kH \in Nat /\ d.kW \in Nat /\ Pixels(d) \in Nat
  BY ShapeType
<1>6. Taps(e) = d.kH * d.kW
  <2>1. 1 * d.kH * d.kW = d.kH * d.kW
    BY <1>5
  <2>2. QED
    BY <1>2, <2>1 DEF Taps
<1>7. Outputs(e) = 0 .. Pixels(d) - 1
  <2>1. (1 * 1) * Pixels(d) = Pixels(d)
    BY <1>5
  <2>2. QED
    BY <1>2, <1>4, <2>1 DEF Outputs
<1>8. Fits(e)
  BY <1>1, <1>2 DEF Fits
<1>9. QED
  BY <1>3, <1>4, <1>6, <1>7, <1>8 DEF e

\* The reference: each plane convolved with the filter of its channel.
DwReference(d) ==
    LET one(c) == ConvOf(Single(d), NoPad)
        pixels == OutH(d) * OutW(d)
    IN  [i \in 0 .. d.B * d.C * pixels - 1 |->
           LET p == i \div pixels
               local == one(p)[i % pixels]
           IN  [k \in DOMAIN local |-> <<(p % d.C) * d.kH * d.kW + local[k][1], p * d.H * d.W + local[k][2]>>]]

\* The reference of a depthwise filter is its taps over the channel of the plane.
LEMMA ReferenceIs ==
    ASSUME NEW d, Fits(d)
    PROVE  DwReference(d) = DwOf(d)
<1> DEFINE e == Single(d)
           P == Pixels(d)
           oh == OutH(d)
           ow == OutW(d)
           kk == d.kH * d.kW
           one == ConvOf(e, NoPad)
           at(i) == LET p == i \div P
                        local == one[i % P]
                    IN  [k \in DOMAIN local |-> <<(p % d.C) * d.kH * d.kW + local[k][1], p * d.H * d.W + local[k][2]>>]
<1>1. /\ d.C \in Nat \ {0} /\ d.H \in Nat \ {0} /\ d.W \in Nat \ {0} /\ d.kH \in Nat \ {0} /\ d.kW \in Nat \ {0}
      /\ d.s \in Nat \ {0} /\ d.B \in Nat \ {0}
      /\ P \in Nat \ {0} /\ oh \in Nat \ {0} /\ ow \in Nat \ {0} /\ kk \in Nat \ {0} /\ P = oh * ow
  <2>1. Pixels(d) = OutH(d) * OutW(d)
    BY DEF Pixels
  <2>2. QED
    BY <2>1, ShapeType
<1>2. /\ Fits(e) /\ OutH(e) = oh /\ OutW(e) = ow /\ Pixels(e) = P /\ Taps(e) = kk /\ Outputs(e) = 0 .. P - 1
  BY SingleIs
<1>3. /\ e.B = 1 /\ e.C = 1 /\ e.O = 1 /\ e.H = d.H /\ e.W = d.W /\ e.kH = d.kH /\ e.kW = d.kW /\ e.s = d.s
  BY DEF Fits, Shapes, Single
<1>4. DwReference(d) = [i \in DwOutputs(d) |-> at(i)]
  BY DEF DwReference, DwOutputs, Pixels
<1>5. /\ DOMAIN one = Outputs(e)
      /\ one = [i \in DOMAIN one |-> one[i]]
      /\ \A i \in Outputs(e) :
            one[i] = [k \in 1 .. Taps(e) |-> <<FilterOf(e, i) * Taps(e) + (k - 1), Gathered(e, RowOf(e, i), k - 1)>>]
  BY <1>2, UnpaddedIs
<1> HIDE DEF one, e
<1>6. ASSUME NEW i \in DwOutputs(d)
      PROVE  at(i) = DwTaps(d, i)
  <2> DEFINE p == i \div P
             low == i % P
             y == (i \div ow) % oh
             x == i % ow
             c == p % d.C
  <2> HIDE DEF P, oh, ow, kk
  <2>1. i \in Nat
    <3>1. (d.B * d.C) * P \in Nat
      BY <1>1
    <3>2. QED
      BY <3>1 DEF DwOutputs, P
  <2>2. p \in Nat /\ low \in 0 .. P - 1
    BY <1>1, <2>1, DivMod
  <2>3. low = y * ow + x /\ x \in 0 .. ow - 1 /\ y \in 0 .. oh - 1
    <3>1. DigitsApart(i, oh, ow)
      BY <1>1, <2>1, TwoDigits, Zenon
    <3>2. i \div ow \in Nat /\ x \in 0 .. ow - 1
      BY <1>1, <2>1, DivMod
    <3>3. y \in 0 .. oh - 1
      BY <1>1, <3>2, DivMod
    <3>4. QED
      BY <1>1, <3>1, <3>2, <3>3 DEF DigitsApart
  <2>4. c \in 0 .. d.C - 1
    BY <1>1, <2>2, DivMod
  <2> HIDE DEF p, low, x, y, c
  <2>5. low \in Outputs(e)
    BY <1>2, <2>2
  <2>6. /\ SampleOf(e, low) = 0 /\ FilterOf(e, low) = 0 /\ LineOf(e, low) = y /\ CrossOf(e, low) = x
    <3>1. /\ SampleOf(e, low) \in 0 .. e.B - 1 /\ FilterOf(e, low) \in 0 .. e.O - 1
      BY <1>2, <2>5, PlaceIs
    <3>2. (y * ow + x) \div ow = y /\ (y * ow + x) % ow = x
      <4>1. y \in Nat
        BY <1>1, <2>3
      <4>2. QED
        BY <1>1, <2>3, <4>1, RowAndColumn
    <3>3. low \div ow = y /\ low % ow = x
      BY <2>3, <3>2
    <3>4. y % oh = y
      BY <1>1, <2>3
    <3>5. LineOf(e, low) = y /\ CrossOf(e, low) = x
      BY <1>2, <3>3, <3>4 DEF LineOf, CrossOf
    <3>6. QED
      BY <1>3, <3>1, <3>5
  <2>7. ASSUME NEW k \in 0 .. kk - 1
        PROVE  Gathered(e, RowOf(e, low), k) = (y * d.s + (k \div d.kW)) * d.W + (x * d.s + (k % d.kW))
    <3> DEFINE ky == k \div d.kW
               kx == k % d.kW
    <3>1. k \in Nat /\ y \in 0 .. OutH(e) - 1 /\ x \in 0 .. OutW(e) - 1 /\ 0 \in Nat
      BY <1>1, <1>2, <2>3
    <3>2. Gathered(e, 0 * Pixels(e) + (y * OutW(e) + x), k)
            = Planar(e, 0, k \div (e.kH * e.kW), y * e.s + ((k \div e.kW) % e.kH), x * e.s + (k % e.kW))
      BY <1>2, <3>1, GatheredIs
    <3>3. RowOf(e, low) = 0 * Pixels(e) + (y * OutW(e) + x)
      BY <2>6 DEF RowOf
    <3>4. k \div kk = 0 /\ ky % d.kH = ky /\ ky \in Nat /\ kx \in Nat
      <4>1. 1 \in Nat /\ 1 * kk = kk
        BY <1>1
      <4>2. k \div kk \in 0 .. 1 - 1
        BY <1>1, <4>1, DivBelow
      <4>3. k \in 0 .. d.kH * d.kW - 1 /\ d.kH \in Nat
        BY <1>1 DEF kk
      <4>4. ky \in 0 .. d.kH - 1
        BY <1>1, <4>3, DivBelow
      <4>5. kx \in 0 .. d.kW - 1
        BY <1>1, <3>1, DivMod
      <4> HIDE DEF ky, kx
      <4>6. QED
        BY <1>1, <4>2, <4>4, <4>5
    <3> HIDE DEF ky, kx
    <3>5. Planar(e, 0, k \div (e.kH * e.kW), y * e.s + ((k \div e.kW) % e.kH), x * e.s + (k % e.kW))
            = Planar(e, 0, 0, y * d.s + ky, x * d.s + kx)
      BY <1>3, <3>4 DEF ky, kx, kk
    <3>6. Planar(e, 0, 0, y * d.s + ky, x * d.s + kx) = (y * d.s + ky) * d.W + (x * d.s + kx)
      <4> DEFINE Y == y * d.s + ky
                 X == x * d.s + kx
      <4>1. Y \in Nat
        BY <1>1, <2>3, <3>4
      <4> HIDE DEF Y, X
      <4>2. Planar(e, 0, 0, Y, X) = ((0 * 1 + 0) * d.H + Y) * d.W + X
        BY <1>3 DEF Planar
      <4>3. (0 * 1 + 0) * d.H + Y = Y
        BY <1>1, <4>1
      <4>4. QED
        BY <4>2, <4>3 DEF Y, X
    <3>7. QED
      BY <3>2, <3>3, <3>5, <3>6 DEF ky, kx
  <2> DEFINE local == one[low]
             g(k) == (y * d.s + (k \div d.kW)) * d.W + (x * d.s + (k % d.kW))
  <2>8. local = [k \in 1 .. kk |-> <<0 * kk + (k - 1), Gathered(e, RowOf(e, low), k - 1)>>]
    BY <1>2, <1>5, <2>5, <2>6
  <2> HIDE DEF local, g
  <2>9. DOMAIN local = 1 .. kk /\ \A k \in 1 .. kk : local[k][1] = k - 1 /\ local[k][2] = g(k - 1)
    <3>1. DOMAIN local = 1 .. kk
      BY <2>8
    <3>2. ASSUME NEW k \in 1 .. kk
          PROVE  local[k][1] = k - 1 /\ local[k][2] = g(k - 1)
      <4>1. k - 1 \in 0 .. kk - 1 /\ 0 * kk + (k - 1) = k - 1
        BY <1>1
      <4>2. local[k] = <<0 * kk + (k - 1), Gathered(e, RowOf(e, low), k - 1)>>
        BY <2>8
      <4>3. Gathered(e, RowOf(e, low), k - 1) = g(k - 1)
        BY <2>7, <4>1 DEF g
      <4>4. QED
        BY <4>1, <4>2, <4>3
    <3>3. QED
      BY <3>1, <3>2
  <2>10. at(i) = [k \in DOMAIN local |-> <<c * d.kH * d.kW + local[k][1], p * d.H * d.W + local[k][2]>>]
    BY DEF local, low, p, c
  <2> HIDE DEF at
  <2>11. at(i) = [k \in 1 .. kk |-> <<c * d.kH * d.kW + (k - 1), p * d.H * d.W + g(k - 1)>>]
    BY <2>9, <2>10
  <2>12. ASSUME NEW k \in 1 .. kk
         PROVE  DwTap(d, i, k - 1) = <<c * d.kH * d.kW + (k - 1), p * d.H * d.W + g(k - 1)>>
    <3> DEFINE ky == (k - 1) \div d.kW
               kx == (k - 1) % d.kW
    <3>1. DwTap(d, i, k - 1) = <<(c * d.kH * d.kW) + (k - 1), (p * d.H + y * d.s + ky) * d.W + (x * d.s) + kx>>
      BY <1>1 DEF DwTap, p, c, y, x, oh, ow
    <3>2. k - 1 \in Nat
      BY <1>1
    <3>3. ky \in Nat /\ kx \in Nat
      <4>1. ky \in Nat /\ kx \in 0 .. d.kW - 1
        BY <1>1, <3>2, DivMod
      <4> HIDE DEF ky, kx
      <4>2. QED
        BY <1>1, <4>1
    <3>4. g(k - 1) = (y * d.s + ky) * d.W + (x * d.s + kx)
      BY DEF g
    <3> HIDE DEF ky, kx
    <3>5. (p * d.H + y * d.s + ky) * d.W + (x * d.s) + kx = p * d.H * d.W + ((y * d.s + ky) * d.W + (x * d.s + kx))
      <4> DEFINE a == p * d.H
                 b == y * d.s + ky
                 v == x * d.s
      <4>1. a \in Nat /\ b \in Nat /\ v \in Nat /\ y * d.s \in Nat
        BY <1>1, <2>2, <2>3, <3>3
      <4>2. a + y * d.s + ky = a + b
        BY <3>3, <4>1
      <4> HIDE DEF a, b, v
      <4>3. (a + b) * d.W = a * d.W + b * d.W /\ a * d.W \in Nat /\ b * d.W \in Nat
        BY <1>1, <4>1
      <4>4. (a + b) * d.W + v + kx = a * d.W + (b * d.W + (v + kx))
        BY <3>3, <4>1, <4>3
      <4>5. QED
        BY <4>2, <4>4 DEF a, b, v
    <3>6. QED
      BY <3>1, <3>4, <3>5
  <2>13. at(i) = [k \in 1 .. kk |-> DwTap(d, i, k - 1)]
    BY <2>11, <2>12
  <2>14. QED
    BY <2>13 DEF DwTaps, kk
<1>7. DwOf(d) = [i \in DwOutputs(d) |-> DwTaps(d, i)]
  BY DEF DwOf
<1> HIDE DEF at
<1>8. QED
  BY <1>4, <1>6, <1>7

\* What a transpose holds: the outputs of each element, with their other factor.
Takes(f, at, i, k, x) == i \in DOMAIN f /\ k \in DOMAIN f[i] /\ f[i][k][at] = x
Taken(f, at, x) == \E i, k : Takes(f, at, i, k, x)
TakenWith(f, at, other, x, z) == \E i, k : Takes(f, at, i, k, x) /\ z = <<i, f[i][k][other]>>
\* A transpose has each element that some output takes, with those outputs and no other.
LEMMA TransposedIs ==
    ASSUME NEW f, NEW at, NEW other
    PROVE  /\ \A x : x \in DOMAIN Transposed(f, at, other) <=> Taken(f, at, x)
           /\ \A x, z : x \in DOMAIN Transposed(f, at, other) =>
                (z \in Transposed(f, at, other)[x] <=> TakenWith(f, at, other, x, z))
<1> DEFINE used == UNION {{<<i, t>> : t \in ToSet(f[i])} : i \in DOMAIN f}
           keys == {u[2][at] : u \in used}
           of(x) == {<<u[1], u[2][other]>> : u \in {v \in used : v[2][at] = x}}
           by == Transposed(f, at, other)
<1>1. by = [x \in keys |-> of(x)]
  BY DEF Transposed
<1>2. ASSUME NEW u \in used
      PROVE  \E i \in DOMAIN f : \E k \in DOMAIN f[i] : u = <<i, f[i][k]>>
  BY DEF ToSet
<1>3. ASSUME NEW i \in DOMAIN f, NEW k \in DOMAIN f[i]
      PROVE  <<i, f[i][k]>> \in used
  BY DEF ToSet
<1> HIDE DEF used
<1>4. ASSUME NEW x, NEW i, NEW k, Takes(f, at, i, k, x)
      PROVE  x \in keys /\ <<i, f[i][k][other]>> \in of(x)
  <2> DEFINE u == <<i, f[i][k]>>
  <2>1. u \in used /\ u[1] = i /\ u[2] = f[i][k] /\ u[2][at] = x
    BY <1>3, <1>4 DEF Takes
  <2> HIDE DEF u
  <2>2. x \in keys
    BY <2>1
  <2>3. <<u[1], u[2][other]>> \in of(x)
    BY <2>1
  <2>4. QED
    BY <2>1, <2>2, <2>3
<1>5. ASSUME NEW u \in used
      PROVE  \E i, k : Takes(f, at, i, k, u[2][at]) /\ <<u[1], u[2][other]>> = <<i, f[i][k][other]>>
  <2>1. PICK i, k : i \in DOMAIN f /\ k \in DOMAIN f[i] /\ u = <<i, f[i][k]>>
    BY <1>2, Zenon
  <2>2. u[1] = i /\ u[2] = f[i][k]
    BY <2>1
  <2>3. QED
    BY <2>1, <2>2 DEF Takes
<1>6. ASSUME NEW x \in keys
      PROVE  Taken(f, at, x)
  <2>1. PICK u \in used : u[2][at] = x
    OBVIOUS
  <2>2. QED
    BY <1>5, <2>1 DEF Taken
<1>7. ASSUME NEW x, NEW z \in of(x)
      PROVE  TakenWith(f, at, other, x, z)
  <2>1. PICK u \in used : u[2][at] = x /\ z = <<u[1], u[2][other]>>
    OBVIOUS
  <2>2. QED
    BY <1>5, <2>1 DEF TakenWith
<1> HIDE DEF keys, of
<1>8. ASSUME NEW x
      PROVE  x \in keys <=> Taken(f, at, x)
  BY <1>4, <1>6 DEF Taken
<1>9. ASSUME NEW x, NEW z
      PROVE  z \in of(x) <=> TakenWith(f, at, other, x, z)
  BY <1>4, <1>7 DEF TakenWith
<1>10. DOMAIN by = keys /\ \A x \in keys : by[x] = of(x)
  BY <1>1
<1> HIDE DEF by
<1>11. QED
  BY <1>8, <1>9, <1>10 DEF by

\* The taps of a depthwise convolution, as its backward pass lists them.
DwTakes(d, at, i, k, x) == i \in DwOutputs(d) /\ k \in 0 .. d.kH * d.kW - 1 /\ DwTap(d, i, k)[at] = x
DwTaken(d, at, x) == \E i, k : DwTakes(d, at, i, k, x)
DwTakenWith(d, at, other, x, z) == \E i, k : DwTakes(d, at, i, k, x) /\ z = <<i, DwTap(d, i, k)[other]>>

\* The transposes of a depthwise convolution hold just those taps.
LEMMA DwTransposed ==
    ASSUME NEW d, Fits(d), NEW at, NEW other
    PROVE  /\ \A x : Taken(DwOf(d), at, x) <=> DwTaken(d, at, x)
           /\ \A x, z : TakenWith(DwOf(d), at, other, x, z) <=> DwTakenWith(d, at, other, x, z)
<1> DEFINE f == DwOf(d)
           kk == d.kH * d.kW
<1>1. kk \in Nat
  BY ShapeType
<1> HIDE DEF kk
<1>2. /\ DOMAIN f = DwOutputs(d)
      /\ \A i \in DwOutputs(d) : DOMAIN f[i] = 1 .. kk /\ \A k \in 1 .. kk : f[i][k] = DwTap(d, i, k - 1)
  BY DEF DwOf, DwTaps, kk
<1> HIDE DEF f
<1>3. ASSUME NEW i, NEW k, NEW x, Takes(f, at, i, k, x)
      PROVE  DwTakes(d, at, i, k - 1, x) /\ f[i][k][other] = DwTap(d, i, k - 1)[other]
  <2>1. i \in DwOutputs(d) /\ k \in 1 .. kk /\ f[i][k][at] = x
    BY <1>2, <1>3 DEF Takes
  <2>2. f[i][k] = DwTap(d, i, k - 1)
    BY <1>2, <2>1
  <2>3. k - 1 \in 0 .. kk - 1
    BY <1>1, <2>1
  <2>4. QED
    BY <2>1, <2>2, <2>3 DEF DwTakes, kk
<1>4. ASSUME NEW i, NEW k, NEW x, DwTakes(d, at, i, k, x)
      PROVE  Takes(f, at, i, k + 1, x) /\ f[i][k + 1][other] = DwTap(d, i, k)[other]
  <2>1. i \in DwOutputs(d) /\ k \in 0 .. kk - 1 /\ DwTap(d, i, k)[at] = x
    BY <1>4 DEF DwTakes, kk
  <2>2. k + 1 \in 1 .. kk /\ (k + 1) - 1 = k
    BY <1>1, <2>1
  <2>3. f[i][k + 1] = DwTap(d, i, k)
    BY <1>2, <2>1, <2>2
  <2>4. QED
    BY <1>2, <2>1, <2>2, <2>3 DEF Takes
<1>5. ASSUME NEW x
      PROVE  Taken(f, at, x) <=> DwTaken(d, at, x)
  <2>1. ASSUME Taken(f, at, x) PROVE DwTaken(d, at, x)
    BY <1>3, <2>1, Zenon DEF Taken, DwTaken
  <2>2. ASSUME DwTaken(d, at, x) PROVE Taken(f, at, x)
    BY <1>4, <2>2, Zenon DEF Taken, DwTaken
  <2>3. QED
    BY <2>1, <2>2
<1>6. ASSUME NEW x, NEW z
      PROVE  TakenWith(f, at, other, x, z) <=> DwTakenWith(d, at, other, x, z)
  <2>1. ASSUME TakenWith(f, at, other, x, z) PROVE DwTakenWith(d, at, other, x, z)
    <3>1. PICK i, k : Takes(f, at, i, k, x) /\ z = <<i, f[i][k][other]>>
      BY <2>1 DEF TakenWith
    <3>2. DwTakes(d, at, i, k - 1, x) /\ z = <<i, DwTap(d, i, k - 1)[other]>>
      BY <1>3, <3>1
    <3>3. QED
      BY <3>2, Zenon DEF DwTakenWith
  <2>2. ASSUME DwTakenWith(d, at, other, x, z) PROVE TakenWith(f, at, other, x, z)
    <3>1. PICK i, k : DwTakes(d, at, i, k, x) /\ z = <<i, DwTap(d, i, k)[other]>>
      BY <2>2, Zenon DEF DwTakenWith
    <3>2. Takes(f, at, i, k + 1, x) /\ z = <<i, f[i][k + 1][other]>>
      BY <1>4, <3>1
    <3>3. QED
      BY <3>2, Zenon DEF TakenWith
  <2>3. QED
    BY <2>1, <2>2
<1>7. QED
  BY <1>5, <1>6 DEF f

\* Every weight of a depthwise filter is used.
LEMMA DwWeightsUsed ==
    ASSUME NEW d, Fits(d), NEW w \in 0 .. d.C * d.kH * d.kW - 1
    PROVE  DwTaken(d, 1, w)
<1> DEFINE P == Pixels(d)
           kk == d.kH * d.kW
           c == w \div kk
           k == w % kk
           i == c * P + 0
<1>1. /\ d.C \in Nat \ {0} /\ d.B \in Nat \ {0} /\ d.kH \in Nat /\ d.kW \in Nat /\ kk \in Nat \ {0}
      /\ P \in Nat \ {0} /\ P = OutH(d) * OutW(d)
  BY ShapeType DEF Pixels
<1>2. d.C * d.kH * d.kW = d.C * kk /\ d.C * kk \in Nat
  <2>1. d.C * d.kH * d.kW = d.C * kk
    BY <1>1
  <2> HIDE DEF kk
  <2>2. d.C * kk \in Nat
    BY <1>1
  <2>3. QED
    BY <2>1, <2>2
<1> HIDE DEF P, kk
<1>3. w \in Nat /\ c \in 0 .. d.C - 1 /\ k \in 0 .. kk - 1 /\ w = c * kk + k
  <2>1. w \in Nat /\ w \in 0 .. d.C * kk - 1
    BY <1>2
  <2>2. c \in 0 .. d.C - 1
    BY <1>1, <2>1, DivBelow
  <2>3. w = c * kk + k /\ k \in 0 .. kk - 1
    BY <1>1, <2>1, DivMod
  <2>4. QED
    BY <2>1, <2>2, <2>3
<1> HIDE DEF c, k
<1>4. i \in 0 .. (d.B * d.C) * P - 1 /\ i \div P = c
  <2>1. c \in Nat /\ 0 \in 0 .. P - 1
    BY <1>1, <1>3
  <2>2. i \div P = c
    BY <1>1, <2>1, RowAndColumn
  <2>3. c \in 0 .. d.B * d.C - 1 /\ d.B * d.C \in Nat
    <3>1. \A b, e \in Nat \ {0} : e <= b * e /\ b * e \in Nat
      OBVIOUS
    <3>2. d.C <= d.B * d.C /\ d.B * d.C \in Nat
      BY <1>1, <3>1
    <3>3. QED
      BY <1>1, <1>3, <3>2
  <2>4. i \in 0 .. (d.B * d.C) * P - 1
    <3> DEFINE n == d.B * d.C
    <3> HIDE DEF n
    <3>1. n \in Nat /\ c \in 0 .. n - 1
      BY <2>3 DEF n
    <3>2. i \in 0 .. n * P - 1
      BY <1>1, <2>1, <3>1, PlaceBelow
    <3>3. QED
      BY <3>2 DEF n
  <2>5. QED
    BY <2>2, <2>4
<1> HIDE DEF i
<1>5. DwTap(d, i, k)[1] = w
  <2>1. DwTap(d, i, k)[1] = (((i \div P) % d.C) * d.kH * d.kW) + k
    BY <1>1 DEF DwTap
  <2>2. c % d.C = c
    BY <1>1, <1>3
  <2>3. c * d.kH * d.kW = c * kk
    <3>1. \A a, b, e \in Nat : a * b * e = a * (b * e)
      OBVIOUS
    <3>2. c \in Nat
      BY <1>1, <1>3
    <3>3. QED
      BY <1>1, <3>1, <3>2 DEF kk
  <2>4. QED
    BY <1>3, <1>4, <2>1, <2>2, <2>3
<1>6. DwTakes(d, 1, i, k, w)
  BY <1>3, <1>4, <1>5 DEF DwTakes, DwOutputs, P, kk
<1>7. QED
  BY <1>6, Zenon DEF DwTaken

\* depthwise_conv2d, forward and backward: with any number of threads every output
\* is written by one strip and is the convolution of its plane with its channel's
\* filter, and the two gradients list for each weight and each element of the input
\* just the outputs it takes part in.
THEOREM DepthwiseAlwaysExact ==
    ASSUME Threads \in Nat \ {0}, PlaneTasks \in Nat
    PROVE  \A d : Fits(d) => DepthwiseExact(d)
<1> SUFFICES ASSUME NEW d, Fits(d)
             PROVE  DepthwiseExact(d)
  OBVIOUS
<1> DEFINE ref == DwReference(d)
           grads == DepthwiseGrads(d)
           ks == 0 .. d.kH * d.kW - 1
           out == 0 .. d.B * d.C * OutH(d) * OutW(d) - 1
           taps == out \X ks
           byW == Transposed(ref, 1, 2)
           byX == Transposed(ref, 2, 1)
           weights(w) == {<<t[1], DwTap(d, t[1], t[2])[2]>> : t \in {u \in taps : DwTap(d, u[1], u[2])[1] = w}}
           inputs(x) == {<<DwTap(d, t[1], t[2])[1], t[1]>> : t \in {u \in taps : DwTap(d, u[1], u[2])[2] = x}}
<1>1. ref = DwOf(d)
  BY ReferenceIs
<1>2. Computes(Depthwise(d), ref)
  BY <1>1, StripsCompute
<1>3. out = DwOutputs(d)
  <2>1. d.B \in Nat /\ d.C \in Nat /\ OutH(d) \in Nat /\ OutW(d) \in Nat
    BY ShapeType
  <2>2. \A a, b, e \in Nat : a * b * e = a * (b * e) /\ a * b \in Nat
    OBVIOUS
  <2>3. d.B * d.C * OutH(d) * OutW(d) = (d.B * d.C) * Pixels(d)
    BY <2>1, <2>2 DEF Pixels
  <2>4. QED
    BY <2>3 DEF DwOutputs
<1>4. /\ DOMAIN grads.weight = 0 .. d.C * d.kH * d.kW - 1
      /\ \A w \in DOMAIN grads.weight : grads.weight[w] = weights(w)
      /\ \A x \in DOMAIN grads.input : grads.input[x] = inputs(x)
  BY DEF DepthwiseGrads
<1> HIDE DEF out, ref, grads, ks
<1>5. ASSUME NEW u, u \in taps
      PROVE  \E i \in out, k \in ks : u = <<i, k>> /\ u[1] = i /\ u[2] = k
  BY <1>5
<1>6. ASSUME NEW i \in out, NEW k \in ks
      PROVE  <<i, k>> \in taps /\ <<i, k>>[1] = i /\ <<i, k>>[2] = k
  OBVIOUS
<1> HIDE DEF taps
<1>7. ASSUME NEW w, NEW z
      PROVE  z \in weights(w) <=> DwTakenWith(d, 1, 2, w, z)
  <2>1. ASSUME z \in weights(w)
        PROVE  DwTakenWith(d, 1, 2, w, z)
    <3>1. PICK u \in taps : DwTap(d, u[1], u[2])[1] = w /\ z = <<u[1], DwTap(d, u[1], u[2])[2]>>
      BY <2>1
    <3>2. PICK i \in out, k \in ks : u[1] = i /\ u[2] = k
      BY <1>5, <3>1
    <3>3. DwTakes(d, 1, i, k, w) /\ z = <<i, DwTap(d, i, k)[2]>>
      BY <1>3, <3>1, <3>2, Zenon DEF DwTakes, ks
    <3>4. QED
      BY <3>3, Zenon DEF DwTakenWith
  <2>2. ASSUME DwTakenWith(d, 1, 2, w, z)
        PROVE  z \in weights(w)
    <3>1. PICK i, k : DwTakes(d, 1, i, k, w) /\ z = <<i, DwTap(d, i, k)[2]>>
      BY <2>2, Zenon DEF DwTakenWith
    <3>2. i \in out /\ k \in ks /\ DwTap(d, i, k)[1] = w
      BY <1>3, <3>1, Zenon DEF DwTakes, ks
    <3> DEFINE u == <<i, k>>
    <3>3. u \in taps /\ u[1] = i /\ u[2] = k
      BY <1>6, <3>2
    <3> HIDE DEF u
    <3>4. <<u[1], DwTap(d, u[1], u[2])[2]>> \in weights(w)
      BY <3>2, <3>3
    <3>5. QED
      BY <3>1, <3>3, <3>4
  <2>3. QED
    BY <2>1, <2>2
<1>8. ASSUME NEW x, NEW z
      PROVE  z \in inputs(x) <=> \E t : DwTakenWith(d, 2, 1, x, t) /\ z = <<t[2], t[1]>>
  <2>1. ASSUME z \in inputs(x)
        PROVE  \E t : DwTakenWith(d, 2, 1, x, t) /\ z = <<t[2], t[1]>>
    <3>1. PICK u \in taps : DwTap(d, u[1], u[2])[2] = x /\ z = <<DwTap(d, u[1], u[2])[1], u[1]>>
      BY <2>1
    <3>2. PICK i \in out, k \in ks : u[1] = i /\ u[2] = k
      BY <1>5, <3>1
    <3>3. DwTakes(d, 2, i, k, x) /\ z = <<DwTap(d, i, k)[1], i>>
      BY <1>3, <3>1, <3>2, Zenon DEF DwTakes, ks
    <3> DEFINE t == <<i, DwTap(d, i, k)[1]>>
    <3>4. t[1] = i /\ t[2] = DwTap(d, i, k)[1]
      OBVIOUS
    <3>5. DwTakenWith(d, 2, 1, x, t)
      BY <3>3, Zenon DEF DwTakenWith
    <3> HIDE DEF t
    <3>6. QED
      BY <3>3, <3>4, <3>5
  <2>2. ASSUME NEW t, DwTakenWith(d, 2, 1, x, t), z = <<t[2], t[1]>>
        PROVE  z \in inputs(x)
    <3>1. PICK i, k : DwTakes(d, 2, i, k, x) /\ t = <<i, DwTap(d, i, k)[1]>>
      BY <2>2, Zenon DEF DwTakenWith
    <3>2. i \in out /\ k \in ks /\ DwTap(d, i, k)[2] = x
      BY <1>3, <3>1, Zenon DEF DwTakes, ks
    <3> DEFINE u == <<i, k>>
    <3>3. u \in taps /\ u[1] = i /\ u[2] = k
      BY <1>6, <3>2
    <3> HIDE DEF u
    <3>4. <<DwTap(d, u[1], u[2])[1], u[1]>> \in inputs(x)
      BY <3>2, <3>3
    <3>5. t[1] = i /\ t[2] = DwTap(d, i, k)[1]
      BY <3>1
    <3>6. QED
      BY <2>2, <3>3, <3>4, <3>5
  <2>3. QED
    BY <2>1, <2>2
<1> HIDE DEF byW, byX, weights, inputs
<1>9. ASSUME NEW w \in DOMAIN grads.weight
      PROVE  grads.weight[w] = byW[w]
  <2>1. w \in DOMAIN byW
    BY <1>1, <1>4, DwWeightsUsed, DwTransposed, TransposedIs DEF byW
  <2>2. \A z : z \in byW[w] <=> DwTakenWith(d, 1, 2, w, z)
    BY <1>1, <2>1, DwTransposed, TransposedIs DEF byW
  <2>3. \A z : z \in grads.weight[w] <=> z \in byW[w]
    BY <1>4, <1>7, <2>2
  <2>4. grads.weight[w] = weights(w) /\ \A z : z \in weights(w) <=> z \in byW[w]
    BY <1>4, <2>3
  <2>5. weights(w) = byW[w]
    BY <2>4
  <2>6. QED
    BY <2>4, <2>5
<1>10. ASSUME NEW x \in DOMAIN grads.input
       PROVE  grads.input[x] = {<<t[2], t[1]>> : t \in IF x \in DOMAIN byX THEN byX[x] ELSE {}}
  <2> DEFINE these == IF x \in DOMAIN byX THEN byX[x] ELSE {}
  <2>1. x \in DOMAIN byX <=> DwTaken(d, 2, x)
    BY <1>1, DwTransposed, TransposedIs DEF byX
  <2>2. x \in DOMAIN byX => \A t : t \in byX[x] <=> DwTakenWith(d, 2, 1, x, t)
    BY <1>1, DwTransposed, TransposedIs DEF byX
  <2>3. \A t : DwTakenWith(d, 2, 1, x, t) => DwTaken(d, 2, x)
    BY Zenon DEF DwTaken, DwTakenWith
  <2>4. \A t : t \in these <=> DwTakenWith(d, 2, 1, x, t)
    BY <2>1, <2>2, <2>3
  <2> HIDE DEF these
  <2>5. \A z : z \in {<<t[2], t[1]>> : t \in these} <=> z \in inputs(x)
    BY <1>8, <2>4
  <2>6. {<<t[2], t[1]>> : t \in these} = inputs(x)
    BY <2>5
  <2>7. QED
    BY <1>4, <2>6 DEF these
<1>11. QED
  BY <1>2, <1>9, <1>10 DEF DepthwiseExact, DwReference, Single, ref, grads, byW, byX

-------------------------------------------------------------------------------
(* The backward pass of a convolution. *)

\* A list that repeats nothing has as many elements as the set of what it lists.
Lists(n, f, S) ==
    /\ n \in Nat /\ f = [k \in 1 .. n |-> f[k]]
    /\ \A k \in 1 .. n : f[k] \in S
    /\ \A z \in S : \E k \in 1 .. n : f[k] = z
    /\ \A a, b \in 1 .. n : f[a] = f[b] => a = b
Listed(n, f, S) == Len(f) = n /\ DOMAIN f = 1 .. n /\ Cardinality(S) = n /\ {f[k] : k \in DOMAIN f} = S
\* Such a list is as long as what it lists.
LEMMA ListsOnce ==
    ASSUME NEW n, NEW f, NEW S, Lists(n, f, S)
    PROVE  Listed(n, f, S)
<1>1. n \in Nat /\ f \in [1 .. n -> S]
  BY DEF Lists
<1>2. f \in Bijection(1 .. n, S)
  BY <1>1, Zenon DEF Lists, Bijection, Injection, Surjection, IsInjective
<1>3. Cardinality(S) = n
  BY <1>1, <1>2, FS_CountingElements DEF ExistsBijection
<1>4. Len(f) = n /\ DOMAIN f = 1 .. n
  BY <1>1, SeqOfFunction
<1>5. {f[k] : k \in DOMAIN f} = S
  <2>1. (\A k \in 1 .. n : f[k] \in S) /\ (\A z \in S : \E k \in 1 .. n : f[k] = z)
    BY Zenon DEF Lists
  <2> DEFINE listed == {f[k] : k \in DOMAIN f}
             places == 1 .. n
  <2>2. DOMAIN f = places
    BY <1>4
  <2>3. \A z : z \in listed <=> \E k \in places : z = f[k]
    BY <2>2, Zenon
  <2>4. \A z : z \in listed <=> z \in S
    <3> HIDE DEF listed
    <3>1. QED
      BY <2>1, <2>3, Zenon
  <2>5. QED
    BY <2>4, Zenon
<1>6. QED
  BY <1>3, <1>4, <1>5 DEF Listed

\* Each row of im2col and each filter belong to one output, and GradRows finds it.
OutputAt(d, r, o) == GradRows(d)[r * d.O + o]
\* The output that GradRows finds at a row and a filter has them.
LEMMA OutputIs ==
    ASSUME NEW d, Fits(d), NEW r \in 0 .. Rows(d) - 1, NEW o \in 0 .. d.O - 1
    PROVE  /\ OutputAt(d, r, o) \in Outputs(d)
           /\ RowOf(d, OutputAt(d, r, o)) = r /\ FilterOf(d, OutputAt(d, r, o)) = o
<1> DEFINE P == Pixels(d)
           B == d.B
           O == d.O
           R == Rows(d)
           n == r \div P
           low == r % P
           plane == n * O + o
           i == plane * P + low
           at == r * O + o
           outputs == 0 .. R * O - 1
<1>1. /\ P \in Nat \ {0} /\ B \in Nat \ {0} /\ O \in Nat \ {0} /\ R \in Nat \ {0} /\ R = B * P
      /\ P = OutH(d) * OutW(d)
  BY ShapeType DEF Pixels
<1>2. outputs = Outputs(d)
  <2> HIDE DEF P, O, R, B
  <2>1. \A a, b, c \in Nat : a * b * c = (a * c) * b
    OBVIOUS
  <2>2. R * O = (B * O) * P
    BY <1>1, <2>1
  <2>3. QED
    BY <2>2 DEF Outputs, B, O, P
<1>3. GradRows(d) = [j \in outputs |-> CHOOSE e \in outputs : RowMajorAt(d, e) = j]
  BY DEF GradRows
<1>4. RowMajorAt(d, i) = (((i \div P) \div O) * P + (i % P)) * O + ((i \div P) % O)
  BY DEF RowMajorAt, Pixels
<1>5. r \in 0 .. B * P - 1 /\ o \in 0 .. O - 1
  BY <1>1
<1> HIDE DEF P, O, R, B, outputs
<1>6. r \in Nat /\ n \in 0 .. B - 1 /\ low \in 0 .. P - 1 /\ r = n * P + low
  <2>1. r \in Nat /\ n \in 0 .. B - 1
    BY <1>1, <1>5, DivBelow
  <2>2. QED
    BY <1>1, <2>1, DivMod
<1> HIDE DEF n, low
<1>7. plane \in 0 .. B * O - 1 /\ B * O \in Nat /\ plane \div O = n /\ plane % O = o
  <2>1. n \in Nat /\ B * O \in Nat
    BY <1>1, <1>6
  <2>2. plane \in 0 .. B * O - 1
    BY <1>1, <1>5, <1>6, PlaceBelow
  <2>3. QED
    BY <1>1, <1>5, <2>1, <2>2, RowAndColumn
<1> HIDE DEF plane
<1>8. i \in Outputs(d) /\ i \div P = plane /\ i % P = low
  <2>1. plane \in Nat
    BY <1>7
  <2>2. i \div P = plane /\ i % P = low
    <3>1. P \in Nat \ {0} /\ low \in 0 .. P - 1
      BY <1>1, <1>6
    <3>2. QED
      BY <2>1, <3>1, RowAndColumn
  <2>3. i \in 0 .. (B * O) * P - 1
    BY <1>1, <1>6, <1>7, PlaceBelow
  <2>4. QED
    BY <2>2, <2>3 DEF Outputs, B, O, P
<1> HIDE DEF i
<1>9. RowMajorAt(d, i) = at
  BY <1>4, <1>6, <1>7, <1>8
<1>10. at \in outputs
  BY <1>1, <1>5, PlaceBelow DEF outputs
<1> DEFINE e == GradRows(d)[at]
<1> HIDE DEF at
<1>11. e \in outputs /\ RowMajorAt(d, e) = at
  <2>1. e = CHOOSE j \in outputs : RowMajorAt(d, j) = at
    BY <1>3, <1>10
  <2>2. \E j \in outputs : RowMajorAt(d, j) = at
    BY <1>2, <1>8, <1>9
  <2>3. QED
    BY <2>1, <2>2
<1> HIDE DEF e
<1>12. RowOf(d, e) \in Nat /\ FilterOf(d, e) \in 0 .. O - 1 /\ RowMajorAt(d, e) = RowOf(d, e) * O + FilterOf(d, e)
  <2>1. RowOf(d, e) \in 0 .. Rows(d) - 1 /\ FilterOf(d, e) \in 0 .. d.O - 1
        /\ RowMajorAt(d, e) = RowOf(d, e) * d.O + FilterOf(d, e)
    BY <1>2, <1>11, PlaceIs
  <2>2. QED
    BY <1>1, <2>1 DEF O, R
<1>13. RowOf(d, e) = r /\ FilterOf(d, e) = o
  <2>1. (r * O + o) \div O = r /\ (r * O + o) % O = o
    BY <1>1, <1>5, <1>6, RowAndColumn
  <2>2. at = RowOf(d, e) * O + FilterOf(d, e)
    BY <1>11, <1>12
  <2> DEFINE a == RowOf(d, e)
             b == FilterOf(d, e)
  <2> HIDE DEF a, b
  <2>3. a \in Nat /\ b \in 0 .. O - 1 /\ at = a * O + b
    BY <1>12, <2>2 DEF a, b
  <2>4. at \div O = a /\ at % O = b
    BY <1>1, <2>3, RowAndColumn
  <2>5. QED
    BY <2>1, <2>4 DEF a, b, at
<1>14. OutputAt(d, r, o) = e
  BY DEF OutputAt, e, at, O
<1>15. QED
  BY <1>2, <1>11, <1>13, <1>14

\* An output is told by its row and its filter.
LEMMA OneOutput ==
    ASSUME NEW d, Fits(d), NEW i \in Outputs(d), NEW j \in Outputs(d),
           RowOf(d, i) = RowOf(d, j), FilterOf(d, i) = FilterOf(d, j)
    PROVE  i = j
<1> DEFINE P == Pixels(d)
           Is(e, n, low) ==
              /\ e \in Nat /\ n \in Nat /\ low \in 0 .. P - 1 /\ e % P = low
              /\ e \div P = n * d.O + FilterOf(d, e) /\ RowOf(d, e) = n * P + low
<1>1. P \in Nat \ {0}
  BY ShapeType
<1>2. ASSUME NEW e \in Outputs(d)
      PROVE  Is(e, SampleOf(d, e), e % P)
  <2>1. /\ e \in Nat /\ SampleOf(d, e) \in Nat
        /\ e % P = LineOf(d, e) * OutW(d) + CrossOf(d, e)
        /\ e \div P = SampleOf(d, e) * d.O + FilterOf(d, e)
    BY PlaceIs
  <2>2. e % P \in 0 .. P - 1
    BY <1>1, <2>1, DivMod
  <2>3. RowOf(d, e) = SampleOf(d, e) * P + (LineOf(d, e) * OutW(d) + CrossOf(d, e))
    BY DEF RowOf
  <2>4. RowOf(d, e) = SampleOf(d, e) * P + (e % P)
    BY <2>1, <2>3
  <2>5. QED
    BY <2>1, <2>2, <2>4
<1> DEFINE n == SampleOf(d, i)
           m == SampleOf(d, j)
           a == i % P
           b == j % P
<1>3. Is(i, n, a) /\ Is(j, m, b)
  BY <1>2
<1> HIDE DEF P, n, m, a, b
<1>4. n = m /\ a = b
  <2>1. (n * P + a) \div P = n /\ (n * P + a) % P = a
    BY <1>1, <1>3, RowAndColumn
  <2>2. (m * P + b) \div P = m /\ (m * P + b) % P = b
    BY <1>1, <1>3, RowAndColumn
  <2>3. n * P + a = m * P + b
    BY <1>3
  <2>4. QED
    BY <2>1, <2>2, <2>3
<1>5. i \div P = j \div P /\ i % P = j % P
  BY <1>3, <1>4
<1>6. i = (i \div P) * P + (i % P) /\ j = (j \div P) * P + (j % P)
  BY <1>1, <1>3, DivMod
<1>7. QED
  BY <1>5, <1>6

\* What the transposes of a convolution hold.
ByWeight(d) == Transposed(ConvOf(d, NoPad), 1, 2)
ByInput(d) == Transposed(ConvOf(d, NoPad), 2, 1)
Reads(d, i, k, x) == i \in Outputs(d) /\ k \in 0 .. Taps(d) - 1 /\ Gathered(d, RowOf(d, i), k) = x
Weighs(d, i, k, w) == i \in Outputs(d) /\ k \in 0 .. Taps(d) - 1 /\ FilterOf(d, i) * Taps(d) + k = w
\* An output takes the weights of its filter, and with each the element its tap reads.
LEMMA ConvTakes ==
    ASSUME NEW d, Fits(d)
    PROVE  /\ \A i, k, w : Takes(ConvOf(d, NoPad), 1, i, k, w) => Weighs(d, i, k - 1, w)
           /\ \A i, k, w : Weighs(d, i, k, w) => Takes(ConvOf(d, NoPad), 1, i, k + 1, w)
           /\ \A i, k, x : Takes(ConvOf(d, NoPad), 2, i, k, x) => Reads(d, i, k - 1, x)
           /\ \A i, k, x : Reads(d, i, k, x) => Takes(ConvOf(d, NoPad), 2, i, k + 1, x)
           /\ \A i \in Outputs(d), k \in 0 .. Taps(d) - 1 :
                /\ ConvOf(d, NoPad)[i][k + 1][1] = FilterOf(d, i) * Taps(d) + k
                /\ ConvOf(d, NoPad)[i][k + 1][2] = Gathered(d, RowOf(d, i), k)
<1> DEFINE f == ConvOf(d, NoPad)
           T == Taps(d)
           outputs == Outputs(d)
           w(i, k) == FilterOf(d, i) * T + k
           g(i, k) == Gathered(d, RowOf(d, i), k)
<1>1. T \in Nat
  BY ShapeType
<1>2. DOMAIN f = outputs /\ \A i \in outputs : f[i] = [k \in 1 .. T |-> <<w(i, k - 1), g(i, k - 1)>>]
  BY UnpaddedIs
<1> HIDE DEF f, T, outputs, w, g
<1>3. ASSUME NEW i \in outputs
      PROVE  DOMAIN f[i] = 1 .. T /\ \A k \in 1 .. T : f[i][k][1] = w(i, k - 1) /\ f[i][k][2] = g(i, k - 1)
  <2>1. f[i] = [k \in 1 .. T |-> <<w(i, k - 1), g(i, k - 1)>>]
    BY <1>2
  <2>2. QED
    BY <2>1
<1>4. \A k : k \in 1 .. T => k - 1 \in 0 .. T - 1
  BY <1>1
<1>5. \A k : k \in 0 .. T - 1 => k + 1 \in 1 .. T /\ (k + 1) - 1 = k
  BY <1>1
<1>6. ASSUME NEW i \in outputs, NEW k \in 0 .. T - 1
      PROVE  f[i][k + 1][1] = w(i, k) /\ f[i][k + 1][2] = g(i, k)
  <2>1. k + 1 \in 1 .. T /\ (k + 1) - 1 = k
    BY <1>5
  <2>2. f[i][k + 1][1] = w(i, (k + 1) - 1) /\ f[i][k + 1][2] = g(i, (k + 1) - 1)
    BY <1>3, <2>1
  <2>3. QED
    BY <2>1, <2>2
<1>7. ASSUME NEW i, NEW k, NEW x, Takes(f, 1, i, k, x)
      PROVE  Weighs(d, i, k - 1, x)
  <2>1. i \in outputs /\ k \in 1 .. T /\ f[i][k][1] = x
    BY <1>2, <1>3, <1>7 DEF Takes
  <2>2. QED
    BY <1>3, <1>4, <2>1 DEF Weighs, outputs, T, w
<1>8. ASSUME NEW i, NEW k, NEW x, Weighs(d, i, k, x)
      PROVE  Takes(f, 1, i, k + 1, x)
  <2>1. i \in outputs /\ k \in 0 .. T - 1 /\ w(i, k) = x
    BY <1>8 DEF Weighs, outputs, T, w
  <2>2. QED
    BY <1>2, <1>3, <1>5, <1>6, <2>1 DEF Takes
<1>9. ASSUME NEW i, NEW k, NEW x, Takes(f, 2, i, k, x)
      PROVE  Reads(d, i, k - 1, x)
  <2>1. i \in outputs /\ k \in 1 .. T /\ f[i][k][2] = x
    BY <1>2, <1>3, <1>9 DEF Takes
  <2>2. QED
    BY <1>3, <1>4, <2>1 DEF Reads, outputs, T, g
<1>10. ASSUME NEW i, NEW k, NEW x, Reads(d, i, k, x)
       PROVE  Takes(f, 2, i, k + 1, x)
  <2>1. i \in outputs /\ k \in 0 .. T - 1 /\ g(i, k) = x
    BY <1>10 DEF Reads, outputs, T, g
  <2>2. QED
    BY <1>2, <1>3, <1>5, <1>6, <2>1 DEF Takes
<1>11. QED
  BY <1>6, <1>7, <1>8, <1>9, <1>10 DEF f, outputs, T, w, g

\* The transpose by weights holds each output of the weight's filter, with what its tap reads.
OfFilter(d, o, k, z) == \E i \in Outputs(d) : FilterOf(d, i) = o /\ z = <<i, Gathered(d, RowOf(d, i), k)>>
\* A weight's outputs are those of its filter.
LEMMA ByWeightIs ==
    ASSUME NEW d, Fits(d), NEW o \in 0 .. d.O - 1, NEW k \in 0 .. Taps(d) - 1
    PROVE  \A z : z \in ByWeight(d)[o * Taps(d) + k] <=> OfFilter(d, o, k, z)
<1> DEFINE f == ConvOf(d, NoPad)
           T == Taps(d)
           w == o * T + k
<1>1. T \in Nat \ {0} /\ o \in Nat
  BY ShapeType
<1>2. k \in 0 .. T - 1
  OBVIOUS
<1>3. ASSUME NEW i, NEW e, Weighs(d, i, e, w)
      PROVE  i \in Outputs(d) /\ FilterOf(d, i) = o /\ e = k
  <2> DEFINE q == FilterOf(d, i)
  <2>1. i \in Outputs(d) /\ e \in 0 .. T - 1 /\ q * T + e = w
    BY <1>3 DEF Weighs
  <2>2. q \in Nat
    BY <2>1, PlaceIs
  <2> HIDE DEF q, T
  <2>3. (q * T + e) \div T = q /\ (q * T + e) % T = e
    BY <1>1, <2>1, <2>2, RowAndColumn
  <2>4. (o * T + k) \div T = o /\ (o * T + k) % T = k
    BY <1>1, <1>2, RowAndColumn
  <2>5. QED
    BY <2>1, <2>3, <2>4 DEF q
<1>4. ASSUME NEW i \in Outputs(d), FilterOf(d, i) = o
      PROVE  Takes(f, 1, i, k + 1, w) /\ f[i][k + 1][2] = Gathered(d, RowOf(d, i), k)
  <2>1. Weighs(d, i, k, w)
    BY <1>4 DEF Weighs
  <2>2. QED
    BY <2>1, ConvTakes
<1> HIDE DEF w
<1>5. \E i \in Outputs(d) : FilterOf(d, i) = o
  <2>1. 0 \in 0 .. Rows(d) - 1
    BY ShapeType
  <2>2. QED
    BY <2>1, OutputIs
<1>6. w \in DOMAIN ByWeight(d)
  <2>1. Taken(f, 1, w)
    BY <1>4, <1>5, Zenon DEF Taken
  <2>2. QED
    BY <2>1, TransposedIs DEF ByWeight
<1>7. \A z : z \in ByWeight(d)[w] <=> TakenWith(f, 1, 2, w, z)
  BY <1>6, TransposedIs DEF ByWeight
<1>8. ASSUME NEW z, TakenWith(f, 1, 2, w, z)
      PROVE  OfFilter(d, o, k, z)
  <2>1. PICK i, e : Takes(f, 1, i, e, w) /\ z = <<i, f[i][e][2]>>
    BY <1>8, Zenon DEF TakenWith
  <2>2. Weighs(d, i, e - 1, w)
    BY <2>1, ConvTakes
  <2>3. i \in Outputs(d) /\ FilterOf(d, i) = o /\ e - 1 = k
    BY <1>3, <2>2
  <2>4. e \in 1 .. T
    <3>1. DOMAIN f[i] = 1 .. T
      BY <2>3, UnpaddedIs
    <3>2. QED
      BY <2>1, <3>1 DEF Takes
  <2>5. e = k + 1
    BY <1>1, <1>2, <2>3, <2>4
  <2>6. z = <<i, Gathered(d, RowOf(d, i), k)>>
    BY <1>4, <2>1, <2>3, <2>5
  <2>7. QED
    BY <2>3, <2>6 DEF OfFilter
<1>9. ASSUME NEW z, OfFilter(d, o, k, z)
      PROVE  TakenWith(f, 1, 2, w, z)
  <2>1. PICK i \in Outputs(d) : FilterOf(d, i) = o /\ z = <<i, Gathered(d, RowOf(d, i), k)>>
    BY <1>9, Zenon DEF OfFilter
  <2>2. Takes(f, 1, i, k + 1, w) /\ z = <<i, f[i][k + 1][2]>>
    BY <1>4, <2>1
  <2>3. QED
    BY <2>2, Zenon DEF TakenWith
<1>10. QED
  BY <1>7, <1>8, <1>9 DEF w

\* The transpose by elements of the input holds the outputs that read it, with the weight.
Reading(d, x, z) == \E i, k : Reads(d, i, k, x) /\ z = <<i, FilterOf(d, i) * Taps(d) + k>>
InputTerms(d, x) == IF x \in DOMAIN ByInput(d) THEN ByInput(d)[x] ELSE {}
\* An element's outputs are those with a tap that reads it.
LEMMA ByInputIs ==
    ASSUME NEW d, Fits(d), NEW x
    PROVE  \A z : z \in InputTerms(d, x) <=> Reading(d, x, z)
<1> DEFINE f == ConvOf(d, NoPad)
<1>1. x \in DOMAIN ByInput(d) <=> Taken(f, 2, x)
  BY TransposedIs DEF ByInput
<1>2. \A z : x \in DOMAIN ByInput(d) => (z \in ByInput(d)[x] <=> TakenWith(f, 2, 1, x, z))
  BY TransposedIs DEF ByInput
<1>3. \A z : TakenWith(f, 2, 1, x, z) => Taken(f, 2, x)
  BY Zenon DEF Taken, TakenWith
<1>4. \A z : z \in InputTerms(d, x) <=> TakenWith(f, 2, 1, x, z)
  BY <1>1, <1>2, <1>3 DEF InputTerms
<1>5. ASSUME NEW z, TakenWith(f, 2, 1, x, z)
      PROVE  Reading(d, x, z)
  <2>1. PICK i, e : Takes(f, 2, i, e, x) /\ z = <<i, f[i][e][1]>>
    BY <1>5, Zenon DEF TakenWith
  <2>2. Reads(d, i, e - 1, x)
    BY <2>1, ConvTakes
  <2>3. i \in Outputs(d) /\ e - 1 \in 0 .. Taps(d) - 1
    BY <2>2 DEF Reads
  <2>4. e \in 1 .. Taps(d)
    <3>1. DOMAIN f[i] = 1 .. Taps(d)
      BY <2>3, UnpaddedIs
    <3>2. QED
      BY <2>1, <3>1 DEF Takes
  <2>5. (e - 1) + 1 = e
    BY <2>4
  <2>6. f[i][e][1] = FilterOf(d, i) * Taps(d) + (e - 1)
    <3>1. f[i][(e - 1) + 1][1] = FilterOf(d, i) * Taps(d) + (e - 1)
      BY <2>3, ConvTakes
    <3>2. QED
      BY <2>5, <3>1
  <2>7. QED
    BY <2>1, <2>2, <2>6, Zenon DEF Reading
<1>6. ASSUME NEW z, Reading(d, x, z)
      PROVE  TakenWith(f, 2, 1, x, z)
  <2>1. PICK i, k : Reads(d, i, k, x) /\ z = <<i, FilterOf(d, i) * Taps(d) + k>>
    BY <1>6, Zenon DEF Reading
  <2>2. i \in Outputs(d) /\ k \in 0 .. Taps(d) - 1
    BY <2>1 DEF Reads
  <2>3. Takes(f, 2, i, k + 1, x) /\ f[i][k + 1][1] = FilterOf(d, i) * Taps(d) + k
    BY <2>1, <2>2, ConvTakes
  <2>4. QED
    BY <2>1, <2>3, Zenon DEF TakenWith
<1>7. QED
  BY <1>4, <1>5, <1>6

\* A list over the outputs of a filter, each once, with what the tap k of each reads, sums the
\* products of that weight.
ListsOutputs(d, o, k, e, terms) ==
    /\ terms = [r \in 1 .. Rows(d) |-> <<e[r], Gathered(d, RowOf(d, e[r]), k)>>]
    /\ \A r \in 1 .. Rows(d) : e[r] \in Outputs(d) /\ FilterOf(d, e[r]) = o
    /\ \A a, b \in 1 .. Rows(d) : e[a] = e[b] => a = b
    /\ \A i \in Outputs(d) : FilterOf(d, i) = o => \E r \in 1 .. Rows(d) : e[r] = i
\* A list of one product for each output of the filter sums the weight's products.
LEMMA WeightSums ==
    ASSUME NEW d, Fits(d), NEW o \in 0 .. d.O - 1, NEW k \in 0 .. Taps(d) - 1, NEW e, NEW terms,
           ListsOutputs(d, o, k, e, terms)
    PROVE  SumsTo(terms, ByWeight(d)[o * Taps(d) + k], Same)
<1> DEFINE R == Rows(d)
           S == ByWeight(d)[o * Taps(d) + k]
           of(i) == Gathered(d, RowOf(d, i), k)
<1>1. R \in Nat
  BY ShapeType
<1>2. \A z : z \in S <=> OfFilter(d, o, k, z)
  BY ByWeightIs
<1>3. \A z : OfFilter(d, o, k, z) <=> \E i \in Outputs(d) : FilterOf(d, i) = o /\ z = <<i, of(i)>>
  BY DEF OfFilter
<1>4. /\ terms = [r \in 1 .. R |-> <<e[r], of(e[r])>>]
      /\ \A r \in 1 .. R : e[r] \in Outputs(d) /\ FilterOf(d, e[r]) = o
      /\ \A a, b \in 1 .. R : e[a] = e[b] => a = b
      /\ \A i \in Outputs(d) : FilterOf(d, i) = o => \E r \in 1 .. R : e[r] = i
  BY DEF ListsOutputs
<1> HIDE DEF R, S, of
<1>5. \A r \in 1 .. R : terms[r] = <<e[r], of(e[r])>>
  BY <1>4
<1>6. \A r \in 1 .. R : terms[r] \in S
  BY <1>2, <1>3, <1>4, <1>5
<1>7. \A z \in S : \E r \in 1 .. R : terms[r] = z
  BY <1>2, <1>3, <1>4, <1>5
<1>8. \A a, b \in 1 .. R : terms[a] = terms[b] => a = b
  <2> SUFFICES ASSUME NEW a \in 1 .. R, NEW b \in 1 .. R, terms[a] = terms[b]
               PROVE  a = b
    OBVIOUS
  <2>1. <<e[a], of(e[a])>> = <<e[b], of(e[b])>>
    BY <1>5
  <2>2. e[a] = e[b]
    BY <2>1
  <2>3. QED
    BY <1>4, <2>2
<1>9. terms = [r \in 1 .. R |-> terms[r]]
  BY <1>4
<1>10. Lists(R, terms, S)
  BY <1>1, <1>6, <1>7, <1>8, <1>9, Zenon DEF Lists
<1>11. Listed(R, terms, S)
  BY <1>10, ListsOnce, Zenon
<1>12. QED
  BY <1>11 DEF Listed, SumsTo, Same, S

\* One part computes what it holds.
LEMMA OnePartComputes ==
    ASSUME NEW part, part = [i \in DOMAIN part |-> part[i]]
    PROVE  Computes(<<part>>, part)
<1> DEFINE parts == <<part>>
<1>1. DOMAIN parts = {1} /\ parts[1] = part
  OBVIOUS
<1> HIDE DEF parts
<1>2. Computes(parts, part)
  BY <1>1, PartsCompute
<1>3. QED
  BY <1>2 DEF parts

WeightsExact(d) ==
    /\ Disjoint(WeightGrad(d))
    /\ \A w \in 0 .. d.O * Taps(d) - 1 : SumsTo(Merged(WeightGrad(d))[w], ByWeight(d)[w], Same)

\* The weights' gradient by one product over the rows of im2col.
LEMMA GatheredWeights ==
    ASSUME Threads \in Nat \ {0}, MinRows \in Nat \ {0}, NEW d, Fits(d), ~OneByOne(d)
    PROVE  WeightsExact(d)
<1> DEFINE T == Taps(d)
           R == Rows(d)
           O == d.O
           go == GradRows(d)
           col == Merged(TmIm2col(d))
           dW == Merged(PsgemmTn(O, T, R))
           all == [i \in DOMAIN dW |-> Seen(dW[i], LAMBDA r : go[r], LAMBDA c : col[c])]
<1>1. T \in Nat \ {0} /\ R \in Nat \ {0} /\ O \in Nat \ {0}
  BY ShapeType
<1>2. WeightGrad(d) = <<all>>
  BY DEF WeightGrad
<1>3. col = Columns(d)
  <2>1. Computes(TmIm2col(d), Columns(d))
    BY ColumnsWrittenOnce
  <2>2. QED
    BY <2>1 DEF Computes
<1>4. dW = Product(O, T, R, TRUE, FALSE)
  <2>1. Computes(PsgemmTn(O, T, R), Product(O, T, R, TRUE, FALSE))
    <3> HIDE DEF R, O, T
    <3>1. QED
      BY <1>1, TnComputes
  <2>2. QED
    BY <2>1 DEF Computes
<1>5. Product(O, T, R, TRUE, FALSE)
        = [i \in 0 .. O * T - 1 |-> [r \in 1 .. R |-> <<(r - 1) * O + (i \div T), (r - 1) * T + (i % T)>>]]
  BY DEF Product
<1>6. DOMAIN all = 0 .. O * T - 1
  <2> HIDE DEF dW, O, T, R
  <2>1. DOMAIN dW = 0 .. O * T - 1
    BY <1>4, <1>5
  <2>2. QED
    BY <2>1
<1>7. ASSUME NEW o \in 0 .. O - 1, NEW k \in 0 .. T - 1
      PROVE  SumsTo(all[o * T + k], ByWeight(d)[o * T + k], Same)
  <2> DEFINE w == o * T + k
             e == [r \in 1 .. R |-> OutputAt(d, r - 1, o)]
             pairs == [r \in 1 .. R |-> <<(r - 1) * O + o, (r - 1) * T + k>>]
             terms == [r \in 1 .. R |-> <<e[r], Gathered(d, RowOf(d, e[r]), k)>>]
  <2>1. w \in DOMAIN dW /\ dW[w] = pairs
    <3> HIDE DEF dW, O, T, R
    <3>1. o \in Nat
      BY <1>1
    <3>2. w \in 0 .. O * T - 1
      BY <1>1, PlaceBelow
    <3>3. w \div T = o /\ w % T = k
      BY <1>1, <3>1, RowAndColumn
    <3> HIDE DEF w
    <3>4. QED
      BY <1>4, <1>5, <3>2, <3>3
  <2>2. \A r \in 1 .. R : r - 1 \in 0 .. R - 1
    <3> HIDE DEF R
    <3>1. QED
      BY <1>1
  <2>3. \A r \in 1 .. R : /\ e[r] = OutputAt(d, r - 1, o) /\ e[r] \in Outputs(d)
                          /\ RowOf(d, e[r]) = r - 1 /\ FilterOf(d, e[r]) = o
    BY <2>2, OutputIs
  <2>4. \A r \in 1 .. R : go[(r - 1) * O + o] = e[r]
    BY <2>3 DEF OutputAt
  <2>5. \A r \in 1 .. R : col[(r - 1) * T + k] = Gathered(d, r - 1, k)
    <3> SUFFICES ASSUME NEW r \in 1 .. R
                 PROVE  col[(r - 1) * T + k] = Gathered(d, r - 1, k)
      OBVIOUS
    <3>1. k + 1 \in 1 .. T /\ (k + 1) - 1 = k
      <4> HIDE DEF T
      <4>1. QED
        BY <1>1
    <3>2. Columns(d)[(r - 1) * T + (k + 1) - 1] = Gathered(d, r - 1, (k + 1) - 1)
      BY <2>2, <3>1, ColumnAt
    <3>3. (r - 1) * T + (k + 1) - 1 = (r - 1) * T + k
      <4> HIDE DEF T, R
      <4>1. (r - 1) * T \in Int
        BY <1>1
      <4>2. QED
        BY <1>1, <4>1
    <3>4. QED
      BY <1>3, <3>1, <3>2, <3>3
  <2> HIDE DEF w, e, dW, go, col, T, R, O, all
  <2>6. Seen(pairs, LAMBDA r : go[r], LAMBDA c : col[c])
          = [r \in 1 .. R |-> <<go[(r - 1) * O + o], col[(r - 1) * T + k]>>]
    BY DEF Seen
  <2>7. [r \in 1 .. R |-> <<go[(r - 1) * O + o], col[(r - 1) * T + k]>>] = terms
    BY <2>3, <2>4, <2>5
  <2>8. all[w] = terms
    <3>1. all[w] = Seen(dW[w], LAMBDA r : go[r], LAMBDA c : col[c])
      BY <2>1 DEF all
    <3> HIDE DEF terms, pairs
    <3>2. QED
      BY <2>1, <2>6, <2>7, <3>1
  <2>9. \A a, b \in 1 .. R : e[a] = e[b] => a = b
    BY <1>1, <2>3
  <2>10. \A i \in Outputs(d) : FilterOf(d, i) = o => \E r \in 1 .. R : e[r] = i
    <3> SUFFICES ASSUME NEW i \in Outputs(d), FilterOf(d, i) = o
                 PROVE  \E r \in 1 .. R : e[r] = i
      OBVIOUS
    <3> DEFINE r == RowOf(d, i) + 1
    <3>1. RowOf(d, i) \in 0 .. R - 1
      BY PlaceIs DEF R
    <3>2. r \in 1 .. R /\ r - 1 = RowOf(d, i)
      BY <1>1, <3>1
    <3> HIDE DEF r
    <3>3. e[r] \in Outputs(d) /\ RowOf(d, e[r]) = RowOf(d, i) /\ FilterOf(d, e[r]) = FilterOf(d, i)
      BY <2>3, <3>2
    <3>4. e[r] = i
      BY <3>3, OneOutput
    <3>5. QED
      BY <3>2, <3>4
  <2> HIDE DEF terms
  <2>11. terms = [r \in 1 .. R |-> <<e[r], Gathered(d, RowOf(d, e[r]), k)>>]
    BY DEF terms
  <2>12. SumsTo(terms, ByWeight(d)[w], Same)
    <3>1. ListsOutputs(d, o, k, e, terms)
      BY <2>3, <2>9, <2>10, <2>11, Zenon DEF ListsOutputs, R
    <3>2. o \in 0 .. d.O - 1 /\ k \in 0 .. Taps(d) - 1
      BY DEF O, T
    <3>3. SumsTo(terms, ByWeight(d)[o * Taps(d) + k], Same)
      BY <3>1, <3>2, WeightSums, Zenon
    <3>4. QED
      BY <3>3 DEF T, w
  <2>13. QED
    BY <2>8, <2>12 DEF w
<1>8. all = [i \in DOMAIN all |-> all[i]]
  OBVIOUS
<1> HIDE DEF all, O, T
<1>9. Computes(WeightGrad(d), all)
  BY <1>2, <1>8, OnePartComputes
<1>10. ASSUME NEW w \in 0 .. O * T - 1
       PROVE  SumsTo(all[w], ByWeight(d)[w], Same)
  <2> DEFINE o == w \div T
             k == w % T
  <2>1. w \in Nat /\ o \in 0 .. O - 1
    BY <1>1, DivBelow
  <2>2. k \in 0 .. T - 1 /\ w = o * T + k
    BY <1>1, <2>1, DivMod
  <2> HIDE DEF o, k
  <2>3. SumsTo(all[o * T + k], ByWeight(d)[o * T + k], Same)
    BY <1>7, <2>1, <2>2
  <2>4. QED
    BY <2>2, <2>3
<1>11. QED
  BY <1>9, <1>10 DEF WeightsExact, Computes, O, T

\* The output of a filter at a place of the plane, of 1x1 filters on one sample.
LEMMA PlaneOutput ==
    ASSUME NEW d, Fits(d), OneByOne(d), NEW o \in 0 .. d.O - 1, NEW r \in 0 .. d.H * d.W - 1
    PROVE  LET i == o * (d.H * d.W) + r
           IN  /\ i \in Outputs(d) /\ FilterOf(d, i) = o /\ i % (d.H * d.W) = r
               /\ \A k \in Nat : Gathered(d, RowOf(d, i), k) = k * (d.H * d.W) + r
<1> DEFINE P == d.H * d.W
           i == o * P + r
<1>1. /\ Pixels(d) = P /\ Outputs(d) = 0 .. d.O * P - 1
      /\ \A j \in Outputs(d) : /\ FilterOf(d, j) = j \div P
                               /\ \A k \in Nat : Gathered(d, RowOf(d, j), k) = k * P + (j % P)
  BY PlaneOfOutputs
<1>2. P \in Nat \ {0} /\ d.O \in Nat /\ o \in Nat /\ o \in 0 .. d.O - 1 /\ r \in 0 .. P - 1
  BY <1>1, ShapeType
<1> HIDE DEF P
<1>3. i \in Outputs(d)
  BY <1>1, <1>2, PlaceBelow
<1>4. i \div P = o /\ i % P = r
  BY <1>2, RowAndColumn
<1> HIDE DEF i
<1>5. i \in Outputs(d) /\ FilterOf(d, i) = o /\ i % P = r
      /\ \A k \in Nat : Gathered(d, RowOf(d, i), k) = k * P + r
  BY <1>1, <1>3, <1>4
<1>6. QED
  BY <1>5 DEF i, P

\* The weights' gradient of 1x1 filters on one sample: one product over the plane.
LEMMA PlaneWeights ==
    ASSUME NEW d, Fits(d), OneByOne(d)
    PROVE  WeightsExact(d)
<1> DEFINE C == d.C
           O == d.O
           P == d.H * d.W
           all == Product(O, C, P, FALSE, TRUE)
<1>1. /\ Taps(d) = C /\ Pixels(d) = P /\ Outputs(d) = 0 .. O * P - 1
      /\ \A j \in Outputs(d) : FilterOf(d, j) = j \div P
  BY PlaneOfOutputs
<1>2. C \in Nat \ {0} /\ O \in Nat \ {0} /\ P \in Nat \ {0} /\ Rows(d) = P
  <2>1. /\ d.C \in Nat \ {0} /\ d.O \in Nat \ {0} /\ Pixels(d) \in Nat \ {0} /\ Rows(d) = d.B * Pixels(d)
    BY ShapeType
  <2>2. d.B = 1
    BY DEF OneByOne
  <2> HIDE DEF P
  <2>3. 1 * P = P
    BY <1>1, <2>1
  <2>4. QED
    BY <1>1, <2>1, <2>2, <2>3
<1>3. WeightGrad(d) = <<Blas(Dims(O, C, P), FALSE, TRUE, View(0, P), View(0, P), View(0, C))>>
  BY DEF WeightGrad
<1>4. Computes(WeightGrad(d), Wide(O, C, P, FALSE, TRUE, P, P, C))
  <2> HIDE DEF O, P, C
  <2>1. O \in Nat /\ P \in Nat /\ C \in Nat /\ C <= C /\ FALSE \in BOOLEAN /\ TRUE \in BOOLEAN
    BY <1>2
  <2>2. Computes(<<Blas(Dims(O, C, P), FALSE, TRUE, View(0, P), View(0, P), View(0, C))>>,
                 Wide(O, C, P, FALSE, TRUE, P, P, C))
    BY <1>2, <2>1, OneComputes, Zenon
  <2>3. QED
    BY <1>3, <2>2
<1>5. Wide(O, C, P, FALSE, TRUE, P, P, C) = all
  <2> HIDE DEF O, P, C
  <2>1. O \in Nat /\ P \in Nat /\ FALSE \in BOOLEAN /\ TRUE \in BOOLEAN
    BY <1>2
  <2>2. Wide(O, C, P, FALSE, TRUE, IF FALSE THEN O ELSE P, IF TRUE THEN P ELSE C, C)
          = Product(O, C, P, FALSE, TRUE)
    BY <1>2, <2>1, WideIsProduct, Zenon
  <2>3. (IF FALSE THEN O ELSE P) = P /\ (IF TRUE THEN P ELSE C) = P
    OBVIOUS
  <2>4. QED
    BY <2>2, <2>3, Zenon DEF all
<1>6. all = [i \in 0 .. O * C - 1 |-> [k \in 1 .. P |-> <<(i \div C) * P + k - 1, (i % C) * P + k - 1>>]]
  BY DEF Product
<1>7. Merged(WeightGrad(d)) = all /\ Disjoint(WeightGrad(d))
  BY <1>4, <1>5 DEF Computes
<1> HIDE DEF all
<1>8. ASSUME NEW w \in 0 .. O * C - 1
      PROVE  SumsTo(all[w], ByWeight(d)[w], Same)
  <2> DEFINE o == w \div C
             k == w % C
             e == [r \in 1 .. P |-> o * P + (r - 1)]
             terms == all[w]
  <2> HIDE DEF O, C, P
  <2>1. w \in Nat /\ o \in 0 .. O - 1
    BY <1>2, DivBelow
  <2>2. k \in 0 .. C - 1 /\ w = o * C + k
    BY <1>2, <2>1, DivMod
  <2>3. terms = [r \in 1 .. P |-> <<o * P + r - 1, k * P + r - 1>>]
    BY <1>6
  <2> HIDE DEF o, k, terms
  <2>4. o \in Nat /\ k \in Nat /\ o * P \in Nat /\ k * P \in Nat
    BY <1>2, <2>1, <2>2
  <2>5. ASSUME NEW r \in 1 .. P
        PROVE  /\ e[r] \in Outputs(d) /\ FilterOf(d, e[r]) = o /\ e[r] = o * P + (r - 1)
               /\ Gathered(d, RowOf(d, e[r]), k) = k * P + (r - 1)
    <3>1. r - 1 \in 0 .. P - 1
      BY <1>2
    <3>2. e[r] = o * P + (r - 1)
      OBVIOUS
    <3> HIDE DEF e
    <3>3. o \in 0 .. d.O - 1 /\ r - 1 \in 0 .. d.H * d.W - 1
      BY <2>1, <3>1 DEF O, P
    <3>4. LET i == o * (d.H * d.W) + (r - 1)
          IN  /\ i \in Outputs(d) /\ FilterOf(d, i) = o /\ i % (d.H * d.W) = r - 1
              /\ \A m \in Nat : Gathered(d, RowOf(d, i), m) = m * (d.H * d.W) + (r - 1)
      BY <3>3, PlaneOutput
    <3>5. /\ o * P + (r - 1) \in Outputs(d) /\ FilterOf(d, o * P + (r - 1)) = o
          /\ \A m \in Nat : Gathered(d, RowOf(d, o * P + (r - 1)), m) = m * P + (r - 1)
      BY <3>4 DEF P
    <3>6. QED
      BY <2>4, <3>2, <3>5
  <2>6. terms = [r \in 1 .. P |-> <<e[r], Gathered(d, RowOf(d, e[r]), k)>>]
    <3>1. ASSUME NEW r \in 1 .. P
          PROVE  <<o * P + r - 1, k * P + r - 1>> = <<e[r], Gathered(d, RowOf(d, e[r]), k)>>
      <4>1. e[r] = o * P + (r - 1) /\ Gathered(d, RowOf(d, e[r]), k) = k * P + (r - 1)
        BY <2>5
      <4> HIDE DEF e
      <4> DEFINE a == o * P
                 b == k * P
      <4> HIDE DEF a, b
      <4>2. a \in Nat /\ b \in Nat
        BY <2>4 DEF a, b
      <4>3. a + r - 1 = a + (r - 1) /\ b + r - 1 = b + (r - 1)
        BY <1>2, <4>2
      <4>4. QED
        BY <4>1, <4>3 DEF a, b
    <3> HIDE DEF e
    <3>2. QED
      BY <2>3, <3>1
  <2>7. \A a, b \in 1 .. P : e[a] = e[b] => a = b
    BY <1>2, <2>4
  <2>8. \A i \in Outputs(d) : FilterOf(d, i) = o => \E r \in 1 .. P : e[r] = i
    <3> SUFFICES ASSUME NEW i \in Outputs(d), FilterOf(d, i) = o
                 PROVE  \E r \in 1 .. P : e[r] = i
      OBVIOUS
    <3>1. i \in Nat /\ i \div P = o
      BY <1>1, <1>2
    <3>2. i % P \in 0 .. P - 1 /\ i = o * P + (i % P)
      BY <1>2, <3>1, DivMod
    <3> DEFINE m == i % P
    <3> HIDE DEF m
    <3>3. m \in 0 .. P - 1 /\ i = o * P + m
      BY <3>2 DEF m
    <3>4. m + 1 \in 1 .. P /\ e[m + 1] = o * P + ((m + 1) - 1) /\ (m + 1) - 1 = m
      BY <1>2, <3>3
    <3> HIDE DEF e
    <3>5. QED
      BY <3>3, <3>4
  <2> HIDE DEF e
  <2>9. ListsOutputs(d, o, k, e, terms)
    BY <1>2, <2>5, <2>6, <2>7, <2>8, Zenon DEF ListsOutputs
  <2>10. o \in 0 .. d.O - 1 /\ k \in 0 .. Taps(d) - 1
    BY <1>1, <2>1, <2>2 DEF O
  <2>11. SumsTo(terms, ByWeight(d)[o * Taps(d) + k], Same)
    BY <2>9, <2>10, WeightSums, Zenon
  <2>12. QED
    BY <1>1, <2>2, <2>11 DEF terms
<1>9. QED
  BY <1>1, <1>7, <1>8 DEF WeightsExact

\* A list of an element of the input's products, each once, with the output and the tap of
\* each, sums them.
Turned(t) == <<t[2], t[1]>>
ListsReads(d, x, n, i, k, terms) ==
    /\ n \in Nat
    /\ terms = [m \in 1 .. n |-> <<FilterOf(d, i[m]) * Taps(d) + k[m], i[m]>>]
    /\ \A m \in 1 .. n : Reads(d, i[m], k[m], x)
    /\ \A a, b \in 1 .. n : i[a] = i[b] /\ k[a] = k[b] => a = b
    /\ \A j, t : Reads(d, j, t, x) => \E m \in 1 .. n : i[m] = j /\ k[m] = t
\* A list of one product for each reading tap sums the element's products.
LEMMA InputSums ==
    ASSUME NEW d, Fits(d), NEW x, NEW n, NEW i, NEW k, NEW terms, ListsReads(d, x, n, i, k, terms)
    PROVE  SumsTo(terms, InputTerms(d, x), Turned)
<1> DEFINE T == Taps(d)
           S == InputTerms(d, x)
           at(j, t) == FilterOf(d, j) * T + t
           turned == [m \in 1 .. n |-> <<i[m], at(i[m], k[m])>>]
<1>1. T \in Nat
  BY ShapeType
<1>2. \A z : z \in S <=> Reading(d, x, z)
  BY ByInputIs
<1>3. \A z : Reading(d, x, z) <=> \E j, t : Reads(d, j, t, x) /\ z = <<j, at(j, t)>>
  BY DEF Reading
<1>4. /\ n \in Nat
      /\ terms = [m \in 1 .. n |-> <<at(i[m], k[m]), i[m]>>]
      /\ \A m \in 1 .. n : Reads(d, i[m], k[m], x)
      /\ \A a, b \in 1 .. n : i[a] = i[b] /\ k[a] = k[b] => a = b
      /\ \A j, t : Reads(d, j, t, x) => \E m \in 1 .. n : i[m] = j /\ k[m] = t
  BY DEF ListsReads
<1>5. ASSUME NEW j, NEW t, NEW u, Reads(d, j, t, x), Reads(d, j, u, x), at(j, t) = at(j, u)
      PROVE  t = u
  <2>1. j \in Outputs(d) /\ t \in 0 .. T - 1 /\ u \in 0 .. T - 1
    BY <1>5 DEF Reads
  <2> DEFINE q == FilterOf(d, j)
  <2>2. q \in Nat
    BY <2>1, PlaceIs
  <2>3. q * T + t = q * T + u
    BY <1>5
  <2> HIDE DEF q, T
  <2>4. q * T \in Nat
    BY <1>1, <2>2
  <2>5. QED
    BY <1>1, <2>1, <2>3, <2>4
<1> HIDE DEF T, S, at
<1>6. /\ DOMAIN terms = 1 .. n /\ DOMAIN turned = 1 .. n
      /\ \A m \in 1 .. n : turned[m] = <<i[m], at(i[m], k[m])>> /\ terms[m] = <<at(i[m], k[m]), i[m]>>
  BY <1>4
<1>7. turned = [m \in 1 .. n |-> turned[m]]
  OBVIOUS
<1> HIDE DEF turned
<1>8. \A m \in 1 .. n : turned[m] \in S
  <2> SUFFICES ASSUME NEW m \in 1 .. n PROVE turned[m] \in S
    OBVIOUS
  <2>1. Reads(d, i[m], k[m], x) /\ turned[m] = <<i[m], at(i[m], k[m])>>
    BY <1>4, <1>6
  <2>2. Reading(d, x, turned[m])
    BY <1>3, <2>1, Zenon
  <2>3. QED
    BY <1>2, <2>2, Zenon
<1>9. \A z \in S : \E m \in 1 .. n : turned[m] = z
  <2> SUFFICES ASSUME NEW z \in S PROVE \E m \in 1 .. n : turned[m] = z
    OBVIOUS
  <2>1. PICK j, t : Reads(d, j, t, x) /\ z = <<j, at(j, t)>>
    BY <1>2, <1>3, Zenon
  <2>2. PICK m \in 1 .. n : i[m] = j /\ k[m] = t
    BY <1>4, <2>1
  <2>3. QED
    BY <1>6, <2>1, <2>2
<1>10. \A a, b \in 1 .. n : turned[a] = turned[b] => a = b
  <2> SUFFICES ASSUME NEW a \in 1 .. n, NEW b \in 1 .. n, turned[a] = turned[b]
               PROVE  a = b
    OBVIOUS
  <2>1. <<i[a], at(i[a], k[a])>> = <<i[b], at(i[b], k[b])>>
    BY <1>6
  <2>2. i[a] = i[b] /\ at(i[a], k[a]) = at(i[b], k[b])
    BY <2>1
  <2>3. Reads(d, i[a], k[a], x) /\ Reads(d, i[a], k[b], x) /\ at(i[a], k[a]) = at(i[a], k[b])
    BY <1>4, <2>2
  <2>4. k[a] = k[b]
    BY <1>5, <2>3, Zenon
  <2>5. QED
    BY <1>4, <2>2, <2>4
<1>11. Lists(n, turned, S)
  BY <1>4, <1>7, <1>8, <1>9, <1>10, Zenon DEF Lists
<1>12. Listed(n, turned, S)
  BY <1>11, ListsOnce, Zenon
<1>13. Len(terms) = n
  <2>1. terms = [m \in 1 .. n |-> terms[m]]
    BY <1>4
  <2> DEFINE E == {terms[m] : m \in 1 .. n}
  <2>2. \A m \in 1 .. n : terms[m] \in E
    OBVIOUS
  <2> HIDE DEF E
  <2>3. terms \in [1 .. n -> E]
    BY <2>1, <2>2
  <2>4. QED
    BY <1>4, <2>3, SeqOfFunction
<1>14. {Turned(terms[m]) : m \in DOMAIN terms} = {turned[m] : m \in DOMAIN turned}
  <2>1. \A m \in 1 .. n : Turned(terms[m]) = turned[m]
    BY <1>6 DEF Turned
  <2>2. QED
    BY <1>6, <2>1
<1>15. QED
  BY <1>12, <1>13, <1>14 DEF Listed, SumsTo, S

Elements(d) == 0 .. d.B * d.C * d.H * d.W - 1
InputsExact(d) ==
    /\ Disjoint(InputGrad(d))
    /\ \A x \in Elements(d) : SumsTo(Merged(InputGrad(d))[x], InputTerms(d, x), Turned)

\* The input's gradient of 1x1 filters on one sample: one product over the filters.
LEMMA PlaneInputs ==
    ASSUME NEW d, Fits(d), OneByOne(d)
    PROVE  InputsExact(d)
<1> DEFINE C == d.C
           O == d.O
           P == d.H * d.W
           all == Product(C, P, O, TRUE, FALSE)
<1>1. /\ Taps(d) = C /\ Pixels(d) = P /\ Outputs(d) = 0 .. O * P - 1
      /\ \A j \in Outputs(d) : /\ FilterOf(d, j) = j \div P
                               /\ \A k \in Nat : Gathered(d, RowOf(d, j), k) = k * P + (j % P)
  BY PlaneOfOutputs
<1>2. C \in Nat \ {0} /\ O \in Nat \ {0} /\ P \in Nat \ {0}
  BY <1>1, ShapeType
<1>3. Elements(d) = 0 .. C * P - 1
  <2>1. d.B = 1 /\ d.C \in Nat /\ d.H \in Nat /\ d.W \in Nat
    BY ShapeType DEF OneByOne
  <2> DEFINE a == d.C
             b == d.H
             c == d.W
  <2> HIDE DEF a, b, c
  <2>2. \A e, f, g \in Nat : 1 * e * f * g = e * (f * g)
    OBVIOUS
  <2>3. 1 * a * b * c = a * (b * c)
    BY <2>1, <2>2 DEF a, b, c
  <2>4. QED
    BY <2>1, <2>3 DEF Elements, a, b, c
<1>4. InputGrad(d) = <<Blas(Dims(C, P, O), TRUE, FALSE, View(0, C), View(0, P), View(0, P))>>
  BY DEF InputGrad
<1>5. Computes(InputGrad(d), Wide(C, P, O, TRUE, FALSE, C, P, P))
  <2> HIDE DEF O, P, C
  <2>1. O \in Nat /\ P \in Nat /\ C \in Nat /\ P <= P /\ FALSE \in BOOLEAN /\ TRUE \in BOOLEAN
    BY <1>2
  <2>2. Computes(<<Blas(Dims(C, P, O), TRUE, FALSE, View(0, C), View(0, P), View(0, P))>>,
                 Wide(C, P, O, TRUE, FALSE, C, P, P))
    BY <1>2, <2>1, OneComputes, Zenon
  <2>3. QED
    BY <1>4, <2>2
<1>6. Wide(C, P, O, TRUE, FALSE, C, P, P) = all
  <2> HIDE DEF O, P, C
  <2>1. O \in Nat /\ C \in Nat /\ FALSE \in BOOLEAN /\ TRUE \in BOOLEAN
    BY <1>2
  <2>2. Wide(C, P, O, TRUE, FALSE, IF TRUE THEN C ELSE O, IF FALSE THEN O ELSE P, P)
          = Product(C, P, O, TRUE, FALSE)
    BY <1>2, <2>1, WideIsProduct, Zenon
  <2>3. (IF TRUE THEN C ELSE O) = C /\ (IF FALSE THEN O ELSE P) = P
    OBVIOUS
  <2>4. QED
    BY <2>2, <2>3, Zenon DEF all
<1>7. all = [x \in 0 .. C * P - 1 |-> [m \in 1 .. O |-> <<(m - 1) * C + (x \div P), (m - 1) * P + (x % P)>>]]
  BY DEF Product
<1>8. Merged(InputGrad(d)) = all /\ Disjoint(InputGrad(d))
  BY <1>5, <1>6 DEF Computes
<1> HIDE DEF all
<1>9. ASSUME NEW x \in 0 .. C * P - 1
      PROVE  SumsTo(all[x], InputTerms(d, x), Turned)
  <2> DEFINE t == x \div P
             r == x % P
             i == [m \in 1 .. O |-> (m - 1) * P + r]
             k == [m \in 1 .. O |-> t]
             terms == all[x]
  <2> HIDE DEF O, C, P
  <2>1. x \in Nat /\ t \in 0 .. C - 1
    BY <1>2, DivBelow
  <2>2. r \in 0 .. P - 1 /\ x = t * P + r
    BY <1>2, <2>1, DivMod
  <2>3. terms = [m \in 1 .. O |-> <<(m - 1) * C + t, (m - 1) * P + r>>]
    BY <1>7
  <2> HIDE DEF t, r, terms
  <2>4. ASSUME NEW m \in 1 .. O
        PROVE  /\ i[m] = (m - 1) * P + r /\ k[m] = t /\ FilterOf(d, i[m]) = m - 1
               /\ Reads(d, i[m], k[m], x) /\ i[m] % P = r
    <3>1. m - 1 \in 0 .. O - 1
      BY <1>2
    <3>2. i[m] = (m - 1) * P + r /\ k[m] = t
      OBVIOUS
    <3> HIDE DEF i, k
    <3>3. m - 1 \in 0 .. d.O - 1 /\ r \in 0 .. d.H * d.W - 1
      BY <2>2, <3>1 DEF O, P
    <3>4. LET j == (m - 1) * (d.H * d.W) + r
          IN  /\ j \in Outputs(d) /\ FilterOf(d, j) = m - 1 /\ j % (d.H * d.W) = r
              /\ \A e \in Nat : Gathered(d, RowOf(d, j), e) = e * (d.H * d.W) + r
      BY <3>3, PlaneOutput
    <3>5. /\ (m - 1) * P + r \in Outputs(d) /\ FilterOf(d, (m - 1) * P + r) = m - 1
          /\ ((m - 1) * P + r) % P = r
          /\ \A e \in Nat : Gathered(d, RowOf(d, (m - 1) * P + r), e) = e * P + r
      BY <3>4 DEF P
    <3>6. t \in Nat
      BY <2>1
    <3>7. Gathered(d, RowOf(d, i[m]), t) = x
      BY <2>2, <3>2, <3>5, <3>6
    <3>8. t \in 0 .. Taps(d) - 1
      BY <1>1, <2>1
    <3>9. Reads(d, i[m], k[m], x)
      BY <3>2, <3>5, <3>7, <3>8 DEF Reads
    <3>10. QED
      BY <3>2, <3>5, <3>9
  <2>5. terms = [m \in 1 .. O |-> <<FilterOf(d, i[m]) * Taps(d) + k[m], i[m]>>]
    <3>1. ASSUME NEW m \in 1 .. O
          PROVE  <<(m - 1) * C + t, (m - 1) * P + r>> = <<FilterOf(d, i[m]) * Taps(d) + k[m], i[m]>>
      <4>1. i[m] = (m - 1) * P + r /\ k[m] = t /\ FilterOf(d, i[m]) = m - 1 /\ Taps(d) = C
        BY <1>1, <2>4
      <4> HIDE DEF i, k
      <4>2. QED
        BY <4>1, Zenon
    <3> HIDE DEF i, k
    <3>2. QED
      BY <2>3, <3>1
  <2> HIDE DEF i, k
  <2>6. \A a, b \in 1 .. O : i[a] = i[b] /\ k[a] = k[b] => a = b
    <3> SUFFICES ASSUME NEW a \in 1 .. O, NEW b \in 1 .. O, i[a] = i[b]
                 PROVE  a = b
      OBVIOUS
    <3>1. a - 1 = b - 1
      BY <2>4
    <3>2. QED
      BY <1>2, <3>1
  <2>7. \A j, u : Reads(d, j, u, x) => \E m \in 1 .. O : i[m] = j /\ k[m] = u
    <3> SUFFICES ASSUME NEW j, NEW u, Reads(d, j, u, x)
                 PROVE  \E m \in 1 .. O : i[m] = j /\ k[m] = u
      OBVIOUS
    <3>1. j \in Outputs(d) /\ u \in 0 .. C - 1 /\ u \in Nat /\ Gathered(d, RowOf(d, j), u) = x
      <4>1. j \in Outputs(d) /\ u \in 0 .. C - 1 /\ Gathered(d, RowOf(d, j), u) = x
        BY <1>1 DEF Reads
      <4>2. QED
        BY <1>2, <4>1
    <3>2. u * P + (j % P) = x /\ j \in 0 .. O * P - 1
      BY <1>1, <3>1
    <3>3. j \in Nat /\ j \div P \in 0 .. O - 1
      BY <1>2, <3>2, DivBelow
    <3>4. j % P \in 0 .. P - 1 /\ j = (j \div P) * P + (j % P)
      BY <1>2, <3>3, DivMod
    <3> DEFINE low == j % P
               m == j \div P + 1
    <3>5. m \in 1 .. O /\ m - 1 = j \div P
      BY <1>2, <3>3
    <3> HIDE DEF low, m
    <3>6. low \in 0 .. P - 1 /\ u * P + low = x /\ j = (m - 1) * P + low
      BY <3>2, <3>4, <3>5 DEF low
    <3>7. (u * P + low) \div P = u /\ (u * P + low) % P = low
      BY <1>2, <3>1, <3>6, RowAndColumn
    <3>8. t \in Nat
      BY <2>1
    <3>9. (t * P + r) \div P = t /\ (t * P + r) % P = r
      BY <1>2, <2>2, <3>8, RowAndColumn
    <3>10. u = t /\ low = r
      BY <2>2, <3>6, <3>7, <3>9
    <3>11. i[m] = j /\ k[m] = u
      BY <2>4, <3>5, <3>6, <3>10
    <3>12. QED
      BY <3>5, <3>11
  <2>8. O \in Nat
    BY <1>2
  <2>9. \A m \in 1 .. O : Reads(d, i[m], k[m], x)
    BY <2>4
  <2>10. ListsReads(d, x, O, i, k, terms)
    BY <2>5, <2>6, <2>7, <2>8, <2>9, Zenon DEF ListsReads
  <2>11. QED
    BY <2>10, InputSums, Zenon DEF terms
<1>10. QED
  BY <1>3, <1>8, <1>9 DEF InputsExact

\* The numbers of a run that are kept, one list of at most one for each.
Kept(lo, n, keep) == [j \in 1 .. n |-> IF lo + j - 1 \in keep THEN <<lo + j - 1>> ELSE <<>>]
KeptOf(lo, n, keep) == {e \in Nat : e \in lo .. lo + n - 1 /\ e \in keep}

\* A list with one element more that it did not have lists one more.
LEMMA ListsMore ==
    ASSUME NEW m, NEW q, NEW S \in SUBSET Nat, Lists(m, q, S), NEW e \in Nat, e \notin S
    PROVE  Lists(m + 1, q \o <<e>>, S \cup {e})
<1> DEFINE p == q \o <<e>>
           U == S \cup {e}
<1>1. /\ m \in Nat /\ q = [k \in 1 .. m |-> q[k]]
      /\ \A k \in 1 .. m : q[k] \in S
      /\ \A z \in S : \E k \in 1 .. m : q[k] = z
      /\ \A a, b \in 1 .. m : q[a] = q[b] => a = b
  BY DEF Lists
<1>2. q \in Seq(Nat) /\ Len(q) = m
  <2>1. q \in [1 .. m -> Nat]
    BY <1>1
  <2>2. QED
    BY <1>1, <2>1, SeqOfFunction
<1>3. /\ p \in Seq(Nat) /\ Len(p) = m + 1 /\ p[m + 1] = e
      /\ \A k \in 1 .. m : p[k] = q[k]
  BY <1>1, <1>2
<1> HIDE DEF p
<1>4. p = [k \in 1 .. m + 1 |-> p[k]] /\ m + 1 \in Nat
  BY <1>1, <1>3
<1>5. \A k \in 1 .. m + 1 : k \in 1 .. m \/ k = m + 1
  BY <1>1
<1>6. m + 1 \in 1 .. m + 1 /\ \A k \in 1 .. m : k \in 1 .. m + 1
  BY <1>1
<1>7. \A k \in 1 .. m + 1 : p[k] \in U
  BY <1>1, <1>3, <1>5
<1>8. \A z \in U : \E k \in 1 .. m + 1 : p[k] = z
  BY <1>1, <1>3, <1>6
<1>9. \A a, b \in 1 .. m + 1 : p[a] = p[b] => a = b
  <2> SUFFICES ASSUME NEW a \in 1 .. m + 1, NEW b \in 1 .. m + 1, p[a] = p[b]
               PROVE  a = b
    OBVIOUS
  <2>1. CASE a \in 1 .. m /\ b \in 1 .. m
    BY <1>1, <1>3, <2>1
  <2>2. CASE a = m + 1 /\ b = m + 1
    BY <2>2
  <2>3. CASE a \in 1 .. m /\ b = m + 1
    BY <1>1, <1>3, <2>3
  <2>4. CASE a = m + 1 /\ b \in 1 .. m
    BY <1>1, <1>3, <2>4
  <2>5. QED
    BY <1>5, <2>1, <2>2, <2>3, <2>4
<1> HIDE DEF U
<1>10. Lists(m + 1, p, U)
  BY <1>4, <1>7, <1>8, <1>9, Zenon DEF Lists
<1>11. QED
  BY <1>10 DEF p, U

\* Flattened, they list what is kept of the run.
LEMMA KeptFlatten ==
    ASSUME NEW lo \in Nat, NEW n \in Nat, NEW keep
    PROVE  \E m \in Nat : Lists(m, FlattenSeq(Kept(lo, n, keep)), KeptOf(lo, n, keep))
<1> DEFINE flat(c) == FlattenSeq(Kept(lo, c, keep))
           Good(c) == \E m \in Nat : Lists(m, flat(c), KeptOf(lo, c, keep))
           S == {c \in Nat : Good(c)}
<1>1. ASSUME NEW c \in Nat
      PROVE  /\ Kept(lo, c, keep) \in Seq(Seq(Nat)) /\ Len(Kept(lo, c, keep)) = c
             /\ DOMAIN Kept(lo, c, keep) = 1 .. c
             /\ \A j \in 1 .. c : Kept(lo, c, keep)[j] = IF lo + j - 1 \in keep THEN <<lo + j - 1>> ELSE <<>>
  <2> DEFINE f == Kept(lo, c, keep)
  <2>1. /\ f = [j \in 1 .. c |-> f[j]]
        /\ \A j \in 1 .. c : f[j] = IF lo + j - 1 \in keep THEN <<lo + j - 1>> ELSE <<>>
    BY DEF Kept
  <2>2. \A j \in 1 .. c : f[j] \in Seq(Nat)
    <3> SUFFICES ASSUME NEW j \in 1 .. c PROVE f[j] \in Seq(Nat)
      OBVIOUS
    <3>1. lo + j - 1 \in Nat
      OBVIOUS
    <3> HIDE DEF f
    <3>2. <<lo + j - 1>> \in Seq(Nat) /\ <<>> \in Seq(Nat)
      BY <3>1
    <3>3. QED
      BY <2>1, <3>2
  <2> HIDE DEF f
  <2>3. f \in [1 .. c -> Seq(Nat)]
    BY <2>1, <2>2
  <2>4. f \in Seq(Seq(Nat)) /\ Len(f) = c
    BY <2>3, SeqOfFunction
  <2>5. QED
    BY <2>1, <2>3, <2>4 DEF f
<1>2. 0 \in S
  <2>1. Len(Kept(lo, 0, keep)) = 0 /\ Kept(lo, 0, keep) \in Seq(Seq(Nat))
    BY <1>1
  <2>2. Kept(lo, 0, keep) = <<>>
    BY <2>1
  <2>3. flat(0) = <<>>
    BY <2>2, FlattenEmpty
  <2>4. KeptOf(lo, 0, keep) = {}
    BY DEF KeptOf
  <2>5. Lists(0, <<>>, {})
    BY DEF Lists
  <2> HIDE DEF flat
  <2>6. QED
    BY <2>3, <2>4, <2>5
<1>3. ASSUME NEW c \in Nat, Good(c)
      PROVE  Good(c + 1)
  <2> DEFINE e == lo + c
             t == IF e \in keep THEN <<e>> ELSE <<>>
             s == Kept(lo, c, keep)
             st == Kept(lo, c + 1, keep)
  <2>1. e \in Nat /\ c + 1 \in Nat
    OBVIOUS
  <2>2. /\ s \in Seq(Seq(Nat)) /\ Len(s) = c
        /\ \A j \in 1 .. c : s[j] = IF lo + j - 1 \in keep THEN <<lo + j - 1>> ELSE <<>>
    BY <1>1
  <2>3. /\ st \in Seq(Seq(Nat)) /\ Len(st) = c + 1
        /\ \A j \in 1 .. c + 1 : st[j] = IF lo + j - 1 \in keep THEN <<lo + j - 1>> ELSE <<>>
    BY <1>1, <2>1
  <2> HIDE DEF s, st
  <2>4. t \in Seq(Nat)
    <3>1. <<e>> \in Seq(Nat) /\ <<>> \in Seq(Nat)
      BY <2>1
    <3>2. QED
      BY <3>1
  <2>5. st[c + 1] = t /\ \A j \in 1 .. c : st[j] = s[j]
    <3>1. c + 1 \in 1 .. c + 1 /\ lo + (c + 1) - 1 = e /\ \A j \in 1 .. c : j \in 1 .. c + 1
      OBVIOUS
    <3> HIDE DEF e
    <3>2. QED
      BY <2>2, <2>3, <3>1
  <2> HIDE DEF t
  <2>6. st = Append(s, t)
    <3> DEFINE p == Append(s, t)
    <3>1. p \in Seq(Seq(Nat)) /\ Len(p) = c + 1 /\ p[c + 1] = t /\ \A j \in 1 .. c : p[j] = s[j]
      BY <2>2, <2>4
    <3> HIDE DEF p
    <3>2. \A j \in 1 .. c + 1 : j \in 1 .. c \/ j = c + 1
      OBVIOUS
    <3>3. \A j \in 1 .. Len(st) : st[j] = p[j]
      BY <2>3, <2>5, <3>1, <3>2
    <3>4. st = p
      BY <2>3, <3>1, <3>3, SameSeq
    <3>5. QED
      BY <3>4 DEF p
  <2>7. flat(c + 1) = flat(c) \o t
    BY <2>2, <2>4, <2>6, FlattenAppend DEF s, st
  <2>8. flat(c) \in Seq(Nat)
    BY <2>2, FlattenType DEF s
  <2>9. PICK m \in Nat : Lists(m, flat(c), KeptOf(lo, c, keep))
    BY <1>3
  <2> HIDE DEF flat
  <2>10. CASE e \in keep
    <3>1. KeptOf(lo, c + 1, keep) = KeptOf(lo, c, keep) \cup {e}
      BY <2>1, <2>10 DEF KeptOf
    <3>2. e \notin KeptOf(lo, c, keep) /\ KeptOf(lo, c, keep) \in SUBSET Nat
      BY DEF KeptOf
    <3>3. flat(c + 1) = flat(c) \o <<e>>
      BY <2>7, <2>10 DEF t
    <3> HIDE DEF e
    <3>4. Lists(m + 1, flat(c) \o <<e>>, KeptOf(lo, c, keep) \cup {e})
      BY <2>1, <2>9, <3>2, ListsMore, Zenon
    <3>5. m + 1 \in Nat
      OBVIOUS
    <3>6. QED
      BY <3>1, <3>3, <3>4, <3>5
  <2>11. CASE e \notin keep
    <3>1. KeptOf(lo, c + 1, keep) = KeptOf(lo, c, keep)
      BY <2>1, <2>11 DEF KeptOf
    <3>2. t = <<>>
      BY <2>11 DEF t
    <3>3. flat(c + 1) = flat(c)
      BY <2>7, <2>8, <3>2
    <3>4. QED
      BY <2>9, <3>1, <3>3
  <2>12. QED
    BY <2>10, <2>11
<1>4. Nat \subseteq S
  <2>1. \A c \in Nat : c \in S => c + 1 \in S
    <3> HIDE DEF Good
    <3>1. QED
      BY <1>3
  <2> HIDE DEF S
  <2>2. QED
    BY <1>2, <2>1, SetInduction
<1>5. Good(n)
  <2> HIDE DEF Good
  <2>1. QED
    BY <1>4
<1>6. QED
  BY <1>5

\* Lists of the same length flatten to a list of one after the other.
Block(s, w, j) == s[(j - 1) \div w + 1][((j - 1) % w) + 1]
Blocks(E, n, w, s) == n \in Nat /\ w \in Nat \ {0} /\ s \in [1 .. n -> [1 .. w -> E]]
Joined(n, w, s) == [j \in 1 .. n * w |-> Block(s, w, j)]
\* Flattened, they are read by quotient and remainder.
LEMMA BlocksFlatten ==
    ASSUME NEW E, NEW n, NEW w, NEW s, Blocks(E, n, w, s)
    PROVE  FlattenSeq(s) = Joined(n, w, s)
<1> USE DEF Blocks
<1> DEFINE q == [j \in 1 .. n * w |-> Block(s, w, j)]
           cut == [t \in 0 .. n |-> t * w]
           at(j) == (j - 1) \div w + 1
           in(j) == ((j - 1) % w) + 1
<1>1. n * w \in Nat
  OBVIOUS
<1>2. ASSUME NEW j \in 1 .. n * w
      PROVE  q[j] = s[at(j)][in(j)] /\ at(j) \in 1 .. n /\ in(j) \in 1 .. w
  <2>1. j - 1 \in 0 .. n * w - 1
    BY <1>1
  <2> DEFINE k == j - 1
  <2>2. k \in 0 .. n * w - 1
    BY <2>1
  <2>3. q[j] = s[at(j)][in(j)]
    BY DEF Block
  <2> HIDE DEF k, q
  <2>4. k \in Nat /\ k \div w \in 0 .. n - 1
    BY <2>2, DivBelow
  <2>5. k % w \in 0 .. w - 1
    BY <2>4, DivMod
  <2>6. k \div w + 1 \in 1 .. n /\ (k % w) + 1 \in 1 .. w
    BY <2>4, <2>5
  <2>7. QED
    BY <2>3, <2>6 DEF k
<1>3. q = [j \in 1 .. n * w |-> q[j]]
  OBVIOUS
<1> HIDE DEF q, at, in
<1>4. \A j \in 1 .. n * w : q[j] \in E
  <2> SUFFICES ASSUME NEW j \in 1 .. n * w PROVE q[j] \in E
    OBVIOUS
  <2>1. s[at(j)] \in [1 .. w -> E]
    BY <1>2
  <2>2. QED
    BY <1>2, <2>1
<1>5. q \in Seq(E) /\ Len(q) = n * w
  <2>1. q \in [1 .. n * w -> E]
    BY <1>3, <1>4
  <2>2. QED
    BY <1>1, <2>1, SeqOfFunction
<1>6. ASSUME NEW t \in 0 .. n PROVE t * w \in 0 .. n * w
  <2>1. w * t <= w * n
    BY ProductOrder
  <2>2. w * t = t * w /\ w * n = n * w /\ t * w \in Nat
    OBVIOUS
  <2>3. QED
    BY <2>1, <2>2
<1>7. Rising(cut, n, Len(q))
  <2>1. cut \in [0 .. n -> 0 .. n * w]
    BY <1>6
  <2>2. cut[0] = 0 /\ cut[n] = n * w
    OBVIOUS
  <2>3. ASSUME NEW t \in 0 .. n - 1 PROVE cut[t] <= cut[t + 1]
    <3>1. cut[t] = t * w /\ cut[t + 1] = (t + 1) * w
      OBVIOUS
    <3>2. (t + 1) * w = t * w + w /\ t * w \in Nat
      OBVIOUS
    <3> HIDE DEF cut
    <3>3. QED
      BY <3>1, <3>2
  <2> HIDE DEF cut
  <2>4. QED
    BY <1>5, <2>1, <2>2, <2>3 DEF Rising
<1>8. ASSUME NEW t \in 1 .. n
      PROVE  SubSeq(q, cut[t - 1] + 1, cut[t]) = s[t]
  <2> DEFINE lo == (t - 1) * w
             p == SubSeq(q, lo + 1, lo + w)
  <2>1. cut[t - 1] = lo /\ cut[t] = lo + w
    <3>1. t - 1 \in 0 .. n /\ t \in 0 .. n
      OBVIOUS
    <3>2. t * w = (t - 1) * w + w
      OBVIOUS
    <3>3. QED
      BY <3>1, <3>2
  <2>2. lo \in Nat /\ lo + w <= n * w
    <3>1. t \in 0 .. n /\ t * w = (t - 1) * w + w /\ (t - 1) * w \in Nat
      OBVIOUS
    <3>2. t * w \in 0 .. n * w
      BY <1>6, <3>1
    <3>3. QED
      BY <1>1, <3>1, <3>2
  <2> HIDE DEF lo
  <2>3. p \in Seq(E) /\ Len(p) = w /\ \A j \in 1 .. w : p[j] = q[lo + j]
    BY <1>1, <1>5, <2>2
  <2>4. s[t] \in Seq(E) /\ Len(s[t]) = w
    <3>1. s[t] \in [1 .. w -> E]
      OBVIOUS
    <3>2. QED
      BY <3>1, SeqOfFunction
  <2> HIDE DEF p
  <2>5. ASSUME NEW j \in 1 .. w PROVE p[j] = s[t][j]
    <3>1. lo + j \in 1 .. n * w
      BY <1>1, <2>2
    <3>2. q[lo + j] = s[at(lo + j)][in(lo + j)]
      BY <1>2, <3>1
    <3>3. t - 1 \in Nat /\ j - 1 \in 0 .. w - 1
      OBVIOUS
    <3>4. ((t - 1) * w + (j - 1)) \div w = t - 1 /\ ((t - 1) * w + (j - 1)) % w = j - 1
      BY <3>3, RowAndColumn
    <3>5. (lo + j) - 1 = lo + (j - 1)
      BY <2>2
    <3>6. ((lo + j) - 1) \div w = t - 1 /\ ((lo + j) - 1) % w = j - 1
      BY <3>4, <3>5 DEF lo
    <3>7. (t - 1) + 1 = t /\ (j - 1) + 1 = j
      OBVIOUS
    <3>8. at(lo + j) = t /\ in(lo + j) = j
      BY <3>6, <3>7 DEF at, in
    <3>9. QED
      BY <2>3, <3>2, <3>8
  <2>6. p = s[t]
    BY <2>3, <2>4, <2>5, SameSeq
  <2>7. QED
    BY <2>1, <2>6 DEF p
<1>9. Pieces(q, cut, n) = s
  <2>1. Pieces(q, cut, n) = [t \in 1 .. n |-> SubSeq(q, cut[t - 1] + 1, cut[t])]
    BY DEF Pieces
  <2>2. s = [t \in 1 .. n |-> s[t]]
    OBVIOUS
  <2> HIDE DEF cut
  <2>3. QED
    BY <1>8, <2>1, <2>2
<1> HIDE DEF cut
<1>10. FlattenSeq(Pieces(q, cut, n)) = q
  BY <1>5, <1>7, PiecesFlatten
<1>11. QED
  BY <1>9, <1>10 DEF q, Joined

\* Runs of places, whatever is written there: no place twice, and each by the task of its run.
LEMMA RunsDisjoint ==
    ASSUME NEW n \in Nat, NEW w \in Nat \ {0}, NEW parts, NEW tasks, Divides(n, tasks),
           DOMAIN parts = DOMAIN tasks,
           \A t \in DOMAIN tasks : DOMAIN parts[t] = tasks[t].lo * w .. tasks[t].hi * w - 1
    PROVE  /\ Disjoint(parts)
           /\ \A i \in 0 .. n * w - 1 : \E t \in DOMAIN tasks : i \in DOMAIN parts[t] /\ Merged(parts)[i] = parts[t][i]
<1> DEFINE blank == [t \in DOMAIN parts |-> [i \in DOMAIN parts[t] |-> 0]]
           whole == [i \in 0 .. n * w - 1 |-> 0]
<1>1. /\ DOMAIN blank = DOMAIN parts
      /\ \A t \in DOMAIN parts : /\ DOMAIN blank[t] = DOMAIN parts[t]
                                 /\ \A i \in DOMAIN parts[t] : blank[t][i] = 0
  OBVIOUS
<1>2. /\ whole = [i \in DOMAIN whole |-> whole[i]] /\ DOMAIN whole = 0 .. n * w - 1
      /\ \A i \in 0 .. n * w - 1 : whole[i] = 0
  OBVIOUS
<1> HIDE DEF blank, whole
<1>3. EachOnce(n, tasks) /\ \A t \in DOMAIN tasks : tasks[t].lo \in Nat /\ tasks[t].hi \in Nat
  BY DEF Divides
<1>4. WritesRuns(blank, tasks, whole, w)
  <2>1. \A t \in DOMAIN tasks : \A i \in DOMAIN blank[t] : blank[t][i] = whole[i]
    <3> SUFFICES ASSUME NEW t \in DOMAIN tasks, NEW i \in DOMAIN blank[t]
                 PROVE  blank[t][i] = whole[i]
      OBVIOUS
    <3>1. i \in tasks[t].lo * w .. tasks[t].hi * w - 1 /\ blank[t][i] = 0
      BY <1>1
    <3>2. i \in 0 .. n * w - 1
      BY <1>3, <3>1, RunInside
    <3>3. QED
      BY <1>2, <3>1, <3>2
  <2>2. QED
    BY <1>1, <2>1 DEF WritesRuns
<1>5. Disjoint(blank) /\ Merged(blank) = whole
  <2>1. Computes(blank, whole)
    BY <1>2, <1>4, RunsCompute
  <2>2. QED
    BY <2>1 DEF Computes
<1>6. Disjoint(parts)
  BY <1>1, <1>5 DEF Disjoint
<1>7. ASSUME NEW i \in 0 .. n * w - 1
      PROVE  \E t \in DOMAIN tasks : i \in DOMAIN parts[t] /\ Merged(parts)[i] = parts[t][i]
  <2> DEFINE D == UNION {DOMAIN parts[t] : t \in DOMAIN parts}
             E == UNION {DOMAIN blank[t] : t \in DOMAIN blank}
             by == CHOOSE t \in DOMAIN parts : i \in DOMAIN parts[t]
  <2>1. DOMAIN Merged(blank) = E
    BY DEF Merged
  <2>2. i \in E
    BY <1>2, <1>5, <2>1
  <2>3. PICK t \in DOMAIN blank : i \in DOMAIN blank[t]
    BY <2>2
  <2>4. t \in DOMAIN parts /\ i \in DOMAIN parts[t]
    BY <1>1, <2>3
  <2>5. i \in D
    BY <2>4
  <2>6. Merged(parts)[i] = parts[by][i]
    BY <2>5 DEF Merged
  <2>7. by \in DOMAIN parts /\ i \in DOMAIN parts[by]
    BY <2>4
  <2> HIDE DEF by
  <2>8. QED
    BY <2>6, <2>7
<1>8. QED
  BY <1>6, <1>7

\* What a tap of an output reads is in the output's sample.
LEMMA SampleRead ==
    ASSUME NEW d, Fits(d), NEW i \in Outputs(d), NEW k \in 0 .. Taps(d) - 1
    PROVE  /\ Gathered(d, RowOf(d, i), k) \in Nat
           /\ Gathered(d, RowOf(d, i), k) \div (d.C * (d.H * d.W)) = SampleOf(d, i)
<1> DEFINE n == SampleOf(d, i)
           y == LineOf(d, i)
           x == CrossOf(d, i)
           c == k \div (d.kH * d.kW)
           ky == (k \div d.kW) % d.kH
           kx == k % d.kW
           Y == y * d.s + ky
           X == x * d.s + kx
           at == Planar(d, n, c, Y, X)
           C == d.C
           H == d.H
           W == d.W
<1>1. /\ n \in 0 .. d.B - 1 /\ y \in 0 .. OutH(d) - 1 /\ x \in 0 .. OutW(d) - 1
  BY PlaceIs
<1>2. k \in Nat /\ c \in 0 .. C - 1 /\ ky \in 0 .. d.kH - 1 /\ kx \in 0 .. d.kW - 1
  BY TapParts
<1>3. C \in Nat \ {0} /\ H \in Nat \ {0} /\ W \in Nat \ {0} /\ d.B \in Nat
  BY ShapeType
<1>4. n \in Nat
  BY <1>1, <1>3
<1>5. Gathered(d, RowOf(d, i), k) = at
  <2>1. Gathered(d, n * Pixels(d) + (y * OutW(d) + x), k) = at
    BY <1>1, <1>2, <1>4, GatheredIs
  <2>2. RowOf(d, i) = n * Pixels(d) + (y * OutW(d) + x)
    BY DEF RowOf
  <2>3. QED
    BY <2>1, <2>2
<1>6. Y \in 0 .. H - 1 /\ X \in 0 .. W - 1
  <2>1. /\ d.H \in Positive /\ d.kH \in Positive /\ d.s \in Positive /\ d.kH <= d.H
        /\ d.W \in Positive /\ d.kW \in Positive /\ d.kW <= d.W
    BY DEF Fits, Shapes
  <2>2. /\ \A u \in 0 .. (d.H - d.kH) \div d.s : \A t \in 0 .. d.kH - 1 : u * d.s + t \in 0 .. d.H - 1
        /\ \A u \in 0 .. (d.W - d.kW) \div d.s : \A t \in 0 .. d.kW - 1 : u * d.s + t \in 0 .. d.W - 1
    BY <2>1, Strides
  <2>3. (d.H - d.kH) \div d.s \in Int /\ (d.W - d.kW) \div d.s \in Int
    BY <2>1 DEF Positive
  <2>4. y \in 0 .. (d.H - d.kH) \div d.s /\ x \in 0 .. (d.W - d.kW) \div d.s
    <3> HIDE DEF y, x
    <3> DEFINE u == (d.H - d.kH) \div d.s
               v == (d.W - d.kW) \div d.s
    <3>1. OutH(d) = u + 1 /\ OutW(d) = v + 1 /\ u \in Int /\ v \in Int
      BY <2>3 DEF OutH, OutW
    <3> HIDE DEF u, v
    <3>2. y \in 0 .. u /\ x \in 0 .. v
      BY <1>1, <3>1
    <3>3. QED
      BY <3>2 DEF u, v
  <2> HIDE DEF y, x, ky, kx
  <2>5. QED
    BY <1>2, <2>2, <2>4
<1> HIDE DEF n, c, Y, X, C, H, W
<1>7. at = ((n * C + c) * H + Y) * W + X
  BY DEF Planar, C, H, W
<1>8. /\ at \in 0 .. d.B * C * H * W - 1
      /\ at \div (H * W) = n * C + c
  BY <1>1, <1>2, <1>3, <1>4, <1>6, <1>7, PlanarIs
<1> HIDE DEF at
<1>9. at \in Nat
  <2>1. d.B * C * H * W \in Int
    BY <1>3
  <2>2. QED
    BY <1>8, <2>1
<1>10. H * W \in Nat \ {0}
  BY <1>3
<1>11. at \div (C * (H * W)) = n
  <2>1. DigitsApart(at, C, H * W)
    BY <1>3, <1>9, <1>10, TwoDigits, Zenon
  <2>2. at \div (C * (H * W)) = (n * C + c) \div C
    BY <1>8, <2>1 DEF DigitsApart
  <2>3. (n * C + c) \div C = n
    BY <1>2, <1>3, <1>4, RowAndColumn
  <2>4. QED
    BY <2>2, <2>3
<1>12. QED
  BY <1>5, <1>9, <1>11 DEF n, C, H, W

\* The products that col2im adds up for a list of columns.
ColumnTerms(d, dcol, adds) ==
    FlattenSeq([k \in DOMAIN adds |-> Swapped(Seen(dcol[adds[k]], LAMBDA r : GradRows(d)[r], Same))])
ColumnGrads(d) == Product(Rows(d), Taps(d), d.O, FALSE, FALSE)

\* A column's gradient is a product of each filter, with the output of its row.
OfColumn(d, e) == [o \in 1 .. d.O |-> <<(o - 1) * Taps(d) + (e % Taps(d)), OutputAt(d, e \div Taps(d), o - 1)>>]
\* The gradient of a column, as products of a weight and an output.
LEMMA ColumnSwapped ==
    ASSUME NEW d, Fits(d), NEW e \in 0 .. Rows(d) * Taps(d) - 1
    PROVE  Swapped(Seen(ColumnGrads(d)[e], LAMBDA r : GradRows(d)[r], Same)) = OfColumn(d, e)
<1> DEFINE R == Rows(d)
           T == Taps(d)
           O == d.O
           go == GradRows(d)
           pairs == [o \in 1 .. O |-> <<(e \div T) * O + o - 1, (o - 1) * T + (e % T)>>]
           seen == [o \in 1 .. O |-> <<go[(e \div T) * O + o - 1], (o - 1) * T + (e % T)>>]
<1>1. T \in Nat \ {0} /\ R \in Nat \ {0} /\ O \in Nat \ {0}
  BY ShapeType
<1>2. ColumnGrads(d)
        = [i \in 0 .. R * T - 1 |-> [k \in 1 .. O |-> <<(i \div T) * O + k - 1, (k - 1) * T + (i % T)>>]]
  BY DEF ColumnGrads, Product
<1>3. ColumnGrads(d)[e] = pairs
  <2> HIDE DEF R, T, O
  <2>1. e \in 0 .. R * T - 1
    BY DEF R, T
  <2>2. QED
    BY <1>2, <2>1
<1>4. e \div T \in Nat
  <2> HIDE DEF R, T
  <2>1. e \in 0 .. R * T - 1
    BY DEF R, T
  <2>2. e \in Nat /\ e \div T \in 0 .. R - 1
    BY <1>1, <2>1, DivBelow
  <2>3. QED
    BY <1>1, <2>2
<1> HIDE DEF R, T, O, go
<1>5. Seen(pairs, LAMBDA r : go[r], Same) = seen
  BY DEF Seen, Same
<1> HIDE DEF pairs
<1>6. Swapped(seen) = [o \in 1 .. O |-> <<(o - 1) * T + (e % T), go[(e \div T) * O + o - 1]>>]
  BY DEF Swapped
<1> HIDE DEF seen
<1>7. ASSUME NEW o \in 1 .. O
      PROVE  go[(e \div T) * O + o - 1] = OutputAt(d, e \div T, o - 1)
  <2> DEFINE m == (e \div T) * O
  <2>1. m \in Nat
    BY <1>1, <1>4
  <2> HIDE DEF m
  <2>2. m + o - 1 = m + (o - 1)
    BY <1>1, <2>1
  <2>3. QED
    BY <2>2 DEF m, OutputAt, go, O
<1>8. [o \in 1 .. O |-> <<(o - 1) * T + (e % T), go[(e \div T) * O + o - 1]>>] = OfColumn(d, e)
  <2>1. OfColumn(d, e) = [o \in 1 .. O |-> <<(o - 1) * T + (e % T), OutputAt(d, e \div T, o - 1)>>]
    BY DEF OfColumn, T, O
  <2>2. QED
    BY <1>7, <2>1
<1>9. Seen(ColumnGrads(d)[e], LAMBDA r : go[r], Same) = seen
  BY <1>3, <1>5
<1>10. Swapped(Seen(ColumnGrads(d)[e], LAMBDA r : go[r], Same)) = OfColumn(d, e)
  BY <1>6, <1>8, <1>9
<1>11. QED
  BY <1>10 DEF go

\* The place of an element of the flattened lists.
LEMMA BlockPlace ==
    ASSUME NEW m \in Nat, NEW w \in Nat \ {0}, NEW j \in 1 .. m * w
    PROVE  /\ (j - 1) \div w + 1 \in 1 .. m /\ (j - 1) % w \in 0 .. w - 1 /\ (j - 1) % w \in Nat
           /\ j = (((j - 1) \div w + 1) - 1) * w + ((j - 1) % w) + 1
<1> DEFINE l == j - 1
           q == l \div w
           r == l % w
<1>1. l \in 0 .. m * w - 1 /\ j = l + 1
  <2>1. m * w \in Nat
    OBVIOUS
  <2>2. QED
    BY <2>1
<1> HIDE DEF l
<1>2. l \in Nat /\ q \in 0 .. m - 1
  BY <1>1, DivBelow
<1>3. r \in 0 .. w - 1 /\ l = q * w + r
  BY <1>2, DivMod
<1> HIDE DEF q, r
<1>4. (q + 1) - 1 = q /\ q * w \in Nat /\ q + 1 \in 1 .. m /\ r \in Nat
  BY <1>2, <1>3
<1>5. j = ((q + 1) - 1) * w + r + 1
  BY <1>1, <1>2, <1>3, <1>4
<1>6. QED
  BY <1>3, <1>4, <1>5 DEF l, q, r

\* A list of the columns that gather an element, each once, gives the element's products.
AddsTo(d, x, m, adds, S) ==
    /\ Lists(m, adds, S) /\ S \in SUBSET (0 .. Rows(d) * Taps(d) - 1)
    /\ \A e \in S : Gathered(d, e \div Taps(d), e % Taps(d)) = x
    /\ \A i, k : Reads(d, i, k, x) => RowOf(d, i) * Taps(d) + k \in S
\* The products of such a list are the element's, each once.
LEMMA ColumnsAdd ==
    ASSUME NEW d, Fits(d), NEW x, NEW m, NEW adds, NEW S, AddsTo(d, x, m, adds, S)
    PROVE  SumsTo(ColumnTerms(d, ColumnGrads(d), adds), InputTerms(d, x), Turned)
<1> DEFINE R == Rows(d)
           T == Taps(d)
           O == d.O
           columns == 0 .. R * T - 1
           E == Nat \X Outputs(d)
           s == [k \in DOMAIN adds |-> Swapped(Seen(ColumnGrads(d)[adds[k]], LAMBDA r : GradRows(d)[r], Same))]
           n == m * O
           big(j) == (j - 1) \div O + 1
           small(j) == (j - 1) % O
           i == [j \in 1 .. n |-> OutputAt(d, adds[big(j)] \div T, small(j))]
           t == [j \in 1 .. n |-> adds[big(j)] % T]
           terms == ColumnTerms(d, ColumnGrads(d), adds)
<1>1. T \in Nat \ {0} /\ R \in Nat \ {0} /\ O \in Nat \ {0}
  BY ShapeType
<1>2. /\ m \in Nat /\ adds = [k \in 1 .. m |-> adds[k]] /\ DOMAIN adds = 1 .. m
      /\ \A k \in 1 .. m : adds[k] \in S
      /\ \A z \in S : \E k \in 1 .. m : adds[k] = z
      /\ \A a, b \in 1 .. m : adds[a] = adds[b] => a = b
  <2>1. Lists(m, adds, S)
    BY DEF AddsTo
  <2>2. /\ m \in Nat /\ adds = [k \in 1 .. m |-> adds[k]]
        /\ \A k \in 1 .. m : adds[k] \in S
        /\ \A z \in S : \E k \in 1 .. m : adds[k] = z
        /\ \A a, b \in 1 .. m : adds[a] = adds[b] => a = b
    BY <2>1 DEF Lists
  <2>3. DOMAIN adds = 1 .. m
    BY <2>2
  <2>4. QED
    BY <2>2, <2>3
<1>3. /\ S \in SUBSET columns
      /\ \A e \in S : Gathered(d, e \div T, e % T) = x
      /\ \A j, k : Reads(d, j, k, x) => RowOf(d, j) * T + k \in S
  BY DEF AddsTo
<1>4. ASSUME NEW e \in columns
      PROVE  /\ e \in Nat /\ e \div T \in 0 .. R - 1 /\ e % T \in 0 .. T - 1 /\ e % T \in Nat
             /\ e = (e \div T) * T + (e % T)
  <2> HIDE DEF R, T
  <2>1. e \in Nat /\ e \div T \in 0 .. R - 1
    BY <1>1, DivBelow
  <2>2. e % T \in 0 .. T - 1 /\ e = (e \div T) * T + (e % T)
    BY <1>1, <2>1, DivMod
  <2>3. QED
    BY <1>1, <2>1, <2>2
<1>5. ASSUME NEW e \in columns, NEW o \in 0 .. O - 1
      PROVE  /\ OutputAt(d, e \div T, o) \in Outputs(d)
             /\ RowOf(d, OutputAt(d, e \div T, o)) = e \div T /\ FilterOf(d, OutputAt(d, e \div T, o)) = o
  <2>1. e \div T \in 0 .. Rows(d) - 1 /\ o \in 0 .. d.O - 1
    BY <1>4
  <2>2. QED
    BY <2>1, OutputIs
<1>6. ASSUME NEW e \in columns
      PROVE  OfColumn(d, e) = [o \in 1 .. O |-> <<(o - 1) * T + (e % T), OutputAt(d, e \div T, o - 1)>>]
             /\ OfColumn(d, e) \in [1 .. O -> E]
  <2>1. OfColumn(d, e) = [o \in 1 .. O |-> <<(o - 1) * T + (e % T), OutputAt(d, e \div T, o - 1)>>]
    BY DEF OfColumn
  <2>2. ASSUME NEW o \in 1 .. O
        PROVE  <<(o - 1) * T + (e % T), OutputAt(d, e \div T, o - 1)>> \in E
    <3>1. o - 1 \in 0 .. O - 1 /\ o - 1 \in Nat
      <4> HIDE DEF O
      <4>1. QED
        BY <1>1
    <3>2. OutputAt(d, e \div T, o - 1) \in Outputs(d)
      BY <1>5, <3>1
    <3>3. (o - 1) * T + (e % T) \in Nat
      <4>1. e % T \in Nat
        BY <1>4
      <4> DEFINE f == e % T
      <4> HIDE DEF O, T, f
      <4>2. (o - 1) * T \in Nat /\ f \in Nat
        BY <1>1, <3>1, <4>1 DEF f
      <4>3. QED
        BY <4>2 DEF f
    <3>4. QED
      BY <3>2, <3>3
  <2> HIDE DEF T, O, E
  <2>3. QED
    BY <2>1, <2>2
<1> HIDE DEF R, T, O, E, columns
<1>7. \A k \in 1 .. m : adds[k] \in columns
  BY <1>2, <1>3
<1>8. \A k \in 1 .. m : s[k] = OfColumn(d, adds[k])
  <2> SUFFICES ASSUME NEW k \in 1 .. m PROVE s[k] = OfColumn(d, adds[k])
    OBVIOUS
  <2>1. s[k] = Swapped(Seen(ColumnGrads(d)[adds[k]], LAMBDA r : GradRows(d)[r], Same))
    BY <1>2
  <2> HIDE DEF s
  <2>2. adds[k] \in 0 .. Rows(d) * Taps(d) - 1
    BY <1>7 DEF columns, R, T
  <2>3. Swapped(Seen(ColumnGrads(d)[adds[k]], LAMBDA r : GradRows(d)[r], Same)) = OfColumn(d, adds[k])
    BY <2>2, ColumnSwapped
  <2>4. QED
    BY <2>1, <2>3
<1>9. s = [k \in 1 .. m |-> s[k]]
  BY <1>2
<1>10. terms = FlattenSeq(s)
  BY DEF ColumnTerms
<1> HIDE DEF s, terms
<1>11. s \in [1 .. m -> [1 .. O -> E]]
  <2>1. \A k \in 1 .. m : s[k] \in [1 .. O -> E]
    BY <1>6, <1>7, <1>8
  <2>2. QED
    BY <1>9, <2>1
<1>12. terms = [j \in 1 .. n |-> Block(s, O, j)]
  <2>1. Blocks(E, m, O, s)
    BY <1>1, <1>2, <1>11, Zenon DEF Blocks
  <2>2. FlattenSeq(s) = Joined(m, O, s)
    BY <2>1, BlocksFlatten, Zenon
  <2>3. QED
    BY <1>10, <2>2, Zenon DEF Joined
<1>13. n \in Nat
  BY <1>1, <1>2
<1>14. ASSUME NEW j \in 1 .. n
       PROVE  /\ big(j) \in 1 .. m /\ small(j) \in 0 .. O - 1 /\ small(j) \in Nat
              /\ j = (big(j) - 1) * O + small(j) + 1
  <2>1. m \in Nat /\ j \in 1 .. m * O
    BY <1>2
  <2>2. /\ (j - 1) \div O + 1 \in 1 .. m /\ (j - 1) % O \in 0 .. O - 1 /\ (j - 1) % O \in Nat
        /\ j = (((j - 1) \div O + 1) - 1) * O + ((j - 1) % O) + 1
    BY <1>1, <2>1, BlockPlace
  <2>3. QED
    BY <2>2
<1>15. ASSUME NEW j \in 1 .. n
       PROVE  Block(s, O, j) = <<small(j) * T + (adds[big(j)] % T), OutputAt(d, adds[big(j)] \div T, small(j))>>
  <2> DEFINE e == adds[big(j)]
             o == small(j) + 1
  <2>1. Block(s, O, j) = s[big(j)][o]
    BY DEF Block
  <2>2. big(j) \in 1 .. m /\ small(j) \in 0 .. O - 1
    BY <1>14
  <2> HIDE DEF big, small
  <2>3. e \in columns /\ s[big(j)] = OfColumn(d, e)
    BY <1>7, <1>8, <2>2
  <2> HIDE DEF e
  <2>4. o \in 1 .. O /\ o - 1 = small(j)
    BY <1>1, <2>2
  <2> HIDE DEF o
  <2>5. OfColumn(d, e)[o] = <<(o - 1) * T + (e % T), OutputAt(d, e \div T, o - 1)>>
    BY <1>6, <2>3, <2>4
  <2>6. QED
    BY <2>1, <2>3, <2>4, <2>5 DEF e
<1>16. ASSUME NEW j \in 1 .. n
       PROVE  /\ adds[big(j)] \in columns /\ adds[big(j)] \in S
              /\ i[j] = OutputAt(d, adds[big(j)] \div T, small(j)) /\ t[j] = adds[big(j)] % T
              /\ i[j] \in Outputs(d) /\ RowOf(d, i[j]) = adds[big(j)] \div T /\ FilterOf(d, i[j]) = small(j)
  <2>1. i[j] = OutputAt(d, adds[big(j)] \div T, small(j)) /\ t[j] = adds[big(j)] % T
    OBVIOUS
  <2>2. big(j) \in 1 .. m /\ small(j) \in 0 .. O - 1
    BY <1>14
  <2> HIDE DEF i, t, big, small
  <2>3. adds[big(j)] \in columns /\ adds[big(j)] \in S
    BY <1>2, <1>7, <2>2
  <2>4. QED
    BY <1>5, <2>1, <2>2, <2>3
<1>17. terms = [j \in 1 .. n |-> <<FilterOf(d, i[j]) * Taps(d) + t[j], i[j]>>]
  <2>1. ASSUME NEW j \in 1 .. n
        PROVE  Block(s, O, j) = <<FilterOf(d, i[j]) * T + t[j], i[j]>>
    <3>1. /\ i[j] = OutputAt(d, adds[big(j)] \div T, small(j)) /\ t[j] = adds[big(j)] % T
          /\ FilterOf(d, i[j]) = small(j)
      BY <1>16
    <3>2. Block(s, O, j) = <<small(j) * T + (adds[big(j)] % T), OutputAt(d, adds[big(j)] \div T, small(j))>>
      BY <1>15
    <3> HIDE DEF i, t, big, small
    <3>3. QED
      BY <3>1, <3>2, Zenon
  <2> HIDE DEF i, t, n
  <2>2. QED
    BY <1>12, <2>1 DEF T
<1>18. ASSUME NEW j \in 1 .. n PROVE Reads(d, i[j], t[j], x)
  <2>1. /\ i[j] \in Outputs(d) /\ RowOf(d, i[j]) = adds[big(j)] \div T /\ t[j] = adds[big(j)] % T
        /\ adds[big(j)] \in columns /\ adds[big(j)] \in S
    BY <1>16
  <2> DEFINE e == adds[big(j)]
  <2> HIDE DEF i, t, big, e
  <2>2. i[j] \in Outputs(d) /\ RowOf(d, i[j]) = e \div T /\ t[j] = e % T /\ e \in columns /\ e \in S
    BY <2>1 DEF e
  <2>3. e % T \in 0 .. T - 1 /\ Gathered(d, e \div T, e % T) = x
    BY <1>3, <1>4, <2>2 DEF T
  <2>4. QED
    BY <2>2, <2>3 DEF Reads, T
<1> HIDE DEF i, t, big, small, n
<1>19. ASSUME NEW a \in 1 .. n, NEW b \in 1 .. n, i[a] = i[b], t[a] = t[b]
       PROVE  a = b
  <2> DEFINE e == adds[big(a)]
             f == adds[big(b)]
  <2>1. /\ e \in columns /\ RowOf(d, i[a]) = e \div T /\ FilterOf(d, i[a]) = small(a) /\ t[a] = e % T
        /\ f \in columns /\ RowOf(d, i[b]) = f \div T /\ FilterOf(d, i[b]) = small(b) /\ t[b] = f % T
    BY <1>16
  <2>2. e \div T = f \div T /\ small(a) = small(b) /\ e % T = f % T
    BY <1>19, <2>1
  <2> HIDE DEF e, f
  <2>3. e = f
    <3>1. e = (e \div T) * T + (e % T) /\ f = (f \div T) * T + (f % T)
      BY <1>4, <2>1
    <3>2. QED
      BY <2>2, <3>1
  <2>4. big(a) \in 1 .. m /\ big(b) \in 1 .. m
    BY <1>14
  <2>5. big(a) = big(b)
    BY <1>2, <2>3, <2>4 DEF e, f
  <2>6. a = (big(a) - 1) * O + small(a) + 1 /\ b = (big(b) - 1) * O + small(b) + 1
    BY <1>14
  <2>7. QED
    BY <2>2, <2>5, <2>6
<1>20. ASSUME NEW j, NEW k, Reads(d, j, k, x)
       PROVE  \E a \in 1 .. n : i[a] = j /\ t[a] = k
  <2> DEFINE r == RowOf(d, j)
             o == FilterOf(d, j)
             e == r * T + k
  <2>1. j \in Outputs(d) /\ k \in 0 .. T - 1 /\ e \in S
    BY <1>3, <1>20 DEF Reads, T
  <2>2. r \in 0 .. R - 1 /\ o \in 0 .. O - 1
    BY <2>1, PlaceIs DEF R, O
  <2> HIDE DEF o, r
  <2>3. e \div T = r /\ e % T = k
    <3>1. r \in Nat
      BY <1>1, <2>2
    <3>2. QED
      BY <1>1, <2>1, <3>1, RowAndColumn
  <2> HIDE DEF e
  <2>4. PICK l \in 1 .. m : adds[l] = e
    BY <1>2, <2>1
  <2> DEFINE a == (l - 1) * O + o + 1
  <2>5. a \in 1 .. n /\ big(a) = l /\ small(a) = o
    <3> DEFINE c == (l - 1) * O + o
    <3>1. l - 1 \in 0 .. m - 1 /\ l - 1 \in Nat /\ (l - 1) + 1 = l
      BY <1>2
    <3>2. c \in 0 .. m * O - 1
      BY <1>1, <1>2, <2>2, <3>1, PlaceBelow
    <3>3. c \div O = l - 1 /\ c % O = o
      BY <1>1, <2>2, <3>1, RowAndColumn
    <3>4. a = c + 1
      OBVIOUS
    <3> HIDE DEF c, a
    <3>5. a \in 1 .. n /\ a - 1 = c
      BY <1>13, <3>2, <3>4 DEF n
    <3>6. QED
      BY <3>1, <3>3, <3>5 DEF big, small
  <2> HIDE DEF a
  <2>6. /\ i[a] \in Outputs(d) /\ RowOf(d, i[a]) = r /\ FilterOf(d, i[a]) = o /\ t[a] = k
    BY <1>16, <2>3, <2>4, <2>5
  <2>7. i[a] = j
    BY <2>1, <2>6, OneOutput DEF r, o
  <2>8. QED
    BY <2>5, <2>6, <2>7
<1>21. ListsReads(d, x, n, i, t, terms)
  BY <1>13, <1>17, <1>18, <1>19, <1>20, Zenon DEF ListsReads
<1>22. QED
  BY <1>21, InputSums, Zenon DEF terms

\* The columns that an element's task adds up are all those that gather it.
LEMMA AddsIntoLists ==
    ASSUME NEW d, Fits(d), NEW lo \in Nat, NEW hi \in Nat, hi <= d.B,
           NEW x \in Nat, x \div (d.C * (d.H * d.W)) \in lo .. hi - 1
    PROVE  \E m, S : AddsTo(d, x, m, AddsInto(d, lo * (Pixels(d) * Taps(d)), hi * (Pixels(d) * Taps(d)), x), S)
<1> DEFINE P == Pixels(d)
           T == Taps(d)
           R == Rows(d)
           PT == P * T
           first == lo * PT
           last == hi * PT
           n == last - first
           keep == {e \in Nat : Gathered(d, e \div T, e % T) = x}
           S == KeptOf(first, n, keep)
           adds == AddsInto(d, first, last, x)
<1>1. P \in Nat \ {0} /\ T \in Nat \ {0} /\ R \in Nat \ {0} /\ d.B \in Nat /\ R = d.B * P
  BY ShapeType
<1> HIDE DEF P, T, R
<1>2. PT \in Nat \ {0} /\ d.B * PT = R * T
  <2>1. \A a, b \in Nat \ {0} : a * b \in Nat \ {0}
    OBVIOUS
  <2>2. \A a, b, c \in Nat : a * (b * c) = (a * b) * c
    OBVIOUS
  <2>3. QED
    BY <1>1, <2>1, <2>2
<1> HIDE DEF PT
<1>3. lo < hi
  <2> DEFINE q == x \div (d.C * (d.H * d.W))
  <2>1. q \in lo .. hi - 1
    OBVIOUS
  <2> HIDE DEF q
  <2>2. QED
    BY <2>1
<1>4. first \in Nat /\ last \in Nat /\ n \in Nat /\ first + n = last /\ last <= R * T /\ R * T \in Nat
  <2>1. PT * lo <= PT * hi /\ PT * hi <= PT * d.B
    BY <1>1, <1>2, <1>3, ProductOrder
  <2>2. PT * lo = first /\ PT * hi = last /\ PT * d.B = d.B * PT /\ first \in Nat /\ last \in Nat
    BY <1>1, <1>2
  <2>3. R * T \in Nat
    BY <1>1
  <2> HIDE DEF first, last
  <2>4. last <= R * T
    BY <1>2, <2>1, <2>2
  <2>5. QED
    BY <2>1, <2>2, <2>3, <2>4
<1>5. ASSUME NEW e \in Nat
      PROVE  e \in first .. last - 1 <=> e \div PT \in lo .. hi - 1
  <2>1. e \in lo * PT .. hi * PT - 1 <=> e \in Nat /\ e \div PT \in lo .. hi - 1
    BY <1>2, InRun
  <2>2. QED
    BY <2>1
<1> HIDE DEF first, last
<1>6. adds = FlattenSeq(Kept(first, n, keep))
  <2>1. adds = FlattenSeq([j \in 1 .. n |->
                 IF Gathered(d, (first + j - 1) \div T, (first + j - 1) % T) = x THEN <<first + j - 1>> ELSE <<>>])
    BY DEF AddsInto, T
  <2>2. Kept(first, n, keep) = [j \in 1 .. n |-> IF first + j - 1 \in keep THEN <<first + j - 1>> ELSE <<>>]
    BY DEF Kept
  <2>3. \A j \in 1 .. n : first + j - 1 \in Nat
    BY <1>4
  <2> DEFINE e(j) == first + j - 1
             of(j) == IF Gathered(d, e(j) \div T, e(j) % T) = x THEN <<e(j)>> ELSE <<>>
             on(j) == IF e(j) \in keep THEN <<e(j)>> ELSE <<>>
  <2>4. \A j \in 1 .. n : of(j) = on(j)
    <3> SUFFICES ASSUME NEW j \in 1 .. n PROVE of(j) = on(j)
      OBVIOUS
    <3>1. e(j) \in Nat
      BY <2>3
    <3> HIDE DEF e
    <3>2. e(j) \in keep <=> Gathered(d, e(j) \div T, e(j) % T) = x
      BY <3>1
    <3> HIDE DEF keep
    <3>3. QED
      BY <3>2
  <2>5. adds = FlattenSeq([j \in 1 .. n |-> of(j)]) /\ Kept(first, n, keep) = [j \in 1 .. n |-> on(j)]
    BY <2>1, <2>2, Zenon
  <2> HIDE DEF of, on, adds, n
  <2>6. [j \in 1 .. n |-> of(j)] = [j \in 1 .. n |-> on(j)]
    BY <2>4
  <2>7. QED
    BY <2>5, <2>6
<1>7. PICK m \in Nat : Lists(m, adds, S)
  <2> HIDE DEF n, keep
  <2>1. \E m \in Nat : Lists(m, FlattenSeq(Kept(first, n, keep)), KeptOf(first, n, keep))
    BY <1>4, KeptFlatten
  <2> HIDE DEF adds
  <2>2. QED
    BY <1>6, <2>1
<1>8. \A e : e \in S <=> e \in Nat /\ e \in first .. last - 1 /\ Gathered(d, e \div T, e % T) = x
  <2>1. first + n - 1 = last - 1
    BY <1>4
  <2>2. \A e : e \in S <=> e \in Nat /\ e \in first .. first + n - 1 /\ e \in keep
    BY DEF KeptOf
  <2>3. \A e : e \in keep <=> e \in Nat /\ Gathered(d, e \div T, e % T) = x
    OBVIOUS
  <2> HIDE DEF S, keep, n
  <2>4. QED
    BY <2>1, <2>2, <2>3
<1> HIDE DEF S, adds, keep, n
<1>9. S \in SUBSET (0 .. R * T - 1)
  <2> SUFFICES ASSUME NEW e \in S PROVE e \in 0 .. R * T - 1
    OBVIOUS
  <2>1. e \in Nat /\ e \in first .. last - 1
    BY <1>8
  <2>2. QED
    BY <1>4, <2>1
<1>10. ASSUME NEW i, NEW k, Reads(d, i, k, x)
       PROVE  RowOf(d, i) * T + k \in S
  <2> DEFINE r == RowOf(d, i)
             e == r * T + k
             s == SampleOf(d, i)
  <2>1. i \in Outputs(d) /\ k \in 0 .. T - 1 /\ Gathered(d, r, k) = x
    BY <1>10 DEF Reads, T
  <2>2. r \in 0 .. R - 1 /\ s \in Nat
    BY <2>1, PlaceIs DEF R
  <2>3. r \div P = s
    <3>1. i \in Nat /\ i % P = LineOf(d, i) * OutW(d) + CrossOf(d, i)
      BY <2>1, PlaceIs DEF P
    <3>2. i % P \in 0 .. P - 1
      BY <1>1, <3>1, DivMod
    <3>3. r = s * P + (i % P)
      BY <3>1 DEF RowOf, P
    <3> HIDE DEF r, s
    <3>4. QED
      BY <1>1, <2>2, <3>2, <3>3, RowAndColumn
  <2>4. s \in lo .. hi - 1
    <3>1. k \in 0 .. Taps(d) - 1
      BY <2>1 DEF T
    <3>2. Gathered(d, RowOf(d, i), k) \div (d.C * (d.H * d.W)) = SampleOf(d, i)
      BY <2>1, <3>1, SampleRead
    <3>3. x \div (d.C * (d.H * d.W)) = s
      BY <2>1, <3>2
    <3> HIDE DEF s
    <3>4. QED
      BY <3>3
  <2> HIDE DEF r, s
  <2>5. r \in Nat
    BY <1>1, <2>2
  <2>6. e \div T = r /\ e % T = k /\ e \in Nat
    <3>1. e \div T = r /\ e % T = k
      BY <1>1, <2>1, <2>5, RowAndColumn
    <3>2. r * T \in Nat
      BY <1>1, <2>5
    <3>3. QED
      BY <1>1, <2>1, <3>1, <3>2
  <2> HIDE DEF e
  <2>7. e \div PT = s
    <3>1. DigitsApart(e, P, T)
      BY <1>1, <2>6, TwoDigits, Zenon
    <3>2. e \div PT = (e \div T) \div P
      BY <3>1 DEF DigitsApart, PT
    <3>3. QED
      BY <2>3, <2>6, <3>2
  <2>8. e \in first .. last - 1
    BY <1>5, <2>4, <2>6, <2>7
  <2>9. e \in S
    BY <1>8, <2>1, <2>6, <2>8
  <2>10. QED
    BY <2>9 DEF e, r
<1>11. AddsTo(d, x, m, adds, S)
  BY <1>7, <1>8, <1>9, <1>10, Zenon DEF AddsTo, R, T
<1>12. QED
  BY <1>11 DEF adds, first, last, PT, P, T

\* The input's gradient by col2im.
LEMMA GatheredInputs ==
    ASSUME Threads \in Nat \ {0}, NEW d, Fits(d), ~OneByOne(d)
    PROVE  InputsExact(d)
<1> DEFINE B == d.B
           PT == Pixels(d) * Taps(d)
           w == d.C * (d.H * d.W)
           samples == Samples(d)
           dcol == Merged(PsgemmNnM(Rows(d), Taps(d), d.O))
           into == Col2im(d)
           parts == InputGrad(d)
           adds(c, x) == AddsInto(d, samples[c].lo * PT, samples[c].hi * PT, x)
           terms(c, x) == ColumnTerms(d, ColumnGrads(d), adds(c, x))
<1>1. /\ B \in Nat \ {0} /\ d.C \in Nat \ {0} /\ d.H \in Nat \ {0} /\ d.W \in Nat \ {0}
      /\ d.O \in Nat \ {0} /\ Rows(d) \in Nat \ {0} /\ Taps(d) \in Nat \ {0}
  BY ShapeType
<1>2. Divides(B, samples)
  <2>1. B \div 8 \in Nat
    BY <1>1, Quotient
  <2>2. AtLeast1(B \div 8) \in Nat \ {0}
    BY <2>1 DEF AtLeast1
  <2> HIDE DEF B
  <2>3. B \in Nat
    BY <1>1
  <2>4. QED
    BY <2>2, <2>3, ChunksDivide DEF Samples, B
<1>3. dcol = ColumnGrads(d)
  <2>1. Computes(PsgemmNnM(Rows(d), Taps(d), d.O), Product(Rows(d), Taps(d), d.O, FALSE, FALSE))
    <3>1. Rows(d) \in Nat /\ d.O \in Nat
      BY <1>1
    <3>2. QED
      BY <1>1, <3>1, NnMComputes, Zenon
  <2>2. QED
    BY <2>1 DEF Computes, ColumnGrads
<1>4. d.C * d.H * d.W = w /\ Elements(d) = 0 .. B * w - 1 /\ w \in Nat \ {0}
  <2> DEFINE a == d.C
             b == d.H
             c == d.W
  <2> HIDE DEF a, b, c, B
  <2>1. \A e, f, g \in Nat \ {0} : e * f * g = e * (f * g) /\ e * f \in Nat \ {0}
    OBVIOUS
  <2>2. a * b * c = a * (b * c) /\ a * (b * c) \in Nat \ {0} /\ b * c \in Nat \ {0}
    BY <1>1, <2>1 DEF a, b, c
  <2>3. B * a * b * c = B * (a * (b * c))
    <3>1. B * a * b = B * (a * b) /\ a * b \in Nat \ {0}
      BY <1>1, <2>1 DEF a, b
    <3>2. B * (a * b) * c = B * (a * b * c)
      BY <1>1, <2>1, <3>1 DEF c
    <3>3. QED
      BY <2>2, <3>1, <3>2
  <2>4. QED
    BY <2>2, <2>3 DEF Elements, a, b, c, B
<1>5. into = [c \in DOMAIN samples |->
                [x \in samples[c].lo * w .. samples[c].hi * w - 1 |-> adds(c, x)]]
  <2>1. into = [c \in DOMAIN samples |->
                  [x \in samples[c].lo * (d.C * d.H * d.W) .. samples[c].hi * (d.C * d.H * d.W) - 1 |-> adds(c, x)]]
    BY DEF Col2im, Pixels
  <2> HIDE DEF into, samples, w, adds
  <2>2. QED
    BY <1>4, <2>1
<1>6. parts = [c \in DOMAIN into |-> [x \in DOMAIN into[c] |-> ColumnTerms(d, dcol, into[c][x])]]
  BY DEF InputGrad, ColumnTerms
<1>7. /\ DOMAIN parts = DOMAIN samples
      /\ \A c \in DOMAIN samples :
            /\ DOMAIN parts[c] = samples[c].lo * w .. samples[c].hi * w - 1
            /\ \A x \in DOMAIN parts[c] : parts[c][x] = terms(c, x)
  <2> HIDE DEF parts, into, samples, w, adds, dcol
  <2>1. /\ DOMAIN into = DOMAIN samples
        /\ \A c \in DOMAIN samples :
              /\ DOMAIN into[c] = samples[c].lo * w .. samples[c].hi * w - 1
              /\ \A x \in DOMAIN into[c] : into[c][x] = adds(c, x)
    BY <1>5
  <2>2. /\ DOMAIN parts = DOMAIN into
        /\ \A c \in DOMAIN into :
              /\ DOMAIN parts[c] = DOMAIN into[c]
              /\ \A x \in DOMAIN into[c] : parts[c][x] = ColumnTerms(d, dcol, into[c][x])
    BY <1>6
  <2>3. QED
    BY <1>3, <2>1, <2>2
<1> HIDE DEF parts, into, samples, w, dcol, terms, B
<1>8. /\ Disjoint(parts)
      /\ \A x \in 0 .. B * w - 1 : \E c \in DOMAIN samples : x \in DOMAIN parts[c] /\ Merged(parts)[x] = parts[c][x]
  <2>1. B \in Nat
    BY <1>1
  <2>2. \A c \in DOMAIN samples : DOMAIN parts[c] = samples[c].lo * w .. samples[c].hi * w - 1
    BY <1>7
  <2>3. QED
    BY <1>2, <1>4, <1>7, <2>1, <2>2, RunsDisjoint
<1>9. ASSUME NEW x \in Elements(d)
      PROVE  SumsTo(Merged(parts)[x], InputTerms(d, x), Turned)
  <2>1. PICK c \in DOMAIN samples : x \in DOMAIN parts[c] /\ Merged(parts)[x] = parts[c][x]
    BY <1>4, <1>8, Zenon
  <2> DEFINE lo == samples[c].lo
             hi == samples[c].hi
  <2>2. lo \in Nat /\ hi \in Nat /\ EachOnce(B, samples)
    BY <1>2 DEF Divides
  <2>3. Merged(parts)[x] = terms(c, x) /\ x \in lo * w .. hi * w - 1
    BY <1>7, <2>1
  <2> DEFINE q == x \div w
  <2> HIDE DEF lo, hi
  <2>4. x \in Nat /\ q \in lo .. hi - 1
    BY <1>4, <2>2, <2>3, InRun
  <2>5. hi <= d.B
    <3>1. Units(samples[c]) \subseteq 0 .. B - 1 /\ Units(samples[c]) = lo .. hi - 1
      BY <2>2, Zenon DEF EachOnce, Units, lo, hi
    <3> HIDE DEF q
    <3>2. hi - 1 \in lo .. hi - 1
      BY <2>2, <2>4
    <3>3. hi - 1 \in 0 .. B - 1
      BY <3>1, <3>2
    <3>4. QED
      BY <1>1, <2>2, <3>3 DEF B
  <2>6. PICK m, S : AddsTo(d, x, m, adds(c, x), S)
    <3>1. x \div (d.C * (d.H * d.W)) \in lo .. hi - 1
      BY <2>4 DEF w
    <3>2. \E m, S : AddsTo(d, x, m, AddsInto(d, lo * (Pixels(d) * Taps(d)), hi * (Pixels(d) * Taps(d)), x), S)
      BY <2>2, <2>4, <2>5, <3>1, AddsIntoLists
    <3>3. QED
      BY <3>2 DEF lo, hi
  <2> HIDE DEF adds
  <2>7. SumsTo(ColumnTerms(d, ColumnGrads(d), adds(c, x)), InputTerms(d, x), Turned)
    BY <2>6, ColumnsAdd, Zenon
  <2>8. QED
    BY <2>3, <2>7 DEF terms
<1>10. QED
  BY <1>8, <1>9 DEF InputsExact, parts

\* autograd.h (conv2d and its backward pass) and train_engine.h (im2col, col2im): the outputs
\* are the convolution's, no two tasks write one place of the columns, the outputs or the
\* gradients, the two im2cols agree, and each gradient sums, once, every product that the
\* weight or the element of the input has a part in, and no other.
THEOREM ConvolutionAlwaysExact ==
    ASSUME Threads \in Nat \ {0}, MinRows \in Nat \ {0}, MinColumns \in Nat \ {0}
    PROVE  \A d : Fits(d) => ConvolutionExact(d)
<1> SUFFICES ASSUME NEW d, Fits(d)
             PROVE  ConvolutionExact(d)
  OBVIOUS
<1>1. Computes(Conv2d(d), ConvOf(d, NoPad))
  BY ConvolutionForward
<1>2. Disjoint(TmIm2col(d)) /\ Merged(Im2col(d)) = Merged(TmIm2col(d)) /\ Disjoint(Im2col(d))
  <2>1. Computes(TmIm2col(d), Columns(d)) /\ Computes(Im2col(d), Columns(d))
    BY ColumnsWrittenOnce
  <2>2. QED
    BY <2>1 DEF Computes
<1>3. WeightsExact(d)
  <2>1. CASE OneByOne(d)
    BY <2>1, PlaneWeights
  <2>2. CASE ~OneByOne(d)
    BY <2>2, GatheredWeights
  <2>3. QED
    BY <2>1, <2>2
<1>4. InputsExact(d)
  <2>1. CASE OneByOne(d)
    BY <2>1, PlaneInputs
  <2>2. CASE ~OneByOne(d)
    BY <2>2, GatheredInputs
  <2>3. QED
    BY <2>1, <2>2
<1>5. /\ Disjoint(WeightGrad(d))
      /\ \A w \in 0 .. d.O * Taps(d) - 1 :
            SumsTo(Merged(WeightGrad(d))[w], Transposed(ConvOf(d, NoPad), 1, 2)[w], Same)
  BY <1>3 DEF WeightsExact, ByWeight
<1>6. ASSUME NEW x \in 0 .. d.B * d.C * d.H * d.W - 1
      PROVE  LET byX == Transposed(ConvOf(d, NoPad), 2, 1)
             IN  SumsTo(Merged(InputGrad(d))[x], IF x \in DOMAIN byX THEN byX[x] ELSE {}, LAMBDA t : <<t[2], t[1]>>)
  <2>1. SumsTo(Merged(InputGrad(d))[x], InputTerms(d, x), Turned)
    BY <1>4 DEF InputsExact, Elements
  <2>2. QED
    BY <2>1 DEF SumsTo, Turned, InputTerms, ByInput
<1>7. Disjoint(InputGrad(d))
  BY <1>4 DEF InputsExact
<1>8. QED
  BY <1>1, <1>2, <1>5, <1>6, <1>7, Zenon DEF ConvolutionExact
===============================================================================
