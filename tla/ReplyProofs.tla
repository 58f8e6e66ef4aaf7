------------------------------ MODULE ReplyProofs ------------------------------
(* Theorems about Reply, for bytes, tokens and vocabularies without a bound: what *)
(* a caller is shown does not depend on where the tokens cut the text, and what   *)
(* is drawn is from the nucleus of what the grammar allows.                       *)
(*                                                                                *)
(* The scan of a buffer is a function of the place it starts from, and what it    *)
(* finds is settled from the end of the buffer: each proof about it is an         *)
(* induction downwards.  A sum over a set is a fold in an order of its own: any   *)
(* element may be taken first, by an induction on the size of the set.            *)
EXTENDS Reply, InductionLemmas

Bytes == {"a", "L", "M", "N", "x", "F"}
Flushed == [shown : Seq(Bytes), hold : Seq(Bytes)]
Nothing == [shown |-> <<>>, hold |-> <<>>]

-------------------------------------------------------------------------------
(* The scan.                                                                     *)

\* From the end of 1 .. n + 1 down to 1.
LEMMA DownInduction ==
    ASSUME NEW S, NEW n \in Nat, n + 1 \in S,
           \A i \in 1 .. n : (\A j \in i + 1 .. n + 1 : j \in S) => i \in S
    PROVE  \A i \in 1 .. n + 1 : i \in S
<1> DEFINE D == {k \in Nat : \A j \in 1 .. n + 1 : n + 1 - k <= j => j \in S}
<1>1. 0 \in D
  OBVIOUS
<1>2. ASSUME NEW k \in Nat, k \in D PROVE k + 1 \in D
  <2> SUFFICES ASSUME NEW j \in 1 .. n + 1, n + 1 - (k + 1) <= j PROVE j \in S
    OBVIOUS
  <2>1. CASE n + 1 - k <= j
    BY <1>2, <2>1
  <2>2. CASE j = n + 1 - (k + 1)
    <3>1. j \in 1 .. n
      BY <2>2
    <3>2. \A i \in j + 1 .. n + 1 : i \in S
      BY <1>2, <2>2
    <3>3. QED
      BY <3>1, <3>2
  <2>3. QED
    BY <2>1, <2>2
<1>3. Nat \subseteq D
  <2> HIDE DEF D
  <2>1. QED
    BY <1>1, <1>2, SetInduction
<1>4. n + 1 \in D
  BY <1>3
<1>5. QED
  BY <1>4

\* What the scan does at a place: pass over a byte, stop, or take a codepoint.
Skips(buf, i) == LET n == Utf8Len(buf[i])
                 IN  n = 0 \/ (i + n - 1 <= Len(buf) /\ \E k \in 1 .. n - 1 : buf[i + k] # "x")
Stops(buf, i) == LET n == Utf8Len(buf[i]) IN n # 0 /\ i + n - 1 > Len(buf)
Takes(buf, i) == LET n == Utf8Len(buf[i])
                 IN  n # 0 /\ i + n - 1 <= Len(buf) /\ \A k \in 1 .. n - 1 : buf[i + k] = "x"

ScanFrom(buf, end, i) ==
    IF i > Len(buf) THEN 0
    ELSE LET n == Utf8Len(buf[i])
         IN  IF n = 0 THEN end[i + 1]
             ELSE IF i + n - 1 > Len(buf) THEN 0
             ELSE IF \E k \in 1 .. n - 1 : buf[i + k] # "x" THEN end[i + 1]
             ELSE IF end[i + n] = 0 THEN i + n - 1 ELSE end[i + n]

\* end is the scan of buf.
IsScan(end, buf) == end = [i \in 1 .. Len(buf) + 1 |-> ScanFrom(buf, end, i)]

\* A byte begins a codepoint of at most four.
LEMMA ByteLength == \A b : Utf8Len(b) \in 0 .. 4
  BY DEF Utf8Len

\* What a scan says at each place.
LEMMA ScanAt ==
    ASSUME NEW buf \in Seq(Bytes), NEW end, IsScan(end, buf)
    PROVE  \A i \in 1 .. Len(buf) + 1 : end[i] = ScanFrom(buf, end, i)
<1> DEFINE g == [i \in 1 .. Len(buf) + 1 |-> ScanFrom(buf, end, i)]
<1>1. \A i \in 1 .. Len(buf) + 1 : g[i] = ScanFrom(buf, end, i)
  OBVIOUS
<1>2. end = g
  BY DEF IsScan
<1> HIDE DEF g
<1>3. QED
  BY <1>1, <1>2, Zenon

LEMMA ScanCases ==
    ASSUME NEW buf \in Seq(Bytes), NEW end, IsScan(end, buf), NEW i \in 1 .. Len(buf)
    PROVE  LET n == Utf8Len(buf[i])
           IN  /\ Skips(buf, i) \/ Stops(buf, i) \/ Takes(buf, i)
               /\ Skips(buf, i) => end[i] = end[i + 1]
               /\ Stops(buf, i) => end[i] = 0
               /\ Takes(buf, i) => /\ n \in 1 .. 4 /\ i + n <= Len(buf) + 1
                                   /\ end[i] = IF end[i + n] = 0 THEN i + n - 1 ELSE end[i + n]
<1> DEFINE n == Utf8Len(buf[i])
<1>1. Len(buf) \in Nat /\ i <= Len(buf) /\ i \in 1 .. Len(buf) + 1
  OBVIOUS
<1>2. n \in 0 .. 4
  BY ByteLength
<1>3. end[i] = ScanFrom(buf, end, i)
  BY <1>1, ScanAt
<1>4. end[i] = IF n = 0 THEN end[i + 1]
               ELSE IF i + n - 1 > Len(buf) THEN 0
               ELSE IF \E k \in 1 .. n - 1 : buf[i + k] # "x" THEN end[i + 1]
               ELSE IF end[i + n] = 0 THEN i + n - 1 ELSE end[i + n]
  BY <1>1, <1>3 DEF ScanFrom
<1> HIDE DEF n
<1>5. Skips(buf, i) <=> n = 0 \/ (i + n - 1 <= Len(buf) /\ \E k \in 1 .. n - 1 : buf[i + k] # "x")
  BY Zenon DEF Skips, n
<1>6. Stops(buf, i) <=> n # 0 /\ i + n - 1 > Len(buf)
  BY Zenon DEF Stops, n
<1>7. Takes(buf, i) <=> n # 0 /\ i + n - 1 <= Len(buf) /\ \A k \in 1 .. n - 1 : buf[i + k] = "x"
  BY Zenon DEF Takes, n
<1>8. Skips(buf, i) => end[i] = end[i + 1]
  BY <1>1, <1>2, <1>4, <1>5
<1>9. Stops(buf, i) => end[i] = 0
  BY <1>4, <1>6
<1>10. Takes(buf, i) => /\ n \in 1 .. 4 /\ i + n <= Len(buf) + 1
                        /\ end[i] = IF end[i + n] = 0 THEN i + n - 1 ELSE end[i + n]
  BY <1>1, <1>2, <1>4, <1>7
<1>11. Skips(buf, i) \/ Stops(buf, i) \/ Takes(buf, i)
  BY <1>1, <1>2, <1>5, <1>6, <1>7
<1>12. QED
  BY <1>8, <1>9, <1>10, <1>11, Zenon DEF n

\* A place's value depends on the places after it only.
LEMMA ScanFromSame ==
    ASSUME NEW buf \in Seq(Bytes), NEW f, NEW g, NEW i \in 1 .. Len(buf) + 1,
           \A j \in i + 1 .. Len(buf) + 1 : f[j] = g[j]
    PROVE  ScanFrom(buf, f, i) = ScanFrom(buf, g, i)
<1> DEFINE n == Utf8Len(buf[i])
<1>1. Len(buf) \in Nat
  OBVIOUS
<1>2. n \in 0 .. 4
  BY ByteLength
<1>3. i <= Len(buf) => f[i + 1] = g[i + 1]
  BY <1>1
<1>4. n # 0 /\ i + n - 1 <= Len(buf) => f[i + n] = g[i + n]
  BY <1>1, <1>2
<1> HIDE DEF n
<1>5. i <= Len(buf) => ScanFrom(buf, f, i) = ScanFrom(buf, g, i)
  <2> SUFFICES ASSUME i <= Len(buf) PROVE ScanFrom(buf, f, i) = ScanFrom(buf, g, i)
    OBVIOUS
  <2> DEFINE Value(e) == IF n = 0 THEN e[i + 1]
                         ELSE IF i + n - 1 > Len(buf) THEN 0
                         ELSE IF \E k \in 1 .. n - 1 : buf[i + k] # "x" THEN e[i + 1]
                         ELSE IF e[i + n] = 0 THEN i + n - 1 ELSE e[i + n]
  <2>1. \A e : ScanFrom(buf, e, i) = Value(e)
    BY <1>1 DEF ScanFrom, n
  <2>2. Value(f) = Value(g)
    BY <1>1, <1>2, <1>3, <1>4
  <2> HIDE DEF Value
  <2>3. QED
    BY <2>1, <2>2
<1>6. i > Len(buf) => ScanFrom(buf, f, i) = ScanFrom(buf, g, i)
  BY DEF ScanFrom
<1>7. QED
  BY <1>1, <1>5, <1>6

\* Every buffer has a scan, built from its end.
LEMMA ScanExists == ASSUME NEW buf \in Seq(Bytes) PROVE \E f : IsScan(f, buf)
<1> DEFINE L == Len(buf)
           From(f, k) == \A i \in 1 .. L + 1 : L + 1 - k <= i => f[i] = ScanFrom(buf, f, i)
           S == {k \in Nat : \E f : From(f, k)}
<1>1. L \in Nat
  OBVIOUS
<1>2. 0 \in S
  <2> DEFINE z == [i \in 1 .. L + 1 |-> 0]
  <2>1. \A i \in 1 .. L + 1 : L + 1 - 0 <= i => z[i] = ScanFrom(buf, z, i)
    BY <1>1 DEF ScanFrom
  <2>2. QED
    BY <2>1
<1>3. ASSUME NEW k \in Nat, k \in S PROVE k + 1 \in S
  <2>1. PICK f : From(f, k)
    BY <1>3
  <2> DEFINE at == L + 1 - (k + 1)
             g == [i \in 1 .. L + 1 |-> IF i = at THEN ScanFrom(buf, f, at) ELSE f[i]]
  <2>2. at \in Int /\ \A i \in 1 .. L + 1 : L + 1 - (k + 1) <= i <=> i = at \/ L + 1 - k <= i
    BY <1>1
  <2>3. \A i \in 1 .. L + 1 : g[i] = IF i = at THEN ScanFrom(buf, f, at) ELSE f[i]
    OBVIOUS
  <2>4. \A i \in 1 .. L + 1 : at <= i => ScanFrom(buf, g, i) = ScanFrom(buf, f, i)
    <3> SUFFICES ASSUME NEW i \in 1 .. L + 1, at <= i
                 PROVE  ScanFrom(buf, g, i) = ScanFrom(buf, f, i)
      OBVIOUS
    <3> HIDE DEF at, g
    <3>1. \A j \in i + 1 .. L + 1 : g[j] = f[j]
      BY <1>1, <2>2, <2>3
    <3>2. QED
      BY <3>1, ScanFromSame
  <2> HIDE DEF at, g
  <2>5. \A i \in 1 .. L + 1 : L + 1 - (k + 1) <= i => g[i] = ScanFrom(buf, g, i)
    <3> SUFFICES ASSUME NEW i \in 1 .. L + 1, L + 1 - (k + 1) <= i
                 PROVE  g[i] = ScanFrom(buf, g, i)
      OBVIOUS
    <3>1. ScanFrom(buf, g, i) = ScanFrom(buf, f, i)
      BY <2>4 DEF at
    <3>2. CASE i = at
      BY <2>3, <3>1, <3>2
    <3>3. CASE i # at
      <4>1. L + 1 - k <= i
        BY <2>2, <3>3
      <4>2. f[i] = ScanFrom(buf, f, i)
        BY <2>1, <4>1
      <4>3. QED
        BY <2>3, <3>1, <3>3, <4>2
    <3>4. QED
      BY <3>2, <3>3
  <2>6. QED
    BY <2>5
<1>4. Nat \subseteq S
  <2> HIDE DEF S
  <2>1. QED
    BY <1>2, <1>3, SetInduction
<1>5. L + 1 \in S
  <2>1. L + 1 \in Nat
    BY <1>1
  <2> HIDE DEF S
  <2>2. QED
    BY <1>4, <2>1
<1>6. \E f : \A i \in 1 .. L + 1 : f[i] = ScanFrom(buf, f, i)
  BY <1>1, <1>5
<1>7. PICK f : \A i \in 1 .. L + 1 : f[i] = ScanFrom(buf, f, i)
  BY <1>6
<1> DEFINE F == [i \in 1 .. L + 1 |-> f[i]]
<1>8. \A i \in 1 .. L + 1 : ScanFrom(buf, F, i) = f[i]
  <2> SUFFICES ASSUME NEW i \in 1 .. L + 1 PROVE ScanFrom(buf, F, i) = f[i]
    OBVIOUS
  <2>1. \A j \in i + 1 .. L + 1 : F[j] = f[j]
    BY <1>1
  <2> HIDE DEF F
  <2>2. ScanFrom(buf, F, i) = ScanFrom(buf, f, i)
    BY <2>1, ScanFromSame
  <2>3. QED
    BY <1>7, <2>2
<1>9. F = [i \in 1 .. L + 1 |-> ScanFrom(buf, F, i)]
  <2>1. [i \in 1 .. L + 1 |-> ScanFrom(buf, F, i)] = [i \in 1 .. L + 1 |-> f[i]]
    <3> DEFINE h == [i \in 1 .. L + 1 |-> ScanFrom(buf, F, i)]
    <3> HIDE DEF F
    <3>1. \A i \in 1 .. L + 1 : h[i] = f[i]
      BY <1>8
    <3>2. QED
      BY <3>1
  <2>2. QED
    BY <2>1, Zenon DEF F
<1>10. QED
  BY <1>9, Zenon DEF IsScan

\* Where the complete codepoints of a buffer end is what its scan says at 1.
LEMMA CompleteIs ==
    ASSUME NEW buf \in Seq(Bytes)
    PROVE  \E f : IsScan(f, buf) /\ CompleteTo(buf) = f[1]
<1> DEFINE F == CHOOSE f : IsScan(f, buf)
<1>1. IsScan(F, buf)
  BY ScanExists
<1>2. CompleteTo(buf) = F[1]
  BY DEF CompleteTo, IsScan, ScanFrom
<1>3. QED
  BY <1>1, <1>2

\* The scan meets codepoints at or after the place it starts from.
LEMMA ScanType ==
    ASSUME NEW buf \in Seq(Bytes), NEW f, IsScan(f, buf)
    PROVE  \A i \in 1 .. Len(buf) + 1 : f[i] = 0 \/ f[i] \in i .. Len(buf)
<1> DEFINE L == Len(buf)
           S == {i \in 1 .. L + 1 : f[i] = 0 \/ f[i] \in i .. L}
<1>1. L \in Nat
  OBVIOUS
<1>2. L + 1 \in S
  <2>1. f[L + 1] = ScanFrom(buf, f, L + 1)
    BY <1>1, ScanAt
  <2>2. QED
    BY <1>1, <2>1 DEF ScanFrom
<1>3. ASSUME NEW i \in 1 .. L, \A j \in i + 1 .. L + 1 : j \in S PROVE i \in S
  <2> DEFINE n == Utf8Len(buf[i])
  <2>1. /\ Skips(buf, i) \/ Stops(buf, i) \/ Takes(buf, i)
        /\ Skips(buf, i) => f[i] = f[i + 1]
        /\ Stops(buf, i) => f[i] = 0
        /\ Takes(buf, i) => /\ n \in 1 .. 4 /\ i + n <= L + 1
                            /\ f[i] = IF f[i + n] = 0 THEN i + n - 1 ELSE f[i + n]
    BY ScanCases
  <2> HIDE DEF n
  <2>2. CASE Skips(buf, i)
    <3>1. i + 1 \in S
      BY <1>1, <1>3
    <3>2. QED
      BY <1>1, <2>1, <2>2, <3>1
  <2>3. CASE Stops(buf, i)
    BY <1>1, <2>1, <2>3
  <2>4. CASE Takes(buf, i)
    <3>1. n \in 1 .. 4 /\ i + n <= L + 1 /\ f[i] = IF f[i + n] = 0 THEN i + n - 1 ELSE f[i + n]
      BY <2>1, <2>4
    <3>2. i + n \in S
      BY <1>1, <1>3, <3>1
    <3>3. QED
      BY <1>1, <3>1, <3>2
  <2>5. QED
    BY <2>1, <2>2, <2>3, <2>4
<1>4. \A i \in 1 .. L + 1 : i \in S
  <2> HIDE DEF S, L
  <2>1. QED
    BY <1>1, <1>2, <1>3, DownInduction
<1>5. QED
  BY <1>4

\* What a scan does at a place it does in every longer buffer, unless it stops.
LEMMA SameStep ==
    ASSUME NEW T \in Seq(Bytes), NEW U \in Seq(Bytes), NEW d \in Nat,
           d + Len(T) <= Len(U), \A i \in 1 .. Len(T) : T[i] = U[d + i],
           NEW i \in 1 .. Len(T)
    PROVE  /\ Utf8Len(U[d + i]) = Utf8Len(T[i])
           /\ Skips(T, i) => Skips(U, d + i)
           /\ Takes(T, i) => Takes(U, d + i)
           /\ d + Len(T) = Len(U) /\ Stops(T, i) => Stops(U, d + i)
<1> DEFINE n == Utf8Len(T[i])
<1>1. Len(T) \in Nat /\ Len(U) \in Nat
  OBVIOUS
<1>2. n \in 0 .. 4
  BY ByteLength
<1>3. Utf8Len(U[d + i]) = n
  OBVIOUS
<1> HIDE DEF n
<1>4. i + n - 1 <= Len(T) => \A k \in 1 .. n - 1 : T[i + k] = U[(d + i) + k]
  BY <1>1, <1>2
<1>5. i + n - 1 <= Len(T) => (d + i) + n - 1 <= Len(U)
  BY <1>1, <1>2
<1>6. Skips(T, i) => Skips(U, d + i)
  <2>1. Skips(T, i) <=> n = 0 \/ (i + n - 1 <= Len(T) /\ \E k \in 1 .. n - 1 : T[i + k] # "x")
    BY Zenon DEF Skips, n
  <2>2. Skips(U, d + i) <=>
           n = 0 \/ ((d + i) + n - 1 <= Len(U) /\ \E k \in 1 .. n - 1 : U[(d + i) + k] # "x")
    BY <1>3 DEF Skips
  <2>3. QED
    BY <1>4, <1>5, <2>1, <2>2
<1>7. Takes(T, i) => Takes(U, d + i)
  <2>1. Takes(T, i) <=> n # 0 /\ i + n - 1 <= Len(T) /\ \A k \in 1 .. n - 1 : T[i + k] = "x"
    BY Zenon DEF Takes, n
  <2>2. Takes(U, d + i) <=>
           n # 0 /\ (d + i) + n - 1 <= Len(U) /\ \A k \in 1 .. n - 1 : U[(d + i) + k] = "x"
    BY <1>3 DEF Takes
  <2>3. QED
    BY <1>4, <1>5, <2>1, <2>2
<1>8. d + Len(T) = Len(U) /\ Stops(T, i) => Stops(U, d + i)
  <2>1. Stops(T, i) <=> n # 0 /\ i + n - 1 > Len(T)
    BY Zenon DEF Stops, n
  <2>2. Stops(U, d + i) <=> n # 0 /\ (d + i) + n - 1 > Len(U)
    BY <1>3 DEF Stops
  <2>3. QED
    BY <1>1, <1>2, <2>1, <2>2
<1>9. QED
  BY <1>3, <1>6, <1>7, <1>8, Zenon DEF n

\* A scan of more bytes goes on from the end of the last codepoint that a scan of
\* the first of them found.
LEMMA ScanPrefix ==
    ASSUME NEW T \in Seq(Bytes), NEW U \in Seq(Bytes), NEW f, NEW g,
           IsScan(f, T), IsScan(g, U),
           Len(T) <= Len(U), \A i \in 1 .. Len(T) : T[i] = U[i]
    PROVE  \A i \in 1 .. Len(T) + 1 :
              \/ f[i] = 0
              \/ g[f[i] + 1] = 0 /\ g[i] = f[i]
              \/ g[f[i] + 1] # 0 /\ g[i] = g[f[i] + 1]
<1> DEFINE L == Len(T)
           S == {i \in 1 .. L + 1 :
                    f[i] = 0 \/ g[i] = IF g[f[i] + 1] = 0 THEN f[i] ELSE g[f[i] + 1]}
<1>1. L \in Nat /\ Len(U) \in Nat /\ L <= Len(U)
  OBVIOUS
<1>2. L + 1 \in S
  <2>1. f[L + 1] = ScanFrom(T, f, L + 1)
    BY <1>1, ScanAt
  <2>2. QED
    BY <1>1, <2>1 DEF ScanFrom
<1>3. ASSUME NEW i \in 1 .. L, \A j \in i + 1 .. L + 1 : j \in S PROVE i \in S
  <2> DEFINE n == Utf8Len(T[i])
  <2>1. /\ Skips(T, i) \/ Stops(T, i) \/ Takes(T, i)
        /\ Skips(T, i) => f[i] = f[i + 1]
        /\ Stops(T, i) => f[i] = 0
        /\ Takes(T, i) => /\ n \in 1 .. 4 /\ i + n <= L + 1
                          /\ f[i] = IF f[i + n] = 0 THEN i + n - 1 ELSE f[i + n]
    BY ScanCases
  <2>2. i \in 1 .. Len(U)
    BY <1>1
  <2>3. /\ Skips(U, i) => g[i] = g[i + 1]
        /\ Takes(U, i) => g[i] = IF g[i + Utf8Len(U[i])] = 0 THEN i + Utf8Len(U[i]) - 1
                                 ELSE g[i + Utf8Len(U[i])]
    BY <2>2, ScanCases
  <2>4. /\ Utf8Len(U[i]) = n
        /\ Skips(T, i) => Skips(U, i)
        /\ Takes(T, i) => Takes(U, i)
    <3>1. 0 \in Nat /\ 0 + Len(T) <= Len(U) /\ \A j \in 1 .. Len(T) : T[j] = U[0 + j]
      BY <1>1
    <3>2. 0 + i = i
      OBVIOUS
    <3>3. /\ Utf8Len(U[0 + i]) = n
          /\ Skips(T, i) => Skips(U, 0 + i)
          /\ Takes(T, i) => Takes(U, 0 + i)
      BY <3>1, SameStep
    <3>4. QED
      BY <3>2, <3>3
  <2>5. \A j \in 1 .. L + 1 : f[j] = 0 \/ f[j] \in j .. L
    BY ScanType
  <2> HIDE DEF n
  <2>6. CASE Skips(T, i)
    <3>1. i + 1 \in S
      BY <1>1, <1>3
    <3>2. f[i] = f[i + 1] /\ g[i] = g[i + 1]
      BY <2>1, <2>3, <2>4, <2>6
    <3>3. QED
      BY <1>1, <3>1, <3>2
  <2>7. CASE Stops(T, i)
    BY <1>1, <2>1, <2>7
  <2>8. CASE Takes(T, i)
    <3>1. n \in 1 .. 4 /\ i + n <= L + 1 /\ f[i] = IF f[i + n] = 0 THEN i + n - 1 ELSE f[i + n]
      BY <2>1, <2>8
    <3>2. g[i] = IF g[i + n] = 0 THEN i + n - 1 ELSE g[i + n]
      BY <2>3, <2>4, <2>8
    <3>3. i + n \in S
      BY <1>1, <1>3, <3>1
    <3>4. CASE f[i + n] = 0
      <4>1. f[i] = i + n - 1 /\ f[i] + 1 = i + n
        BY <1>1, <3>1, <3>4
      <4>2. QED
        BY <1>1, <3>2, <4>1
    <3>5. CASE f[i + n] # 0
      <4>1. f[i] = f[i + n] /\ f[i + n] \in i + n .. L
        BY <1>1, <2>5, <3>1, <3>5
      <4>2. g[i + n] = IF g[f[i + n] + 1] = 0 THEN f[i + n] ELSE g[f[i + n] + 1]
        BY <3>3, <3>5
      <4>3. g[i + n] # 0
        BY <1>1, <3>1, <4>1, <4>2
      <4>4. QED
        BY <1>1, <3>2, <4>1, <4>2, <4>3
    <3>6. QED
      BY <3>4, <3>5
  <2>9. QED
    BY <2>1, <2>6, <2>7, <2>8
<1>4. \A i \in 1 .. L + 1 : i \in S
  <2> HIDE DEF S, L
  <2>1. QED
    BY <1>1, <1>2, <1>3, DownInduction
<1>5. QED
  BY <1>4

\* R is what follows the first c of U; h says of places of R what g says of them in U.
RestFrom(R, U, c) == c + Len(R) = Len(U) /\ \A i \in 1 .. Len(R) : R[i] = U[c + i]
SaysTheSame(h, g, c, n) ==
    \A i \in 1 .. n : (h[i] = 0 /\ g[c + i] = 0) \/ (h[i] # 0 /\ g[c + i] = c + h[i])

\* The scan of the rest of a buffer is the scan of the buffer from there.
LEMMA ScanShift ==
    ASSUME NEW R \in Seq(Bytes), NEW U \in Seq(Bytes), NEW h, NEW g, NEW c \in Nat,
           IsScan(h, R), IsScan(g, U), RestFrom(R, U, c)
    PROVE  SaysTheSame(h, g, c, Len(R) + 1)
<1> DEFINE L == Len(R)
           S == {i \in 1 .. L + 1 : g[c + i] = IF h[i] = 0 THEN 0 ELSE c + h[i]}
<1>1. L \in Nat /\ Len(U) \in Nat /\ c + L = Len(U)
  BY DEF RestFrom
<1>2. L + 1 \in S
  <2>1. h[L + 1] = ScanFrom(R, h, L + 1)
    BY <1>1, ScanAt
  <2>2. c + (L + 1) \in 1 .. Len(U) + 1
    BY <1>1
  <2>3. g[c + (L + 1)] = ScanFrom(U, g, c + (L + 1))
    BY <2>2, ScanAt
  <2>4. QED
    BY <1>1, <2>1, <2>3 DEF ScanFrom
<1>3. ASSUME NEW i \in 1 .. L, \A j \in i + 1 .. L + 1 : j \in S PROVE i \in S
  <2> DEFINE n == Utf8Len(R[i])
  <2>1. /\ Skips(R, i) \/ Stops(R, i) \/ Takes(R, i)
        /\ Skips(R, i) => h[i] = h[i + 1]
        /\ Stops(R, i) => h[i] = 0
        /\ Takes(R, i) => /\ n \in 1 .. 4 /\ i + n <= L + 1
                          /\ h[i] = IF h[i + n] = 0 THEN i + n - 1 ELSE h[i + n]
    BY ScanCases
  <2>2. c + i \in 1 .. Len(U)
    BY <1>1
  <2>3. /\ Skips(U, c + i) => g[c + i] = g[(c + i) + 1]
        /\ Stops(U, c + i) => g[c + i] = 0
        /\ Takes(U, c + i) => g[c + i] = IF g[(c + i) + Utf8Len(U[c + i])] = 0
                                         THEN (c + i) + Utf8Len(U[c + i]) - 1
                                         ELSE g[(c + i) + Utf8Len(U[c + i])]
    BY <2>2, ScanCases
  <2>4. /\ Utf8Len(U[c + i]) = n
        /\ Skips(R, i) => Skips(U, c + i)
        /\ Takes(R, i) => Takes(U, c + i)
        /\ Stops(R, i) => Stops(U, c + i)
    BY <1>1, SameStep DEF RestFrom
  <2>5. \A j \in 1 .. L + 1 : h[j] = 0 \/ h[j] \in j .. L
    BY ScanType
  <2> HIDE DEF n
  <2>6. CASE Skips(R, i)
    <3>1. i + 1 \in S /\ c + (i + 1) = (c + i) + 1
      BY <1>1, <1>3
    <3>2. h[i] = h[i + 1] /\ g[c + i] = g[(c + i) + 1]
      BY <2>1, <2>3, <2>4, <2>6
    <3>3. QED
      BY <1>1, <3>1, <3>2
  <2>7. CASE Stops(R, i)
    <3>1. h[i] = 0 /\ g[c + i] = 0
      BY <2>1, <2>3, <2>4, <2>7
    <3>2. QED
      BY <1>1, <3>1
  <2>8. CASE Takes(R, i)
    <3>1. n \in 1 .. 4 /\ i + n <= L + 1 /\ h[i] = IF h[i + n] = 0 THEN i + n - 1 ELSE h[i + n]
      BY <2>1, <2>8
    <3>2. g[c + i] = IF g[(c + i) + n] = 0 THEN (c + i) + n - 1 ELSE g[(c + i) + n]
      BY <2>3, <2>4, <2>8
    <3>3. i + n \in S /\ c + (i + n) = (c + i) + n
      BY <1>1, <1>3, <3>1
    <3>4. g[(c + i) + n] = IF h[i + n] = 0 THEN 0 ELSE c + h[i + n]
      BY <3>3
    <3>5. h[i + n] = 0 \/ h[i + n] \in i + n .. L
      BY <1>1, <2>5, <3>1
    <3>6. QED
      BY <1>1, <3>1, <3>2, <3>4, <3>5
  <2>9. QED
    BY <2>1, <2>6, <2>7, <2>8
<1>4. \A i \in 1 .. L + 1 : i \in S
  <2> HIDE DEF S, L
  <2>1. QED
    BY <1>1, <1>2, <1>3, DownInduction
<1>5. QED
  BY <1>4 DEF SaysTheSame

-------------------------------------------------------------------------------
(* What a flush shows and holds.                                                 *)

LEMMA CompleteType ==
    ASSUME NEW buf \in Seq(Bytes)
    PROVE  CompleteTo(buf) \in 0 .. Len(buf)
<1>1. PICK f : IsScan(f, buf) /\ CompleteTo(buf) = f[1]
  BY CompleteIs
<1>2. Len(buf) \in Nat /\ 1 \in 1 .. Len(buf) + 1
  OBVIOUS
<1>3. f[1] = 0 \/ f[1] \in 1 .. Len(buf)
  BY <1>1, <1>2, ScanType
<1>4. QED
  BY <1>1, <1>2, <1>3

LEMMA FlushType ==
    ASSUME NEW s \in Flushed, NEW a \in Seq(Bytes)
    PROVE  FlushOut(s, a) \in Flushed
<1> DEFINE A == s.hold \o a
           c == CompleteTo(A)
<1>1. s.shown \in Seq(Bytes) /\ s.hold \in Seq(Bytes)
  BY DEF Flushed
<1>2. A \in Seq(Bytes)
  BY <1>1
<1>3. c \in 0 .. Len(A)
  BY <1>2, CompleteType
<1>4. FlushOut(s, a) = [shown |-> s.shown \o SubSeq(A, 1, c), hold |-> SubSeq(A, c + 1, Len(A))]
  BY DEF FlushOut
<1> HIDE DEF A, c
<1>5. SubSeq(A, 1, c) \in Seq(Bytes) /\ SubSeq(A, c + 1, Len(A)) \in Seq(Bytes)
  BY <1>2, <1>3, CutInTwo
<1>6. s.shown \o SubSeq(A, 1, c) \in Seq(Bytes)
  BY <1>1, <1>5
<1>7. QED
  BY <1>4, <1>5, <1>6 DEF Flushed

\* What is complete in a buffer and more bytes is what is complete in the buffer,
\* and then what is complete in its rest and the bytes.
LEMMA CompleteTwice ==
    ASSUME NEW A \in Seq(Bytes), NEW b \in Seq(Bytes)
    PROVE  LET c == CompleteTo(A)
           IN  CompleteTo(A \o b) = c + CompleteTo(SubSeq(A, c + 1, Len(A)) \o b)
<1> DEFINE c == CompleteTo(A)
           rest == SubSeq(A, c + 1, Len(A))
           U == A \o b
           R == rest \o b
<1>1. c \in 0 .. Len(A) /\ Len(A) \in Nat /\ Len(b) \in Nat
  BY CompleteType
<1>2. PICK f : IsScan(f, A) /\ c = f[1]
  BY CompleteIs
<1>3. /\ U \in Seq(Bytes) /\ Len(U) = Len(A) + Len(b)
      /\ \A i \in 1 .. Len(A) : U[i] = A[i]
      /\ \A i \in Len(A) + 1 .. Len(A) + Len(b) : U[i] = b[i - Len(A)]
  BY ConcatAt
<1> HIDE DEF c
<1>4. rest \in Seq(Bytes) /\ Len(rest) = Len(A) - c /\ \A i \in 1 .. Len(A) - c : rest[i] = A[c + i]
  BY <1>1, CutInTwo
<1> HIDE DEF rest, U
<1>5. /\ R \in Seq(Bytes) /\ Len(R) = (Len(A) - c) + Len(b)
      /\ \A i \in 1 .. Len(A) - c : R[i] = rest[i]
      /\ \A i \in (Len(A) - c) + 1 .. (Len(A) - c) + Len(b) : R[i] = b[i - (Len(A) - c)]
  <2>1. /\ R \in Seq(Bytes) /\ Len(R) = Len(rest) + Len(b)
        /\ \A i \in 1 .. Len(rest) : R[i] = rest[i]
        /\ \A i \in Len(rest) + 1 .. Len(rest) + Len(b) : R[i] = b[i - Len(rest)]
    BY <1>4, ConcatAt
  <2>2. Len(rest) = Len(A) - c
    BY <1>4
  <2> HIDE DEF R
  <2>3. QED
    BY <2>1, <2>2
<1> HIDE DEF R
<1>6. c + Len(R) = Len(U)
  BY <1>1, <1>3, <1>5
<1>7. \A i \in 1 .. Len(R) : R[i] = U[c + i]
  <2> SUFFICES ASSUME NEW i \in 1 .. Len(R) PROVE R[i] = U[c + i]
    OBVIOUS
  <2>1. CASE i <= Len(A) - c
    <3>1. i \in 1 .. Len(A) - c /\ c + i \in 1 .. Len(A)
      BY <1>1, <1>5, <2>1
    <3>2. QED
      BY <1>3, <1>4, <1>5, <3>1
  <2>2. CASE i > Len(A) - c
    <3>1. /\ i \in (Len(A) - c) + 1 .. (Len(A) - c) + Len(b)
          /\ c + i \in Len(A) + 1 .. Len(A) + Len(b)
          /\ i - (Len(A) - c) = (c + i) - Len(A)
      BY <1>1, <1>5, <2>2
    <3>2. R[i] = b[i - (Len(A) - c)]
      BY <1>5, <3>1, Zenon
    <3>3. U[c + i] = b[(c + i) - Len(A)]
      BY <1>3, <3>1, Zenon
    <3>4. QED
      BY <3>1, <3>2, <3>3, Zenon
  <2>3. QED
    BY <1>1, <2>1, <2>2
<1>8. PICK g : IsScan(g, U) /\ CompleteTo(U) = g[1]
  BY <1>3, CompleteIs
<1>9. PICK h : IsScan(h, R) /\ CompleteTo(R) = h[1]
  BY <1>5, CompleteIs
<1>10. CompleteTo(R) \in Nat
  BY <1>5, CompleteType
<1>11. g[c + 1] = IF h[1] = 0 THEN 0 ELSE c + h[1]
  <2>1. c \in Nat /\ 1 \in 1 .. Len(R) + 1
    BY <1>1, <1>5
  <2>2. QED
    <3>1. \A i \in 1 .. Len(R) + 1 :
             (h[i] = 0 /\ g[c + i] = 0) \/ (h[i] # 0 /\ g[c + i] = c + h[i])
      <4>1. R \in Seq(Bytes) /\ U \in Seq(Bytes) /\ IsScan(h, R) /\ IsScan(g, U) /\ c \in Nat
        BY <1>3, <1>5, <1>8, <1>9, <2>1
      <4>2. QED
        <5>1. RestFrom(R, U, c)
          BY <1>6, <1>7 DEF RestFrom
        <5>2. SaysTheSame(h, g, c, Len(R) + 1)
          BY <4>1, <5>1, ScanShift
        <5>3. QED
          BY <5>2, Zenon DEF SaysTheSame
    <3>2. QED
      BY <2>1, <3>1
<1>12. f[1] = 0 \/ g[1] = IF g[f[1] + 1] = 0 THEN f[1] ELSE g[f[1] + 1]
  <2>1. Len(A) <= Len(U) /\ \A i \in 1 .. Len(A) : A[i] = U[i]
    BY <1>1, <1>3
  <2>2. 1 \in 1 .. Len(A) + 1
    BY <1>1
  <2>3. QED
    <3>1. \A i \in 1 .. Len(A) + 1 :
             \/ f[i] = 0
             \/ g[f[i] + 1] = 0 /\ g[i] = f[i]
             \/ g[f[i] + 1] # 0 /\ g[i] = g[f[i] + 1]
      <4>1. U \in Seq(Bytes) /\ IsScan(f, A) /\ IsScan(g, U)
        BY <1>2, <1>3, <1>8
      <4>2. QED
        BY <2>1, <4>1, ScanPrefix, SMTT(30)
    <3>2. QED
      BY <2>2, <3>1
<1>13. CompleteTo(U) = c + CompleteTo(R)
  BY <1>1, <1>2, <1>8, <1>9, <1>10, <1>11, <1>12
<1>14. QED
  BY <1>13 DEF U, R, rest, c

\* Two flushes are one of both deltas.
LEMMA FlushTwice ==
    ASSUME NEW s \in Flushed, NEW a \in Seq(Bytes), NEW b \in Seq(Bytes)
    PROVE  FlushOut(FlushOut(s, a), b) = FlushOut(s, a \o b)
<1> DEFINE A == s.hold \o a
           c == CompleteTo(A)
           head == SubSeq(A, 1, c)
           rest == SubSeq(A, c + 1, Len(A))
           R == rest \o b
           e == CompleteTo(R)
           U == A \o b
<1>1. s.shown \in Seq(Bytes) /\ s.hold \in Seq(Bytes) /\ Len(b) \in Nat
  BY DEF Flushed
<1>2. A \in Seq(Bytes) /\ Len(A) \in Nat
  BY <1>1
<1>3. s.hold \o (a \o b) = U
  <2> DEFINE k == s.hold
  <2>1. k \in Seq(Bytes)
    BY <1>1
  <2> HIDE DEF k
  <2>2. (k \o a) \o b = k \o (a \o b)
    BY <2>1
  <2>3. QED
    BY <2>2 DEF k
<1>4. a \o b \in Seq(Bytes)
  OBVIOUS
<1>5. FlushOut(s, a) = [shown |-> s.shown \o head, hold |-> rest]
  BY DEF FlushOut
<1>6. FlushOut(FlushOut(s, a), b) =
        [shown |-> (s.shown \o head) \o SubSeq(R, 1, e), hold |-> SubSeq(R, e + 1, Len(R))]
  BY <1>5 DEF FlushOut
<1>7. FlushOut(s, a \o b) =
        [shown |-> s.shown \o SubSeq(U, 1, CompleteTo(U)),
         hold |-> SubSeq(U, CompleteTo(U) + 1, Len(U))]
  BY <1>3 DEF FlushOut
<1> HIDE DEF A
<1>8. CompleteTo(U) = c + e
  BY <1>2, CompleteTwice
<1>9. c \in 0 .. Len(A)
  BY <1>2, CompleteType
<1> HIDE DEF c
<1>10. /\ head \in Seq(Bytes) /\ Len(head) = c
       /\ rest \in Seq(Bytes) /\ Len(rest) = Len(A) - c
       /\ \A i \in 1 .. c : head[i] = A[i]
       /\ \A i \in 1 .. Len(A) - c : rest[i] = A[c + i]
  BY <1>2, <1>9, CutInTwo
<1> HIDE DEF head, rest
<1>11. A = head \o rest
  BY <1>2, <1>9, CutRejoins DEF head, rest
<1>12. R \in Seq(Bytes) /\ Len(R) \in Nat
  BY <1>10
<1>13. U = head \o R
  BY <1>10, <1>11, ConcatThree
<1>14. e \in 0 .. Len(R)
  BY <1>12, CompleteType
<1> HIDE DEF R, e, U
<1>15. SubSeq(U, 1, c + e) = head \o SubSeq(R, 1, e)
  BY <1>10, <1>12, <1>13, <1>14, CutJoined
<1>16. SubSeq(U, c + e + 1, Len(U)) = SubSeq(R, e + 1, Len(R))
  BY <1>10, <1>12, <1>13, <1>14, CutJoined
<1>17. SubSeq(R, 1, e) \in Seq(Bytes)
  BY <1>12, <1>14, CutInTwo
<1>18. s.shown \o (head \o SubSeq(R, 1, e)) = (s.shown \o head) \o SubSeq(R, 1, e)
  <2> DEFINE k == s.shown
             x == SubSeq(R, 1, e)
  <2>1. k \in Seq(Bytes) /\ x \in Seq(Bytes) /\ head \in Seq(Bytes)
    BY <1>1, <1>10, <1>17
  <2> HIDE DEF k, x
  <2>2. k \o (head \o x) = (k \o head) \o x
    BY <2>1
  <2>3. QED
    BY <2>2, Zenon DEF k, x
<1>19. QED
  BY <1>6, <1>7, <1>8, <1>15, <1>16, <1>18

-------------------------------------------------------------------------------
(* Streams.                                                                      *)

AfterOf(f, deltas, k) == IF k = 0 THEN Nothing ELSE FlushOut(f[k - 1], deltas[k])
IsAfter(f, deltas) == f = [k \in 0 .. Len(deltas) |-> AfterOf(f, deltas, k)]

LEMMA AfterAt ==
    ASSUME NEW deltas, NEW f, IsAfter(f, deltas)
    PROVE  \A k \in 0 .. Len(deltas) : f[k] = AfterOf(f, deltas, k)
<1> DEFINE g == [k \in 0 .. Len(deltas) |-> AfterOf(f, deltas, k)]
<1>1. \A k \in 0 .. Len(deltas) : g[k] = AfterOf(f, deltas, k)
  OBVIOUS
<1>2. f = g
  BY DEF IsAfter
<1> HIDE DEF g
<1>3. QED
  BY <1>1, <1>2, Zenon

\* A stream has a state after each delta.
LEMMA AfterExists == ASSUME NEW deltas \in Seq(Seq(Bytes)) PROVE \E f : IsAfter(f, deltas)
<1> DEFINE L == Len(deltas)
           Upto(f, n) == \A k \in 0 .. n : f[k] = AfterOf(f, deltas, k)
           S == {n \in Nat : \E f : Upto(f, n)}
<1>1. L \in Nat
  OBVIOUS
<1>2. 0 \in S
  <2> DEFINE z == [k \in 0 .. 0 |-> Nothing]
  <2>1. \A k \in 0 .. 0 : z[k] = AfterOf(z, deltas, k)
    BY DEF AfterOf
  <2>2. QED
    BY <2>1
<1>3. ASSUME NEW n \in Nat, n \in S PROVE n + 1 \in S
  <2>1. PICK f : Upto(f, n)
    BY <1>3
  <2> DEFINE g == [k \in 0 .. n + 1 |-> IF k = n + 1 THEN FlushOut(f[n], deltas[n + 1]) ELSE f[k]]
  <2>2. \A k \in 0 .. n + 1 : g[k] = IF k = n + 1 THEN FlushOut(f[n], deltas[n + 1]) ELSE f[k]
    OBVIOUS
  <2> HIDE DEF g
  <2>3. ASSUME NEW k \in 0 .. n + 1 PROVE g[k] = AfterOf(g, deltas, k)
    <3>1. CASE k = n + 1
      <4>1. g[k] = FlushOut(f[n], deltas[k]) /\ g[k - 1] = f[n] /\ k # 0
        BY <2>2, <3>1
      <4>2. QED
        BY <4>1 DEF AfterOf
    <3>2. CASE k # n + 1
      <4>1. k \in 0 .. n /\ g[k] = f[k] /\ (k # 0 => g[k - 1] = f[k - 1])
        BY <2>2, <3>2
      <4>2. f[k] = AfterOf(f, deltas, k)
        BY <2>1, <4>1
      <4>3. QED
        BY <4>1, <4>2 DEF AfterOf
    <3>3. QED
      BY <3>1, <3>2
  <2>4. Upto(g, n + 1)
    BY <2>3
  <2>5. QED
    BY <2>4
<1>4. L \in S
  <2> HIDE DEF S
  <2>1. Nat \subseteq S
    BY <1>2, <1>3, SetInduction
  <2>2. QED
    BY <1>1, <2>1
<1>5. PICK f : Upto(f, L)
  BY <1>4
<1> DEFINE F == [k \in 0 .. L |-> f[k]]
           G == [k \in 0 .. L |-> AfterOf(F, deltas, k)]
<1>6. \A k \in 0 .. L : F[k] = f[k]
  OBVIOUS
<1>7. \A k \in 0 .. L : G[k] = AfterOf(F, deltas, k)
  OBVIOUS
<1>8. \A k \in 0 .. L : AfterOf(F, deltas, k) = f[k]
  <2> SUFFICES ASSUME NEW k \in 0 .. L PROVE AfterOf(F, deltas, k) = f[k]
    OBVIOUS
  <2>1. f[k] = AfterOf(f, deltas, k)
    BY <1>5
  <2>2. k # 0 => F[k - 1] = f[k - 1]
    BY <1>1
  <2> HIDE DEF F, G
  <2>3. QED
    BY <2>1, <2>2 DEF AfterOf
<1>9. F = G
  <2> SUFFICES \A k \in 0 .. L : AfterOf(F, deltas, k) = f[k]
    <3> DEFINE H == [k \in 0 .. L |-> AfterOf(F, deltas, k)]
    <3>1. H = [k \in 0 .. L |-> f[k]]
      <4> HIDE DEF F, G
      <4>1. QED
        BY <1>8
    <3>2. QED
      BY <3>1, Zenon DEF F, G, H
  <2>1. QED
    BY <1>8, Zenon
<1>10. QED
  BY <1>9, Zenon DEF IsAfter, F, G, L

LEMMA StreamedIs ==
    ASSUME NEW deltas \in Seq(Seq(Bytes))
    PROVE  \E f : IsAfter(f, deltas) /\ Streamed(deltas) = f[Len(deltas)].shown
<1> DEFINE F == CHOOSE f : IsAfter(f, deltas)
<1>1. IsAfter(F, deltas)
  BY AfterExists
<1>2. Streamed(deltas) = F[Len(deltas)].shown
  BY DEF Streamed, IsAfter, AfterOf, Nothing
<1>3. QED
  BY <1>1, <1>2

LEMMA FlushNothing == Nothing \in Flushed /\ FlushOut(Nothing, <<>>) = Nothing
<1>1. Nothing \in Flushed
  <2>1. <<>> \in Seq(Bytes)
    OBVIOUS
  <2>2. QED
    BY <2>1 DEF Nothing, Flushed
<1>2. Nothing.hold \o <<>> = <<>> /\ Nothing.shown = <<>>
  BY DEF Nothing
<1>3. CompleteTo(<<>>) = 0
  <2>1. CompleteTo(<<>>) \in 0 .. Len(<<>>)
    <3>1. <<>> \in Seq(Bytes)
      OBVIOUS
    <3>2. QED
      BY <3>1, CompleteType
  <2>2. QED
    BY <2>1
<1>4. SubSeq(<<>>, 1, 0) = <<>> /\ SubSeq(<<>>, 0 + 1, Len(<<>>)) = <<>> /\ <<>> \o <<>> = <<>>
  OBVIOUS
<1>5. FlushOut(Nothing, <<>>) =
        [shown |-> Nothing.shown \o SubSeq(<<>>, 1, 0), hold |-> SubSeq(<<>>, 0 + 1, Len(<<>>))]
  BY <1>2, <1>3 DEF FlushOut
<1>6. FlushOut(Nothing, <<>>) = [shown |-> <<>>, hold |-> <<>>]
  BY <1>2, <1>4, <1>5
<1>7. QED
  BY <1>1, <1>6 DEF Nothing

\* What is shown of a stream is what one flush of all its bytes shows.
LEMMA StreamIsOneFlush ==
    ASSUME NEW deltas \in Seq(Seq(Bytes))
    PROVE  Streamed(deltas) = FlushOut(Nothing, FlattenSeq(deltas)).shown
<1> DEFINE L == Len(deltas)
           first(k) == SubSeq(deltas, 1, k)
<1>1. L \in Nat
  OBVIOUS
<1>2. PICK f : IsAfter(f, deltas) /\ Streamed(deltas) = f[L].shown
  BY StreamedIs
<1>3. \A k \in 0 .. L : f[k] = AfterOf(f, deltas, k)
  BY <1>2, AfterAt
<1> DEFINE S == {k \in Nat : k <= L => f[k] = FlushOut(Nothing, FlattenSeq(first(k)))}
<1>4. 0 \in S
  <2>1. f[0] = Nothing
    BY <1>1, <1>3 DEF AfterOf
  <2>2. first(0) = <<>>
    OBVIOUS
  <2> HIDE DEF first
  <2>3. f[0] = FlushOut(Nothing, FlattenSeq(first(0)))
    BY <2>1, <2>2, FlattenEmpty, FlushNothing
  <2>4. QED
    BY <2>3
<1>5. ASSUME NEW k \in Nat, k \in S PROVE k + 1 \in S
  <2> SUFFICES ASSUME k + 1 <= L PROVE f[k + 1] = FlushOut(Nothing, FlattenSeq(first(k + 1)))
    OBVIOUS
  <2> DEFINE d == deltas[k + 1]
  <2>1. f[k + 1] = FlushOut(f[k], d)
    <3>1. k + 1 \in 0 .. L /\ (k + 1) - 1 = k /\ k + 1 # 0
      BY <1>1
    <3>2. f[k + 1] = FlushOut(f[(k + 1) - 1], deltas[k + 1])
      BY <1>3, <3>1 DEF AfterOf
    <3>3. QED
      BY <3>1, <3>2
  <2>2. f[k] = FlushOut(Nothing, FlattenSeq(first(k)))
    BY <1>1, <1>5
  <2>3. first(k) \in Seq(Seq(Bytes)) /\ d \in Seq(Bytes) /\ first(k + 1) = Append(first(k), d)
    BY <1>1
  <2> HIDE DEF first, d
  <2>4. FlattenSeq(first(k + 1)) = FlattenSeq(first(k)) \o d
    BY <2>3, FlattenAppend
  <2>5. FlattenSeq(first(k)) \in Seq(Bytes)
    BY <2>3, FlattenType
  <2>6. FlushOut(FlushOut(Nothing, FlattenSeq(first(k))), d) = FlushOut(Nothing, FlattenSeq(first(k)) \o d)
    BY <2>3, <2>5, FlushNothing, FlushTwice
  <2>7. QED
    BY <2>1, <2>2, <2>4, <2>6
<1>6. L \in S
  <2> HIDE DEF S
  <2>1. Nat \subseteq S
    BY <1>4, <1>5, SetInduction
  <2>2. QED
    BY <1>1, <2>1
<1>7. first(L) = deltas
  OBVIOUS
<1> HIDE DEF first
<1>8. QED
  BY <1>2, <1>6, <1>7

\* Wherever the tokens cut the bytes of a reply, its caller is shown the same.
THEOREM CutsNeverShow == \A deltas \in Seq(Seq(Bytes)) : CutsDoNotShow(deltas)
<1> SUFFICES ASSUME NEW deltas \in Seq(Seq(Bytes)) PROVE CutsDoNotShow(deltas)
  OBVIOUS
<1> DEFINE text == FlattenSeq(deltas)
<1>1. text \in Seq(Bytes)
  BY FlattenType
<1> HIDE DEF text
<1>2. <<text>> \in Seq(Seq(Bytes)) /\ <<>> \in Seq(Seq(Bytes)) /\ <<text>> = Append(<<>>, text)
  BY <1>1
<1>3. FlattenSeq(<<text>>) = <<>> \o text
  BY <1>1, <1>2, FlattenAppend, FlattenEmpty
<1>4. <<>> \o text = text
  BY <1>1
<1>5. Streamed(deltas) = FlushOut(Nothing, text).shown
  BY StreamIsOneFlush DEF text
<1>6. Streamed(<<text>>) = FlushOut(Nothing, text).shown
  BY <1>2, <1>3, <1>4, StreamIsOneFlush
<1>7. QED
  BY <1>5, <1>6, Zenon DEF CutsDoNotShow, text

\* Of a whole character everything is complete, of half a character nothing.
LEMMA CharComplete == \A c \in Chars : c \in Seq(Bytes) /\ CompleteTo(c) = Len(c)
<1> SUFFICES ASSUME NEW c \in Chars PROVE c \in Seq(Bytes) /\ CompleteTo(c) = Len(c)
  OBVIOUS
<1> DEFINE n == Utf8Len(c[1])
<1>1. /\ c \in Seq(Bytes) /\ Len(c) \in 1 .. 4 /\ n = Len(c)
      /\ \A k \in 1 .. n - 1 : c[1 + k] = "x"
  <2>1. CASE c = <<"a">>
    <3>1. c \in Seq(Bytes)
      BY <2>1 DEF Bytes
    <3>2. QED
      BY <2>1, <3>1 DEF Utf8Len
  <2>2. CASE c = <<"L", "x">>
    <3>1. c \in Seq(Bytes)
      BY <2>2 DEF Bytes
    <3>2. QED
      BY <2>2, <3>1 DEF Utf8Len
  <2>3. CASE c = <<"M", "x", "x">>
    <3>1. c \in Seq(Bytes)
      BY <2>3 DEF Bytes
    <3>2. QED
      BY <2>3, <3>1 DEF Utf8Len
  <2>4. CASE c = <<"N", "x", "x", "x">>
    <3>1. c \in Seq(Bytes)
      BY <2>4 DEF Bytes
    <3>2. QED
      BY <2>4, <3>1 DEF Utf8Len
  <2>5. QED
    BY <2>1, <2>2, <2>3, <2>4 DEF Chars
<1>2. PICK f : IsScan(f, c) /\ CompleteTo(c) = f[1]
  BY <1>1, CompleteIs
<1>3. Takes(c, 1)
  BY <1>1 DEF Takes
<1>4. f[1] = IF f[1 + n] = 0 THEN 1 + n - 1 ELSE f[1 + n]
  BY <1>1, <1>2, <1>3, ScanCases
<1> HIDE DEF n
<1>5. f[1 + n] = 0
  <2>1. \A i \in 1 .. Len(c) + 1 : f[i] = 0 \/ f[i] \in i .. Len(c)
    BY <1>1, <1>2, ScanType
  <2>2. 1 + n \in 1 .. Len(c) + 1 /\ 1 + n > Len(c)
    BY <1>1
  <2>3. QED
    BY <1>1, <2>1, <2>2
<1>6. QED
  BY <1>1, <1>2, <1>4, <1>5

LEMMA HalfCharHeld == \A t \in HalfChars : t \in Seq(Bytes) /\ CompleteTo(t) = 0
<1> SUFFICES ASSUME NEW t \in HalfChars PROVE t \in Seq(Bytes) /\ CompleteTo(t) = 0
  OBVIOUS
<1> DEFINE Half(u) == u \in Seq(Bytes) /\ (u = <<>> \/ (Len(u) \in 1 .. 3 /\ Utf8Len(u[1]) > Len(u)))
<1>1. Half(t)
  <2>1. CASE t = <<>>
    BY <2>1
  <2>2. CASE t = <<"L">>
    <3>1. t \in Seq(Bytes)
      BY <2>2 DEF Bytes
    <3>2. QED
      BY <2>2, <3>1 DEF Utf8Len
  <2>3. CASE t = <<"M">>
    <3>1. t \in Seq(Bytes)
      BY <2>3 DEF Bytes
    <3>2. QED
      BY <2>3, <3>1 DEF Utf8Len
  <2>4. CASE t = <<"M", "x">>
    <3>1. t \in Seq(Bytes)
      BY <2>4 DEF Bytes
    <3>2. QED
      BY <2>4, <3>1 DEF Utf8Len
  <2>5. CASE t = <<"N">>
    <3>1. t \in Seq(Bytes)
      BY <2>5 DEF Bytes
    <3>2. QED
      BY <2>5, <3>1 DEF Utf8Len
  <2>6. CASE t = <<"N", "x">>
    <3>1. t \in Seq(Bytes)
      BY <2>6 DEF Bytes
    <3>2. QED
      BY <2>6, <3>1 DEF Utf8Len
  <2>7. CASE t = <<"N", "x", "x">>
    <3>1. t \in Seq(Bytes)
      BY <2>7 DEF Bytes
    <3>2. QED
      BY <2>7, <3>1 DEF Utf8Len
  <2>8. QED
    BY <2>1, <2>2, <2>3, <2>4, <2>5, <2>6, <2>7 DEF HalfChars
<1>2. PICK f : IsScan(f, t) /\ CompleteTo(t) = f[1]
  BY <1>1, CompleteIs
<1>3. CASE t = <<>>
  <2>1. CompleteTo(t) \in 0 .. Len(t) /\ Len(t) = 0
    BY <1>1, <1>3, CompleteType
  <2>2. QED
    BY <1>1, <2>1
<1>4. CASE Len(t) \in 1 .. 3 /\ Utf8Len(t[1]) > Len(t)
  <2>1. Stops(t, 1)
    BY <1>4, ByteLength DEF Stops
  <2>2. f[1] = 0
    BY <1>1, <1>2, <1>4, <2>1, ScanCases
  <2>3. QED
    BY <1>1, <1>2, <2>2
<1>5. QED
  BY <1>1, <1>3, <1>4

\* One flush of whole characters shows them all and holds nothing.
LEMMA CharsShown ==
    ASSUME NEW chars \in Seq(Chars)
    PROVE  /\ FlattenSeq(chars) \in Seq(Bytes)
           /\ FlushOut(Nothing, FlattenSeq(chars)) = [shown |-> FlattenSeq(chars), hold |-> <<>>]
<1> DEFINE Shown(q) == /\ FlattenSeq(q) \in Seq(Bytes)
                       /\ FlushOut(Nothing, FlattenSeq(q)) = [shown |-> FlattenSeq(q), hold |-> <<>>]
           S == {n \in Nat : \A q \in Seq(Chars) : Len(q) = n => Shown(q)}
<1>1. 0 \in S
  <2> SUFFICES ASSUME NEW q \in Seq(Chars), Len(q) = 0 PROVE Shown(q)
    OBVIOUS
  <2>1. q = <<>>
    OBVIOUS
  <2>2. FlattenSeq(q) = <<>>
    BY <2>1, FlattenEmpty
  <2>3. <<>> \in Seq(Bytes)
    OBVIOUS
  <2>4. QED
    BY <2>2, <2>3, FlushNothing DEF Nothing
<1>2. ASSUME NEW n \in Nat, n \in S PROVE n + 1 \in S
  <2> SUFFICES ASSUME NEW q \in Seq(Chars), Len(q) = n + 1 PROVE Shown(q)
    OBVIOUS
  <2> DEFINE p == SubSeq(q, 1, n)
             c == q[n + 1]
             text == FlattenSeq(p)
             s == [shown |-> text, hold |-> <<>>]
  <2>1. p \in Seq(Chars) /\ Len(p) = n /\ c \in Chars /\ q = Append(p, c)
    OBVIOUS
  <2> HIDE DEF p, c
  <2>2. text \in Seq(Bytes) /\ FlushOut(Nothing, text) = s
    BY <1>2, <2>1
  <2>3. p \in Seq(Seq(Bytes)) /\ c \in Seq(Bytes) /\ CompleteTo(c) = Len(c) /\ Len(c) \in Nat
    BY <2>1, CharComplete
  <2>4. FlattenSeq(q) = text \o c
    BY <2>1, <2>3, FlattenAppend
  <2> HIDE DEF text
  <2>5. s \in Flushed /\ s.shown = text /\ s.hold = <<>>
    <3>1. <<>> \in Seq(Bytes)
      OBVIOUS
    <3>2. QED
      BY <2>2, <3>1 DEF Flushed
  <2>6. FlushOut(s, c) = [shown |-> text \o c, hold |-> <<>>]
    <3>1. <<>> \o c = c
      BY <2>3
    <3>2. SubSeq(c, 1, Len(c)) = c /\ SubSeq(c, Len(c) + 1, Len(c)) = <<>>
      BY <2>3
    <3>3. FlushOut(s, c) = [shown |-> text \o SubSeq(c, 1, Len(c)),
                            hold |-> SubSeq(c, Len(c) + 1, Len(c))]
      BY <2>3, <2>5, <3>1 DEF FlushOut
    <3>4. QED
      BY <3>2, <3>3
  <2>7. FlushOut(Nothing, text \o c) = FlushOut(s, c)
    BY <2>2, <2>3, FlushNothing, FlushTwice
  <2>8. text \o c \in Seq(Bytes)
    BY <2>2, <2>3
  <2>9. QED
    BY <2>4, <2>6, <2>7, <2>8
<1>3. Len(chars) \in S
  <2> HIDE DEF S
  <2>1. Nat \subseteq S
    BY <1>1, <1>2, SetInduction
  <2>2. QED
    BY <2>1
<1>4. QED
  BY <1>3

\* Of a well-formed text and half a character after it, cut anywhere, the caller is
\* shown the text and never a byte of the half.
THEOREM WellFormedIsShown ==
    \A chars \in Seq(Chars), tail \in HalfChars : WellFormedShown(chars, tail)
<1> SUFFICES ASSUME NEW chars \in Seq(Chars), NEW tail \in HalfChars,
                    NEW cut \in 0 .. Len(FlattenSeq(chars)) + Len(tail)
             PROVE  LET all == FlattenSeq(chars) \o tail
                    IN  Streamed(<<SubSeq(all, 1, cut), SubSeq(all, cut + 1, Len(all))>>)
                           = FlattenSeq(chars)
  BY Zenon DEF WellFormedShown
<1> DEFINE text == FlattenSeq(chars)
           all == text \o tail
           x == SubSeq(all, 1, cut)
           y == SubSeq(all, cut + 1, Len(all))
           s == [shown |-> text, hold |-> <<>>]
<1>1. text \in Seq(Bytes) /\ FlushOut(Nothing, text) = s
  BY CharsShown
<1>2. tail \in Seq(Bytes) /\ CompleteTo(tail) = 0
  BY HalfCharHeld
<1> HIDE DEF text
<1>3. all \in Seq(Bytes) /\ Len(all) = Len(text) + Len(tail) /\ Len(all) \in Nat
  BY <1>1, <1>2
<1>4. cut \in 0 .. Len(all)
  BY <1>3 DEF text
<1>5. FlushOut(Nothing, all).shown = text
  <2>1. s \in Flushed /\ s.shown = text /\ s.hold = <<>>
    <3>1. <<>> \in Seq(Bytes)
      OBVIOUS
    <3>2. QED
      BY <1>1, <3>1 DEF Flushed
  <2>2. FlushOut(Nothing, all) = FlushOut(s, tail)
    BY <1>1, <1>2, FlushNothing, FlushTwice
  <2>3. <<>> \o tail = tail /\ SubSeq(tail, 1, 0) = <<>> /\ text \o <<>> = text
    BY <1>1, <1>2
  <2>4. FlushOut(s, tail).shown = text \o SubSeq(tail, 1, 0)
    BY <1>2, <2>1, <2>3 DEF FlushOut
  <2>5. QED
    BY <2>2, <2>3, <2>4
<1> HIDE DEF all
<1>6. x \in Seq(Bytes) /\ y \in Seq(Bytes)
  BY <1>3, <1>4, CutInTwo
<1>7. x \o y = all
  BY <1>3, <1>4, CutRejoins
<1> HIDE DEF x, y
<1>8. <<x, y>> \in Seq(Seq(Bytes)) /\ FlattenSeq(<<x, y>>) = x \o y
  <2>1. <<>> \in Seq(Seq(Bytes)) /\ <<x>> \in Seq(Seq(Bytes)) /\ <<x, y>> \in Seq(Seq(Bytes))
        /\ <<x>> = Append(<<>>, x) /\ <<x, y>> = Append(<<x>>, y)
    BY <1>6
  <2>2. FlattenSeq(<<x>>) = <<>> \o x
    BY <1>6, <2>1, FlattenAppend, FlattenEmpty
  <2>3. <<>> \o x = x
    BY <1>6
  <2>4. FlattenSeq(<<x, y>>) = FlattenSeq(<<x>>) \o y
    BY <1>6, <2>1, FlattenAppend
  <2>5. QED
    BY <2>1, <2>2, <2>3, <2>4
<1>9. Streamed(<<x, y>>) = text
  BY <1>5, <1>7, <1>8, StreamIsOneFlush
<1>10. QED
  BY <1>9, Zenon DEF x, y, all, text

-------------------------------------------------------------------------------
(* The draw.                                                                     *)

PenaltyOf(f, logits, recent, from, k) ==
    IF k = 0 THEN logits ELSE [f[k - 1] EXCEPT ![recent[from + k]] = Penalised(@)]
IsPenalty(f, logits, recent, from, n) ==
    f = [k \in 0 .. n |-> PenaltyOf(f, logits, recent, from, k)]

LEMMA PenaltyExists ==
    ASSUME NEW logits, NEW recent, NEW from, NEW n \in Nat
    PROVE  \E f : IsPenalty(f, logits, recent, from, n)
<1> DEFINE Upto(f, m) == \A k \in 0 .. m : f[k] = PenaltyOf(f, logits, recent, from, k)
           S == {m \in Nat : \E f : Upto(f, m)}
<1>1. 0 \in S
  <2> DEFINE z == [k \in 0 .. 0 |-> logits]
  <2>1. \A k \in 0 .. 0 : z[k] = PenaltyOf(z, logits, recent, from, k)
    BY DEF PenaltyOf
  <2>2. QED
    BY <2>1
<1>2. ASSUME NEW m \in Nat, m \in S PROVE m + 1 \in S
  <2>1. PICK f : Upto(f, m)
    BY <1>2
  <2> DEFINE next == [f[m] EXCEPT ![recent[from + (m + 1)]] = Penalised(@)]
             g == [k \in 0 .. m + 1 |-> IF k = m + 1 THEN next ELSE f[k]]
  <2> HIDE DEF next
  <2>2. \A k \in 0 .. m + 1 : g[k] = IF k = m + 1 THEN next ELSE f[k]
    OBVIOUS
  <2> HIDE DEF g
  <2>3. ASSUME NEW k \in 0 .. m + 1 PROVE g[k] = PenaltyOf(g, logits, recent, from, k)
    <3>1. CASE k = m + 1
      <4>1. g[k] = next /\ g[k - 1] = f[m] /\ k # 0
        BY <2>2, <3>1
      <4>2. PenaltyOf(g, logits, recent, from, k)
              = [g[k - 1] EXCEPT ![recent[from + k]] = Penalised(@)]
        BY <4>1, Zenon DEF PenaltyOf
      <4>3. QED
        BY <3>1, <4>1, <4>2, Zenon DEF next
    <3>2. CASE k # m + 1
      <4>1. k \in 0 .. m /\ g[k] = f[k] /\ (k # 0 => g[k - 1] = f[k - 1])
        BY <2>2, <3>2
      <4>2. f[k] = PenaltyOf(f, logits, recent, from, k)
        BY <2>1, <4>1
      <4>3. CASE k = 0
        BY <4>1, <4>2, <4>3, Zenon DEF PenaltyOf
      <4>4. CASE k # 0
        BY <4>1, <4>2, <4>4, Zenon DEF PenaltyOf
      <4>5. QED
        BY <4>3, <4>4
    <3>3. QED
      BY <3>1, <3>2
  <2>4. Upto(g, m + 1)
    BY <2>3
  <2>5. QED
    BY <2>4
<1>3. n \in S
  <2> HIDE DEF S
  <2>1. Nat \subseteq S
    BY <1>1, <1>2, SetInduction
  <2>2. QED
    BY <2>1
<1>4. PICK f : Upto(f, n)
  BY <1>3
<1> DEFINE F == [k \in 0 .. n |-> f[k]]
           H == [k \in 0 .. n |-> PenaltyOf(F, logits, recent, from, k)]
<1>5. \A k \in 0 .. n : PenaltyOf(F, logits, recent, from, k) = f[k]
  <2> SUFFICES ASSUME NEW k \in 0 .. n PROVE PenaltyOf(F, logits, recent, from, k) = f[k]
    OBVIOUS
  <2>1. f[k] = PenaltyOf(f, logits, recent, from, k)
    BY <1>4
  <2>2. k # 0 => F[k - 1] = f[k - 1]
    OBVIOUS
  <2> HIDE DEF F, H
  <2>3. CASE k = 0
    BY <2>1, <2>3, Zenon DEF PenaltyOf
  <2>4. CASE k # 0
    BY <2>1, <2>2, <2>4, Zenon DEF PenaltyOf
  <2>5. QED
    BY <2>3, <2>4
<1>6. H = [k \in 0 .. n |-> f[k]]
  <2> HIDE DEF F
  <2>1. QED
    BY <1>5
<1>7. F = H
  BY <1>6, Zenon DEF F
<1>8. QED
  BY <1>7, Zenon DEF IsPenalty, F, H

\* A penalty masks no other token, and unmasks none.
LEMMA PenaltyKeepsTheMask ==
    ASSUME NEW V \in Nat, NEW logits \in [1 .. V -> Int],
           NEW recent \in Seq(1 .. V), Window \in Nat, Penalty \in Nat
    PROVE  LET lg == RepeatPenalty(logits, recent)
           IN  /\ lg \in [1 .. V -> Int]
               /\ \A t \in 1 .. V : logits[t] = Masked => lg[t] = Masked
<1> DEFINE n == IF Len(recent) > Window THEN Window ELSE Len(recent)
           from == Len(recent) - n
           F == CHOOSE f : IsPenalty(f, logits, recent, from, n)
<1>1. n \in Nat
  OBVIOUS
<1>2. IsPenalty(F, logits, recent, from, n)
  BY <1>1, PenaltyExists
<1>3. RepeatPenalty(logits, recent) = IF Penalty <= 1 THEN logits ELSE F[n]
  BY Zenon DEF RepeatPenalty, IsPenalty, PenaltyOf
<1> HIDE DEF F, n, from
<1>4. \A k \in 0 .. n : F[k] = PenaltyOf(F, logits, recent, from, k)
  <2> DEFINE G == [k \in 0 .. n |-> PenaltyOf(F, logits, recent, from, k)]
  <2>1. \A k \in 0 .. n : G[k] = PenaltyOf(F, logits, recent, from, k)
    OBVIOUS
  <2>2. F = G
    BY <1>2 DEF IsPenalty
  <2> HIDE DEF G
  <2>3. QED
    BY <2>1, <2>2, Zenon
<1> DEFINE Kept(lg) == /\ lg \in [1 .. V -> Int]
                       /\ \A t \in 1 .. V : logits[t] = Masked => lg[t] = Masked
<1>5. Kept(logits)
  OBVIOUS
<1>6. CASE Penalty <= 1
  BY <1>3, <1>5, <1>6
<1>7. CASE ~ (Penalty <= 1)
  <2> DEFINE S == {k \in Nat : k <= n => Kept(F[k])}
  <2>1. 0 \in S
    <3>1. 0 \in 0 .. n
      BY <1>1
    <3>2. F[0] = logits
      BY <1>4, <3>1, Zenon DEF PenaltyOf
    <3>3. QED
      BY <1>5, <3>2
  <2> HIDE DEF Kept
  <2>2. ASSUME NEW k \in Nat, k \in S PROVE k + 1 \in S
    <3> SUFFICES ASSUME k + 1 <= n PROVE Kept(F[k + 1])
      OBVIOUS
    <3> DEFINE lg == F[k]
               u == recent[from + (k + 1)]
    <3>1. Kept(lg)
      BY <1>1, <2>2
    <3>2. F[k + 1] = [lg EXCEPT ![u] = Penalised(@)]
      <4>1. k + 1 \in 0 .. n /\ (k + 1) - 1 = k /\ k + 1 # 0
        BY <1>1
      <4>2. F[k + 1] = PenaltyOf(F, logits, recent, from, k + 1)
        BY <1>4, <4>1
      <4>3. QED
        BY <4>1, <4>2, Zenon DEF PenaltyOf
    <3> HIDE DEF lg, u
    <3>3. Penalised(Masked) = Masked /\ \A v \in Int : Penalised(v) \in Int
      BY <1>7 DEF Penalised, Masked
    <3>4. QED
      BY <3>1, <3>2, <3>3 DEF Kept
  <2>3. n \in S
    <3> HIDE DEF S
    <3>1. Nat \subseteq S
      BY <2>1, <2>2, SetInduction
    <3>2. QED
      BY <1>1, <3>1
  <2>4. Kept(F[n])
    BY <1>1, <2>3
  <2>5. QED
    BY <1>3, <1>7, <2>4 DEF Kept
<1>8. QED
  BY <1>6, <1>7

\* What survives the cut are tokens that are not masked.
LEMMA SurvivorsAreNotMasked ==
    ASSUME NEW V \in Nat, NEW logits, DOMAIN logits = 1 .. V, TopK \in 1 .. V,
           NEW r \in Rankings(logits), NEW topP
    PROVE  \A t \in Survivors(logits, r, topP) : t \in 1 .. V /\ logits[t] # Masked
<1> DEFINE pr  == [i \in 1 .. TopK |-> Mass(logits, r[i])]
           cut == {k \in 1 .. TopK : 100 * SumOver(pr, 1 .. k) >= topP * SumOver(pr, 1 .. TopK)}
           keep == IF cut = {} THEN TopK ELSE Min(cut)
<1>1. r \in [1 .. V -> 1 .. V]
  BY DEF Rankings, Bijection, Injection, Surjection, IsInjective
<1>2. Survivors(logits, r, topP) = {r[i] : i \in {k \in 1 .. keep : pr[k] > 0}}
  BY Zenon DEF Survivors
<1>3. \A i \in 1 .. TopK : pr[i] = Mass(logits, r[i])
  OBVIOUS
<1>4. cut \subseteq 1 .. TopK
  OBVIOUS
<1> HIDE DEF pr, cut
<1>5. keep \in 1 .. TopK
  <2>1. CASE cut = {}
    BY <2>1
  <2>2. CASE cut # {}
    <3>1. cut \subseteq Nat
      BY <1>4
    <3>2. Min(cut) \in cut
      BY <2>2, <3>1, LeastElement
    <3>3. QED
      BY <1>4, <2>2, <3>2
  <2>3. QED
    BY <2>1, <2>2
<1> HIDE DEF keep
<1> SUFFICES ASSUME NEW t \in Survivors(logits, r, topP) PROVE t \in 1 .. V /\ logits[t] # Masked
  OBVIOUS
<1>6. PICK i \in 1 .. keep : pr[i] > 0 /\ t = r[i]
  BY <1>2
<1>7. i \in 1 .. TopK /\ i \in 1 .. V
  BY <1>5
<1>8. Mass(logits, t) > 0
  BY <1>3, <1>6, <1>7
<1>9. logits[t] # Masked
  BY <1>8 DEF Mass
<1>10. QED
  BY <1>1, <1>6, <1>7, <1>9

\* Among finitely many logits one is greatest, and of these one comes first.
LEMMA GreedyExists ==
    ASSUME NEW V \in Nat \ {0}, NEW logits \in [1 .. V -> Int]
    PROVE  /\ Greedy(logits) \in 1 .. V
           /\ \A u \in 1 .. V : logits[Greedy(logits)] >= logits[u]
<1> DEFINE Best(t, m) == \A u \in 1 .. m :
                            logits[t] > logits[u] \/ (logits[t] = logits[u] /\ t <= u)
           S == {m \in Nat : m + 1 <= V => \E t \in 1 .. m + 1 : Best(t, m + 1)}
<1>1. 0 \in S
  <2>1. 1 \in 1 .. 0 + 1 /\ Best(1, 0 + 1)
    OBVIOUS
  <2>2. QED
    BY <2>1
<1>2. ASSUME NEW m \in Nat, m \in S PROVE m + 1 \in S
  <2> SUFFICES ASSUME (m + 1) + 1 <= V
               PROVE  \E t \in 1 .. (m + 1) + 1 : Best(t, (m + 1) + 1)
    OBVIOUS
  <2> DEFINE new == (m + 1) + 1
  <2>1. PICK t \in 1 .. m + 1 : Best(t, m + 1)
    BY <1>2
  <2>2. \A u \in 1 .. new : u \in 1 .. m + 1 \/ u = new
    OBVIOUS
  <2>3. \A u \in 1 .. new : logits[u] \in Int
    OBVIOUS
  <2>4. CASE logits[new] > logits[t]
    <3>1. Best(new, new)
      BY <2>1, <2>2, <2>3, <2>4
    <3>2. QED
      BY <3>1
  <2>5. CASE ~ (logits[new] > logits[t])
    <3>1. Best(t, new)
      BY <2>1, <2>2, <2>3, <2>5
    <3>2. QED
      BY <3>1
  <2>6. QED
    BY <2>4, <2>5
<1>3. V - 1 \in S
  <2> HIDE DEF S
  <2>1. Nat \subseteq S
    BY <1>1, <1>2, SetInduction
  <2>2. QED
    BY <2>1
<1>4. \E t \in 1 .. V : Best(t, V)
  BY <1>3
<1>5. DOMAIN logits = 1 .. V
  OBVIOUS
<1>6. Greedy(logits) \in 1 .. V /\ Best(Greedy(logits), V)
  BY <1>4, <1>5 DEF Greedy
<1>7. QED
  BY <1>6

\* A token the grammar masked is never emitted: not when one is drawn, whatever the
\* penalty did to the logits and wherever the cut fell, and not when the greatest is
\* taken, as long as the penalty has left an allowed token above a masked one.
THEOREM EmittedIsAllowed ==
    ASSUME NEW V \in Nat, NEW logits \in [1 .. V -> Int], NEW recent \in Seq(1 .. V),
           NEW allowed \in SUBSET (1 .. V), NEW topP,
           Window \in Nat, Penalty \in Nat, TopK \in 1 .. V
    PROVE  /\ Drawn(logits, recent, allowed, topP, FALSE) \subseteq allowed
           /\ (\E u \in allowed : RepeatPenalty(MaskedOut(logits, allowed), recent)[u] > Masked)
                => Drawn(logits, recent, allowed, topP, TRUE) \subseteq allowed
<1> DEFINE masked == MaskedOut(logits, allowed)
           lg == RepeatPenalty(masked, recent)
<1>1. masked \in [1 .. V -> Int] /\ \A t \in (1 .. V) \ allowed : masked[t] = Masked
  BY DEF MaskedOut, Masked
<1> HIDE DEF masked
<1>2. lg \in [1 .. V -> Int] /\ \A t \in (1 .. V) \ allowed : lg[t] = Masked
  <2>1. lg \in [1 .. V -> Int] /\ \A t \in 1 .. V : masked[t] = Masked => lg[t] = Masked
    BY <1>1, PenaltyKeepsTheMask, Zenon
  <2>2. QED
    BY <1>1, <2>1
<1>3. Drawn(logits, recent, allowed, topP, FALSE) = UNION {Survivors(lg, r, topP) : r \in Rankings(lg)}
  BY Zenon DEF Drawn, masked
<1>4. Drawn(logits, recent, allowed, topP, TRUE) = {Greedy(lg)}
  BY Zenon DEF Drawn, masked
<1> HIDE DEF lg
<1>5. ASSUME NEW r \in Rankings(lg), NEW t \in Survivors(lg, r, topP)
      PROVE  t \in allowed
  <2>1. t \in 1 .. V /\ lg[t] # Masked
    BY <1>2, SurvivorsAreNotMasked
  <2>2. QED
    BY <1>2, <2>1
<1>6. ASSUME NEW u \in allowed, lg[u] > Masked
      PROVE  Greedy(lg) \in allowed
  <2>1. V \in Nat \ {0} /\ u \in 1 .. V
    OBVIOUS
  <2>2. Greedy(lg) \in 1 .. V /\ lg[Greedy(lg)] >= lg[u]
    BY <1>2, <2>1, GreedyExists
  <2>3. lg[Greedy(lg)] # Masked
    BY <1>2, <1>6, <2>1, <2>2 DEF Masked
  <2>4. QED
    BY <1>2, <2>2, <2>3
<1>7. (\E u \in allowed : lg[u] > Masked) =>
         Drawn(logits, recent, allowed, topP, TRUE) \subseteq allowed
  BY <1>4, <1>6
<1>8. Drawn(logits, recent, allowed, topP, FALSE) \subseteq allowed
  BY <1>3, <1>5
<1>9. QED
  BY <1>7, <1>8, Zenon DEF lg, masked

-------------------------------------------------------------------------------
(* Sums over finite sets. The community module's fold takes the elements in an   *)
(* order of its own; what it returns does not depend on it.                      *)

First(s) == CHOOSE x \in s : TRUE
SumAt(it, f, s) == IF s = {} THEN 0 ELSE f[First(s)] + it[s \ {First(s)}]

\* it is the recursion of the fold over S.
IsSum(it, f, S) == it = [s \in SUBSET S |-> SumAt(it, f, s)]

LEMMA FirstIsIn == \A s : s # {} => First(s) \in s
  BY DEF First

\* A set is a subset of a finite one with its first element, and smaller without it.
LEMMA OneFewer ==
    ASSUME NEW S, IsFiniteSet(S), NEW s \in SUBSET S, NEW x \in s
    PROVE  /\ IsFiniteSet(s) /\ Cardinality(s) \in Nat
           /\ s \ {x} \in SUBSET S /\ IsFiniteSet(s \ {x})
           /\ Cardinality(s \ {x}) \in Nat /\ Cardinality(s) = Cardinality(s \ {x}) + 1
<1>1. IsFiniteSet(s)
  BY FS_Subset
<1>2. Cardinality(s) \in Nat
  BY <1>1, FS_CardinalityType
<1>3. IsFiniteSet(s \ {x}) /\ Cardinality(s \ {x}) = Cardinality(s) - 1
  BY <1>1, FS_RemoveElement
<1>4. Cardinality(s \ {x}) \in Nat
  BY <1>3, FS_CardinalityType
<1>5. QED
  BY <1>1, <1>2, <1>3, <1>4

\* What the recursion says at each subset.
LEMMA SumAtEach ==
    ASSUME NEW S, NEW f, NEW it, IsSum(it, f, S)
    PROVE  \A s \in SUBSET S : it[s] = SumAt(it, f, s)
<1> DEFINE g == [s \in SUBSET S |-> SumAt(it, f, s)]
<1>1. \A s \in SUBSET S : g[s] = SumAt(it, f, s)
  OBVIOUS
<1>2. it = g
  BY DEF IsSum
<1> HIDE DEF g
<1>3. QED
  BY <1>1, <1>2, Zenon

\* SumAt looks at its first argument in one place only.
LEMMA SumAtSame ==
    ASSUME NEW f, NEW s, NEW it, NEW other,
           s # {} => it[s \ {First(s)}] = other[s \ {First(s)}]
    PROVE  SumAt(it, f, s) = SumAt(other, f, s)
<1>1. CASE s = {}
  BY <1>1, Zenon DEF SumAt
<1>2. CASE s # {}
  <2>1. SumAt(it, f, s) = f[First(s)] + it[s \ {First(s)}]
    BY <1>2, Zenon DEF SumAt
  <2>2. SumAt(other, f, s) = f[First(s)] + other[s \ {First(s)}]
    BY <1>2, Zenon DEF SumAt
  <2>3. QED
    BY <1>2, <2>1, <2>2, Zenon
<1>3. QED
  BY <1>1, <1>2

LEMMA SumExists == ASSUME NEW S, IsFiniteSet(S), NEW f PROVE \E it : IsSum(it, f, S)
<1> DEFINE Upto(it, n) == \A s \in SUBSET S : Cardinality(s) <= n => it[s] = SumAt(it, f, s)
           T == {n \in Nat : \E it : Upto(it, n)}
<1>1. \A s \in SUBSET S : IsFiniteSet(s) /\ Cardinality(s) \in Nat /\ Cardinality(s) <= Cardinality(S)
  <2> SUFFICES ASSUME NEW s \in SUBSET S
               PROVE  IsFiniteSet(s) /\ Cardinality(s) \in Nat /\ Cardinality(s) <= Cardinality(S)
    OBVIOUS
  <2>1. IsFiniteSet(s) /\ Cardinality(s) <= Cardinality(S)
    BY FS_Subset
  <2>2. QED
    BY <2>1, FS_CardinalityType
<1>2. 0 \in T
  <2> DEFINE z == [s \in SUBSET S |-> 0]
  <2>1. \A s \in SUBSET S : Cardinality(s) <= 0 => s = {}
    <3> SUFFICES ASSUME NEW s \in SUBSET S, Cardinality(s) <= 0 PROVE s = {}
      OBVIOUS
    <3>1. Cardinality(s) = 0 /\ IsFiniteSet(s)
      BY <1>1
    <3>2. QED
      BY <3>1, FS_EmptySet
  <2>2. \A s \in SUBSET S : z[s] = 0
    OBVIOUS
  <2> HIDE DEF z
  <2>3. Upto(z, 0)
    BY <2>1, <2>2 DEF SumAt
  <2>4. QED
    BY <2>3
<1>3. ASSUME NEW n \in Nat, n \in T PROVE n + 1 \in T
  <2>1. PICK it : Upto(it, n)
    BY <1>3
  <2> DEFINE g == [s \in SUBSET S |-> IF Cardinality(s) <= n THEN it[s] ELSE SumAt(it, f, s)]
  <2>2. \A s \in SUBSET S : g[s] = IF Cardinality(s) <= n THEN it[s] ELSE SumAt(it, f, s)
    OBVIOUS
  <2> HIDE DEF g
  <2>3. ASSUME NEW s \in SUBSET S, Cardinality(s) <= n + 1 PROVE g[s] = SumAt(g, f, s)
    <3>1. g[s] = SumAt(it, f, s)
      BY <2>1, <2>2
    <3>2. s # {} => it[s \ {First(s)}] = g[s \ {First(s)}]
      <4> SUFFICES ASSUME s # {} PROVE it[s \ {First(s)}] = g[s \ {First(s)}]
        OBVIOUS
      <4> DEFINE less == s \ {First(s)}
      <4>1. First(s) \in s
        BY FirstIsIn
      <4>2. less \in SUBSET S /\ Cardinality(less) \in Nat /\ Cardinality(s) = Cardinality(less) + 1
        BY <4>1, OneFewer
      <4> HIDE DEF less
      <4>3. Cardinality(less) <= n
        BY <2>3, <4>2
      <4>4. g[less] = it[less]
        BY <2>2, <4>2, <4>3
      <4>5. QED
        BY <4>4 DEF less
    <3>3. SumAt(it, f, s) = SumAt(g, f, s)
      BY <3>2, SumAtSame
    <3>4. QED
      BY <3>1, <3>3
  <2>4. Upto(g, n + 1)
    BY <2>3
  <2>5. QED
    BY <2>4
<1>4. Cardinality(S) \in T
  <2> HIDE DEF T
  <2>1. Nat \subseteq T
    BY <1>2, <1>3, SetInduction
  <2>2. QED
    BY <2>1, FS_CardinalityType
<1>5. PICK it : Upto(it, Cardinality(S))
  BY <1>4
<1> DEFINE F == [s \in SUBSET S |-> it[s]]
           H == [s \in SUBSET S |-> SumAt(F, f, s)]
<1>6. \A s \in SUBSET S : SumAt(F, f, s) = it[s]
  <2> SUFFICES ASSUME NEW s \in SUBSET S PROVE SumAt(F, f, s) = it[s]
    OBVIOUS
  <2>1. it[s] = SumAt(it, f, s)
    BY <1>1, <1>5
  <2>2. \A u \in SUBSET S : F[u] = it[u]
    OBVIOUS
  <2> HIDE DEF F, H
  <2>3. s # {} => F[s \ {First(s)}] = it[s \ {First(s)}]
    BY <2>2
  <2>4. SumAt(F, f, s) = SumAt(it, f, s)
    BY <2>3, SumAtSame
  <2>5. QED
    BY <2>1, <2>4
<1>7. H = [s \in SUBSET S |-> it[s]]
  <2> HIDE DEF F
  <2>1. QED
    BY <1>6
<1>8. F = H
  BY <1>7, Zenon DEF F
<1>9. QED
  BY <1>8, Zenon DEF IsSum, F, H

\* SumOver is the recursion, at the whole set.
LEMMA SumIs ==
    ASSUME NEW S, IsFiniteSet(S), NEW f
    PROVE  \E it : IsSum(it, f, S) /\ SumOver(f, S) = it[S]
<1> DEFINE it == CHOOSE g : IsSum(g, f, S)
<1>1. IsSum(it, f, S)
  BY SumExists
<1>2. SumOver(f, S) = it[S]
  BY Zenon DEF SumOver, MapThenSumSet, MapThenFoldSet, IsSum, SumAt, First
<1>3. QED
  BY <1>1, <1>2

\* The recursions over two sets agree at the subsets they share.
LEMMA SumsAgree ==
    ASSUME NEW S, NEW U, IsFiniteSet(S), NEW f, NEW it, NEW other,
           IsSum(it, f, S), IsSum(other, f, U)
    PROVE  \A s : s \in SUBSET S /\ s \in SUBSET U => it[s] = other[s]
<1> DEFINE Agree(n) == \A s \in SUBSET S : s \in SUBSET U /\ Cardinality(s) <= n => it[s] = other[s]
           T == {n \in Nat : Agree(n)}
<1>1. \A s \in SUBSET S : IsFiniteSet(s) /\ Cardinality(s) \in Nat /\ Cardinality(s) <= Cardinality(S)
  <2> SUFFICES ASSUME NEW s \in SUBSET S
               PROVE  IsFiniteSet(s) /\ Cardinality(s) \in Nat /\ Cardinality(s) <= Cardinality(S)
    OBVIOUS
  <2>1. IsFiniteSet(s) /\ Cardinality(s) <= Cardinality(S)
    BY FS_Subset
  <2>2. QED
    BY <2>1, FS_CardinalityType
<1>2. ASSUME NEW s \in SUBSET S, s \in SUBSET U,
             s # {} => it[s \ {First(s)}] = other[s \ {First(s)}]
      PROVE  it[s] = other[s]
  <2>1. it[s] = SumAt(it, f, s) /\ other[s] = SumAt(other, f, s)
    BY <1>2, SumAtEach
  <2>2. SumAt(it, f, s) = SumAt(other, f, s)
    BY <1>2, SumAtSame
  <2>3. QED
    BY <2>1, <2>2
<1>3. 0 \in T
  <2> SUFFICES ASSUME NEW s \in SUBSET S, s \in SUBSET U, Cardinality(s) <= 0
               PROVE  it[s] = other[s]
    OBVIOUS
  <2>1. Cardinality(s) = 0 /\ IsFiniteSet(s)
    BY <1>1
  <2>2. s = {}
    BY <2>1, FS_EmptySet
  <2>3. QED
    BY <1>2, <2>2
<1>4. ASSUME NEW n \in Nat, n \in T PROVE n + 1 \in T
  <2> SUFFICES ASSUME NEW s \in SUBSET S, s \in SUBSET U, Cardinality(s) <= n + 1
               PROVE  it[s] = other[s]
    OBVIOUS
  <2>1. s # {} => it[s \ {First(s)}] = other[s \ {First(s)}]
    <3> SUFFICES ASSUME s # {} PROVE it[s \ {First(s)}] = other[s \ {First(s)}]
      OBVIOUS
    <3> DEFINE less == s \ {First(s)}
    <3>1. First(s) \in s
      BY FirstIsIn
    <3>2. less \in SUBSET S /\ Cardinality(less) \in Nat /\ Cardinality(s) = Cardinality(less) + 1
      BY <3>1, OneFewer
    <3>3. less \in SUBSET U
      OBVIOUS
    <3> HIDE DEF less
    <3>4. Cardinality(less) <= n
      BY <3>2
    <3>5. it[less] = other[less]
      BY <1>4, <3>2, <3>3, <3>4
    <3>6. QED
      BY <3>5 DEF less
  <2>2. QED
    BY <1>2, <2>1
<1>5. Cardinality(S) \in T
  <2> HIDE DEF T
  <2>1. Nat \subseteq T
    BY <1>3, <1>4, SetInduction
  <2>2. QED
    BY <2>1, FS_CardinalityType
<1>6. QED
  BY <1>1, <1>5

LEMMA SumOfNone == \A f : SumOver(f, {}) = 0
<1> SUFFICES ASSUME NEW f PROVE SumOver(f, {}) = 0
  OBVIOUS
<1>1. PICK it : IsSum(it, f, {}) /\ SumOver(f, {}) = it[{}]
  BY SumIs, FS_EmptySet
<1>2. it[{}] = SumAt(it, f, {})
  BY <1>1, SumAtEach
<1>3. QED
  BY <1>1, <1>2 DEF SumAt

\* A sum is its first element and the sum of the others.
LEMMA SumOfFirst ==
    ASSUME NEW S, IsFiniteSet(S), S # {}, NEW f
    PROVE  SumOver(f, S) = f[First(S)] + SumOver(f, S \ {First(S)})
<1> DEFINE less == S \ {First(S)}
<1>1. First(S) \in S
  BY FirstIsIn
<1>2. less \in SUBSET S /\ IsFiniteSet(less)
  BY <1>1, OneFewer
<1>3. PICK it : IsSum(it, f, S) /\ SumOver(f, S) = it[S]
  BY SumIs
<1>4. PICK other : IsSum(other, f, less) /\ SumOver(f, less) = other[less]
  BY <1>2, SumIs
<1>5. it[S] = SumAt(it, f, S)
  BY <1>3, SumAtEach
<1>6. it[less] = other[less]
  <2> HIDE DEF less
  <2>1. less \in SUBSET less
    OBVIOUS
  <2>2. QED
    BY <1>2, <1>3, <1>4, <2>1, SumsAgree
<1>7. SumAt(it, f, S) = f[First(S)] + it[less]
  BY Zenon DEF SumAt
<1>8. QED
  BY <1>3, <1>4, <1>5, <1>6, <1>7

\* Any element of a set of U may be taken first in its sum, and the sum is a number.
AnyFirst(f, U) ==
    \A S \in SUBSET U : /\ SumOver(f, S) \in Nat
                        /\ \A x \in S : SumOver(f, S) = f[x] + SumOver(f, S \ {x})

\* A sum of natural numbers is one, and any of its elements may be taken first.
LEMMA SumWithout ==
    ASSUME NEW U, IsFiniteSet(U), NEW f, \A x \in U : f[x] \in Nat
    PROVE  AnyFirst(f, U)
<1> DEFINE Holds(S) == /\ SumOver(f, S) \in Nat
                       /\ \A x \in S : SumOver(f, S) = f[x] + SumOver(f, S \ {x})
           T == {n \in Nat : \A S \in SUBSET U : Cardinality(S) <= n => Holds(S)}
<1>1. \A s \in SUBSET U : IsFiniteSet(s) /\ Cardinality(s) \in Nat /\ Cardinality(s) <= Cardinality(U)
  <2> SUFFICES ASSUME NEW s \in SUBSET U
               PROVE  IsFiniteSet(s) /\ Cardinality(s) \in Nat /\ Cardinality(s) <= Cardinality(U)
    OBVIOUS
  <2>1. IsFiniteSet(s) /\ Cardinality(s) <= Cardinality(U)
    BY FS_Subset
  <2>2. QED
    BY <2>1, FS_CardinalityType
<1>2. Holds({})
  BY SumOfNone
<1>3. 0 \in T
  <2> SUFFICES ASSUME NEW S \in SUBSET U, Cardinality(S) <= 0 PROVE Holds(S)
    OBVIOUS
  <2> HIDE DEF Holds
  <2>1. Cardinality(S) = 0 /\ IsFiniteSet(S)
    BY <1>1
  <2>2. S = {}
    BY <2>1, FS_EmptySet
  <2>3. QED
    BY <1>2, <2>2
<1>4. ASSUME NEW n \in Nat, n \in T PROVE n + 1 \in T
  <2> SUFFICES ASSUME NEW S \in SUBSET U, Cardinality(S) <= n + 1, S # {} PROVE Holds(S)
    BY <1>2
  <2> DEFINE c == First(S)
  <2>1. c \in S
    BY FirstIsIn
  <2>2. IsFiniteSet(S)
    BY <1>1
  <2>3. SumOver(f, S) = f[c] + SumOver(f, S \ {c})
    BY <2>2, SumOfFirst
  <2> HIDE DEF c
  <2>4. ASSUME NEW x \in S PROVE Holds(S \ {x}) /\ f[x] \in Nat
    <3>1. S \ {x} \in SUBSET U /\ Cardinality(S \ {x}) \in Nat
          /\ Cardinality(S) = Cardinality(S \ {x}) + 1 /\ Cardinality(S) \in Nat
      BY OneFewer
    <3>2. Cardinality(S \ {x}) <= n
      BY <3>1
    <3> HIDE DEF Holds
    <3>3. QED
      BY <1>4, <3>1, <3>2
  <2>5. SumOver(f, S) \in Nat
    BY <2>1, <2>3, <2>4
  <2>6. ASSUME NEW x \in S PROVE SumOver(f, S) = f[x] + SumOver(f, S \ {x})
    <3>1. CASE x = c
      BY <2>3, <3>1
    <3>2. CASE x # c
      <4> DEFINE both == (S \ {c}) \ {x}
      <4>1. x \in S \ {c} /\ c \in S \ {x} /\ (S \ {x}) \ {c} = both
        BY <2>1, <3>2
      <4>2. SumOver(f, S \ {c}) = f[x] + SumOver(f, both)
        BY <2>1, <2>4, <4>1
      <4>3. SumOver(f, S \ {x}) = f[c] + SumOver(f, both)
        BY <2>4, <4>1
      <4>4. f[x] \in Nat /\ f[c] \in Nat /\ Holds(S \ {c}) /\ Holds(S \ {x})
        BY <2>1, <2>4
      <4>5. SumOver(f, both) \in Nat
        <5> DEFINE less == S \ {c}
        <5>1. less \in SUBSET U /\ x \in less /\ less \ {x} = both
          BY <4>1
        <5>3. Cardinality(S) = Cardinality(less) + 1 /\ Cardinality(less) \in Nat
          BY <2>1, OneFewer
        <5> HIDE DEF less, both
        <5>2. /\ less \ {x} \in SUBSET U /\ Cardinality(less \ {x}) \in Nat
              /\ Cardinality(less) = Cardinality(less \ {x}) + 1
          BY <5>1, OneFewer
        <5>4. Cardinality(both) <= n /\ both \in SUBSET U
          BY <5>1, <5>2, <5>3
        <5>5. QED
          BY <1>4, <5>4
      <4> HIDE DEF both
      <4>6. QED
        BY <2>3, <4>2, <4>3, <4>4, <4>5
    <3>3. QED
      BY <3>1, <3>2
  <2>7. QED
    BY <2>5, <2>6
<1>5. Cardinality(U) \in T
  <2> HIDE DEF T
  <2>1. Nat \subseteq T
    BY <1>3, <1>4, SetInduction
  <2>2. QED
    BY <2>1, FS_CardinalityType
<1> HIDE DEF Holds
<1>6. \A S \in SUBSET U : Holds(S)
  BY <1>1, <1>5
<1>7. QED
  BY <1>6, Zenon DEF Holds, AnyFirst

\* The first k values of r.
Firsts(r, k) == {r[i] : i \in 1 .. k}

\* p lists the values of f in the order of r, n of them.
ListsValues(p, f, r, V, n) ==
    /\ IsInjective(r)
    /\ (\A t \in 1 .. V : f[t] \in Nat) /\ \A i \in 1 .. n : p[i] = f[r[i]]

\* A sum may be taken over the places of its elements in a ranking.
LEMMA SumOfRanked ==
    ASSUME NEW V \in Nat, NEW n \in 0 .. V, NEW r \in [1 .. V -> 1 .. V], NEW f, NEW p,
           ListsValues(p, f, r, V, n)
    PROVE  \A k \in 0 .. n : SumOver(f, Firsts(r, k)) = SumOver(p, 1 .. k)
<1> DEFINE Same(k) == SumOver(f, Firsts(r, k)) = SumOver(p, 1 .. k)
           T == {k \in Nat : k <= n => Same(k)}
           D == 1 .. V
           E == 1 .. n
<1> SUFFICES ASSUME IsInjective(r), \A t \in 1 .. V : f[t] \in Nat, \A i \in 1 .. n : p[i] = f[r[i]]
             PROVE  \A k \in 0 .. n : Same(k)
  BY DEF ListsValues
<1>1. IsFiniteSet(D) /\ IsFiniteSet(E)
  <2>1. 1 \in Int /\ V \in Int /\ n \in Int
    OBVIOUS
  <2>2. QED
    BY <2>1, FS_Interval
<1>3. (\A t \in D : f[t] \in Nat) /\ \A i \in E : p[i] \in Nat
  <2> SUFFICES ASSUME NEW i \in 1 .. n PROVE p[i] \in Nat
    OBVIOUS
  <2>1. i \in 1 .. V
    OBVIOUS
  <2>2. r[i] \in 1 .. V
    BY <2>1
  <2>3. QED
    BY <2>2
<1>2. AnyFirst(f, D) /\ AnyFirst(p, E)
  <2> HIDE DEF D, E
  <2>1. QED
    BY <1>1, <1>3, SumWithout
<1>5. 0 \in T
  <2>1. Firsts(r, 0) = {} /\ 1 .. 0 = {}
    BY DEF Firsts
  <2>2. QED
    BY <2>1, SumOfNone
<1>6. ASSUME NEW k \in Nat, k \in T PROVE k + 1 \in T
  <2> SUFFICES ASSUME k + 1 <= n PROVE Same(k + 1)
    OBVIOUS
  <2> DEFINE R == Firsts(r, k + 1)
             I == 1 .. k + 1
  <2>1. r[k + 1] \in R /\ R \in SUBSET D
    BY DEF Firsts
  <2>2. R \ {r[k + 1]} = Firsts(r, k)
    <3>1. \A i \in 1 .. k : r[i] # r[k + 1]
      BY DEF IsInjective
    <3>2. \A i : i \in 1 .. k + 1 <=> i \in 1 .. k \/ i = k + 1
      OBVIOUS
    <3>3. ASSUME NEW x PROVE x \in R \ {r[k + 1]} <=> x \in Firsts(r, k)
      BY <3>1, <3>2, Zenon DEF Firsts
    <3>4. QED
      BY <3>3, Zenon
  <2>3. k + 1 \in I /\ I \in SUBSET E /\ I \ {k + 1} = 1 .. k
    <3>1. \A i \in I : i \in E
      OBVIOUS
    <3>2. \A i : i \in I \ {k + 1} <=> i \in 1 .. k
      <4>1. \A i : i \in I <=> i \in 1 .. k \/ i = k + 1
        OBVIOUS
      <4>2. k + 1 \notin 1 .. k
        OBVIOUS
      <4> HIDE DEF I
      <4>3. QED
        BY <4>1, <4>2
    <3>3. k + 1 \in I
      OBVIOUS
    <3> HIDE DEF I, E
    <3>4. QED
      BY <3>1, <3>2, <3>3
  <2>4. SumOver(f, R) = f[r[k + 1]] + SumOver(f, Firsts(r, k))
    <3> DEFINE x == r[k + 1]
    <3> HIDE DEF D, R, x
    <3>1. x \in R /\ R \in SUBSET D /\ R \ {x} = Firsts(r, k)
      BY <2>1, <2>2 DEF x
    <3>2. SumOver(f, R) = f[x] + SumOver(f, R \ {x})
      BY <1>2, <3>1, Zenon DEF AnyFirst
    <3>3. QED
      BY <3>1, <3>2 DEF x
  <2>5. SumOver(p, I) = p[k + 1] + SumOver(p, 1 .. k)
    BY <1>2, <2>3, Zenon DEF AnyFirst
  <2>6. p[k + 1] = f[r[k + 1]] /\ Same(k)
    BY <1>6
  <2>7. QED
    BY <2>4, <2>5, <2>6
<1>7. Nat \subseteq T
  <2> HIDE DEF T
  <2>1. QED
    BY <1>5, <1>6, SetInduction
<1>8. QED
  BY <1>7

-------------------------------------------------------------------------------
(* The nucleus.                                                                  *)

\* A weight is a positive number, of any logit.
WeightIsPositive == \A v \in Int : Weight(v) \in Nat \ {0}

\* The tokens of a vocabulary of V have logits, of which at least one is not Masked
\* and none is below it, as none is below minus infinity.
SomeAreDrawable(lg, V) == /\ lg \in [1 .. V -> Int] /\ \A t \in 1 .. V : lg[t] >= Masked
                          /\ \E t \in 1 .. V : lg[t] > Masked

LEMMA MassType ==
    ASSUME NEW V \in Nat, NEW lg, SomeAreDrawable(lg, V), WeightIsPositive
    PROVE  \A t \in 1 .. V : /\ Mass(lg, t) \in Nat
                             /\ Mass(lg, t) > 0 <=> lg[t] > Masked
<1> SUFFICES ASSUME NEW t \in 1 .. V
             PROVE  Mass(lg, t) \in Nat /\ (Mass(lg, t) > 0 <=> lg[t] > Masked)
  OBVIOUS
<1> DEFINE v == lg[t]
           w == Weight(v)
<1>1. v \in Int /\ v >= Masked /\ Masked \in Int
  BY DEF SomeAreDrawable, Masked
<1>2. Mass(lg, t) = IF v = Masked THEN 0 ELSE w
  BY Zenon DEF Mass
<1> HIDE DEF v
<1>3. w \in Nat \ {0}
  BY <1>1, Zenon DEF WeightIsPositive
<1> HIDE DEF w
<1>4. Mass(lg, t) \in Nat /\ (Mass(lg, t) > 0 <=> v > Masked)
  BY <1>1, <1>2, <1>3
<1>5. QED
  BY <1>4 DEF v

\* A ranking names every token once, and none before one of a greater logit.
IsRanking(r, lg, V) == /\ r \in [1 .. V -> 1 .. V] /\ IsInjective(r)
                       /\ \A t \in 1 .. V : \E i \in 1 .. V : r[i] = t
                       /\ \A i \in 1 .. V : \A j \in 1 .. V : i <= j => lg[r[i]] >= lg[r[j]]

LEMMA RankingType ==
    ASSUME NEW V \in Nat, NEW lg \in [1 .. V -> Int], NEW r \in Rankings(lg)
    PROVE  IsRanking(r, lg, V)
<1>1. /\ r \in [1 .. V -> 1 .. V] /\ IsInjective(r)
      /\ \A t \in 1 .. V : \E i \in 1 .. V : r[i] = t
      /\ \A i, j \in 1 .. V : i < j => lg[r[i]] >= lg[r[j]]
  BY DEF Rankings, Bijection, Injection, Surjection
<1>2. ASSUME NEW i \in 1 .. V, NEW j \in 1 .. V, i <= j
      PROVE  lg[r[i]] >= lg[r[j]]
  <2>1. lg[r[i]] \in Int
    BY <1>1
  <2>2. i < j \/ i = j
    BY <1>2
  <2>3. CASE i < j
    BY <1>1, <2>3
  <2>4. CASE i = j
    BY <2>1, <2>4
  <2>5. QED
    BY <2>2, <2>3, <2>4
<1>3. QED
  BY <1>1, <1>2 DEF IsRanking

\* Where the cut falls: the best keep tokens have mass, they hold the share topP of
\* the mass of the best TopK, one token fewer would not, and they are what survives.
LEMMA TheCut ==
    ASSUME NEW V \in Nat, NEW lg, SomeAreDrawable(lg, V), WeightIsPositive,
           TopK \in 1 .. V, NEW r \in Rankings(lg), NEW topP \in 1 .. 100,
           NEW mass, \A t \in 1 .. V : mass[t] = Mass(lg, t)
    PROVE  \E keep \in 1 .. TopK :
             /\ Survivors(lg, r, topP) = Firsts(r, keep)
             /\ \A i \in 1 .. keep : lg[r[i]] > Masked
             /\ 100 * SumOver(mass, Firsts(r, keep)) >= topP * SumOver(mass, Firsts(r, TopK))
             /\ 100 * SumOver(mass, Firsts(r, keep - 1)) < topP * SumOver(mass, Firsts(r, TopK))
<1> DEFINE pr   == [i \in 1 .. TopK |-> Mass(lg, r[i])]
           E    == 1 .. TopK
           sum(k) == SumOver(pr, 1 .. k)
           cut  == {k \in 1 .. TopK : 100 * sum(k) >= topP * sum(TopK)}
           keep == IF cut = {} THEN TopK ELSE Min(cut)
<1>1. /\ lg \in [1 .. V -> Int] /\ DOMAIN lg = 1 .. V
      /\ \A t \in 1 .. V : lg[t] >= Masked
      /\ \E t \in 1 .. V : lg[t] > Masked
  BY DEF SomeAreDrawable
<1>2. /\ r \in [1 .. V -> 1 .. V] /\ IsInjective(r)
      /\ \A t \in 1 .. V : \E i \in 1 .. V : r[i] = t
      /\ \A i \in 1 .. V : \A j \in 1 .. V : i <= j => lg[r[i]] >= lg[r[j]]
  BY <1>1, RankingType DEF IsRanking
<1>3. Survivors(lg, r, topP) = {r[i] : i \in {k \in 1 .. keep : pr[k] > 0}}
  BY Zenon DEF Survivors
<1>4. \A i \in E : pr[i] = Mass(lg, r[i])
  OBVIOUS
<1>5. \A t \in 1 .. V : Mass(lg, t) \in Nat /\ (Mass(lg, t) > 0 <=> lg[t] > Masked)
  BY MassType
<1> HIDE DEF pr
<1>6. \A i \in E : /\ r[i] \in 1 .. V /\ pr[i] = mass[r[i]] /\ pr[i] \in Nat
                   /\ pr[i] > 0 <=> lg[r[i]] > Masked
  <2> SUFFICES ASSUME NEW i \in E
               PROVE  /\ r[i] \in 1 .. V /\ pr[i] = mass[r[i]] /\ pr[i] \in Nat
                      /\ pr[i] > 0 <=> lg[r[i]] > Masked
    OBVIOUS
  <2>1. i \in 1 .. V
    OBVIOUS
  <2>2. r[i] \in 1 .. V
    BY <1>2, <2>1
  <2>3. pr[i] = Mass(lg, r[i])
    BY <1>4
  <2>4. QED
    BY <1>5, <2>2, <2>3
<1>7. AnyFirst(pr, E)
  <2>1. IsFiniteSet(E)
    <3>1. 1 \in Int /\ TopK \in Int
      OBVIOUS
    <3>2. QED
      BY <3>1, FS_Interval
  <2> HIDE DEF E
  <2>2. QED
    BY <1>6, <2>1, SumWithout
<1>8. \A k \in 0 .. TopK : sum(k) \in Nat
  <2> SUFFICES ASSUME NEW k \in 0 .. TopK PROVE sum(k) \in Nat
    OBVIOUS
  <2>1. 1 .. k \in SUBSET E
    OBVIOUS
  <2> HIDE DEF E
  <2>2. QED
    BY <1>7, <2>1 DEF AnyFirst
<1>9. \A k \in 1 .. TopK : sum(k) = pr[k] + sum(k - 1)
  <2> SUFFICES ASSUME NEW k \in 1 .. TopK PROVE sum(k) = pr[k] + sum(k - 1)
    OBVIOUS
  <2> DEFINE S == 1 .. k
  <2>1. S \in SUBSET E /\ k \in S /\ S \ {k} = 1 .. k - 1
    OBVIOUS
  <2> HIDE DEF E, S
  <2>2. SumOver(pr, S) = pr[k] + SumOver(pr, S \ {k})
    BY <1>7, <2>1, Zenon DEF AnyFirst
  <2>3. QED
    BY <2>1, <2>2 DEF S
<1>10. sum(0) = 0
  <2>1. 1 .. 0 = {}
    OBVIOUS
  <2>2. QED
    BY <2>1, SumOfNone
<1>11. \A k \in 0 .. TopK : SumOver(mass, Firsts(r, k)) = sum(k)
  <2>1. \A t \in 1 .. V : mass[t] \in Nat
    BY <1>5
  <2>2. TopK \in 0 .. V
    OBVIOUS
  <2>3. \A i \in 1 .. TopK : pr[i] = mass[r[i]]
    BY <1>6
  <2>4. \A k \in 0 .. TopK : SumOver(mass, Firsts(r, k)) = SumOver(pr, 1 .. k)
    <3>1. r \in [1 .. V -> 1 .. V] /\ IsInjective(r)
      BY <1>2
    <3>2. ListsValues(pr, mass, r, V, TopK)
      BY <2>1, <2>2, <2>3, <3>1, Zenon DEF ListsValues
    <3>3. QED
      BY <2>2, <3>1, <3>2, SumOfRanked
  <2>5. QED
    BY <2>4
<1>12. 1 \in E /\ pr[1] > 0
  <2>1. PICK t \in 1 .. V : lg[t] > Masked
    BY <1>1
  <2>2. PICK i \in 1 .. V : r[i] = t
    BY <1>2
  <2>3. 1 \in 1 .. V /\ 1 <= i /\ r[1] \in 1 .. V
    BY <1>2
  <2>4. lg[r[1]] >= lg[t]
    BY <1>1, <1>2, <2>2, <2>3
  <2>5. lg[r[1]] > Masked
    BY <1>1, <2>1, <2>3, <2>4 DEF Masked
  <2>6. 1 \in E
    OBVIOUS
  <2>7. QED
    BY <1>6, <2>5, <2>6
<1>13. sum(TopK) \in Nat \ {0}
  <2>1. E \in SUBSET E /\ SumOver(pr, E) = sum(TopK)
    OBVIOUS
  <2>2. E \ {1} \in SUBSET E
    OBVIOUS
  <2> HIDE DEF E, sum
  <2>3. /\ SumOver(pr, E) = pr[1] + SumOver(pr, E \ {1})
        /\ SumOver(pr, E \ {1}) \in Nat
    BY <1>7, <1>12, <2>1, <2>2, Zenon DEF AnyFirst
  <2>4. pr[1] \in Nat
    BY <1>6, <1>12
  <2>5. QED
    BY <1>12, <2>1, <2>3, <2>4
<1>14. keep \in cut /\ \A k \in cut : keep <= k
  <2>1. cut \subseteq Nat
    OBVIOUS
  <2>2. TopK \in cut
    BY <1>13
  <2> HIDE DEF cut
  <2>3. QED
    BY <2>1, <2>2, LeastElement
<1>15. keep \in 1 .. TopK /\ 100 * sum(keep) >= topP * sum(TopK)
  BY <1>14
<1>16. \A k \in 1 .. TopK : k < keep => ~ (100 * sum(k) >= topP * sum(TopK))
  BY <1>14
<1> HIDE DEF keep, cut, sum
<1>17. 100 * sum(keep - 1) < topP * sum(TopK)
  <2>1. topP * sum(TopK) \in Nat \ {0}
    BY <1>13
  <2>2. CASE keep = 1
    BY <1>10, <2>1, <2>2
  <2>3. CASE keep # 1
    <3>1. keep - 1 \in 1 .. TopK /\ keep - 1 < keep /\ keep - 1 \in 0 .. TopK
      BY <1>15, <2>3
    <3>2. ~ (100 * sum(keep - 1) >= topP * sum(TopK)) /\ sum(keep - 1) \in Nat
      BY <1>8, <1>16, <3>1
    <3>3. QED
      BY <2>1, <3>2
  <2>4. QED
    BY <2>2, <2>3
<1>18. pr[keep] > 0
  <2>1. keep \in E /\ pr[keep] \in Nat
    BY <1>6, <1>15
  <2>2. sum(keep) = pr[keep] + sum(keep - 1) /\ sum(keep - 1) \in Nat
    BY <1>8, <1>9, <1>15
  <2>3. pr[keep] = 0 => sum(keep) = sum(keep - 1)
    BY <2>2
  <2>4. pr[keep] # 0
    BY <1>13, <1>15, <1>17, <2>2, <2>3
  <2>5. QED
    BY <2>1, <2>4
<1>19. \A i \in 1 .. keep : lg[r[i]] > Masked /\ pr[i] > 0
  <2> SUFFICES ASSUME NEW i \in 1 .. keep PROVE lg[r[i]] > Masked /\ pr[i] > 0
    OBVIOUS
  <2>1. i \in E /\ keep \in E /\ i \in 1 .. V /\ keep \in 1 .. V /\ i <= keep
    BY <1>15
  <2>2. lg[r[i]] \in Int /\ lg[r[keep]] \in Int /\ lg[r[i]] >= lg[r[keep]]
    BY <1>1, <1>2, <2>1
  <2>3. lg[r[keep]] > Masked
    BY <1>6, <1>18, <2>1
  <2>4. lg[r[i]] > Masked
    BY <2>2, <2>3 DEF Masked
  <2>5. QED
    BY <1>6, <2>1, <2>4
<1>20. Survivors(lg, r, topP) = Firsts(r, keep)
  <2>1. {k \in 1 .. keep : pr[k] > 0} = 1 .. keep
    BY <1>19
  <2>2. QED
    BY <1>3, <2>1 DEF Firsts
<1>21. keep \in 0 .. TopK /\ keep - 1 \in 0 .. TopK /\ TopK \in 0 .. TopK
  BY <1>15
<1>22. /\ SumOver(mass, Firsts(r, keep)) = sum(keep)
       /\ SumOver(mass, Firsts(r, keep - 1)) = sum(keep - 1)
       /\ SumOver(mass, Firsts(r, TopK)) = sum(TopK)
  BY <1>11, <1>21
<1>23. QED
  BY <1>15, <1>17, <1>19, <1>20, <1>22

\* The draw is from the nucleus of what the grammar allows, for every vocabulary, every
\* positive weight and every cut: no survivor is masked, none is less likely than a token
\* that was cut, the survivors hold the share topP of the mass of the best TopK, and
\* would not without their last. Minus infinity has to be below every logit the penalty
\* leaves, and one token must be allowed.
THEOREM NucleusAlways ==
    ASSUME NEW V \in Nat, NEW logits \in [1 .. V -> Int], NEW recent \in Seq(1 .. V),
           NEW allowed \in SUBSET (1 .. V), NEW topP \in 1 .. 100,
           Window \in Nat, Penalty \in Nat, TopK \in 1 .. V, WeightIsPositive,
           SomeAreDrawable(RepeatPenalty(MaskedOut(logits, allowed), recent), V)
    PROVE  NucleusOfTheAllowed(logits, recent, allowed, topP)
<1> DEFINE masked == MaskedOut(logits, allowed)
           lg == RepeatPenalty(masked, recent)
           mass == [t \in DOMAIN lg |-> Mass(lg, t)]
           Kept(r) == Survivors(lg, r, topP)
           Best(r) == {r[i] : i \in 1 .. TopK}
<1>1. masked \in [1 .. V -> Int] /\ \A t \in (1 .. V) \ allowed : masked[t] = Masked
  BY DEF MaskedOut, Masked
<1> HIDE DEF masked
<1>2. lg \in [1 .. V -> Int] /\ \A t \in (1 .. V) \ allowed : lg[t] = Masked
  <2>1. lg \in [1 .. V -> Int] /\ \A t \in 1 .. V : masked[t] = Masked => lg[t] = Masked
    BY <1>1, PenaltyKeepsTheMask, Zenon
  <2>2. QED
    BY <1>1, <2>1
<1>3. SomeAreDrawable(lg, V)
  BY DEF masked
<1>4. SUFFICES ASSUME NEW r \in Rankings(lg)
               PROVE  /\ Kept(r) # {} /\ Kept(r) \subseteq allowed
                      /\ \A t \in Kept(r), u \in DOMAIN lg \ Kept(r) : lg[t] >= lg[u]
                      /\ 100 * SumOver(mass, Kept(r)) >= topP * SumOver(mass, Best(r))
                      /\ \A t \in Kept(r) : (\A u \in Kept(r) : lg[t] <= lg[u]) =>
                            100 * SumOver(mass, Kept(r) \ {t}) < topP * SumOver(mass, Best(r))
  BY Zenon DEF NucleusOfTheAllowed, masked
<1> HIDE DEF lg
<1>5. DOMAIN lg = 1 .. V
  BY <1>2
<1>6. \A t \in 1 .. V : mass[t] = Mass(lg, t)
  BY <1>5
<1> DEFINE kept == Kept(r)
           best == Best(r)
<1> HIDE DEF mass
<1>7. PICK keep \in 1 .. TopK :
        /\ kept = Firsts(r, keep)
        /\ \A i \in 1 .. keep : lg[r[i]] > Masked
        /\ 100 * SumOver(mass, Firsts(r, keep)) >= topP * SumOver(mass, Firsts(r, TopK))
        /\ 100 * SumOver(mass, Firsts(r, keep - 1)) < topP * SumOver(mass, Firsts(r, TopK))
  BY <1>3, <1>6, TheCut
<1>8. best = Firsts(r, TopK)
  BY DEF Firsts
<1> HIDE DEF kept, best
<1>9. /\ r \in [1 .. V -> 1 .. V] /\ IsInjective(r)
      /\ \A t \in 1 .. V : \E i \in 1 .. V : r[i] = t
      /\ \A i \in 1 .. V : \A j \in 1 .. V : i <= j => lg[r[i]] >= lg[r[j]]
  BY <1>2, RankingType DEF IsRanking
<1>10. keep \in 1 .. V /\ r[keep] \in 1 .. V /\ \A i \in 1 .. keep : i \in 1 .. V /\ r[i] \in 1 .. V
  BY <1>9
<1>11. \A t \in kept : \E i \in 1 .. keep : t = r[i]
  BY <1>7 DEF Firsts
<1>12. kept # {} /\ kept \subseteq allowed
  <2>1. r[keep] \in kept
    BY <1>7 DEF Firsts
  <2>2. ASSUME NEW t \in kept PROVE t \in allowed
    <3>1. PICK i \in 1 .. keep : t = r[i]
      BY <1>11
    <3>2. lg[t] > Masked /\ t \in 1 .. V
      BY <1>7, <1>10, <3>1
    <3>3. lg[t] # Masked
      BY <3>2 DEF Masked
    <3>4. QED
      BY <1>2, <3>2, <3>3
  <2>3. QED
    BY <2>1, <2>2
<1>13. ASSUME NEW t \in kept, NEW u \in DOMAIN lg \ kept PROVE lg[t] >= lg[u]
  <2>1. PICK i \in 1 .. keep : t = r[i]
    BY <1>11
  <2>2. PICK j \in 1 .. V : r[j] = u
    BY <1>5, <1>9
  <2>3. j \notin 1 .. keep
    BY <1>7, <2>2 DEF Firsts
  <2>4. i <= j /\ i \in 1 .. V
    BY <1>10, <2>3
  <2>5. QED
    BY <1>9, <2>1, <2>2, <2>4
<1>14. 100 * SumOver(mass, kept) >= topP * SumOver(mass, best)
  BY <1>7, <1>8
<1>15. ASSUME NEW t \in kept, \A u \in kept : lg[t] <= lg[u]
       PROVE  100 * SumOver(mass, kept \ {t}) < topP * SumOver(mass, best)
  <2> DEFINE D == 1 .. V
             last == r[keep]
             fewer == Firsts(r, keep - 1)
  <2>1. PICK i \in 1 .. keep : t = r[i]
    BY <1>11
  <2>2. last \in kept /\ kept \in SUBSET D /\ t \in D /\ last \in D
    <3>1. last \in kept
      BY <1>7 DEF Firsts
    <3>2. \A u \in kept : u \in D
      BY <1>10, <1>11
    <3>3. QED
      BY <3>1, <3>2
  <2>3. lg[t] = lg[last]
    <3>1. i <= keep /\ i \in 1 .. V /\ keep \in 1 .. V
      BY <1>10
    <3>2. lg[t] >= lg[last]
      BY <1>9, <2>1, <3>1
    <3>3. lg[t] <= lg[last]
      BY <1>15, <2>2
    <3>4. lg[t] \in Int /\ lg[last] \in Int
      BY <1>2, <2>2
    <3> HIDE DEF last
    <3>5. QED
      BY <3>2, <3>3, <3>4
  <2>4. mass[t] = mass[last]
    <3>1. mass[t] = Mass(lg, t) /\ mass[last] = Mass(lg, last)
      BY <1>6, <2>2
    <3> HIDE DEF last
    <3>2. QED
      BY <2>3, <3>1, Zenon DEF Mass
  <2>5. AnyFirst(mass, D)
    <3>1. IsFiniteSet(D)
      <4>1. 1 \in Int /\ V \in Int
        OBVIOUS
      <4>2. QED
        BY <4>1, FS_Interval
    <3>2. \A x \in D : mass[x] \in Nat
      BY <1>3, <1>6, MassType
    <3> HIDE DEF D
    <3>3. QED
      BY <3>1, <3>2, SumWithout
  <2>6. kept \ {last} = fewer
    <3>1. \A j : j \in 1 .. keep <=> j \in 1 .. keep - 1 \/ j = keep
      OBVIOUS
    <3>2. \A j \in 1 .. keep - 1 : r[j] # r[keep]
      <4> SUFFICES ASSUME NEW j \in 1 .. keep - 1 PROVE r[j] # r[keep]
        OBVIOUS
      <4>1. j \in DOMAIN r /\ keep \in DOMAIN r /\ j # keep
        BY <1>9, <1>10
      <4>2. QED
        BY <1>9, <4>1 DEF IsInjective
    <3>3. ASSUME NEW x PROVE x \in kept \ {last} <=> x \in fewer
      BY <1>7, <3>1, <3>2, Zenon DEF Firsts
    <3>4. QED
      BY <3>3, Zenon
  <2> HIDE DEF D, last, fewer
  <2>7. /\ SumOver(mass, kept) = mass[t] + SumOver(mass, kept \ {t})
        /\ SumOver(mass, kept) = mass[last] + SumOver(mass, kept \ {last})
    BY <2>2, <2>5, Zenon DEF AnyFirst
  <2>8. SumOver(mass, kept \ {t}) \in Nat /\ SumOver(mass, kept \ {last}) \in Nat
    <3>1. kept \ {t} \in SUBSET D /\ kept \ {last} \in SUBSET D
      BY <2>2
    <3>2. QED
      BY <2>5, <3>1, Zenon DEF AnyFirst
  <2>9. mass[t] \in Nat
    BY <1>3, <1>6, <2>2, MassType DEF D
  <2>10. SumOver(mass, kept \ {t}) = SumOver(mass, kept \ {last})
    BY <2>4, <2>7, <2>8, <2>9
  <2>11. SumOver(mass, kept \ {t}) = SumOver(mass, fewer)
    BY <2>6, <2>10
  <2>12. QED
    BY <1>7, <1>8, <2>11 DEF fewer
<1>16. QED
  BY <1>12, <1>13, <1>14, <1>15, Zenon DEF kept, best
===============================================================================
