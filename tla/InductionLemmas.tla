---------------------------- MODULE InductionLemmas ----------------------------
(* Induction over the natural numbers through sets; sequences that are cut    *)
(* and joined; and what the community module's FlattenSeq, a recursive        *)
(* function, returns for every sequence.                                      *)
EXTENDS Integers, Sequences, SequencesExt, FiniteSets, FiniteSetTheorems,
        SequenceTheorems, TLAPS

\* Every natural number is in a set that holds 0 and, with a number, its
\* successor. The set stands for the predicate of an induction, so that no
\* theorem with an operator parameter is needed: were x outside S, the
\* numbers of 0 .. x outside S would all be positive with a predecessor
\* outside S, and n |-> n - 1 would map that finite set one to one into
\* itself without x, which the pigeonhole principle forbids.
LEMMA SetInduction ==
    ASSUME NEW S, 0 \in S, \A n \in Nat : n \in S => n + 1 \in S
    PROVE  Nat \subseteq S
<1>1. SUFFICES ASSUME NEW x \in Nat, x \notin S PROVE FALSE
  OBVIOUS
<1> DEFINE T == (0 .. x) \ S
           down == [y \in T |-> y - 1]
<1>2. IsFiniteSet(T)
  <2>1. IsFiniteSet(0 .. x)
    BY FS_Interval
  <2>2. T \in SUBSET (0 .. x)
    OBVIOUS
  <2>3. QED
    BY <2>1, <2>2, FS_Subset
<1>3. \A y \in T : y - 1 \in T
  <2> SUFFICES ASSUME NEW y \in T PROVE y - 1 \in T
    OBVIOUS
  <2>1. y \in 1 .. x /\ y - 1 \in Nat /\ (y - 1) + 1 = y
    OBVIOUS
  <2>2. QED
    BY <2>1
<1>4. down \in Injection(T, T)
  BY <1>3 DEF Injection, IsInjective
<1>5. down \in Surjection(T, T)
  BY <1>2, <1>4, FS_Injection
<1>6. \A t \in T : \E y \in T : down[y] = t
  BY <1>5, Zenon DEF Surjection
<1>7. QED
  BY <1>1, <1>6

-------------------------------------------------------------------------------
\* A function on 1 .. n is a sequence of length n.
LEMMA SeqOfFunction ==
    ASSUME NEW E, NEW n \in Nat, NEW f \in [1 .. n -> E]
    PROVE  f \in Seq(E) /\ Len(f) = n
  OBVIOUS

\* The two parts of a sequence cut after c.
LEMMA CutInTwo ==
    ASSUME NEW E, NEW q \in Seq(E), NEW c \in 0 .. Len(q)
    PROVE  /\ SubSeq(q, 1, c) \in Seq(E) /\ Len(SubSeq(q, 1, c)) = c
           /\ SubSeq(q, c + 1, Len(q)) \in Seq(E) /\ Len(SubSeq(q, c + 1, Len(q))) = Len(q) - c
           /\ \A i \in 1 .. c : SubSeq(q, 1, c)[i] = q[i]
           /\ \A i \in 1 .. Len(q) - c : SubSeq(q, c + 1, Len(q))[i] = q[c + i]
  OBVIOUS

\* Two sequences are one when they agree at every place.
LEMMA SameSeq ==
    ASSUME NEW E, NEW p \in Seq(E), NEW q \in Seq(E), Len(p) = Len(q),
           \A i \in 1 .. Len(p) : p[i] = q[i]
    PROVE  p = q
  OBVIOUS

\* The elements of a joined sequence.
LEMMA ConcatAt ==
    ASSUME NEW E, NEW p \in Seq(E), NEW q \in Seq(E)
    PROVE  /\ p \o q \in Seq(E) /\ Len(p \o q) = Len(p) + Len(q)
           /\ \A i \in 1 .. Len(p) : (p \o q)[i] = p[i]
           /\ \A i \in 1 .. Len(q) : (p \o q)[Len(p) + i] = q[i]
           /\ \A i \in Len(p) + 1 .. Len(p) + Len(q) : (p \o q)[i] = q[i - Len(p)]
  OBVIOUS

\* To join is associative.
LEMMA ConcatThree ==
    ASSUME NEW E, NEW p \in Seq(E), NEW q \in Seq(E), NEW r \in Seq(E)
    PROVE  (p \o q) \o r = p \o (q \o r)
  OBVIOUS

\* The cut of a joined sequence at a place of its second part.
LEMMA CutJoined ==
    ASSUME NEW E, NEW p \in Seq(E), NEW q \in Seq(E), NEW e \in 0 .. Len(q)
    PROVE  /\ SubSeq(p \o q, 1, Len(p) + e) = p \o SubSeq(q, 1, e)
           /\ SubSeq(p \o q, Len(p) + e + 1, Len(p \o q)) = SubSeq(q, e + 1, Len(q))
<1> DEFINE u == p \o q
           c == Len(p) + e
           x == SubSeq(q, 1, e)
           y == SubSeq(q, e + 1, Len(q))
           hd == SubSeq(u, 1, c)
           tl == SubSeq(u, c + 1, Len(u))
           px == p \o x
<1>1. Len(p) \in Nat /\ Len(q) \in Nat
  OBVIOUS
<1>2. /\ u \in Seq(E) /\ Len(u) = Len(p) + Len(q)
      /\ \A i \in 1 .. Len(p) : u[i] = p[i]
      /\ \A i \in 1 .. Len(q) : u[Len(p) + i] = q[i]
  BY ConcatAt
<1>3. x \in Seq(E) /\ Len(x) = e /\ (\A i \in 1 .. e : x[i] = q[i])
      /\ y \in Seq(E) /\ Len(y) = Len(q) - e /\ (\A i \in 1 .. Len(q) - e : y[i] = q[e + i])
  BY CutInTwo
<1> HIDE DEF u, x, y
<1>4. /\ px \in Seq(E) /\ Len(px) = Len(p) + Len(x)
      /\ \A i \in 1 .. Len(p) : px[i] = p[i]
      /\ \A i \in 1 .. Len(x) : px[Len(p) + i] = x[i]
  <2>1. x \in Seq(E)
    BY <1>3
  <2>2. QED
    BY <2>1, ConcatAt
<1>5. c \in 0 .. Len(u)
  BY <1>1, <1>2
<1> HIDE DEF px, c
<1>6. hd \in Seq(E) /\ Len(hd) = c /\ (\A i \in 1 .. c : hd[i] = u[i])
      /\ tl \in Seq(E) /\ Len(tl) = Len(u) - c /\ (\A i \in 1 .. Len(u) - c : tl[i] = u[c + i])
  BY <1>2, <1>5, CutInTwo
<1> HIDE DEF hd, tl
<1>7. \A i \in 1 .. c : hd[i] = px[i]
  <2> SUFFICES ASSUME NEW i \in 1 .. c PROVE u[i] = px[i]
    BY <1>6
  <2>1. CASE i <= Len(p)
    BY <1>1, <1>2, <1>4, <2>1, <1>5
  <2>2. CASE i > Len(p)
    <3> DEFINE j == i - Len(p)
    <3>1. j \in 1 .. e /\ j \in 1 .. Len(q) /\ Len(p) + j = i
      BY <1>1, <2>2 DEF c
    <3> HIDE DEF j
    <3>2. u[Len(p) + j] = q[j]
      BY <1>2, <3>1, Zenon
    <3>3. px[Len(p) + j] = x[j]
      BY <1>3, <1>4, <3>1, Zenon
    <3>4. x[j] = q[j]
      BY <1>3, <3>1, Zenon
    <3>5. QED
      BY <3>1, <3>2, <3>3, <3>4, Zenon
  <2>3. QED
    BY <1>1, <1>5, <2>1, <2>2
<1>8. hd = px
  BY <1>3, <1>4, <1>6, <1>7, SameSeq DEF c
<1>9. \A i \in 1 .. Len(tl) : tl[i] = y[i]
  <2> SUFFICES ASSUME NEW i \in 1 .. Len(tl) PROVE tl[i] = y[i]
    OBVIOUS
  <2>1. /\ i \in 1 .. Len(u) - c /\ i \in 1 .. Len(q) - e /\ e + i \in 1 .. Len(q)
        /\ c + i = Len(p) + (e + i)
    BY <1>1, <1>2, <1>6 DEF c
  <2>2. tl[i] = u[c + i]
    BY <1>6, <2>1, Zenon
  <2>3. y[i] = q[e + i]
    BY <1>3, <2>1, Zenon
  <2>4. u[Len(p) + (e + i)] = q[e + i]
    BY <1>2, <2>1, Zenon
  <2>5. QED
    BY <2>1, <2>2, <2>3, <2>4, Zenon
<1>10. tl = y
  <2>1. Len(tl) = Len(y)
    BY <1>1, <1>2, <1>3, <1>6 DEF c
  <2>2. QED
    BY <1>3, <1>6, <1>9, <2>1, SameSeq
<1>11. QED
  BY <1>8, <1>10, Zenon DEF u, x, y, hd, tl, px, c

\* A cut sequence joined again is itself.
LEMMA CutRejoins ==
    ASSUME NEW E, NEW q \in Seq(E), NEW c \in 0 .. Len(q)
    PROVE  q = SubSeq(q, 1, c) \o SubSeq(q, c + 1, Len(q))
<1> DEFINE head == SubSeq(q, 1, c)
           rest == SubSeq(q, c + 1, Len(q))
           both == head \o rest
<1>1. /\ head \in Seq(E) /\ Len(head) = c
      /\ rest \in Seq(E) /\ Len(rest) = Len(q) - c
      /\ \A i \in 1 .. c : head[i] = q[i]
      /\ \A i \in 1 .. Len(q) - c : rest[i] = q[c + i]
      /\ Len(q) \in Nat
  BY CutInTwo
<1> HIDE DEF head, rest
<1>2. /\ both \in Seq(E) /\ Len(both) = Len(head) + Len(rest)
      /\ \A i \in 1 .. Len(head) : both[i] = head[i]
      /\ \A i \in Len(head) + 1 .. Len(head) + Len(rest) : both[i] = rest[i - Len(head)]
  <2>1. head \in Seq(E) /\ rest \in Seq(E)
    BY <1>1
  <2>2. QED
    BY <2>1, ConcatAt
<1> HIDE DEF both
<1>3. Len(both) = Len(q)
  BY <1>1, <1>2
<1>4. \A i \in 1 .. Len(q) : both[i] = q[i]
  <2> SUFFICES ASSUME NEW i \in 1 .. Len(q) PROVE both[i] = q[i]
    OBVIOUS
  <2>1. CASE i <= c
    BY <1>1, <1>2, <2>1
  <2>2. CASE i > c
    <3>1. /\ i - c \in 1 .. Len(q) - c /\ c + (i - c) = i /\ i - Len(head) = i - c
          /\ i \in Len(head) + 1 .. Len(head) + Len(rest)
      BY <1>1, <2>2
    <3>2. both[i] = rest[i - c]
      BY <1>2, <3>1
    <3>3. rest[i - c] = q[c + (i - c)]
      BY <1>1, <3>1, Zenon
    <3>4. QED
      BY <3>1, <3>2, <3>3, Zenon
  <2>3. QED
    BY <1>1, <2>1, <2>2
<1>5. q = both
  BY <1>2, <1>3, <1>4, SameSeq
<1>6. QED
  BY <1>5 DEF both, head, rest

\* A pair of members of E is a sequence over E.
LEMMA PairIsSeq ==
    ASSUME NEW E, NEW x \in E, NEW y \in E
    PROVE  /\ <<x, y>> \in Seq(E) /\ Len(<<x, y>>) = 2 /\ DOMAIN <<x, y>> = 1 .. 2
           /\ <<x, y>>[1] = x /\ <<x, y>>[2] = y
  OBVIOUS

\* A sequence of length two is the pair of its elements.
LEMMA SeqIsPair ==
    ASSUME NEW E, NEW p \in Seq(E), Len(p) = 2
    PROVE  p = <<p[1], p[2]>>
  OBVIOUS

\* Two sequences of one element make a pair.
LEMMA PairIsConcat ==
    ASSUME NEW E, NEW x \in E, NEW y \in E
    PROVE  <<x>> \o <<y>> = <<x, y>>
<1> DEFINE p == <<x>> \o <<y>>
<1>1. p \in Seq(E) /\ Len(p) = 2 /\ p[1] = x /\ p[2] = y
  OBVIOUS
<1> HIDE DEF p
<1>2. p = <<x, y>>
  BY <1>1, SeqIsPair
<1>3. QED
  BY <1>2 DEF p

\* f is the recursive function of FlattenSeq, for the first n sequences.
IsFlattening(f, seqs, n) ==
    f = [i \in 1 .. n |-> IF i = 1 THEN seqs[i] ELSE f[i - 1] \o seqs[i]]

\* What the recursive function of FlattenSeq returns at i, for any function
\* that satisfies its equation.
LEMMA FlatteningAt ==
    ASSUME NEW seqs, NEW n \in Nat, NEW f, IsFlattening(f, seqs, n)
    PROVE  \A i \in 1 .. n : f[i] = IF i = 1 THEN seqs[i] ELSE f[i - 1] \o seqs[i]
<1> SUFFICES ASSUME NEW i \in 1 .. n
             PROVE  f[i] = IF i = 1 THEN seqs[i] ELSE f[i - 1] \o seqs[i]
  OBVIOUS
<1> DEFINE g == [j \in 1 .. n |-> IF j = 1 THEN seqs[j] ELSE f[j - 1] \o seqs[j]]
<1>1. g[i] = IF i = 1 THEN seqs[i] ELSE f[i - 1] \o seqs[i]
  OBVIOUS
<1>2. f = g
  BY DEF IsFlattening
<1> HIDE DEF g
<1>3. QED
  BY <1>1, <1>2, Zenon

\* That recursive function exists up to every n: by induction on n, extending
\* it by one place.
LEMMA FlatteningExists ==
    ASSUME NEW seqs
    PROVE  \A n \in Nat : \E f : IsFlattening(f, seqs, n)
<1> DEFINE S == {n \in Nat : \E f : IsFlattening(f, seqs, n)}
<1>1. 0 \in S
  <2>1. IsFlattening([i \in 1 .. 0 |-> 0], seqs, 0)
    BY DEF IsFlattening
  <2>2. QED
    BY <2>1
<1>2. ASSUME NEW n \in Nat, n \in S
      PROVE  n + 1 \in S
  <2>1. PICK f : IsFlattening(f, seqs, n)
    BY <1>2
  <2> DEFINE g == [i \in 1 .. n + 1 |-> IF i <= n THEN f[i]
                                        ELSE IF i = 1 THEN seqs[i] ELSE f[n] \o seqs[i]]
  <2>2. ASSUME NEW i \in 1 .. n + 1
        PROVE  g[i] = IF i = 1 THEN seqs[i] ELSE g[i - 1] \o seqs[i]
    <3>1. CASE i <= n
      <4>1. f[i] = IF i = 1 THEN seqs[i] ELSE f[i - 1] \o seqs[i]
        <5>1. i \in 1 .. n
          BY <3>1
        <5>2. QED
          BY <2>1, <5>1, FlatteningAt
      <4>2. i # 1 => g[i - 1] = f[i - 1]
        BY <3>1
      <4>3. QED
        BY <3>1, <4>1, <4>2
    <3>2. CASE i = n + 1
      <4>1. i # 1 => i - 1 = n /\ n \in 1 .. n + 1
        BY <3>2
      <4>2. QED
        BY <3>2, <4>1
    <3>3. QED
      BY <3>1, <3>2
  <2>3. IsFlattening(g, seqs, n + 1)
    BY <2>2 DEF IsFlattening
  <2>4. QED
    BY <2>3
<1>3. QED
  BY <1>1, <1>2, SetInduction

\* Two such functions, for sequences that agree up to n, agree at n.
LEMMA FlatteningUnique ==
    ASSUME NEW r, NEW s, NEW f, NEW g, NEW n \in Nat, NEW m \in Nat, n <= m,
           \A i \in 1 .. n : r[i] = s[i],
           IsFlattening(f, r, n), IsFlattening(g, s, m)
    PROVE  \A i \in 1 .. n : f[i] = g[i]
<1> DEFINE S == {k \in Nat : k \in 1 .. n => f[k] = g[k]}
<1>1. 0 \in S
  OBVIOUS
<1>2. ASSUME NEW k \in Nat, k \in S
      PROVE  k + 1 \in S
  <2> SUFFICES ASSUME k + 1 \in 1 .. n PROVE f[k + 1] = g[k + 1]
    OBVIOUS
  <2>1. f[k + 1] = IF k + 1 = 1 THEN r[k + 1] ELSE f[k] \o r[k + 1]
    <3>1. f[k + 1] = IF k + 1 = 1 THEN r[k + 1] ELSE f[(k + 1) - 1] \o r[k + 1]
      BY FlatteningAt
    <3>2. QED
      BY <3>1, (k + 1) - 1 = k
  <2>2. g[k + 1] = IF k + 1 = 1 THEN s[k + 1] ELSE g[k] \o s[k + 1]
    <3>1. k + 1 \in 1 .. m
      OBVIOUS
    <3>2. g[k + 1] = IF k + 1 = 1 THEN s[k + 1] ELSE g[(k + 1) - 1] \o s[k + 1]
      BY <3>1, FlatteningAt
    <3>3. QED
      BY <3>2, (k + 1) - 1 = k
  <2>3. r[k + 1] = s[k + 1]
    OBVIOUS
  <2>4. k # 0 => f[k] = g[k]
    BY <1>2
  <2>5. QED
    BY <2>1, <2>2, <2>3, <2>4
<1>3. Nat \subseteq S
  BY <1>1, <1>2, SetInduction
<1>4. QED
  BY <1>3

\* Nothing flattens to nothing.
LEMMA FlattenEmpty == FlattenSeq(<<>>) = <<>>
  BY DEF FlattenSeq

\* FlattenSeq of a sequence that is not empty is the last value of its
\* recursive function.
LEMMA FlattenIs ==
    ASSUME NEW seqs, Len(seqs) \in Nat, Len(seqs) # 0
    PROVE  \E f : IsFlattening(f, seqs, Len(seqs)) /\ FlattenSeq(seqs) = f[Len(seqs)]
<1> DEFINE F == CHOOSE f : IsFlattening(f, seqs, Len(seqs))
<1>1. IsFlattening(F, seqs, Len(seqs))
  BY FlatteningExists
<1>2. FlattenSeq(seqs) = F[Len(seqs)]
  BY DEF FlattenSeq, IsFlattening
<1>3. QED
  BY <1>1, <1>2
\* Flattening commutes with appending: the last sequence comes last.
LEMMA FlattenAppend ==
    ASSUME NEW E, NEW s \in Seq(Seq(E)), NEW t \in Seq(E)
    PROVE  FlattenSeq(Append(s, t)) = FlattenSeq(s) \o t
<1> DEFINE n == Len(s)
           st == Append(s, t)
<1>1. n \in Nat /\ Len(st) = n + 1 /\ st[n + 1] = t /\ \A i \in 1 .. n : s[i] = st[i]
  OBVIOUS
<1> HIDE DEF n, st
<1>2. PICK g : IsFlattening(g, st, n + 1) /\ FlattenSeq(st) = g[n + 1]
  BY <1>1, FlattenIs
<1>3. g[n + 1] = IF n + 1 = 1 THEN st[n + 1] ELSE g[(n + 1) - 1] \o st[n + 1]
  BY <1>1, <1>2, FlatteningAt
<1>4. CASE n = 0
  <2>1. s = <<>>
    BY <1>4 DEF n
  <2>2. FlattenSeq(s) = <<>>
    BY <2>1, FlattenEmpty
  <2>3. FlattenSeq(st) = t
    BY <1>1, <1>2, <1>3, <1>4
  <2>4. QED
    BY <2>2, <2>3 DEF st
<1>5. CASE n # 0
  <2>1. PICK f : IsFlattening(f, s, n) /\ FlattenSeq(s) = f[n]
    BY <1>1, <1>5, FlattenIs DEF n
  <2>2. \A i \in 1 .. n : f[i] = g[i]
    <3>1. n \in Nat /\ n + 1 \in Nat /\ n <= n + 1
      BY <1>1
    <3>2. \A i \in 1 .. n : s[i] = st[i]
      BY <1>1
    <3>3. IsFlattening(f, s, n)
      BY <2>1
    <3>4. IsFlattening(g, st, n + 1)
      BY <1>2, <2>1
    <3>5. QED
      BY <3>1, <3>2, <3>3, <3>4, FlatteningUnique, Z3
  <2>3. f[n] = g[n]
    BY <1>1, <1>5, <2>2
  <2>4. QED
    BY <1>1, <1>2, <1>3, <1>5, <2>1, <2>3 DEF st
<1>6. QED
  BY <1>4, <1>5

\* A sequence of sequences over E flattens to a sequence over E.
LEMMA FlattenType ==
    ASSUME NEW E, NEW s \in Seq(Seq(E))
    PROVE  FlattenSeq(s) \in Seq(E)
<1> DEFINE S == {n \in Nat : \A r \in Seq(Seq(E)) : Len(r) = n => FlattenSeq(r) \in Seq(E)}
<1>1. 0 \in S
  <2>1. \A r \in Seq(Seq(E)) : Len(r) = 0 => r = <<>>
    OBVIOUS
  <2>2. <<>> \in Seq(E)
    OBVIOUS
  <2>3. QED
    BY <2>1, <2>2, FlattenEmpty
<1>2. ASSUME NEW n \in Nat, n \in S
      PROVE  n + 1 \in S
  <2> SUFFICES ASSUME NEW r \in Seq(Seq(E)), Len(r) = n + 1
               PROVE  FlattenSeq(r) \in Seq(E)
    OBVIOUS
  <2> DEFINE front == SubSeq(r, 1, n)
  <2>1. front \in Seq(Seq(E)) /\ Len(front) = n /\ r[n + 1] \in Seq(E)
    OBVIOUS
  <2>2. r = Append(front, r[n + 1])
    OBVIOUS
  <2> HIDE DEF front
  <2>3. FlattenSeq(front) \in Seq(E)
    BY <1>2, <2>1
  <2>4. FlattenSeq(r) = FlattenSeq(front) \o r[n + 1]
    BY <2>1, <2>2, FlattenAppend
  <2>5. QED
    BY <2>1, <2>3, <2>4
<1>3. Nat \subseteq S
  BY <1>1, <1>2, SetInduction
<1>4. QED
  BY <1>3

-------------------------------------------------------------------------------
\* A set of natural numbers that is not empty has a least element, and the
\* community module's Min is it.
LEMMA LeastElement ==
    ASSUME NEW S, S \subseteq Nat, S # {}
    PROVE  Min(S) \in S /\ \A y \in S : Min(S) <= y
<1> DEFINE T == {n \in Nat : (\E k \in S : k <= n) => \E x \in S : \A y \in S : x <= y}
<1>1. 0 \in T
  <2> SUFFICES ASSUME NEW k \in S, k <= 0 PROVE \E x \in S : \A y \in S : x <= y
    OBVIOUS
  <2>1. \A y \in S : k <= y
    OBVIOUS
  <2>2. QED
    BY <2>1
<1>2. ASSUME NEW n \in Nat, n \in T
      PROVE  n + 1 \in T
  <2> SUFFICES ASSUME NEW k \in S, k <= n + 1 PROVE \E x \in S : \A y \in S : x <= y
    OBVIOUS
  <2>1. CASE \E j \in S : j <= n
    BY <1>2, <2>1
  <2>2. CASE ~\E j \in S : j <= n
    <3>1. \A y \in S : k <= y
      BY <2>2
    <3>2. QED
      BY <3>1
  <2>3. QED
    BY <2>1, <2>2
<1>3. Nat \subseteq T
  <2> HIDE DEF T
  <2>1. QED
    BY <1>1, <1>2, SetInduction
<1>4. PICK k : k \in S
  OBVIOUS
<1>5. k \in T /\ k <= k
  BY <1>3, <1>4
<1>6. \E x \in S : \A y \in S : x <= y
  BY <1>4, <1>5
<1>7. QED
  BY <1>6 DEF Min

\* The values of a function on 1 .. n have a greatest one, and Max is it.
LEMMA GreatestValue ==
    ASSUME NEW n \in Nat \ {0}, NEW f, \A i \in 1 .. n : f[i] \in Nat
    PROVE  /\ Max({f[i] : i \in 1 .. n}) \in {f[i] : i \in 1 .. n}
           /\ \A i \in 1 .. n : f[i] <= Max({f[j] : j \in 1 .. n})
<1> DEFINE T == {m \in Nat : m + 1 <= n =>
                    \E i \in 1 .. m + 1 : \A j \in 1 .. m + 1 : f[j] <= f[i]}
<1>1. 0 \in T
  <2>1. 0 + 1 = 1 /\ 1 \in 1 .. 1 /\ f[1] <= f[1]
    OBVIOUS
  <2>2. \A j \in 1 .. 0 + 1 : j = 1
    OBVIOUS
  <2>3. \A j \in 1 .. 0 + 1 : f[j] <= f[1]
    BY <2>1, <2>2
  <2>4. QED
    BY <2>1, <2>3
<1>2. ASSUME NEW m \in Nat, m \in T
      PROVE  m + 1 \in T
  <2> SUFFICES ASSUME (m + 1) + 1 <= n
               PROVE  \E i \in 1 .. (m + 1) + 1 : \A j \in 1 .. (m + 1) + 1 : f[j] <= f[i]
    OBVIOUS
  <2>1. PICK i \in 1 .. m + 1 : \A j \in 1 .. m + 1 : f[j] <= f[i]
    BY <1>2
  <2>2. i \in 1 .. (m + 1) + 1 /\ (m + 1) + 1 \in 1 .. (m + 1) + 1
    OBVIOUS
  <2>3. \A j \in 1 .. (m + 1) + 1 : j \in 1 .. n /\ (j \in 1 .. m + 1 \/ j = (m + 1) + 1)
    OBVIOUS
  <2>4. f[i] \in Nat /\ f[(m + 1) + 1] \in Nat
    BY <2>2, <2>3
  <2>5. CASE f[(m + 1) + 1] <= f[i]
    <3>1. \A j \in 1 .. (m + 1) + 1 : f[j] <= f[i]
      BY <2>1, <2>3, <2>5, Zenon
    <3>2. QED
      BY <2>2, <3>1, Zenon
  <2>6. CASE ~(f[(m + 1) + 1] <= f[i])
    <3>1. f[i] <= f[(m + 1) + 1] /\ f[(m + 1) + 1] <= f[(m + 1) + 1]
      BY <2>4, <2>6
    <3>2. \A j \in 1 .. (m + 1) + 1 : f[j] \in Nat
      BY <2>3
    <3>3. \A j \in 1 .. m + 1 : f[j] <= f[(m + 1) + 1]
      BY <2>1, <2>3, <2>4, <3>1, <3>2
    <3>4. \A j \in 1 .. (m + 1) + 1 : f[j] <= f[(m + 1) + 1]
      BY <2>3, <3>1, <3>3, Zenon
    <3>5. QED
      BY <2>2, <3>4, Zenon
  <2>7. QED
    BY <2>5, <2>6
<1>3. Nat \subseteq T
  <2> HIDE DEF T
  <2>1. QED
    BY <1>1, <1>2, SetInduction
<1>4. n - 1 \in T /\ (n - 1) + 1 = n
  BY <1>3
<1>5. PICK i \in 1 .. n : \A j \in 1 .. n : f[j] <= f[i]
  BY <1>4
<1> DEFINE V == {f[j] : j \in 1 .. n}
<1>6. f[i] \in V /\ \A y \in V : y \in Nat /\ f[i] >= y
  BY <1>5
<1>7. \A j \in 1 .. n : f[j] \in V
  OBVIOUS
<1> HIDE DEF V
<1>8. Max(V) \in V /\ \A y \in V : Max(V) >= y
  BY <1>6 DEF Max
<1>9. \A j \in 1 .. n : f[j] <= Max(V)
  BY <1>6, <1>7, <1>8
<1>10. QED
  BY <1>8, <1>9 DEF V

\* The greater of two numbers.
LEMMA GreaterOfTwo ==
    ASSUME NEW a \in Nat, NEW b \in Nat
    PROVE  Max({a, b}) \in {a, b} /\ Max({a, b}) >= a /\ Max({a, b}) >= b
<1>1. \E x \in {a, b} : \A y \in {a, b} : x >= y
  <2>1. a >= b \/ b >= a
    OBVIOUS
  <2>2. QED
    BY <2>1
<1>2. QED
  BY <1>1 DEF Max

\* The smaller of two numbers.
LEMMA SmallerOfTwo ==
    ASSUME NEW a \in Nat, NEW b \in Nat
    PROVE  Min({a, b}) \in {a, b} /\ Min({a, b}) <= a /\ Min({a, b}) <= b
<1>1. \E x \in {a, b} : \A y \in {a, b} : x <= y
  <2>1. a <= b \/ b <= a
    OBVIOUS
  <2>2. QED
    BY <2>1
<1>2. QED
  BY <1>1 DEF Min

-------------------------------------------------------------------------------
(* A sequence cut in many places. *)

\* The beginnings of a sequence: one is a shorter one and what comes between.
LEMMA CutBetween ==
    ASSUME NEW E, NEW q \in Seq(E), NEW a \in 0 .. Len(q), NEW b \in a .. Len(q)
    PROVE  SubSeq(q, 1, b) = SubSeq(q, 1, a) \o SubSeq(q, a + 1, b)
<1> DEFINE p == SubSeq(q, 1, b)
<1>1. Len(q) \in Nat /\ a \in Nat /\ b \in Nat /\ b \in 0 .. Len(q)
  OBVIOUS
<1>2. p \in Seq(E) /\ Len(p) = b
  BY <1>1, CutInTwo
<1>3. a \in 0 .. Len(p)
  BY <1>1, <1>2
<1>4. SubSeq(p, 1, a) = SubSeq(q, 1, a)
  BY <1>1
<1>5. SubSeq(p, a + 1, Len(p)) = SubSeq(q, a + 1, b)
  BY <1>1
<1> HIDE DEF p
<1>6. p = SubSeq(p, 1, a) \o SubSeq(p, a + 1, Len(p))
  BY <1>2, <1>3, CutRejoins
<1>7. QED
  BY <1>4, <1>5, <1>6 DEF p

\* One element more of a sequence.
LEMMA OneMore ==
    ASSUME NEW E, NEW q \in Seq(E), NEW k \in Nat, k + 1 <= Len(q)
    PROVE  /\ SubSeq(q, 1, k) \in Seq(E)
           /\ q[k + 1] \in E
           /\ SubSeq(q, 1, k + 1) = Append(SubSeq(q, 1, k), q[k + 1])
<1>1. Len(q) \in Nat /\ k \in 0 .. Len(q) /\ k + 1 \in 0 .. Len(q)
  OBVIOUS
<1>2. q[k + 1] \in E
  OBVIOUS
<1>3. SubSeq(q, 1, k) \in Seq(E)
  BY <1>1, CutInTwo
<1>4. SubSeq(q, 1, k + 1) = Append(SubSeq(q, 1, k), q[k + 1])
  BY <1>1, SMT
<1>5. QED
  BY <1>2, <1>3, <1>4

\* The places where a sequence of length len is cut into n pieces, and the pieces.
Rising(cut, n, len) ==
    /\ cut \in [0 .. n -> 0 .. len]
    /\ cut[0] = 0 /\ cut[n] = len
    /\ \A t \in 0 .. n - 1 : cut[t] <= cut[t + 1]
Pieces(q, cut, n) == [t \in 1 .. n |-> SubSeq(q, cut[t - 1] + 1, cut[t])]

\* The pieces of a sequence that is cut at rising places make it up again.
LEMMA PiecesFlatten ==
    ASSUME NEW E, NEW q \in Seq(E), NEW n \in Nat, NEW cut, Rising(cut, n, Len(q))
    PROVE  FlattenSeq(Pieces(q, cut, n)) = q
<1> DEFINE pieces == Pieces(q, cut, n)
<1>1. /\ cut \in [0 .. n -> 0 .. Len(q)]
      /\ cut[0] = 0 /\ cut[n] = Len(q)
      /\ \A t \in 0 .. n - 1 : cut[t] <= cut[t + 1]
  BY DEF Rising
<1>2. pieces = [t \in 1 .. n |-> SubSeq(q, cut[t - 1] + 1, cut[t])]
  BY DEF Pieces
<1> HIDE DEF pieces
<1> DEFINE first(k) == SubSeq(pieces, 1, k)
           S == {k \in Nat : k <= n => FlattenSeq(first(k)) = SubSeq(q, 1, cut[k])}
<1>3. \A t \in 0 .. n : cut[t] \in 0 .. Len(q) /\ cut[t] \in Nat
  BY <1>1
<1>4. Len(q) \in Nat
  OBVIOUS
<1>5. \A t \in 1 .. n : pieces[t] = SubSeq(q, cut[t - 1] + 1, cut[t]) /\ pieces[t] \in Seq(E)
  <2> SUFFICES ASSUME NEW t \in 1 .. n
               PROVE  pieces[t] = SubSeq(q, cut[t - 1] + 1, cut[t]) /\ pieces[t] \in Seq(E)
    OBVIOUS
  <2>1. pieces[t] = SubSeq(q, cut[t - 1] + 1, cut[t])
    BY <1>2
  <2>2. cut[t - 1] \in Nat /\ cut[t] \in 0 .. Len(q)
    BY <1>3
  <2>3. SubSeq(q, cut[t - 1] + 1, cut[t]) \in Seq(E)
    BY <1>4, <2>2
  <2>4. QED
    BY <2>1, <2>3
<1>6. pieces \in Seq(Seq(E)) /\ Len(pieces) = n
  <2>1. pieces \in [1 .. n -> Seq(E)]
    <3>1. pieces = [t \in 1 .. n |-> pieces[t]]
      BY <1>2
    <3>2. QED
      BY <1>5, <3>1
  <2>2. QED
    BY <2>1, SeqOfFunction
<1> HIDE DEF first
<1>7. 0 \in S
  <2>1. first(0) = <<>> /\ SubSeq(q, 1, 0) = <<>>
    BY <1>6 DEF first
  <2>2. QED
    BY <1>1, <2>1, FlattenEmpty
<1>8. ASSUME NEW k \in Nat, k \in S PROVE k + 1 \in S
  <2> SUFFICES ASSUME k + 1 <= n
               PROVE  FlattenSeq(first(k + 1)) = SubSeq(q, 1, cut[k + 1])
    OBVIOUS
  <2>1. first(k) \in Seq(Seq(E)) /\ pieces[k + 1] \in Seq(E)
        /\ first(k + 1) = Append(first(k), pieces[k + 1])
    <3>1. k + 1 <= Len(pieces)
      BY <1>6
    <3>2. QED
      BY <1>6, <3>1, OneMore DEF first
  <2>2. FlattenSeq(first(k + 1)) = FlattenSeq(first(k)) \o pieces[k + 1]
    BY <2>1, FlattenAppend
  <2>3. FlattenSeq(first(k)) = SubSeq(q, 1, cut[k])
    BY <1>8
  <2>4. k \in 0 .. n /\ k + 1 \in 1 .. n /\ k + 1 \in 0 .. n /\ k \in 0 .. n - 1 /\ (k + 1) - 1 = k
    OBVIOUS
  <2>5. pieces[k + 1] = SubSeq(q, cut[k] + 1, cut[k + 1])
    BY <1>5, <2>4
  <2>6. cut[k] \in 0 .. Len(q) /\ cut[k + 1] \in cut[k] .. Len(q)
    BY <1>1, <1>3, <1>4, <2>4
  <2>7. SubSeq(q, 1, cut[k + 1]) = SubSeq(q, 1, cut[k]) \o SubSeq(q, cut[k] + 1, cut[k + 1])
    BY <2>6, CutBetween
  <2>8. QED
    BY <2>2, <2>3, <2>5, <2>7
<1>9. n \in S
  <2> HIDE DEF S
  <2>1. Nat \subseteq S
    BY <1>7, <1>8, SetInduction
  <2>2. QED
    BY <2>1
<1>10. first(n) = pieces /\ SubSeq(q, 1, Len(q)) = q
  BY <1>6 DEF first
<1>11. FlattenSeq(first(n)) = SubSeq(q, 1, cut[n])
  BY <1>9
<1>12. QED
  BY <1>1, <1>10, <1>11 DEF pieces
================================================================================
