-------------------------------- MODULE DeltaRule --------------------------------
(***************************************************************************)
(* The linear-attention layers: kda.h's gated delta rule, whose forward     *)
(* pass takes a chunk of steps at once through the inverse of a triangular  *)
(* matrix and whose backward pass walks the steps back; and gdn.h's         *)
(* recurrence, one token after the other, behind a causal convolution that  *)
(* keeps the last tokens of a call for the next.  The references take one   *)
(* step at a time, and one call for all tokens.                             *)
(***************************************************************************)
EXTENDS Matrices, SequencesExt

-----------------------------------------------------------------------------
(* kda.h, one head: q, k, v and the log decays g are T x dh, beta is T long.  *)

Prefix(g) ==     \* P[t][j]: the product of the decays up to step t
    FoldLeft(LAMBDA P, row : Append(P, Evaluated([j \in DOMAIN row |->
                 ((IF P = <<>> THEN 1 ELSE Last(P)[j]) * ExpOf(row[j])) % Prime])), <<>>, g)

\* (I - tril(diag(beta) K K^T, -1))^-1 by forward substitution, row by row on the
\* row as it was; the diagonal comes last.
Substituted(Tm, i) ==
    [Tm EXCEPT ![i] = Evaluated([j \in DOMAIN @ |->
        IF j < i THEN (@[j] + Total([r \in 1 .. i - 1 |-> @[r] * Tm[r][j]])) % Prime ELSE @[j]])]
UtTransform_EyeFirst(k, beta) ==
    FoldLeft(Substituted, Build(Len(k), Len(k), LAMBDA i, j : IF j < i THEN -beta[i] * Dot(k[i], k[j]) ELSE IF i = j THEN 1 ELSE 0),
             [i \in 1 .. Len(k) - 1 |-> i + 1])
UtTransform(k, beta) ==
    LET lower == Build(Len(k), Len(k), LAMBDA i, j : IF j < i THEN -beta[i] * Dot(k[i], k[j]) ELSE 0)
        done == FoldLeft(Substituted, lower, [i \in 1 .. Len(k) - 1 |-> i + 1])
    IN  Like(done, LAMBDA i, j : IF i = j THEN 1 ELSE done[i][j])

\* A chunk from the state S before it: its outputs, and the state after it.
KdaChunk(q, k, v, beta, P, S) ==
    LET vb == Like(v, LAMBDA i, j : ((v[i][j] * beta[i]) % Prime) * Recip(P[i][j]))
        qP == Times(q, P)
        T  == UtTransform(k, beta)
        A  == LET all == MatMul(qP, Flipped(k)) IN Like(all, LAMBDA i, j : IF j > i THEN 0 ELSE all[i][j])
        kb == Like(k, LAMBDA i, j : k[i][j] * beta[i])
        u  == Minus(MatMul(T, vb), MatMul(MatMul(T, kb), S))
    IN  [out |-> Plus(MatMul(A, u), MatMul(qP, S)), S |-> Plus(S, MatMul(Flipped(k), u))]
Part(x, i0, n) == SubSeq(x, i0 + 1, IF i0 + n < Len(x) THEN i0 + n ELSE Len(x))
KdaForward(h, chunk) ==
    LET P == Prefix(h.g)
        C == IF chunk < Len(h.q) THEN chunk ELSE Len(h.q)
        zero == Build(Len(h.q[1]), Len(h.q[1]), LAMBDA i, j : 0)
        take(st, n) ==
          LET i0 == (n - 1) * C
              r  == KdaChunk(Part(h.q, i0, C), Part(h.k, i0, C), Part(h.v, i0, C), Part(h.beta, i0, C), Part(P, i0, C), st.S)
          IN  [out |-> st.out \o r.out, S |-> r.S]
    IN  FoldLeft(take, [out |-> <<>>, S |-> zero], [n \in 1 .. (Len(h.q) + C - 1) \div C |-> n]).out

\* Backward.  Pass 1: the states again, state t + 1 after step t.
StepBack(S, k, b) == Minus(S, Outer(Evaluated([i \in DOMAIN k |-> (b * k[i]) % Prime]), MatMul(<<k>>, S)[1]))
KdaStates(h, P) ==
    FoldLeft(LAMBDA all, t :
        Append(all, Plus(StepBack(Last(all), h.k[t], h.beta[t]),
                         Outer(h.k[t], Evaluated([j \in DOMAIN h.v[t] |-> (((h.v[t][j] * h.beta[t]) % Prime) * Recip(P[t][j])) % Prime])))),
        <<Build(Len(h.k[1]), Len(h.k[1]), LAMBDA i, j : 0)>>, [t \in DOMAIN h.q |-> t])
\* Pass 2, from the last step down.  wants: which of q, k, v, g, beta want a gradient.
KdaDescend(h, P, states, go, wants, a, t) ==     \* a: [dS, dP, q, k, v, g, beta]
    LET k == h.k[t]
        b == h.beta[t]
        row(f(_)) == Evaluated([j \in DOMAIN k |-> f(j) % Prime])
        vpt == row(LAMBDA j : h.v[t][j] * Recip(P[t][j]))
        cst == row(LAMBDA j : vpt[j] * b)
        dS  == Plus(a.dS, Outer(row(LAMBDA j : h.q[t][j] * P[t][j]), go[t]))
        by(M, x) == Evaluated([i \in DOMAIN M |-> Dot(M[i], x)])
        sd  == by(states[t + 1], go[t])
        ktS == by(Flipped(dS), k)
        dM  == MatMul(dS, Flipped(states[t]))
        wb  == "beta" \in wants
        wg  == "g" \in wants \/ wb
        dP  == row(LAMBDA j : a.dP[j] + (IF wb THEN sd[j] * h.q[t][j] ELSE 0)
                                      - (IF wg THEN ((ktS[j] * b) % Prime) * ((vpt[j] * Recip(P[t][j])) % Prime) ELSE 0))
    IN  [dS |-> IF t > 1 THEN StepBack(dS, k, b) ELSE dS,
         dP |-> row(LAMBDA j : IF wg THEN dP[j] * ExpOf(h.g[t][j]) ELSE dP[j]),
         q  |-> [a.q EXCEPT ![t] = row(LAMBDA j : @[j] + sd[j] * P[t][j])],
         k  |-> [a.k EXCEPT ![t] = row(LAMBDA j : @[j] + by(dS, cst)[j] - b * (by(dM, k)[j] + by(Flipped(dM), k)[j]))],
         v  |-> [a.v EXCEPT ![t] = row(LAMBDA j : @[j] + ((ktS[j] * b) % Prime) * Recip(P[t][j]))],
         g  |-> [a.g EXCEPT ![t] = row(LAMBDA j : @[j] + (IF wg THEN dP[j] * P[t][j] ELSE 0))],
         beta |-> [a.beta EXCEPT ![t] = (@ + Dot(k, by(dS, vpt)) - Dot(k, by(dM, k))) % Prime]]
KdaBackward(h, go, wants) ==
    LET P == Prefix(h.g)
        states == KdaStates(h, P)
        T == Len(h.q)
        zero == Fill(h.q, 0)
    IN  FoldLeft(LAMBDA a, t : KdaDescend(h, P, states, go, wants, a, t),
                 [dS |-> Fill(states[1], 0), dP |-> Fill(h.q, 0)[1], q |-> zero, k |-> zero, v |-> zero, g |-> zero,
                  beta |-> [t \in 1 .. T |-> 0]],
                 [t \in 1 .. T |-> T + 1 - t])

-----------------------------------------------------------------------------
(* gdn.h: S and o per value head, value head hv reading key head hv % H_k.    *)

KeyHead(Hk, Hv, hv) == hv % Hk
GdnStep(Hk, S, t) ==     \* t: [q, k, v, beta, decay], q and k per key head
    LET Hv == Len(S)
        head(n) ==
          LET k   == t.k[KeyHead(Hk, Hv, n - 1) + 1]
              dec == Scaled(S[n], t.decay[n])
              sk  == MatMul(<<k>>, dec)[1]
              d   == Evaluated([j \in DOMAIN t.v[n] |-> (t.beta[n] * (t.v[n][j] - sk[j])) % Prime])
              now == Plus(dec, Outer(k, d))
          IN  [S |-> now, o |-> MatMul(<<t.q[KeyHead(Hk, Hv, n - 1) + 1]>>, now)[1]]
        all == Evaluated([n \in 1 .. Hv |-> head(n)])
    IN  [S |-> Evaluated([n \in 1 .. Hv |-> all[n].S]), o |-> Evaluated([n \in 1 .. Hv |-> all[n].o])]

\* The causal convolution over a call's rows: tap j of row t reads row t - P + j of
\* the call, or of the state when that is before it.  Then the state is the call's
\* last P rows, a row before the call being zero.
Conv1d(kernel, st, in) ==     \* kernel: taps x channels; st: [state, out]
    LET P == Len(kernel) - 1
        at(i) == IF i < 1 THEN st.state[i + P] ELSE in[i]
        out == Build(Len(in), Len(in[1]), LAMBDA t, c :
                 SigmoidOf(Total([j \in DOMAIN kernel |-> kernel[j][c] * at(t - P + j - 1)[c]])))
    IN  [state |-> [j \in 1 .. P |-> IF Len(in) - P + j < 1 THEN [c \in DOMAIN in[1] |-> 0] ELSE in[Len(in) - P + j]],
         out |-> st.out \o out]

-----------------------------------------------------------------------------
(* References.                                                                *)

KdaStep(S, q, k, v, beta, P) ==
    LET b == Evaluated([j \in DOMAIN v |-> (((v[j] * beta) % Prime) * Recip(P[j])) % Prime])
        now == Plus(StepBack(S, k, beta), Outer(k, b))
    IN  [S |-> now, o |-> MatMul(<<[j \in DOMAIN q |-> (q[j] * P[j]) % Prime]>>, now)[1]]
KdaSequential(h) ==
    LET P == Prefix(h.g)
    IN  FoldLeft(LAMBDA st, t :
            LET r == KdaStep(st.S, h.q[t], h.k[t], h.v[t], h.beta[t], P[t]) IN [S |-> r.S, out |-> Append(st.out, r.o)],
            [S |-> Build(Len(h.q[1]), Len(h.q[1]), LAMBDA i, j : 0), out |-> <<>>], [t \in DOMAIN h.q |-> t]).out

\* The change of the outputs for a change d of the inputs: the product rule along
\* the same steps.  A change of log P is the sum of the changes of g.
KdaTangent(h, d) ==
    LET P == Prefix(h.g)
        logs == FoldLeft(LAMBDA s, row : Append(s, Evaluated([j \in DOMAIN row |->
                    ((IF s = <<>> THEN 0 ELSE Last(s)[j]) + row[j]) % Prime])), <<>>, d.g)
        row(f(_), x) == Evaluated([j \in DOMAIN x |-> f(j) % Prime])
        take(st, t) ==
          LET k == h.k[t]  dk == d.k[t]  b == h.beta[t]  db == d.beta[t]
              w  == row(LAMBDA j : ((h.v[t][j] * b) % Prime) * Recip(P[t][j]), k)
              dw == row(LAMBDA j : ((((d.v[t][j] * b + h.v[t][j] * db) % Prime) * Recip(P[t][j])) % Prime) - w[j] * logs[t][j], k)
              kS  == MatMul(<<k>>, st.S)[1]
              dkS == Plus(MatMul(<<dk>>, st.S), MatMul(<<k>>, st.dS))[1]
              S   == Plus(StepBack(st.S, k, b), Outer(k, w))
              dS  == Plus(Minus(st.dS, Plus(Plus(Outer(row(LAMBDA j : db * k[j], k), kS), Outer(row(LAMBDA j : b * dk[j], k), kS)),
                                            Outer(row(LAMBDA j : b * k[j], k), dkS))),
                          Plus(Outer(dk, w), Outer(k, dw)))
              q   == row(LAMBDA j : h.q[t][j] * P[t][j], k)
              dq  == row(LAMBDA j : (d.q[t][j] * P[t][j]) + (q[j] * logs[t][j]), k)
          IN  [S |-> S, dS |-> dS, out |-> Append(st.out, Plus(MatMul(<<dq>>, S), MatMul(<<q>>, dS))[1])]
        zero == Build(Len(h.q[1]), Len(h.q[1]), LAMBDA i, j : 0)
    IN  FoldLeft(take, [S |-> zero, dS |-> zero, out |-> <<>>], [t \in DOMAIN h.q |-> t]).out

KdaGradient(h, go, of) ==
    LET still == [q |-> Fill(h.q, 0), k |-> Fill(h.q, 0), v |-> Fill(h.q, 0), g |-> Fill(h.q, 0),
                  beta |-> [t \in DOMAIN h.beta |-> 0]]
        along(d) == LET c == KdaTangent(h, d) IN Total([t \in DOMAIN go |-> Dot(go[t], c[t])])
    IN  IF of = "beta"
        THEN Evaluated([n \in DOMAIN h.beta |-> along([still EXCEPT !.beta[n] = 1])])
        ELSE Shaped(Len(h.q), Len(h.q[1]), Evaluated([n \in 1 .. Numel(h.q) |-> along([still EXCEPT ![of] = Unit(@, n)])]))

\* A decay's gradient is whole only when beta's is wanted too: see the README.
KdaExact(h, chunk, go, wants) ==
    LET back == KdaBackward(h, go, wants)
    IN  /\ KdaForward(h, chunk) = KdaSequential(h)
        /\ \A of \in wants : back[of] = KdaGradient(h, go, of)

\* Per value head, with the state written out as the sum of what each earlier token left.
GdnExact(Hk, tokens, zero) ==
    LET run == FoldLeft(LAMBDA st, t : LET r == GdnStep(Hk, st.S, t) IN [S |-> r.S, o |-> Append(st.o, r.o)],
                        [S |-> zero, o |-> <<>>], tokens)
        decayed(hv, S, t) == Scaled(S, t.decay[hv])
        head(hv, S, t) == LET k == t.k[((hv - 1) % Hk) + 1]
                          IN  Plus(StepBack(decayed(hv, S, t), k, t.beta[hv]),
                                   Outer(k, [j \in DOMAIN t.v[hv] |-> (t.beta[hv] * t.v[hv][j]) % Prime]))
    IN  \A hv \in DOMAIN zero :
          LET ref == FoldLeft(LAMBDA all, t : Append(all, head(hv, Last(all), t)), <<zero[hv]>>, tokens)
          IN  /\ run.S[hv] = Last(ref)
              /\ \A t \in DOMAIN tokens : run.o[t][hv] = MatMul(<<tokens[t].q[((hv - 1) % Hk) + 1]>>, ref[t + 1])[1]

\* The rows in calls of the given lengths, and in one call.
Calls(rows, lengths) ==
    FoldLeft(LAMBDA cut, n : [rest |-> SubSeq(cut.rest, n + 1, Len(cut.rest)), calls |-> Append(cut.calls, SubSeq(cut.rest, 1, n))],
             [rest |-> rows, calls |-> <<>>], lengths).calls
InCalls(kernel, calls) ==
    FoldLeft(LAMBDA st, in : Conv1d(kernel, st, in),
             [state |-> [j \in 1 .. Len(kernel) - 1 |-> [c \in DOMAIN kernel[1] |-> 0]], out |-> <<>>], calls)
ConvolutionCausal(kernel, rows, lengths) ==
    InCalls(kernel, Calls(rows, lengths)) = InCalls(kernel, <<rows>>)
=============================================================================
