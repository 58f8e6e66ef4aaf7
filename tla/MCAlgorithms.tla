----------------------------- MODULE MCAlgorithms -----------------------------
(* The pure algorithms on small inputs: a job names the part it runs and its    *)
(* input, and a property says what the part must give for it.  A job of the     *)
(* grammar is a turn of constrained decoding in Grammar's variable.             *)
EXTENDS Grammar, GrammarLanguage

VARIABLE job   (* [part, in, done] *)

vars == <<doc, job>>

-----------------------------------------------------------------------------
(* Grammars.                                                                  *)

A == Lit(<<0>>)
B == Lit(<<1>>)
MCRules ==
    <<[root |-> Cat(<<A, Rep("?", Ref("root")), B>>)],
      [root |-> Cat(<<Rep("+", Cls(<<<<0, 1>>, <<5, 7>>>>, TRUE)), Or(<<B, Dot>>)>>)],
      [root |-> Cat(<<Rep("*", Or(<<A, Cat(<<B, Cls(<<<<4, 7>>>>, FALSE)>>)>>)), Ref("x")>>),
       x    |-> Or(<<Lit(<<2, 0>>), Cls(<<<<3, 5>>>>, TRUE), Rep("?", Ref("y"))>>),
       y    |-> Lit(<<5>>)],
      [root |-> Rep("*", Ref("item")), item |-> Or(<<Rep("*", A), B>>)],
      [root |-> Cat(<<Rep("+", Or(<<Lit(<<2>>), Lit(<<5, 1>>), Lit(<<4>>)>>)),
                      Rep("+", Cls(<<<<1, 1>>>>, FALSE)), A>>)]>>
MCNames == <<<<"root">>, <<"root">>, <<"root", "x", "y">>, <<"item", "root">>, <<"root">>>>
\* Long enough that MaxBytes and one token more still begin a word of this many codepoints.
WordLength == <<14, 5, 7, 8, 7>>

MCTexts == [g \in DOMAIN MCRules |-> PrintedRules(MCNames[g], MCRules[g])]
MCVocab == <<<<"a">>, <<"b">>, <<"x">>, <<"y">>, <<"L">>, <<"M">>, <<"O">>, <<"L", "x">>, <<"a", "b">>,
             <<"a">>, <<"x", "b">>, <<"b", "M">>, <<"e">>>>
MCBlank == {2}

Words == [g \in DOMAIN MCRules |-> {Encoded(w) : w \in Language(MCRules[g], WordLength[g])}]
Heads == [g \in DOMAIN MCRules |-> UNION {{SubSeq(w, 1, k) : k \in 0 .. Len(w)} : w \in Words[g]}]

-----------------------------------------------------------------------------
(* Schemas.                                                                   *)

S == INSTANCE JsonSchema WITH MaxItems <- 2, MaxDepth <- 3, MaxUnits <- 3

Plain(k) == [k |-> k]
Named(name) == [k |-> "$ref", name |-> name]
Bounded(lo, hi) == [k |-> "string", bounded |-> TRUE, lo |-> lo, hi |-> hi]
ArrayOf(of, lo, hi) == [k |-> "array", items |-> of, lo |-> lo, hi |-> hi]
Object(props) == [k |-> "object", props |-> props]
Prop(key, of, required) == [key |-> key, of |-> of, required |-> required]

Defs == [d |-> Plain("integer"), e |-> Named("e")]
Scalars ==
    {Plain("null"), Plain("boolean"), Plain("integer"), Plain("number"), Named("d"), Named("e"),
     [k |-> "string", bounded |-> FALSE], [k |-> "enum", values |-> <<40, 41>>],
     [k |-> "union", of |-> <<Plain("integer"), Plain("null")>>]}
        \cup {Bounded(lo, hi) : lo \in 0 .. 2, hi \in {-1, 0, 1, 3}}
Arrays == {ArrayOf(x, lo, hi) : x \in {Plain("integer"), Bounded(1, 1)}, lo \in 0 .. 2, hi \in {-1, 0, 2}}
            \cup {ArrayOf(Object(<<Prop(50, Plain("integer"), TRUE)>>), 1, 2)}
Objects ==
    {Object(<<Prop(50, x, r1), Prop(51, Plain("integer"), r2)>>) :
        x \in {Plain("null"), ArrayOf(Plain("integer"), 1, 2)}, r1, r2 \in BOOLEAN}
      \cup {Object(<<Prop(50, Plain("null"), r1), Prop(51, Plain("integer"), r2), Prop(52, Plain("null"), r3)>>) :
              r1, r2, r3 \in BOOLEAN}
      \cup {Object(<<>>), Object(<<Prop(50, Object(<<Prop(51, Bounded(1, 1), TRUE)>>), TRUE)>>)}
SchemaBound == 14   \* symbols of a document

-----------------------------------------------------------------------------
(* Texts for the tokenizers.                                                  *)

MCBpe == <<<<"a">>, <<"s">>, <<"S">>, <<"l">>, <<"1">>, <<" ">>, <<"\n">>, <<"!">>, <<"'">>, <<"a", "a">>,
           <<" ", "a">>, <<"a", "s">>, <<"'", "s">>, <<"a", "a", "s">>, <<"a", "a", "a">>, <<"s", "s">>,
           <<" ", "a", "s">>, <<"!", "!">>, <<"!", "!", "!">>>>
Piece(text, score) == [text |-> text, score |-> score, type |-> "normal"]
Byte(b) == [text |-> <<"<" \o b \o ">">>, score |-> 0, type |-> "byte", bytes |-> <<b>>]
MCPieces ==
    <<[text |-> <<"C">>, score |-> 0, type |-> "control"], Piece(<<"_">>, -1), Piece(<<"a">>, -2),
      Piece(<<"s">>, -3), Piece(<<"_", "a">>, -4), Piece(<<"a", "a">>, -3), Piece(<<"a", "s">>, -3),
      Piece(<<"_", "_">>, -5), Piece(<<"a", "a", "s">>, -1), Piece(<<"_", "a", "s">>, -2),
      Piece(<<"s", "a">>, -4), Piece(<<"s", "s">>, -1), Piece(<<"_", "s", "s">>, -2),
      Byte("z1"), Byte("z2"), Byte("!")>>
T == INSTANCE TokenReference WITH
        BpeVocab <- MCBpe, SpPieces <- MCPieces,
        SpecialTokens <- {<<"!", "a">>, <<"!", "a", "!">>, <<"1", "!">>}

SeqUpTo(n, set) == UNION {[1 .. k -> set] : k \in 0 .. n}
BpeTexts == SeqUpTo(4, {"a", "s", "S", "1", " ", "\n", "!", "'"})
              \cup {<<"'", "l", "l", "a">>, <<"a", "'", "l", "l">>}
SpTexts == SeqUpTo(4, {"a", "s", " ", "z", "!"})

-----------------------------------------------------------------------------
(* Replies.                                                                   *)

PowerWeight(v) == 2 ^ (v + 8)
R == INSTANCE Reply WITH TopK <- 3, Window <- 2, Penalty <- 2, Weight <- PowerWeight

Draws == [lg : [1 .. 4 -> -1 .. 2], recent : {<<>>, <<1>>, <<2, 2>>, <<1, 2, 3>>, <<3, 1, 1>>},
          allowed : SUBSET (1 .. 4) \ {{}}, topP : {50, 90, 100}]
Cuts == [1 .. 3 -> UNION {[1 .. n -> {"a", "L", "M", "x", "F"}] : n \in 1 .. 2}]
Tails == [chars : SeqUpTo(3, R!Chars), tail : R!HalfChars]

-----------------------------------------------------------------------------
(* Products and convolutions, divided among two or three threads.              *)

G(threads) == INSTANCE Conv WITH Threads <- threads, Tiny <- 12, SplitM <- 20, SplitN <- 20, SplitK <- 24,
                                 SmallC <- 4, ParFlops <- 30, MinRows <- 2, PlaneTasks <- 2, MinColumns <- 2
Shapes == [M : {1, 3, 4, 6, 9}, N : {1, 2, 4, 5, 7}, K : {1, 2, 5, 9}]
Shape(n, c, o, h, w, kh, kw, s) == [B |-> n, C |-> c, O |-> o, H |-> h, W |-> w, kH |-> kh, kW |-> kw, s |-> s]
ConvShapes ==
    {Shape(n, 2, 3, 3, 5, 3, 3, s) : n \in 1 .. 3, s \in 1 .. 2}
      \cup {Shape(n, c, o, 2, 3, 1, 1, s) : n, c \in 1 .. 2, o \in {1, 3}, s \in 1 .. 2}
      \cup {Shape(n, c, o, 4, 3, 2, kw, 1) : n \in {1, 3}, c, o \in 1 .. 2, kw \in {1, 3}}
      \cup {Shape(1, 1, 1, 3, 8, 3, 3, 1), Shape(2, 5, 4, 1, 2, 1, 1, 1)}
Paddings == {G(2)!NoPad, [t |-> 1, b |-> 0, l |-> 0, r |-> 2], [t |-> 0, b |-> 1, l |-> 1, r |-> 0]}

-----------------------------------------------------------------------------
(* Programs on the tape: two operations and a loss, on four leaves of which    *)
(* the last wants no gradient; heads of attention; steps of a recurrence.       *)

N == INSTANCE Attention WITH Prime <- 97, Stale <- 55
D == INSTANCE DeltaRule WITH Prime <- 97

Noise(r, c, seed) == N!Build(r, c, LAMBDA i, j : i * i * 31 + j * 17 * (seed + i) + seed * seed * 5 + 3 * i * j * j)
Leaves == N!Leaves(<<<<<<3, 90>>, <<7, 2>>>>, <<<<5, 1>>, <<80, 4>>>>, <<<<6, 95>>>>, <<<<9, 2>>, <<1, 60>>>>>>,
                   <<TRUE, TRUE, TRUE, FALSE>>)
Op(k, in, arg) == [k |-> k, in |-> in, arg |-> arg]
OpsOn(i) ==
    {Op(k, <<i>>, 0) : k \in {"relu", "gelu", "sigmoid", "softmax", "transpose2d", "maxpool2x2"}}
      \cup {Op("scale", <<i>>, 5), Op("dropout", <<i>>, <<<<8, 0>>, <<0, 8>>>>), Op("gather", <<i>>, <<2, 1, 2>>),
            Op("slice", <<i>>, <<1, 2, 0, 2>>), Op("slice", <<i>>, <<0, 2, 1, 2>>), Op("reshape", <<i>>, <<1, 4>>),
            Op("layernorm", <<i, 3, 3>>, 0), Op("add_rowvec", <<i, 3>>, 0)}
Pairs(kinds, inputs) == {Op(k, in, 0) : k \in kinds, in \in inputs}
Binary == {"matmul", "matmul_nt", "add", "mul", "concat"}
Firsts == OpsOn(1) \cup Pairs(Binary, {<<1, 2>>, <<1, 1>>, <<4, 1>>})
Seconds == OpsOn(5) \cup Pairs(Binary, {<<5, 1>>, <<5, 4>>, <<5, 5>>, <<2, 5>>})
Losses == {Op("sum", <<6>>, 0), Op("cross_entropy", <<6>>, <<1, 0>>), Op("mse", <<6, 2>>, 0), Op("mse", <<6, 6>>, 0)}
ShapeAt(ops, i) == LET m == N!RunOps(Leaves, ops) IN <<N!RowCount(m.val[i]), N!ColCount(m.val[i])>>
Fits(p) == /\ ShapeAt(<<p[1]>>, 5) = <<2, 2>>
           /\ p[3].k = "sum" \/ ShapeAt(<<p[1], p[2]>>, 6) = <<2, 2>>
TrainedOps == {"matmul", "add", "mul", "add_rowvec", "relu", "layernorm"}

Heads3 == {[B |-> 1, T |-> 4, H |-> 2, dh |-> 1], [B |-> 2, T |-> 3, H |-> 1, dh |-> 2], [B |-> 2, T |-> 2, H |-> 2, dh |-> 1],
           [B |-> 1, T |-> 1, H |-> 1, dh |-> 2]}
AttentionOk(d, tile, threads) ==
    LET M(seed) == Noise(d.B * d.T, d.H * d.dh, seed)
    IN  N!AttentionExact([q |-> M(1), k |-> M(2), v |-> M(3)], d, tile, M(4), threads)
DeltaOk(T1, dh, chunk, wants) ==
    D!KdaExact([q |-> Noise(T1, dh, 1), k |-> Noise(T1, dh, 2), v |-> Noise(T1, dh, 3), g |-> Noise(T1, dh, 4),
                beta |-> Noise(1, T1, 5)[1]], chunk, Noise(T1, dh, 6), wants)
GdnToken(n) == [q |-> Noise(2, 2, n), k |-> Noise(2, 2, n + 1), v |-> Noise(4, 3, n + 2),
                beta |-> Noise(1, 4, n + 3)[1], decay |-> Noise(1, 4, n + 4)[1]]
GdnOk(tokens) == D!GdnExact(2, [t \in 1 .. tokens |-> GdnToken(t)], [n \in 1 .. 4 |-> Noise(2, 3, n)])
ConvOk(taps, lengths) ==
    D!ConvolutionCausal(Noise(taps, 2, 1), Noise(FoldLeft(LAMBDA a, n : a + n, 0, lengths), 2, 2), lengths)
CallLengths(least) == {<<m, n>> : m, n \in least .. 4} \cup {<<m, n, m>> : m, n \in least .. 3}

-----------------------------------------------------------------------------
(* Layers of the engine: rows of three numbers, five tokens in a few calls.     *)

Layer == INSTANCE LlamaLayer WITH Prime <- 97, Stale <- 55, MinBlocked <- 3
Demand == INSTANCE DemandWindow

Vec(n, seed) == Noise(1, n, seed)[1]
FfnWeights == [rms1 |-> Vec(3, 1), rms2 |-> Vec(3, 11), gate |-> Noise(2, 3, 12), up |-> Noise(2, 3, 13), down |-> Noise(3, 2, 14)]
AttnModel(h, kvh, dh, rot, gate, halves, bias) ==
    [H |-> h, KVH |-> kvh, dh |-> dh, rot |-> rot, gate |-> gate, halves |-> halves, norm |-> gate, bias |-> bias, ctx |-> 7]
AttnModels == {AttnModel(4, 2, 2, 0, FALSE, FALSE, TRUE), AttnModel(2, 1, 4, 2, TRUE, FALSE, FALSE),
               AttnModel(2, 2, 2, 0, TRUE, TRUE, FALSE)}
AttnWeights(m) ==
    LET qd == Layer!QD(m)  kv == m.KVH * m.dh
    IN  FfnWeights @@ [q |-> Noise(IF m.gate THEN 2 * qd ELSE qd, 3, 2), k |-> Noise(kv, 3, 3), v |-> Noise(kv, 3, 4),
                       bq |-> Vec(qd, 5), bk |-> Vec(kv, 6), bv |-> Vec(kv, 7), qn |-> Vec(m.dh, 8), kn |-> Vec(m.dh, 9),
                       o |-> Noise(3, qd, 10)]
AttnOptions == {[naive |-> FALSE, batched |-> p, pool |-> p, block |-> b, kq |-> t[1], vq |-> t[2],
                 proj |-> IF p THEN "fused" ELSE "grouped", slice |-> 3] :
                   p \in BOOLEAN, b \in {0, 2}, t \in {<<TRUE, TRUE>>, <<FALSE, FALSE>>, <<TRUE, FALSE>>}}
GdnModels == {[Hk |-> 2, Hv |-> 4, Dk |-> 2, Dv |-> 3, taps |-> 3], [Hk |-> 1, Hv |-> 2, Dk |-> 2, Dv |-> 1, taps |-> 2]}
GdnWeights(g) ==
    LET vn == g.Hv * g.Dv  c == (2 * g.Hk * g.Dk) + vn
    IN  FfnWeights @@ [qkv |-> Noise(c, 3, 2), z |-> Noise(vn, 3, 3), beta |-> Noise(g.Hv, 3, 4), alpha |-> Noise(g.Hv, 3, 5),
                       conv |-> Vec(c * g.taps, 6), dt |-> Vec(g.Hv, 7), a |-> Vec(g.Hv, 8), norm |-> Vec(g.Dv, 9),
                       out |-> Noise(3, vn, 10)]
Stack == <<Noise(2, 2, 1), Noise(3, 2, 2), Noise(1, 2, 3)>>
DenseLayers == [linear : {[l \in 1 .. n |-> FALSE] : n \in {3, 5}}, dtype : {[l \in 1 .. 5 |-> k] : k \in {"q4", "q8", "f16"}}]

-----------------------------------------------------------------------------
(* Stored weights: vectors of four bytes, so blocks of 8, 32 and 64; real       *)
(* widths for what is rounded and for the files.                                *)

Q == INSTANCE Quantisers WITH Prime <- 97, Lanes <- 4, HalfMan <- 10, NoReciprocal <- 60
H == INSTANCE Halves WITH FloatExp <- 4, FloatMan <- 5, HalfExp <- 3, HalfMan <- 3
F == INSTANCE ModelFiles WITH Chunk <- 420

Scatter(n, seed, m) == Q!Each(n, LAMBDA k : ((k * k * 31) + (k * 17 * seed) + (seed * seed * 5) + 7 + (k * k * k * (seed % 3))) % m)
Formats == {"q8", "q4", "q41", "q5k", "q6k", "tq2", "tq1"}
BlockOf(t, seed) ==
    LET b(n, k) == Scatter(n, seed + k, 256)
        s(k) == Scatter(3, seed, 90)[k]
        d(r) == r @@ [d |-> s(1)]
    IN  CASE t = "q8" -> d([qs |-> Q!Less(Scatter(8, seed, 255), 127)])
          [] t \in {"q4", "tq1"} -> d([qs |-> b(4, 1)])
          [] t = "q41" -> d([m |-> s(2), qs |-> b(4, 1)])
          [] t = "q5k" -> d([dmin |-> s(2), scales |-> b(12, 2), qh |-> b(8, 3), qs |-> b(32, 4)])
          [] t = "q6k" -> d([scales |-> Q!Less(b(16, 2), 128), ql |-> b(32, 3), qh |-> b(16, 4)])
          [] t = "tq2" -> d([qs |-> b(8, 1)])
Blank0(t) ==
    LET b == BlockOf(t, 1)
    IN  [f \in DOMAIN b |-> CASE f = "d" -> 1 [] f \in {"m", "dmin"} -> 2 [] f = "scales" -> [k \in DOMAIN b[f] |-> 1]
                              [] OTHER -> [k \in DOMAIN b[f] |-> 0]]
BlocksIn(t) == CASE t \in {"q8", "q4"} -> 6 [] t = "q41" -> 3 [] OTHER -> 2
StoredRows(t, rows) == [o \in 1 .. rows |-> [i \in 1 .. BlocksIn(t) |-> BlockOf(t, (o * 7) + i)]]
\* One scale per eight elements, or per thirty-two.
Activations(t, seed, wide) ==
    LET n == BlocksIn(t) * Q!ElemsOf(t)  s == Scatter(n \div 8, seed + 2, 50)
    IN  Q!Activation(Q!Less(Scatter(n, seed, 255), 127), [k \in 1 .. n \div 8 |-> IF wide THEN s[(4 * ((k - 1) \div 4)) + 1] ELSE s[k]])
Modes == {"block", "per32", "zip"}

Weights(m, n, sign) == [i \in 1 .. n |-> sign * (IF i = 3 THEN -m ELSE IF i = n - 1 THEN m
                                                ELSE (((i * i * 37) + (m * i * 11)) % (2 * m + 1)) - m)]
Magnitudes == (0 .. 60) \cup {100, 127, 254, 255, 381, 507, 509, 511, 762, 1023, 1300, 5080, 7777, 33000, 64516, 64517, 130000,
                             262141, 600000, 1040383, 1040385, 1040900}

FileRecord(name, d, shape) == [name |-> name, dtype |-> d, shape |-> shape, nblocks |-> F!Volume(shape) \div F!BlockElems[d]]
FileRecords == {FileRecord(<<>>, 3, <<1>>), FileRecord(<<65>>, 3, <<1, 2>>), FileRecord(<<66>>, 2, <<2>>),
                FileRecord(<<>>, 1, <<1, 32>>), FileRecord(<<67, 68>>, 7, <<128>>), FileRecord(<<>>, 3, <<1, 1, 1>>)}
FileLists == {<<>>, [i \in 1 .. 3 |-> FileRecord(<<>>, 3, <<1>>)]} \cup {<<a>> : a \in FileRecords} \cup (FileRecords \X FileRecords)
Source(name, type, dims) == [name |-> name, type |-> type, dims |-> dims]
Sources == {x \in {Source(n, t, IF n = "norm" THEN <<d[1]>> ELSE d) :
                      n \in {"q_proj", "k_proj", "mlp", "conv1d", "alpha", "norm", "lm_head"}, t \in DOMAIN F!SourceBytes,
                      d \in {<<32, 8>>, <<64, 4>>, <<256, 4>>, <<16, 8>>, <<4, 64>>}} :
              F!Volume(x.dims) % F!SourceElems[x.type] = 0}
Converters == [arch : {"llama", "qwen35"}, heads : {2}, kvheads : {1, 2}, lmhead : {"", "q4", "f16"}]

-----------------------------------------------------------------------------

Job(part, in) == job = [part |-> part, in |-> in, done |-> FALSE]
Idle == doc = [NewDoc(1) EXCEPT !.ended = TRUE]

Init ==
    \/ \E g \in DOMAIN Texts : doc = NewDoc(g) /\ job = [part |-> "grammar", in |-> g, done |-> TRUE]
    \/ /\ Idle
       /\ \/ \E s \in Scalars \cup Arrays \cup Objects : Job("schema", s)
          \/ \E s \in BpeTexts : Job("bytepairs", s)
          \/ \E s \in SpTexts : Job("sentencepiece", s)
          \/ \E d \in Draws : Job("draw", d)
          \/ \E d \in Cuts : Job("cuts", d)
          \/ \E t \in Tails : Job("tail", t)
          \/ \E x \in Shapes, t \in 2 .. 3 : Job("product", [of |-> x, threads |-> t])
          \/ \E x \in ConvShapes, p \in Paddings : Job("conv", [of |-> x, pad |-> p, threads |-> 2])
          \/ \E n \in 1 .. 5 : \E before, after \in 0 .. n : Job("padding", <<n, before, after>>)
          \/ \E p \in Firsts \X Seconds \X Losses : Fits(p) /\ Job("program", p)
          \/ \E d \in Heads3, tile \in 1 .. 3, t \in 1 .. 2 : Job("attention", <<d, tile, t>>)
          \/ \E steps \in {1, 3, 5}, dh \in 1 .. 2, chunk \in {1, 2, 7},
                 wants \in {{"q"}, {"k", "v"}, {"q", "k", "v", "g", "beta"}} : Job("delta", <<steps, dh, chunk, wants>>)
          \/ \E n \in 1 .. 4 : Job("gdn", n)
          \/ \E taps \in 2 .. 4 : \E lengths \in CallLengths(1) : Job("conv1d", <<taps, lengths>>)
          \/ \E n \in 1 .. 12, t \in 1 .. 5 : Job("chunks", <<n, t>>)
          \/ \E m \in AttnModels, o \in AttnOptions, lengths \in {<<5>>, <<1, 3, 1>>} :
               Job("layer", [of |-> m, with |-> o, lengths |-> lengths])
          \/ \E g \in GdnModels, lengths \in {<<5>>, <<2, 3>>} : Job("linear", <<g, lengths>>)
          \/ \E t \in {1, 7, 9, 17, 25}, slice \in 1 .. 6, chunk \in {8, 16} : Job("projection", <<t, slice, chunk>>)
          \/ \E d \in DenseLayers, window \in 1 .. 3 : Job("demand", <<d, window>>)
          \/ \E t \in Formats \ {"tq1"}, mode \in Modes : (t = "tq2" \/ mode = "zip") /\ Job("rows", <<t, mode>>)
          \/ \E t \in Formats : Job("blocks", t)
          \/ \E m \in Magnitudes, n \in {8, 32}, sign \in {-1, 1} : Job("stored", <<m, n, sign>>)
          \/ \E x \in H!Floats : Job("float", x)
          \/ \E x \in H!HalfCodes : Job("half", x)
          \/ \E x \in FileLists : Job("file", x)
          \/ \E x \in FileLists : \E at \in 1 .. 50, byte \in {0, 1, 2, 4, 255} :
               at <= Len(F!FileOf(x)) /\ Job("otherfile", <<x, at, byte>>)
          \/ \E x \in Sources, m \in Converters : Job("convert", <<x, m>>)

Decode == Sample /\ UNCHANGED job
Run == ~job.done /\ job' = [job EXCEPT !.done = TRUE] /\ UNCHANGED doc
Next == Decode \/ Run

Spec == Init /\ [][Next]_vars

\* A step runs a job of this part.
Ran(part) == job.part = part /\ job # job'

-----------------------------------------------------------------------------
(* Properties.                                                                *)

Sound(p) == \A i \in 2 .. Len(p) : p[i] \in Continuation

Exact(d, m) ==
    LET claimed(s, id) == Sound(s.pending) => (id \in Allowed(m, State(d)) <=> d.out \o Vocab[id] \in Heads[d.g])
    IN  /\ \A id \in Offered : claimed(AdvanceAll(m, State(d), Vocab[id]), id)
        /\ Eos \in Allowed(m, State(d)) <=> d.out \in Words[d.g]

\* gbnf.h: the mask lets a token through exactly when what is written so far and
\* the token begin a word of the grammar, and the end exactly when a word is
\* complete.  A token that ends inside a codepoint is claimed for only while the
\* bytes after its lead are continuations.
GrammarExact == ~doc.ended /\ Sound(doc.pending) => Exact(doc, Machines[doc.g])

RECURSIVE HasOptional(_), MayBeEmpty(_)
HasOptional(x) == \/ x.k = "object" /\ \E i \in S!Keys(x) : ~x.props[i].required \/ HasOptional(x.props[i].of)
                  \/ x.k = "array" /\ HasOptional(x.items)
MayBeEmpty(x) == \/ x.k = "string" /\ x.bounded /\ S!Lengths(x).lo = 0
                 \/ x.k = "array" /\ ((S!Bounds(x).lo = 0 /\ S!Bounds(x).hi > 0) \/ MayBeEmpty(x.items))
                 \/ x.k = "object" /\ \E i \in S!Keys(x) : MayBeEmpty(x.props[i].of)

\* jsonschema_to_gbnf.py: of a schema it supports, with no optional property and
\* nothing that may be empty, the grammar's words are exactly its documents.
SchemaExact ==
    [][ Ran("schema") /\ S!Supported(job.in, Defs, 0) /\ ~HasOptional(job.in) /\ ~MayBeEmpty(job.in) =>
            S!Language(S!CompileSchema(job.in, Defs), SchemaBound) = S!Documents(job.in, Defs, SchemaBound) ]_vars

\* bpe.h and sp_tokenizer.h: a text is cut where the documented expression cuts
\* it, merged in the order a full rescan would merge it (the heap drops a stale
\* pair and forgets none), and its tokens give every byte of it back.
TokenizersExact ==
    [][ /\ Ran("bytepairs") => /\ T!SplitsAsDocumented(job.in) /\ T!BytePairsInRankOrder(job.in)
                               /\ T!BytesRoundTrip
        /\ Ran("sentencepiece") => T!HeapIsRescan(job.in) ]_vars

\* tmsample.h and flush_out: a draw is from the nucleus of what the grammar
\* allows, and what is shown is every complete character wherever tokens cut it.
ReplyExact ==
    [][ /\ Ran("draw") => /\ R!NucleusOfTheAllowed(job.in.lg, job.in.recent, job.in.allowed, job.in.topP)
                          /\ R!Drawn(job.in.lg, job.in.recent, job.in.allowed, job.in.topP, TRUE) \subseteq job.in.allowed
        /\ Ran("cuts") => R!CutsDoNotShow(job.in)
        /\ Ran("tail") => R!WellFormedShown(job.in.chars, job.in.tail) ]_vars

\* train_engine.h and autograd.h: however a product or a convolution is divided
\* among the threads, whatever path its shape takes, every element of the result
\* is written by one task and sums the right products, in the order of one
\* thread; what the backward pass sums is the transpose of what the forward pass
\* read, each product once.
KernelsExact ==
    [][ /\ Ran("product") => G(job.in.threads)!ProductsExact(job.in.of.M, job.in.of.N, job.in.of.K)
        /\ Ran("conv") => /\ G(job.in.threads)!ConvolutionExact(job.in.of)
                          /\ G(job.in.threads)!FusedExact(job.in.of, job.in.pad)
                          /\ G(job.in.threads)!DepthwiseExact(job.in.of)
        /\ Ran("padding") => G(2)!PaddingsExact(job.in[1], job.in[2], job.in[3])
        /\ Ran("chunks") => \A n \in {N!CeilDiv(job.in[1], N!PerThread(job.in[1], job.in[2]))} :
                              N!SlotsExact(job.in[1], job.in[2], n) ]_vars

\* autograd.h, attention.h and optim.h: whatever shares a gradient buffer, takes
\* it uncleared or adds into it, after a backward pass each parameter's gradient is
\* the derivative of the loss; two micro-batches add up and one step moves by them.
GradientsExact ==
    [][ /\ Ran("program") =>
             /\ N!GradientsOf(Leaves, job.in)
             /\ job.in[1].k \in TrainedOps /\ job.in[2].k \in TrainedOps => N!TrainingExact(Leaves, job.in)
        /\ Ran("attention") => AttentionOk(job.in[1], job.in[2], job.in[3]) ]_vars

\* kda.h and gdn.h: a chunk of steps taken at once is the steps one by one,
\* whatever the chunk, and its gradients theirs; each value head follows its own
\* key head; calls of at least K - 1 tokens are one convolution.
RecurrencesExact ==
    [][ /\ Ran("delta") => DeltaOk(job.in[1], job.in[2], job.in[3], job.in[4])
        /\ Ran("gdn") => GdnOk(job.in)
        /\ Ran("conv1d") /\ (\A i \in DOMAIN job.in[2] : job.in[2][i] >= job.in[1] - 1) =>
             ConvOk(job.in[1], job.in[2]) ]_vars

\* llama.h: however a sequence is cut into calls, whichever path its attention and
\* its projections take, in whatever order the units run and wherever the cache
\* holds rows of another sequence, a layer's rows are those of the sequence taken
\* token by token and head by head, and the cache holds its keys and values and
\* nothing else; with weights mapped on demand a layer has its own when it runs,
\* and no more than two windows of layers are mapped.
LayersExact ==
    [][ /\ Ran("layer") => Layer!AttentionLayerExact(job.in.of, AttnWeights(job.in.of), job.in.with, Noise(5, 3, 20), job.in.lengths)
        /\ Ran("linear") => Layer!LinearLayerExact(job.in[1], GdnWeights(job.in[1]), [proj |-> "each"], Noise(5, 3, 20), job.in[2])
        /\ Ran("projection") => Layer!ProjectionsExact(Stack, Noise(job.in[1], 2, 4), job.in[2], job.in[3])
        /\ Ran("demand") => Demand!PassesReady(job.in[1], job.in[2], 2) ]_vars

\* quant.h, tmq.h, llama.h and convert_gguf.cpp: every kernel sums what the blocks'
\* definition says, each bit of a block once; a value comes back from every format
\* within its step, a half as the nearest; a file of weights is read as it was
\* written and no other file is taken for it; a converted tensor is the source's
\* rows in the engine's order, in a record the loader takes.
FormatsExact ==
    [][ /\ Ran("rows") => LET t == job.in[1]
                          IN  Q!RowsExact(t, job.in[2], StoredRows(t, IF t \in {"q8", "q4"} THEN 6 ELSE 2),
                                          Activations(t, 3, job.in[2] = "block"))
        /\ Ran("blocks") =>
             /\ Q!UnpackedExact(job.in, StoredRows(job.in, 2), <<Activations(job.in, 3, FALSE), Activations(job.in, 4, FALSE)>>)
             /\ job.in # "q8" => Q!BitsPlaced(job.in, Blank0(job.in), {"qs", "ql", "qh"} \cap DOMAIN Blank0(job.in))
             /\ Q!ScalesPlaced
        /\ Ran("stored") => LET x == Weights(job.in[1], job.in[2], job.in[3])
                            IN  Q!StoredExact(x) /\ (job.in[1] <= 10000 /\ job.in[2] = 32 => Q!ActivationExact(x))
        /\ Ran("float") => H!NearestHalf(job.in)
        /\ Ran("half") => H!RoundTrip(job.in)
        /\ Ran("file") => F!IndexExact(job.in)
        /\ Ran("otherfile") => F!NoOtherFile(job.in[1], job.in[2], job.in[3])
        /\ Ran("convert") => F!ConversionExact(<<Source("embed", "Q6_K", <<256, 2>>), job.in[1]>>, job.in[2]) ]_vars

\* gdn.h:117-119: the state holds the previous K - 1 tokens, so that the
\* convolution of a sequence does not depend on how it was cut into calls.
ConvolutionOfTheSequence == job.part = "conv1d" /\ job.done => ConvOk(job.in[1], job.in[2])
=============================================================================
