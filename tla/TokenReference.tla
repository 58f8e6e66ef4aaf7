---------------------------- MODULE TokenReference ----------------------------
(* What the tokenizers of tensormark/bpe.h and sp_tokenizer.h are meant to     *)
(* compute: the split by the regular expression each documents, matched by     *)
(* backtracking, byte-pair merges applied in the order of their ranks, and the *)
(* SentencePiece merge that rescans every pair in every round.                 *)
EXTENDS Tokenizers

OneIn(set) == [n |-> "set", v |-> set]
Opt(x) == [n |-> "opt", v |-> x]
Star(x) == [n |-> "star", v |-> x]
Cat(xs) == [n |-> "cat", v |-> xs]
Plus(x) == Cat(<<x, Star(x)>>)
NoWordNext == [n |-> "ahead", v |-> Spaces]

\* Where x can end when it starts at i, in the order a backtracking matcher tries.
RECURSIVE Ends(_, _, _)
Ends(x, s, i) ==
    CASE x.n = "set"   -> IF i <= Len(s) /\ s[i] \in x.v THEN <<i + 1>> ELSE <<>>
      [] x.n = "ahead" -> IF i > Len(s) \/ s[i] \in x.v THEN <<i>> ELSE <<>>
      [] x.n = "opt"   -> Append(Ends(x.v, s, i), i)
      [] x.n = "star"  -> LET once == Ends(x.v, s, i)
                          IN  Append(FlattenSeq([k \in DOMAIN once |-> Ends(x, s, once[k])]), i)
      [] x.n = "cat"   -> IF x.v = <<>> THEN <<i>>
                          ELSE LET first == Ends(x.v[1], s, i)
                               IN  FlattenSeq([k \in DOMAIN first |-> Ends(Cat(Tail(x.v)), s, first[k])])

\* The first alternative that matches, at its first end.
FirstMatch(alts, s, i) ==
    LET hits == {k \in DOMAIN alts : Ends(alts[k], s, i) # <<>>}
    IN  Head(Ends(alts[CHOOSE k \in hits : \A j \in hits : k <= j], s, i))

Quoted(sets) == Cat(<<OneIn({"'"})>> \o sets)
Text == Letters \cup Digits \cup Spaces \cup Others

\* 's|'ll| ?\p{L}+| ?\p{N}+| ?[^\s\p{L}\p{N}]+|\s+(?!\S)|\s+
Gpt2Pattern ==
    <<Quoted(<<OneIn({"s"})>>), Quoted(<<OneIn({"l"}), OneIn({"l"})>>),
      Cat(<<Opt(OneIn({" "})), Plus(OneIn(Letters))>>), Cat(<<Opt(OneIn({" "})), Plus(OneIn(Digits))>>),
      Cat(<<Opt(OneIn({" "})), Plus(OneIn(Others))>>),
      Cat(<<Plus(OneIn(Spaces)), NoWordNext>>), Plus(OneIn(Spaces))>>

\* (?:'[sS]|'[lL][lL])|[^\r\n\p{L}\p{N}]?\p{L}+|\p{N}| ?[^\s\p{L}\p{N}]+[\r\n]*
\*   |\s*[\r\n]+|\s+(?!\S)|\s+
QwenPattern ==
    <<Quoted(<<OneIn({"s", "S"})>>), Quoted(<<OneIn({"l"}), OneIn({"l"})>>),
      Cat(<<Opt(OneIn(Text \ ({"\n"} \cup Letters \cup Digits))), Plus(OneIn(Letters))>>),
      OneIn(Digits),
      Cat(<<Opt(OneIn({" "})), Plus(OneIn(Others)), Star(OneIn({"\n"}))>>),
      Cat(<<Star(OneIn(Spaces)), Plus(OneIn({"\n"}))>>),
      Cat(<<Plus(OneIn(Spaces)), NoWordNext>>), Plus(OneIn(Spaces))>>

RECURSIVE SplitBy(_, _, _)
SplitBy(alts, s, i) == IF i > Len(s) THEN <<>>
                       ELSE LET e == FirstMatch(alts, s, i)
                            IN  <<SubSeq(s, i, e - 1)>> \o SplitBy(alts, s, e)

\* One pass of byte-pair encoding: every pair that makes the piece, left to right.
RECURSIVE MergedAs(_, _)
MergedAs(parts, piece) ==
    IF Len(parts) < 2 THEN parts
    ELSE IF parts[1] \o parts[2] = piece THEN <<piece>> \o MergedAs(SubSeq(parts, 3, Len(parts)), piece)
    ELSE <<parts[1]>> \o MergedAs(Tail(parts), piece)
RankOrder(piece) == FoldLeft(MergedAs, [i \in DOMAIN piece |-> <<piece[i]>>], BpeVocab)

\* SentencePiece: in every round the best pair of all, the leftmost of equals.
RECURSIVE Rescanned(_)
Rescanned(t) ==
    LET known == {a \in 1 .. Len(t) - 1 : PieceIds(t[a] \o t[a + 1]) # {}}
        worth(a) == Score(t[a] \o t[a + 1])
        best  == CHOOSE a \in known : \A b \in known : worth(a) > worth(b) \/ (worth(a) = worth(b) /\ a <= b)
    IN  IF known = {} THEN t
        ELSE Rescanned(SubSeq(t, 1, best - 1) \o <<t[best] \o t[best + 1]>> \o SubSeq(t, best + 2, Len(t)))

\* The tokenizers agree with their references and give every text back.
SplitsAsDocumented(s) ==
    /\ Gpt2Split(s, 1) = SplitBy(Gpt2Pattern, s, 1)
    /\ QwenSplit(s, 1) = SplitBy(QwenPattern, s, 1)
BytesRoundTrip == \A b \in 0 .. 255 : Unmapped(Mapped(b)) = b
BytePairsInRankOrder(s) ==
    /\ \A k \in DOMAIN Gpt2Split(s, 1) :
          LET piece == Gpt2Split(s, 1)[k]
          IN  [i \in DOMAIN EncodePiece(piece) |-> BpeVocab[EncodePiece(piece)[i]]] = RankOrder(piece)
    /\ FlattenSeq(EncodeQwen(s, 1)) = s
HeapIsRescan(s) ==
    LET ids == SpEncode(s)
    IN  s # <<>> =>
          /\ [k \in DOMAIN ids |-> SpPieces[ids[k]].text] = Rescanned(Seeded(s))
          /\ SpDecode(ids) = FlattenSeq([k \in DOMAIN s |-> Bytes(s[k])])
=============================================================================
