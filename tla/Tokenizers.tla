------------------------------ MODULE Tokenizers ------------------------------
(***************************************************************************)
(* tensormark/bpe.h and sp_tokenizer.h: text to token ids.  A character is  *)
(* a string of its class: "a", "s", "S" and "l" are letters (the last three *)
(* occur in contractions), "1" a digit, " " and "\n" white space, "!" and   *)
(* "'" the rest.  White space of more than one byte is left out.  A piece   *)
(* is a sequence of characters; for SentencePiece "_" is U+2581 and "z" a   *)
(* codepoint of two bytes that no piece holds.                              *)
(***************************************************************************)
EXTENDS Integers, SequencesExt, FiniteSets

CONSTANTS BpeVocab,      (* token_ids: the pieces in order of their ids        *)
          SpecialTokens, (* special_tokens                                     *)
          SpPieces       (* the SentencePiece table: [text, score, type]       *)

Letters == {"a", "s", "S", "l"}
Digits == {"1"}
Spaces == {" ", "\n"}
Others == {"!", "'"}
Contractions == {<<"'", "s">>, <<"'", "l", "l">>}
AnyCase(ch) == IF ch = "S" THEN "s" ELSE ch

\* make_byte_to_cp: what is not printable is numbered from 256 on; its inverse.
Printable == (33 .. 126) \cup (161 .. 172) \cup (174 .. 255)
ByteToCp == [b \in 0 .. 255 |-> IF b \in Printable THEN b
                                ELSE 256 + Cardinality((0 .. b - 1) \ Printable)]
CpToByte == [cp \in {ByteToCp[b] : b \in 0 .. 255} |-> CHOOSE b \in 0 .. 255 : ByteToCp[b] = cp]

\* bytes_to_unicode_str of one byte, and unicode_str_to_bytes of what it gives.
Mapped(b) == LET cp == ByteToCp[b]
             IN  IF cp < 128 THEN <<cp>> ELSE <<192 + cp \div 64, 128 + (cp % 64)>>
Unmapped(u) == CpToByte[IF u[1] < 128 THEN u[1] ELSE (u[1] % 32) * 64 + (u[2] % 64)]

\* The end of the run of members of set that starts at i: the first index past it.
RECURSIVE RunEnd(_, _, _)
RunEnd(s, i, set) == IF i <= Len(s) /\ s[i] \in set THEN RunEnd(s, i + 1, set) ELSE i

StartsWith(s, i, piece) == i + Len(piece) - 1 <= Len(s) /\ SubSeq(s, i, i + Len(piece) - 1) = piece

-----------------------------------------------------------------------------
(* Splitting a text into pieces.                                             *)

\* gpt2_split: where the piece that starts at i ends.
Gpt2PieceEnd(s, i) ==
    LET short == {c \in Contractions : StartsWith(s, i, c)}
        run   == RunEnd(s, i, Spaces)
        body  == IF s[i] = " " THEN i + 1 ELSE i
    IN  IF short # {} THEN i + Len(CHOOSE c \in short : TRUE)
        ELSE IF run > i /\ run > Len(s) THEN run
        ELSE IF run > i + 1 THEN run - 1
        ELSE IF s[body] \in Spaces THEN body + 1
        ELSE RunEnd(s, body, CHOOSE set \in {Letters, Digits, Others} : s[body] \in set)

\* qwen2_piece_len and the same alternation in qwen2_split.
QwenPieceEnd(s, i) ==
    LET folded == [k \in DOMAIN s |-> AnyCase(s[k])]
        short  == {c \in Contractions : StartsWith(folded, i, c)}
        words  == IF s[i] \in Letters THEN i ELSE i + 1
        symbol == IF s[i] = " " THEN i + 1 ELSE i
        rest   == RunEnd(s, symbol, Others)
        run    == RunEnd(s, i, Spaces)
        breaks == {k \in i .. run - 1 : s[k] = "\n"}
    IN  IF short # {} THEN i + Len(CHOOSE c \in short : TRUE)
        ELSE IF /\ s[i] \notin Digits \cup {"\n"}
                /\ words <= Len(s) /\ s[words] \in Letters THEN RunEnd(s, words, Letters)
        ELSE IF s[i] \in Digits THEN i + 1
        ELSE IF rest > symbol THEN RunEnd(s, rest, {"\n"})
        ELSE IF breaks # {} THEN Max(breaks) + 1
        ELSE IF run > Len(s) \/ run = i + 1 THEN run
        ELSE run - 1

RECURSIVE Gpt2Split(_, _), QwenSplit(_, _)
Gpt2Split(s, i) == IF i > Len(s) THEN <<>>
                   ELSE LET e == Gpt2PieceEnd(s, i)
                        IN  <<SubSeq(s, i, e - 1)>> \o Gpt2Split(s, e)
QwenSplit(s, i) == IF i > Len(s) THEN <<>>
                   ELSE LET e == QwenPieceEnd(s, i)
                        IN  <<SubSeq(s, i, e - 1)>> \o QwenSplit(s, e)

-----------------------------------------------------------------------------
(* Byte-level BPE.                                                           *)

IdOf(piece) == IF Contains(BpeVocab, piece)
               THEN CHOOSE id \in DOMAIN BpeVocab : BpeVocab[id] = piece ELSE 0

\* encode_piece: the adjacent pair whose piece has the lowest id is merged,
\* leftmost first, until no pair has one.
RECURSIVE Merged(_)
Merged(parts) ==
    LET known == {p \in 1 .. Len(parts) - 1 : IdOf(parts[p] \o parts[p + 1]) # 0}
        rank(p) == IdOf(parts[p] \o parts[p + 1])
        best  == {p \in known : \A q \in known : rank(p) < rank(q) \/ (rank(p) = rank(q) /\ p <= q)}
    IN  IF known = {} THEN parts
        ELSE LET p == CHOOSE q \in best : TRUE
             IN  Merged(SubSeq(parts, 1, p - 1) \o <<parts[p] \o parts[p + 1]>>
                          \o SubSeq(parts, p + 2, Len(parts)))

EncodePiece(piece) ==
    LET parts == Merged([i \in DOMAIN piece |-> <<piece[i]>>])
    IN  [i \in DOMAIN parts |-> IdOf(parts[i])]

\* encode: the GPT-2 split, then BPE.
EncodeGpt2(s) == FlattenSeq([k \in DOMAIN Gpt2Split(s, 1) |-> EncodePiece(Gpt2Split(s, 1)[k])])

\* encode_qwen: at the start of a piece the longest special token goes first.
RECURSIVE EncodeQwen(_, _)
EncodeQwen(s, i) ==
    LET hits == {t \in SpecialTokens : StartsWith(s, i, t)}
        hit  == CHOOSE t \in hits : \A u \in hits : Len(u) <= Len(t)
        e    == QwenPieceEnd(s, i)
    IN  IF i > Len(s) THEN <<>>
        ELSE IF hits # {} THEN <<hit>> \o EncodeQwen(s, i + Len(hit))
        ELSE LET ids == EncodePiece(SubSeq(s, i, e - 1))
             IN  [k \in DOMAIN ids |-> BpeVocab[ids[k]]] \o EncodeQwen(s, e)

DecodeBpe(ids) == FlattenSeq([k \in DOMAIN ids |-> BpeVocab[ids[k]]])

-----------------------------------------------------------------------------
(* SentencePiece.                                                            *)

BytePiece(b) == <<"<" \o b \o ">">>
Bytes(ch) == IF ch = "z" THEN <<"z1", "z2">> ELSE <<ch>>

PieceIds(text) == {id \in DOMAIN SpPieces : SpPieces[id].text = text}
SpId(text) == CHOOSE id \in PieceIds(text) : TRUE
Score(text) == SpPieces[SpId(text)].score

\* The symbols a text starts from: its known codepoints, bytes of the others.
Seeded(text) ==
    LET norm == <<"_">> \o [k \in DOMAIN text |-> IF text[k] = " " THEN "_" ELSE text[k]]
        seed(ch) == IF PieceIds(<<ch>>) # {} THEN <<<<ch>>>>
                    ELSE [b \in DOMAIN Bytes(ch) |-> BytePiece(Bytes(ch)[b])]
    IN  FlattenSeq([k \in DOMAIN norm |-> seed(norm[k])])

\* encode's heap: a candidate is [score, idx, gen]; one whose generation is old
\* is of a pair that has changed since.
Pushed(h, a) ==
    IF a = 0 \/ ~h.alive[a] \/ h.next[a] = 0 THEN h
    ELSE LET key == h.text[a] \o h.text[h.next[a]]
         IN  IF PieceIds(key) = {} THEN h
             ELSE [h EXCEPT !.heap = @ \cup {[score |-> Score(key), idx |-> a, gen |-> h.gen[a]]}]

Top(heap) == CHOOSE c \in heap :
                \A d \in heap : c.score > d.score \/ (c.score = d.score /\ c.idx <= d.idx)

\* The pair at a becomes one symbol; its pair and its left neighbour's are new.
Joined_KeepLeft(h, a) ==
    LET b == h.next[a]
        m == [h EXCEPT !.text[a] = h.text[a] \o h.text[b], !.next[a] = h.next[b], !.alive[b] = FALSE,
                       !.prev = IF h.next[b] = 0 THEN @ ELSE [@ EXCEPT ![h.next[b]] = a],
                       !.gen[a] = @ + 1]
    IN  Pushed(m, a)
Joined(h, a) ==
    LET b == h.next[a]
        m == [h EXCEPT !.text[a] = h.text[a] \o h.text[b], !.next[a] = h.next[b], !.alive[b] = FALSE,
                       !.prev = IF h.next[b] = 0 THEN @ ELSE [@ EXCEPT ![h.next[b]] = a],
                       !.gen[a] = @ + 1]
        p == m.prev[a]
        n == Pushed(m, a)
    IN  IF p = 0 THEN n ELSE Pushed([n EXCEPT !.gen[p] = @ + 1], p)

RECURSIVE Drained(_)
Drained(h) ==
    IF h.heap = {} THEN h
    ELSE LET c == Top(h.heap)
             g == [h EXCEPT !.heap = @ \ {c}]
         IN  Drained(IF \/ ~h.alive[c.idx] \/ h.next[c.idx] = 0 \/ h.gen[c.idx] # c.gen
                        \/ PieceIds(h.text[c.idx] \o h.text[h.next[c.idx]]) = {} THEN g
                     ELSE Joined(g, c.idx))

RECURSIVE Chain(_, _)
Chain(h, a) == IF a = 0 THEN <<>> ELSE <<h.text[a]>> \o Chain(h, h.next[a])

SpEncode(text) ==
    IF text = <<>> THEN <<>>
    ELSE LET t == Seeded(text)
             n == Len(t)
             h == [text |-> t, next |-> [a \in 1 .. n |-> IF a < n THEN a + 1 ELSE 0],
                   prev |-> [a \in 1 .. n |-> a - 1], alive |-> [a \in 1 .. n |-> TRUE],
                   gen |-> [a \in 1 .. n |-> 0], heap |-> {}]
             merged == Chain(Drained(FoldLeft(Pushed, h, [a \in 1 .. n - 1 |-> a])), 1)
         IN  [k \in DOMAIN merged |-> SpId(merged[k])]

\* piece_bytes and decode_delta: only the first piece that is no control piece
\* loses the space that encode put before the text, and a byte is no space.
PieceBytes(id) ==
    LET p == SpPieces[id]
    IN  IF p.type = "control" THEN <<>>
        ELSE IF p.type = "byte" THEN p.bytes
        ELSE FlattenSeq([k \in DOMAIN p.text |-> IF p.text[k] = "_" THEN <<" ">> ELSE Bytes(p.text[k])])

DecodeDelta(id, first) ==
    LET b == PieceBytes(id)
    IN  IF first /\ SpPieces[id].type # "byte" /\ b # <<>> /\ b[1] = " " THEN Tail(b) ELSE b

SpDecode(ids) ==
    FoldLeft(LAMBDA acc, id : IF SpPieces[id].type = "control" THEN acc
                              ELSE [out |-> acc.out \o DecodeDelta(id, acc.first), first |-> FALSE],
             [out |-> <<>>, first |-> TRUE], ids).out
=============================================================================
