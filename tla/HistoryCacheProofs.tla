-------------------------- MODULE HistoryCacheProofs --------------------------
(* Theorems about HistoryCache, for any texts, sizes, window and budget: what *)
(* the shim believes the engine's cache holds is what it holds, so a request  *)
(* that loads only the new turns of its history is answered from all of it.   *)
(*                                                                            *)
(* BookIsExact speaks of the moments between requests and is not inductive:   *)
(* it says nothing of the cache while a turn runs, where the boundary of the  *)
(* last turn and the book of the shim change at different steps.  ReuseInv    *)
(* says at each place of a request what the cache and the book have in common.*)
EXTENDS HistoryCache, InductionLemmas

-------------------------------------------------------------------------------
\* The types, with todo a sequence of turns of its own.
Types ==
    /\ recurrent \in BOOLEAN /\ intact \in BOOLEAN
    /\ cache \in Seq(Tokens) /\ Len(cache) <= Ctx
    /\ turn_boundary \in -1 .. Ctx
    /\ loaded \in Seq(Turns) /\ want \in Seq(Turns) /\ todo \in Seq(Turns)
    /\ pc \in {"idle", "replay", "append", "reload"}
    /\ prompt \in Padded \cup {NoPrompt} /\ reply \in Padded \cup {NoPrompt}

\* The cache is what a replay of the turns builds.
Reusable(tokens, turns) == Plain(tokens) = Replayed(turns)

\* Between requests the book, when it claims anything, describes the cache.
Between == pc = "idle" =>
    /\ todo = <<>>
    /\ intact /\ loaded # <<>> => Reusable(cache, loaded)

\* While a history is loaded, the book and the rest of the history make it up.
Replaying == pc = "replay" =>
    /\ loaded \o todo = want /\ prompt \in Padded
    /\ intact => Reusable(cache, loaded)

\* After the turn, its own tokens begin where a replay of the history and the
\* prompt ends, and the boundary still points there.
Answered == pc = "append" =>
    /\ loaded = want /\ todo = <<>> /\ prompt \in Padded
    /\ intact => /\ turn_boundary \in 0 .. Len(cache)
                 /\ Reusable(SubSeq(cache, 1, turn_boundary), WithPrompt)

\* After the rewind, the book and the cache end with the prompt.
Rewound == pc = "reload" =>
    /\ todo = <<>> /\ prompt \in Padded /\ reply \in Padded
    /\ loaded = Append(want, Turn("user", prompt.text))
    /\ intact => Reusable(cache, loaded)

ReuseInv == Types /\ Between /\ Replaying /\ Answered /\ Rewound

-------------------------------------------------------------------------------
\* An index is a natural number.
LEMMA UpTo == \A n \in Nat : \A k \in 1 .. n : k \in Nat
  OBVIOUS

\* The engine's window holds one token at least.
LEMMA WindowType == Ctx \in Nat /\ 1 <= Ctx
<1>1. Ctx \in Nat \ {0}
  BY HistoryAssumption, Zenon
<1>2. QED
  BY <1>1

\* Joining sequences of tokens is associative.
LEMMA TokensAssociative ==
    ASSUME NEW s \in Seq(Tokens), NEW u \in Seq(Tokens), NEW v \in Seq(Tokens)
    PROVE  (s \o u) \o v = s \o (u \o v)
  OBVIOUS

\* Every text has a number of tokens.
LEMMA SizeType == \A x \in Texts : Size[x] \in Nat
  BY HistoryAssumption

\* What a templated turn puts into the cache: as many tokens as its text has.
LEMMA TextTokensType ==
    ASSUME NEW turn \in {"", "user", "assistant"} \X Texts, NEW padded \in BOOLEAN
    PROVE  /\ TextTokens(turn, padded) \in Seq(Tokens)
           /\ Len(TextTokens(turn, padded)) = Size[turn[2]]
<1>1. turn[1] \in {"", "user", "assistant"} /\ turn[2] \in Texts /\ Size[turn[2]] \in Nat
  BY SizeType
<1>2. ASSUME NEW i \in 1 .. Size[turn[2]]
      PROVE  Token("text", turn, padded, i) \in Tokens
  <2>1. i \in Nat
    BY <1>1, UpTo, Zenon
  <2>2. QED
    BY <1>1, <2>1 DEF Token, Tokens
<1>3. TextTokens(turn, padded) \in [1 .. Size[turn[2]] -> Tokens]
  BY <1>2 DEF TextTokens
<1>4. QED
  BY <1>1, <1>3, SeqOfFunction

\* The system turn and the reply's header are one token, what closes a reply
\* two.
LEMMA MarkerType ==
    /\ System \in Seq(Tokens) /\ Len(System) = 1
    /\ Header \in Seq(Tokens) /\ Len(Header) = 1
    /\ Closing \in Seq(Tokens) /\ Len(Closing) = 2
<1>1. \A kind \in {"system", "header", "close"} : Marker(kind) \in Tokens
  BY HistoryAssumption DEF Marker, Token, Turn, Tokens
<1>2. QED
  BY <1>1 DEF System, Header, Closing

\* What a turn adds: the header, the reply and the markers that close it.
LEMMA ReplyPieces ==
    \A s, u \in Seq(Tokens) : ((s \o Header) \o u) \o Closing = s \o (Header \o (u \o Closing))
<1>1. Header \in Seq(Tokens) /\ Closing \in Seq(Tokens)
  BY MarkerType
<1>2. ASSUME NEW s \in Seq(Tokens), NEW u \in Seq(Tokens)
      PROVE  ((s \o Header) \o u) \o Closing = s \o (Header \o (u \o Closing))
  <2> DEFINE opened == s \o Header
             rest == u \o Closing
  <2>1. opened \in Seq(Tokens) /\ rest \in Seq(Tokens)
    BY <1>1
  <2>2. (s \o Header) \o rest = s \o (Header \o rest)
    <3> HIDE DEF rest
    <3>1. QED
      BY <1>1, <2>1
  <2>3. (opened \o u) \o Closing = opened \o (u \o Closing)
    <3> HIDE DEF opened
    <3>1. QED
      BY <1>1, <2>1
  <2>4. QED
    BY <2>2, <2>3, Zenon DEF opened, rest
<1>3. QED
  BY <1>2, Zenon

\* n sampled tokens are a sequence of length n.
LEMMA SampledType ==
    ASSUME NEW n \in Nat, NEW text \in Texts
    PROVE  Sampled(n, text) \in Seq(Tokens) /\ Len(Sampled(n, text)) = n
<1>1. \A i \in 1 .. n : Token("sampled", Turn("assistant", text), FALSE, i) \in Tokens
  BY DEF Token, Turn, Tokens
<1>2. Sampled(n, text) \in [1 .. n -> Tokens]
  BY <1>1 DEF Sampled
<1>3. QED
  BY <1>2, SeqOfFunction

-------------------------------------------------------------------------------
\* A token without its blanks is the unpadded token of the same text and
\* place.
LEMMA PlainToken ==
    ASSUME NEW t \in Tokens, NEW u \in Tokens,
           t.kind = u.kind, t.role = u.role, t.text = u.text, t.at = u.at, u.padded = FALSE
    PROVE  [t EXCEPT !.padded = FALSE] = u
<1> DEFINE e == [t EXCEPT !.padded = FALSE]
<1>1. e \in Tokens /\ e.padded = FALSE
  BY DEF Tokens
<1>2. e.kind = t.kind /\ e.role = t.role /\ e.text = t.text /\ e.at = t.at
  BY DEF Tokens
<1> HIDE DEF e
<1>3. /\ e.kind = u.kind /\ e.role = u.role /\ e.text = u.text /\ e.at = u.at
      /\ e.padded = u.padded
  BY <1>1, <1>2, Zenon
<1>4. e = [kind |-> e.kind, role |-> e.role, text |-> e.text, padded |-> e.padded, at |-> e.at]
  BY <1>1 DEF Tokens
<1>5. u = [kind |-> u.kind, role |-> u.role, text |-> u.text, padded |-> u.padded, at |-> u.at]
  BY DEF Tokens
<1>6. e = u
  BY <1>3, <1>4, <1>5, Zenon
<1>7. QED
  BY <1>6 DEF e

\* Taking the blanks away leaves a cache of the same length, token by token.
LEMMA PlainType ==
    ASSUME NEW s \in Seq(Tokens)
    PROVE  /\ Plain(s) \in Seq(Tokens) /\ Len(Plain(s)) = Len(s)
           /\ \A i \in 1 .. Len(s) : Plain(s)[i] = [s[i] EXCEPT !.padded = FALSE]
<1>1. \A i \in 1 .. Len(s) : [s[i] EXCEPT !.padded = FALSE] \in Tokens
  <2> SUFFICES ASSUME NEW t \in Tokens PROVE [t EXCEPT !.padded = FALSE] \in Tokens
    OBVIOUS
  <2>1. QED
    BY DEF Tokens
<1>2. DOMAIN s = 1 .. Len(s) /\ Len(s) \in Nat
  OBVIOUS
<1>3. Plain(s) = [i \in 1 .. Len(s) |-> [s[i] EXCEPT !.padded = FALSE]]
  BY <1>2 DEF Plain
<1>4. QED
  BY <1>1, <1>2, <1>3

\* Blanks are taken away token by token, so from each half of a cache alone.
LEMMA PlainConcat ==
    ASSUME NEW s \in Seq(Tokens), NEW t \in Seq(Tokens)
    PROVE  Plain(s \o t) = Plain(s) \o Plain(t)
<1>1. s \o t \in Seq(Tokens)
  OBVIOUS
<1> DEFINE ps == Plain(s)
           pt == Plain(t)
           pst == Plain(s \o t)
<1>2. /\ ps \in Seq(Tokens) /\ Len(ps) = Len(s)
      /\ \A i \in 1 .. Len(s) : ps[i] = [s[i] EXCEPT !.padded = FALSE]
  BY PlainType
<1>3. /\ pt \in Seq(Tokens) /\ Len(pt) = Len(t)
      /\ \A i \in 1 .. Len(t) : pt[i] = [t[i] EXCEPT !.padded = FALSE]
  BY PlainType
<1>4. /\ pst \in Seq(Tokens) /\ Len(pst) = Len(s \o t)
      /\ \A i \in 1 .. Len(s \o t) : pst[i] = [(s \o t)[i] EXCEPT !.padded = FALSE]
  BY <1>1, PlainType
<1> HIDE DEF ps, pt, pst
<1>5. Len(pst) = Len(ps \o pt) /\ ps \o pt \in Seq(Tokens)
  BY <1>2, <1>3, <1>4
<1>6. ASSUME NEW i \in 1 .. Len(pst)
      PROVE  pst[i] = (ps \o pt)[i]
  <2>1. CASE i <= Len(s)
    <3>1. i \in 1 .. Len(s) /\ i \in 1 .. Len(s \o t) /\ (s \o t)[i] = s[i]
      BY <1>4, <2>1
    <3>2. (ps \o pt)[i] = ps[i]
      BY <1>2, <1>3, <3>1
    <3>3. QED
      BY <1>2, <1>4, <3>1, <3>2
  <2>2. CASE i > Len(s)
    <3>1. i - Len(s) \in 1 .. Len(t) /\ (s \o t)[i] = t[i - Len(s)]
      BY <1>4, <2>2
    <3>2. (ps \o pt)[i] = pt[i - Len(s)]
      BY <1>2, <1>3, <1>4, <2>2
    <3>3. i \in 1 .. Len(s \o t)
      BY <1>4
    <3>4. pst[i] = [t[i - Len(s)] EXCEPT !.padded = FALSE]
      BY <1>4, <3>1, <3>3
    <3>5. pt[i - Len(s)] = [t[i - Len(s)] EXCEPT !.padded = FALSE]
      BY <1>3, <3>1
    <3>6. QED
      BY <3>2, <3>4, <3>5
  <2>3. i \in Nat /\ Len(s) \in Nat
    BY <1>4
  <2>4. i <= Len(s) \/ i > Len(s)
    BY <2>3
  <2>5. QED
    BY <2>1, <2>2, <2>4, Zenon
<1>7. pst = ps \o pt
  BY <1>4, <1>5, <1>6, SeqEqual
<1>8. QED
  BY <1>7 DEF ps, pt, pst

\* A padded turn without its blanks is the turn that a replay loads.
LEMMA PlainText ==
    ASSUME NEW turn \in {"", "user", "assistant"} \X Texts, NEW padded \in BOOLEAN
    PROVE  Plain(TextTokens(turn, padded)) = TextTokens(turn, FALSE)
<1> DEFINE n == Size[turn[2]]
<1>1. /\ TextTokens(turn, padded) \in Seq(Tokens) /\ Len(TextTokens(turn, padded)) = n
      /\ TextTokens(turn, FALSE) \in Seq(Tokens) /\ Len(TextTokens(turn, FALSE)) = n
  BY TextTokensType
<1>2. ASSUME NEW i \in 1 .. n
      PROVE  Plain(TextTokens(turn, padded))[i] = TextTokens(turn, FALSE)[i]
  <2>1. Plain(TextTokens(turn, padded))[i] = [TextTokens(turn, padded)[i] EXCEPT !.padded = FALSE]
    BY <1>1, PlainType
  <2>2. TextTokens(turn, padded)[i] = Token("text", turn, padded, i)
    BY DEF TextTokens
  <2>3. TextTokens(turn, FALSE)[i] = Token("text", turn, FALSE, i)
    BY DEF TextTokens
  <2>4. [Token("text", turn, padded, i) EXCEPT !.padded = FALSE] = Token("text", turn, FALSE, i)
    <3> DEFINE t == Token("text", turn, padded, i)
               u == Token("text", turn, FALSE, i)
    <3>1. t \in Tokens /\ u \in Tokens
      BY <1>1, <2>2, <2>3, ElementOfSeq
    <3>2. t.kind = u.kind /\ t.role = u.role /\ t.text = u.text /\ t.at = u.at
      BY DEF Token
    <3>3. u.padded = FALSE
      BY DEF Token
    <3> HIDE DEF t, u
    <3>4. [t EXCEPT !.padded = FALSE] = u
      BY <3>1, <3>2, <3>3, PlainToken
    <3>5. QED
      BY <3>4 DEF t, u
  <2>5. QED
    BY <2>1, <2>2, <2>3, <2>4
<1>3. Plain(TextTokens(turn, padded)) \in Seq(Tokens) /\ Len(Plain(TextTokens(turn, padded))) = n
  BY <1>1, PlainType
<1>4. QED
  BY <1>1, <1>2, <1>3, SeqEqual

\* The system turn has no blanks.
LEMMA PlainSystem == Plain(System) = System
<1>1. System \in Seq(Tokens) /\ Len(System) = 1 /\ 1 \in 1 .. Len(System)
  BY MarkerType
<1>2. Plain(System) \in Seq(Tokens) /\ Len(Plain(System)) = 1
  BY <1>1, PlainType
<1>3. Plain(System)[1] = [System[1] EXCEPT !.padded = FALSE]
  BY <1>1, PlainType
<1>4. System[1] = Marker("system")
  BY DEF System
<1>5. [System[1] EXCEPT !.padded = FALSE] = System[1]
  <2>1. System[1] \in Tokens
    BY <1>1
  <2>2. System[1].padded = FALSE
    <3>1. Marker("system").padded = FALSE
      BY DEF Marker, Token
    <3>2. QED
      BY <1>4, <3>1, Zenon
  <2>3. QED
    BY <2>1, <2>2, PlainToken
<1>6. \A i \in 1 .. 1 : Plain(System)[i] = System[i]
  BY <1>3, <1>5
<1>7. QED
  BY <1>1, <1>2, <1>6, SeqEqual

-------------------------------------------------------------------------------
\* The turns of a replay, each as its tokens.
LEMMA ReplayedPieces ==
    ASSUME NEW turns \in Seq(Turns)
    PROVE  [i \in DOMAIN turns |-> TextTokens(turns[i], FALSE)] \in Seq(Seq(Tokens))
<1> DEFINE pieces == [i \in DOMAIN turns |-> TextTokens(turns[i], FALSE)]
<1>1. DOMAIN turns = 1 .. Len(turns) /\ Len(turns) \in Nat
  OBVIOUS
<1>2. \A t \in Turns : TextTokens(t, FALSE) \in Seq(Tokens)
  <2> SUFFICES ASSUME NEW t \in Turns PROVE TextTokens(t, FALSE) \in Seq(Tokens)
    OBVIOUS
  <2>1. t \in {"", "user", "assistant"} \X Texts
    BY DEF Turns
  <2>2. QED
    BY <2>1, TextTokensType
<1>3. \A i \in 1 .. Len(turns) : turns[i] \in Turns
  OBVIOUS
<1>4. pieces \in [1 .. Len(turns) -> Seq(Tokens)]
  BY <1>1, <1>2, <1>3
<1>5. QED
  BY <1>1, <1>4, SeqOfFunction, Zenon

\* A replay of no turns leaves the system turn, which is what /reset leaves.
LEMMA ReplayedEmpty == Replayed(<<>>) = System
<1>1. [i \in DOMAIN <<>> |-> TextTokens(<<>>[i], FALSE)] = <<>>
  OBVIOUS
<1>2. System \o <<>> = System
  BY MarkerType, ConcatEmptySeq
<1>3. QED
  BY <1>1, <1>2, FlattenEmpty DEF Replayed

\* Replaying one turn more adds its tokens at the end: what makes loading
\* only the new turns of a history the same as loading all of it.
LEMMA ReplayedAppend ==
    ASSUME NEW turns \in Seq(Turns), NEW t \in Turns
    PROVE  Replayed(Append(turns, t)) = Replayed(turns) \o TextTokens(t, FALSE)
<1> DEFINE more == Append(turns, t)
           pieces == [i \in DOMAIN turns |-> TextTokens(turns[i], FALSE)]
           morePieces == [i \in DOMAIN more |-> TextTokens(more[i], FALSE)]
           last == TextTokens(t, FALSE)
<1>1. t \in {"", "user", "assistant"} \X Texts
  BY DEF Turns
<1>2. last \in Seq(Tokens)
  BY <1>1, TextTokensType
<1>3. pieces \in Seq(Seq(Tokens))
  BY ReplayedPieces
<1>4. morePieces \in Seq(Seq(Tokens))
  <2>1. more \in Seq(Turns)
    OBVIOUS
  <2> HIDE DEF more
  <2>2. QED
    BY <2>1, ReplayedPieces
<1>5. morePieces = Append(pieces, last)
  <2>1. Len(turns) \in Nat /\ Len(pieces) = Len(turns) /\ Len(morePieces) = Len(turns) + 1
    OBVIOUS
  <2> DOMAIN turns = 1 .. Len(turns) /\ DOMAIN more = 1 .. Len(turns) + 1
    OBVIOUS
  <2>2. ASSUME NEW i \in 1 .. Len(turns)
        PROVE  morePieces[i] = pieces[i]
    <3>1. more[i] = turns[i] /\ i \in DOMAIN more
      OBVIOUS
    <3>2. morePieces[i] = TextTokens(more[i], FALSE)
      BY <3>1, Zenon
    <3>3. pieces[i] = TextTokens(turns[i], FALSE)
      BY Zenon
    <3>4. QED
      BY <3>1, <3>2, <3>3, Zenon
  <2>3. morePieces[Len(turns) + 1] = last
    <3>1. more[Len(turns) + 1] = t /\ Len(turns) + 1 \in DOMAIN more
      BY <2>1
    <3>2. morePieces[Len(turns) + 1] = TextTokens(more[Len(turns) + 1], FALSE)
      BY <3>1, Zenon
    <3>3. QED
      BY <3>1, <3>2, Zenon
  <2> HIDE DEF pieces, morePieces, last
  <2>4. Append(pieces, last) \in Seq(Seq(Tokens)) /\ Len(Append(pieces, last)) = Len(turns) + 1
    BY <1>2, <1>3, <2>1
  <2>5. \A i \in 1 .. Len(turns) + 1 : morePieces[i] = Append(pieces, last)[i]
    BY <1>2, <1>3, <2>1, <2>2, <2>3
  <2>6. QED
    BY <1>4, <2>1, <2>4, <2>5, SeqEqual
<1> HIDE DEF pieces, morePieces, last
<1>6. FlattenSeq(morePieces) = FlattenSeq(pieces) \o last
  BY <1>2, <1>3, <1>5, FlattenAppend
<1>7. FlattenSeq(pieces) \in Seq(Tokens)
  BY <1>3, FlattenType
<1>8. System \o (FlattenSeq(pieces) \o last) = (System \o FlattenSeq(pieces)) \o last
  <2>1. System \in Seq(Tokens)
    BY MarkerType
  <2>2. QED
    BY <1>2, <1>7, <2>1, TokensAssociative, Zenon
<1>9. QED
  BY <1>6, <1>8, Zenon DEF Replayed, morePieces, pieces, last

-------------------------------------------------------------------------------
\* The messages of a client, each as no turn or one.
LEMMA NormalizedPieces ==
    ASSUME NEW messages \in Seq(Message)
    PROVE  [i \in DOMAIN messages |->
               IF messages[i][2] = "" THEN <<>> ELSE <<messages[i]>>] \in Seq(Seq(Turns))
<1> DEFINE pieces == [i \in DOMAIN messages |->
                         IF messages[i][2] = "" THEN <<>> ELSE <<messages[i]>>]
<1>1. DOMAIN messages = 1 .. Len(messages) /\ Len(messages) \in Nat
  OBVIOUS
<1>2. \A t \in Message : (IF t[2] = "" THEN <<>> ELSE <<t>>) \in Seq(Turns)
  <2> SUFFICES ASSUME NEW t \in Message
               PROVE  (IF t[2] = "" THEN <<>> ELSE <<t>>) \in Seq(Turns)
    OBVIOUS
  <2>1. t[2] # "" => t \in Turns
    BY DEF Message, Turns
  <2>2. <<>> \in Seq(Turns)
    OBVIOUS
  <2>3. t[2] # "" => <<t>> \in Seq(Turns)
    <3>1. \A u \in Turns : <<u>> \in Seq(Turns)
      OBVIOUS
    <3>2. QED
      BY <2>1, <3>1, Zenon
  <2>4. QED
    BY <2>2, <2>3
<1>3. \A i \in 1 .. Len(messages) : messages[i] \in Message
  OBVIOUS
<1>4. pieces \in [1 .. Len(messages) -> Seq(Turns)]
  BY <1>1, <1>2, <1>3
<1>5. QED
  BY <1>1, <1>4, SeqOfFunction, Zenon

\* The normalized history is a sequence of turns that can be replayed.
LEMMA NormalizedType ==
    ASSUME NEW messages \in Seq(Message)
    PROVE  Normalized(messages) \in Seq(Turns)
  BY NormalizedPieces, FlattenType DEF Normalized

\* A prompt and its reply, normalized: an empty reply leaves the prompt
\* alone.
LEMMA NormalizedPair ==
    ASSUME NEW u \in Turns, NEW a \in Message
    PROVE  Normalized(<<u, a>>) = IF a[2] = "" THEN <<u>> ELSE <<u, a>>
<1> DEFINE piece == IF a[2] = "" THEN <<>> ELSE <<a>>
<1>1. u[2] # "" /\ u \in Message
  BY DEF Turns, Message
<1>2. <<<<u>>>> \in Seq(Seq(Message)) /\ <<u>> \in Seq(Message) /\ piece \in Seq(Message)
  <2>1. <<>> \in Seq(Message)
    OBVIOUS
  <2>2. \A m \in Message : <<m>> \in Seq(Message)
    OBVIOUS
  <2>3. \A s \in Seq(Message) : <<s>> \in Seq(Seq(Message))
    OBVIOUS
  <2>4. QED
    BY <1>1, <2>1, <2>2, <2>3
<1>3. [i \in DOMAIN <<u, a>> |-> IF <<u, a>>[i][2] = "" THEN <<>> ELSE <<<<u, a>>[i]>>]
        = <<<<u>>, piece>>
  <2> DEFINE pair == <<u, a>>
             pieces == [i \in DOMAIN pair |-> IF pair[i][2] = "" THEN <<>> ELSE <<pair[i]>>]
  <2>1. pair \in Seq(Message) /\ Len(pair) = 2 /\ DOMAIN pair = 1 .. 2 /\ pair[1] = u /\ pair[2] = a
    <3>1. u \in Message /\ a \in Message
      BY <1>1
    <3>2. QED
      BY <3>1, PairIsSeq
  <2> HIDE DEF pair
  <2>2. pieces \in Seq(Seq(Turns))
    BY <2>1, NormalizedPieces
  <2>3. Len(pieces) = 2
    BY <2>1
  <2>4. pieces[1] = <<u>>
    <3>1. 1 \in DOMAIN pair
      BY <2>1
    <3>2. QED
      BY <1>1, <2>1, <3>1, Zenon
  <2>5. pieces[2] = piece
    <3>1. 2 \in DOMAIN pair
      BY <2>1
    <3>2. QED
      BY <2>1, <3>1, Zenon
  <2> HIDE DEF pieces, piece
  <2>6. pieces = <<<<u>>, piece>>
    BY <2>2, <2>3, <2>4, <2>5, SeqIsPair
  <2>7. QED
    BY <2>6, Zenon DEF pieces, pair
<1> HIDE DEF piece
<1>4. <<<<u>>, piece>> = Append(Append(<<>>, <<u>>), piece)
  OBVIOUS
<1>5. FlattenSeq(Append(<<>>, <<u>>)) = <<u>>
  <2>1. <<>> \in Seq(Seq(Message))
    OBVIOUS
  <2>2. FlattenSeq(Append(<<>>, <<u>>)) = <<>> \o <<u>>
    BY <1>2, <2>1, FlattenAppend, FlattenEmpty
  <2>3. QED
    BY <1>2, <2>2
<1>6. Append(<<>>, <<u>>) = <<<<u>>>>
  OBVIOUS
<1>7. FlattenSeq(<<<<u>>, piece>>) = <<u>> \o piece
  BY <1>2, <1>4, <1>5, <1>6, FlattenAppend
<1>8. Normalized(<<u, a>>) = <<u>> \o piece
  BY <1>3, <1>7, Zenon DEF Normalized
<1>9. QED
  <2>1. CASE a[2] = ""
    <3>1. piece = <<>>
      BY <2>1 DEF piece
    <3>2. <<u>> \o <<>> = <<u>>
      BY <1>2, ConcatEmptySeq
    <3>3. QED
      BY <1>8, <2>1, <3>1, <3>2, Zenon
  <2>2. CASE a[2] # ""
    <3>1. piece = <<a>>
      BY <2>2 DEF piece
    <3>2. <<u>> \o <<a>> = <<u, a>>
      BY <1>1, PairIsConcat, Zenon
    <3>3. QED
      BY <1>8, <2>2, <3>1, <3>2, Zenon
  <2>3. QED
    BY <2>1, <2>2

-------------------------------------------------------------------------------
\* What was put after a sequence is a suffix of the whole.
LEMMA SuffixOf ==
    ASSUME NEW S, NEW s \in Seq(S), NEW t \in Seq(S)
    PROVE  IsSuffix(t, s \o t)
<1> DEFINE w == s \o t
           rt == Reverse(t)
           rw == Reverse(w)
<1>1. Len(s) \in Nat /\ Len(t) \in Nat /\ w \in Seq(S) /\ Len(w) = Len(s) + Len(t)
  OBVIOUS
<1>2. \A i \in 1 .. Len(t) : w[Len(s) + i] = t[i]
  OBVIOUS
<1> HIDE DEF w
<1>3. rt \in Seq(S) /\ Len(rt) = Len(t) /\ \A i \in 1 .. Len(t) : rt[i] = t[(Len(t) - i) + 1]
  BY <1>1 DEF Reverse
<1>4. rw \in Seq(S) /\ Len(rw) = Len(w) /\ \A i \in 1 .. Len(w) : rw[i] = w[(Len(w) - i) + 1]
  BY <1>1 DEF Reverse
<1> HIDE DEF rt, rw
<1>5. \A i \in 1 .. Len(t) : rw[i] = rt[i]
  <2> SUFFICES ASSUME NEW i \in 1 .. Len(t) PROVE rw[i] = rt[i]
    OBVIOUS
  <2>1. (Len(t) - i) + 1 \in 1 .. Len(t) /\ i \in 1 .. Len(w)
    BY <1>1
  <2>2. (Len(w) - i) + 1 = Len(s) + ((Len(t) - i) + 1)
    BY <1>1
  <2>3. QED
    BY <1>2, <1>3, <1>4, <2>1, <2>2
<1>6. SubSeq(rt, 1, Len(rt)) = SubSeq(rw, 1, Len(rt))
  BY <1>1, <1>3, <1>4, <1>5
<1>7. QED
  BY <1>1, <1>3, <1>4, <1>6 DEF IsSuffix, IsPrefix, rt, rw, w

-------------------------------------------------------------------------------
\* The tokens of a turn of the book: their number, and the same turn without
\* blanks.
LEMMA TurnTokens ==
    ASSUME NEW turn \in Turns, NEW padded \in BOOLEAN
    PROVE  /\ TextTokens(turn, padded) \in Seq(Tokens)
           /\ Len(TextTokens(turn, padded)) = Size[turn[2]] /\ Size[turn[2]] \in Nat
           /\ Plain(TextTokens(turn, padded)) = TextTokens(turn, FALSE)
<1>1. turn \in {"", "user", "assistant"} \X Texts /\ turn[2] \in Texts
  BY DEF Turns
<1>2. QED
  BY <1>1, TextTokensType, PlainText, SizeType

\* A prompt makes a turn that a replay could load, in either role.
LEMMA PromptTurn ==
    ASSUME NEW p \in Padded
    PROVE  /\ p.text \in Texts \ {""} /\ p.padded \in BOOLEAN
           /\ Turn("user", p.text) \in Turns /\ Turn("assistant", p.text) \in Turns
           /\ Turn("user", p.text)[2] = p.text /\ Turn("assistant", p.text)[2] = p.text
<1>1. p.text \in Texts \ {""} /\ p.padded \in Pads
  BY DEF Padded
<1>2. p.padded \in BOOLEAN
  BY <1>1, HistoryAssumption, Zenon
<1>3. QED
  BY <1>1, <1>2 DEF Turn, Turns

\* A reply's text is a text, and one that says something came from the model.
LEMMA ReplyText ==
    ASSUME NEW r \in Padded \cup {NoPrompt}
    PROVE  r.text \in Texts /\ (r.text # "" => r \in Padded)
<1>1. "" \in Texts
  BY HistoryAssumption, Zenon
<1>2. CASE r \in Padded
  BY <1>2, PromptTurn
<1>3. CASE r = NoPrompt
  BY <1>1, <1>3 DEF NoPrompt
<1>4. QED
  BY <1>2, <1>3

\* A cache that agrees with the book still does when both get one turn more,
\* padded or not.
LEMMA ReusableAppend ==
    ASSUME NEW s \in Seq(Tokens), NEW turns \in Seq(Turns), Reusable(s, turns),
           NEW turn \in Turns, NEW padded \in BOOLEAN
    PROVE  Reusable(s \o TextTokens(turn, padded), Append(turns, turn))
<1>1. TextTokens(turn, padded) \in Seq(Tokens)
  BY TurnTokens
<1>2. Plain(s \o TextTokens(turn, padded)) = Plain(s) \o Plain(TextTokens(turn, padded))
  BY <1>1, PlainConcat
<1>3. Plain(TextTokens(turn, padded)) = TextTokens(turn, FALSE)
  BY TurnTokens
<1>4. Replayed(Append(turns, turn)) = Replayed(turns) \o TextTokens(turn, FALSE)
  BY ReplayedAppend
<1>5. QED
  BY <1>2, <1>3, <1>4, Zenon DEF Reusable

\* prefill_turn: the window is kept; the conversation stays intact only when
\* the turn was added to what was there; a turn is refused only when it does
\* not fit an empty conversation.
LEMMA PrefillStep ==
    ASSUME Types, NEW turn \in Turns, NEW padded \in BOOLEAN, PrefillEngine(turn, padded)
    PROVE  /\ cache' \in Seq(Tokens) /\ Len(cache') <= Ctx
           /\ intact' \in BOOLEAN /\ turn_boundary' = turn_boundary
           /\ intact' => /\ intact /\ Prefilled(turn)
                         /\ cache' = cache \o TextTokens(turn, padded)
           /\ ~Prefilled(turn) => Len(System) + Size[turn[2]] > Ctx
<1> DEFINE n == Size[turn[2]]
           tokens == TextTokens(turn, padded)
           base == Restarted(n)
<1>1. tokens \in Seq(Tokens) /\ Len(tokens) = n /\ n \in Nat
  BY TurnTokens
<1>2. cache \in Seq(Tokens) /\ Len(cache) <= Ctx /\ Ctx \in Nat /\ intact \in BOOLEAN
  BY WindowType DEF Types
<1>3. System \in Seq(Tokens) /\ Len(System) = 1 /\ Len(System) <= Ctx
  <2>1. System \in Seq(Tokens) /\ Len(System) = 1
    BY MarkerType
  <2>2. Ctx \in Nat /\ 1 <= Ctx
    BY WindowType
  <2>3. QED
    BY <2>1, <2>2
<1>4. /\ cache' = IF Fits(base, n) THEN base \o tokens ELSE base
      /\ intact' = (intact /\ Fits(cache, n)) /\ turn_boundary' = turn_boundary
  BY Zenon DEF PrefillEngine
<1>5. Prefilled(turn) = Fits(base, n)
  BY Zenon DEF Prefilled
<1>6. base = IF Fits(cache, n) THEN cache ELSE System
  BY Zenon DEF Restarted
<1> HIDE DEF n, tokens, base
<1>7. base \in Seq(Tokens) /\ Len(base) <= Ctx
  BY <1>2, <1>3, <1>6
<1>8. cache' \in Seq(Tokens) /\ Len(cache') <= Ctx
  <2>1. CASE Fits(base, n)
    BY <1>1, <1>2, <1>4, <1>7, <2>1 DEF Fits
  <2>2. CASE ~Fits(base, n)
    BY <1>4, <1>7, <2>2
  <2>3. QED
    BY <2>1, <2>2
<1>9. intact' \in BOOLEAN
  BY <1>4
<1>10. intact' => intact /\ Prefilled(turn) /\ cache' = cache \o tokens
  BY <1>4, <1>5, <1>6, Zenon
<1>11. ~Prefilled(turn) => Len(System) + n > Ctx
  <2>1. ~Prefilled(turn) => ~Fits(System, n)
    BY <1>5, <1>6, Zenon
  <2>2. QED
    BY <1>1, <1>2, <1>3, <2>1 DEF Fits
<1>12. QED
  BY <1>4, <1>8, <1>9, <1>10, <1>11 DEF tokens, n

\* Cutting a cache at the length it had restores it.
LEMMA CutConcat ==
    ASSUME NEW s \in Seq(Tokens), NEW t \in Seq(Tokens)
    PROVE  SubSeq(s \o t, 1, Len(s)) = s
<1>1. /\ SubSeq(s \o t, 1, Len(s)) \in Seq(Tokens)
      /\ Len(SubSeq(s \o t, 1, Len(s))) = Len(s) /\ Len(s) \in Nat
      /\ \A i \in 1 .. Len(s) : SubSeq(s \o t, 1, Len(s))[i] = s[i]
  OBVIOUS
<1>2. QED
  BY <1>1, SeqEqual

\* run_turn: the window is kept; when the conversation stayed intact, the
\* boundary points into the cache, and the rows before it are the old cache
\* and the prompt.
LEMMA RunStep ==
    ASSUME Types, NEW base, base = cache \/ base = System, NEW p \in Padded,
           NEW r \in Padded \cup {NoPrompt}, NEW n \in Nat, RunTurn(base, p, r, n)
    PROVE  /\ cache' \in Seq(Tokens) /\ Len(cache') <= Ctx
           /\ intact' \in BOOLEAN /\ turn_boundary' \in -1 .. Ctx
           /\ intact' =>
                /\ intact /\ turn_boundary' \in 0 .. Len(cache')
                /\ SubSeq(cache', 1, turn_boundary')
                     = cache \o TextTokens(Turn("user", p.text), p.padded)
<1> DEFINE tokens == TextTokens(Turn("user", p.text), p.padded)
           asked == base \o tokens
           opened == asked \o Header
           said == Sampled(n, r.text)
           closed == opened \o said \o Closing
<1>1. /\ cache \in Seq(Tokens) /\ Len(cache) <= Ctx /\ Ctx \in Nat /\ intact \in BOOLEAN
      /\ turn_boundary \in -1 .. Ctx
  BY WindowType DEF Types
<1>2. System \in Seq(Tokens) /\ Len(System) <= Ctx
  <2>1. System \in Seq(Tokens) /\ Len(System) = 1
    BY MarkerType
  <2>2. QED
    BY <2>1, WindowType
<1>3. base \in Seq(Tokens)
  BY <1>1, <1>2
<1>4. tokens \in Seq(Tokens)
  BY PromptTurn, TurnTokens
<1>5. Header \in Seq(Tokens) /\ Len(Header) = 1 /\ Closing \in Seq(Tokens)
  BY MarkerType
<1>6. said \in Seq(Tokens)
  BY ReplyText, SampledType
<1>7. /\ turn_boundary' = IF Fits(opened, 0) THEN Boundary(opened) ELSE turn_boundary
      /\ cache' = IF Fits(closed, 0) THEN closed ELSE System
      /\ intact' = (intact /\ base = cache /\ Fits(closed, 0))
  BY Zenon DEF RunTurn
<1> HIDE DEF tokens, said
<1>8. asked \in Seq(Tokens) /\ opened \in Seq(Tokens) /\ closed \in Seq(Tokens)
  BY <1>3, <1>4, <1>5, <1>6
<1>9. closed = asked \o (Header \o (said \o Closing))
  <2>1. asked \in Seq(Tokens)
    BY <1>8
  <2>2. closed = ((asked \o Header) \o said) \o Closing
    BY Zenon
  <2> HIDE DEF asked, opened, closed
  <2>4. ((asked \o Header) \o said) \o Closing = asked \o (Header \o (said \o Closing))
    BY <1>6, <2>1, ReplyPieces, Zenon
  <2>5. QED
    BY <2>2, <2>4, Zenon
<1>10. Boundary(opened) = Len(asked) /\ Len(opened) = Len(asked) + 1 /\ Len(asked) \in Nat
  <2> HIDE DEF asked
  <2>1. Len(opened) = Len(asked) + Len(Header) /\ Len(asked) \in Nat
    <3>1. \A a, b \in Seq(Tokens) : Len(a \o b) = Len(a) + Len(b) /\ Len(a) \in Nat
      OBVIOUS
    <3>2. QED
      BY <1>5, <1>8, <3>1, Zenon
  <2>2. Boundary(opened) = Len(opened) - Len(Header)
    BY Zenon DEF Boundary
  <2>3. QED
    BY <1>5, <2>1, <2>2
<1>11. Len(closed) >= Len(asked) + 1 /\ SubSeq(closed, 1, Len(asked)) = asked
  <2>1. Header \o (said \o Closing) \in Seq(Tokens)
    BY <1>5, <1>6
  <2>2. SubSeq(closed, 1, Len(asked)) = asked
    BY <1>8, <1>9, <2>1, CutConcat
  <2>3. Len(closed) >= Len(opened)
    BY <1>5, <1>6, <1>8
  <2>4. QED
    BY <1>10, <2>2, <2>3
<1>12. intact' => /\ intact /\ asked = cache \o tokens
                  /\ cache' = closed /\ Len(closed) <= Ctx
  <2>1. Len(closed) \in Nat
    BY <1>8
  <2>2. Fits(closed, 0) => Len(closed) <= Ctx
    BY <2>1, <1>1 DEF Fits
  <2>3. QED
    BY <1>7, <2>2, Zenon
<1> HIDE DEF asked, opened, closed
<1>13. cache' \in Seq(Tokens) /\ Len(cache') <= Ctx
  BY <1>1, <1>2, <1>7, <1>8 DEF Fits
<1>14. turn_boundary' \in -1 .. Ctx
  BY <1>1, <1>7, <1>10 DEF Fits
<1>15. ASSUME intact'
       PROVE  turn_boundary' = Len(asked) /\ turn_boundary' \in 0 .. Len(cache')
  <2>1. Len(opened) <= Ctx
    BY <1>1, <1>10, <1>11, <1>12, <1>15
  <2>2. Fits(opened, 0)
    BY <1>1, <1>10, <2>1 DEF Fits
  <2>3. turn_boundary' = Len(asked)
    BY <1>7, <1>10, <2>2
  <2>4. QED
    BY <1>10, <1>11, <1>12, <1>15, <2>3
<1>16. intact' => SubSeq(cache', 1, turn_boundary') = cache \o tokens
  BY <1>11, <1>12, <1>15, Zenon
<1>17. intact' \in BOOLEAN
  BY <1>7
<1>18. QED
  BY <1>12, <1>13, <1>14, <1>15, <1>16, <1>17 DEF tokens

-------------------------------------------------------------------------------
\* The invariant holds when the engine and the shim start.
LEMMA ReuseInit == Init => ReuseInv
<1> SUFFICES ASSUME Init PROVE ReuseInv
  OBVIOUS
<1>1. /\ recurrent \in BOOLEAN /\ cache = <<>> /\ turn_boundary = -1 /\ loaded = <<>>
      /\ pc = "idle" /\ want = <<>> /\ todo = <<>> /\ prompt = NoPrompt /\ reply = NoPrompt
      /\ intact = FALSE
  BY Zenon DEF Init
<1>2. <<>> \in Seq(Tokens) /\ <<>> \in Seq(Turns) /\ Len(<<>>) = 0
  OBVIOUS
<1>3. Types
  <2>1. -1 \in -1 .. Ctx /\ 0 <= Ctx
    BY WindowType
  <2>2. Len(cache) <= Ctx /\ turn_boundary \in -1 .. Ctx
    BY <1>1, <1>2, <2>1, Zenon
  <2>3. intact \in BOOLEAN
    BY <1>1
  <2>4. /\ pc \in {"idle", "replay", "append", "reload"}
        /\ prompt \in Padded \cup {NoPrompt} /\ reply \in Padded \cup {NoPrompt}
    BY <1>1
  <2>5. cache \in Seq(Tokens) /\ loaded \in Seq(Turns) /\ want \in Seq(Turns) /\ todo \in Seq(Turns)
    BY <1>1, <1>2
  <2>6. QED
    BY <1>1, <2>2, <2>3, <2>4, <2>5, Zenon DEF Types
<1>4. Between /\ Replaying /\ Answered /\ Rewound
  BY <1>1 DEF Between, Replaying, Answered, Rewound
<1>5. QED
  BY <1>3, <1>4, Zenon DEF ReuseInv

\* /api/chat keeps it: after a reset the book is empty and the cache what a
\* replay of nothing builds; otherwise the book is the beginning of the
\* history and is kept.
LEMMA ChatInv ==
    ASSUME ReuseInv, NEW n \in Nat, NEW messages \in [1 .. n -> Message], NEW p \in Padded,
           Chat(messages, p)
    PROVE  ReuseInv'
<1> DEFINE keep == Keep(want')
<1>1. Types
  BY Zenon DEF ReuseInv
<1>2. /\ pc' = "replay" /\ want' = Normalized(messages) /\ prompt' = p /\ reply' = reply
      /\ todo' = SubSeq(want', keep + 1, Len(want')) /\ recurrent' = recurrent
  BY Zenon DEF Chat
<1>3. IF keep = 0 THEN Reset /\ loaded' = <<>>
                  ELSE UNCHANGED <<engineVars, loaded>>
  BY Zenon DEF Chat
<1>4. messages \in Seq(Message)
  BY SeqOfFunction
<1>5. want' \in Seq(Turns)
  BY <1>2, <1>4, NormalizedType
<1>6. pc = "idle"
  BY Zenon DEF Chat
<1>7. keep = 0 \/ (keep = Len(loaded) /\ IsPrefix(loaded, want'))
  BY Zenon DEF Keep
<1> HIDE DEF keep
<1>8. CASE keep = 0
  <2>1. cache' = System /\ intact' = TRUE /\ turn_boundary' = turn_boundary /\ loaded' = <<>>
    BY <1>3, <1>8, Zenon DEF Reset
  <2>2. todo' = want' /\ loaded' \o todo' = want' /\ loaded' \in Seq(Turns)
    <3>1. todo' = SubSeq(want', 1, Len(want'))
      BY <1>2, <1>8
    <3>2. todo' = want'
      BY <1>5, <3>1, SubSeqFull
    <3>3. <<>> \o want' = want' /\ <<>> \in Seq(Turns)
      BY <1>5, ConcatEmptySeq
    <3>4. QED
      BY <2>1, <3>2, <3>3
  <2>3. System \in Seq(Tokens) /\ Len(System) <= Ctx
    <3>1. System \in Seq(Tokens) /\ Len(System) = 1
      BY MarkerType
    <3>2. QED
      BY <3>1, WindowType
  <2>4. Reusable(cache', loaded')
    BY <2>1, PlainSystem, ReplayedEmpty, Zenon DEF Reusable
  <2>5. Types'
    BY <1>1, <1>2, <1>5, <2>1, <2>2, <2>3 DEF Types
  <2>6. Between' /\ Replaying' /\ Answered' /\ Rewound'
    BY <1>2, <2>2, <2>4 DEF Between, Replaying, Answered, Rewound, Reusable
  <2>7. QED
    BY <2>5, <2>6, Zenon DEF ReuseInv
<1>9. CASE keep # 0
  <2>1. cache' = cache /\ intact' = intact /\ turn_boundary' = turn_boundary /\ loaded' = loaded
    BY <1>3, <1>9, Zenon DEF engineVars
  <2>2. keep = Len(loaded) /\ IsPrefix(loaded, want') /\ loaded \in Seq(Turns)
    BY <1>1, <1>7, <1>9 DEF Types
  <2>3. keep \in 1 .. Len(want') /\ Len(want') \in Nat
    BY <1>5, <1>9, <2>2 DEF IsPrefix
  <2>4. loaded = SubSeq(want', 1, keep)
    <3>1. SubSeq(loaded, 1, Len(loaded)) = loaded
      BY <2>2, SubSeqFull
    <3>2. QED
      BY <2>2, <3>1, Zenon DEF IsPrefix
  <2>5. loaded' \o todo' = want'
    <3>1. SubSeq(want', 1, keep) \o SubSeq(want', keep + 1, Len(want')) = SubSeq(want', 1, Len(want'))
      BY <1>5, <2>3, ConcatAdjacentSubSeq
    <3>2. SubSeq(want', 1, Len(want')) = want'
      BY <1>5, SubSeqFull
    <3>3. QED
      BY <1>2, <2>1, <2>4, <3>1, <3>2, Zenon
  <2>6. todo' \in Seq(Turns)
    BY <1>2, <1>5, <2>3
  <2>7. intact' => Reusable(cache', loaded')
    <3>1. loaded # <<>>
      BY <1>9, <2>2
    <3>2. QED
      BY <1>6, <2>1, <3>1, Zenon DEF ReuseInv, Between
  <2>8. Types'
    BY <1>1, <1>2, <1>5, <2>1, <2>6 DEF Types
  <2>9. Between' /\ Replaying' /\ Answered' /\ Rewound'
    BY <1>2, <2>5, <2>7 DEF Between, Replaying, Answered, Rewound, Reusable
  <2>10. QED
    BY <2>8, <2>9, Zenon DEF ReuseInv
<1>10. QED
  BY <1>8, <1>9

\* Moving the first turn of the rest to the end of the book leaves the whole
\* as it is.
LEMMA MoveHead ==
    ASSUME NEW s \in Seq(Turns), NEW t \in Seq(Turns), t # <<>>
    PROVE  /\ Head(t) \in Turns /\ Tail(t) \in Seq(Turns)
           /\ Append(s, Head(t)) \in Seq(Turns)
           /\ Append(s, Head(t)) \o Tail(t) = s \o t
<1>1. Head(t) \in Turns /\ Tail(t) \in Seq(Turns) /\ Append(s, Head(t)) \in Seq(Turns)
  OBVIOUS
<1> DEFINE u == Append(s, Head(t)) \o Tail(t)
           v == s \o t
<1>2. u \in Seq(Turns) /\ v \in Seq(Turns) /\ Len(u) = Len(v) /\ Len(v) = Len(s) + Len(t)
  BY <1>1
<1>3. \A i \in 1 .. Len(s) + Len(t) : u[i] = v[i]
  BY <1>1
<1> HIDE DEF u, v
<1>4. u = v
  BY <1>2, <1>3, SeqEqual
<1>5. QED
  BY <1>1, <1>4 DEF u, v

\* Loading one turn keeps it, and a refused turn takes the claim of an intact
\* conversation with it.
LEMMA PrefillInv ==
    ASSUME ReuseInv, Prefill
    PROVE  ReuseInv'
<1> DEFINE turn == Head(todo)
<1>1. Types /\ Replaying /\ pc = "replay" /\ todo # <<>>
  BY Zenon DEF ReuseInv, Prefill
<1>2. loaded \in Seq(Turns) /\ todo \in Seq(Turns)
  BY <1>1 DEF Types
<1>3. /\ turn \in Turns /\ Tail(todo) \in Seq(Turns) /\ Append(loaded, turn) \in Seq(Turns)
      /\ Append(loaded, turn) \o Tail(todo) = loaded \o todo
  BY <1>1, <1>2, MoveHead
<1>4. PrefillEngine(turn, FALSE) /\ recurrent' = recurrent
  BY Zenon DEF Prefill
<1> HIDE DEF turn
<1>5. /\ cache' \in Seq(Tokens) /\ Len(cache') <= Ctx
      /\ intact' \in BOOLEAN /\ turn_boundary' = turn_boundary
      /\ intact' => intact /\ Prefilled(turn) /\ cache' = cache \o TextTokens(turn, FALSE)
  <2>1. FALSE \in BOOLEAN
    OBVIOUS
  <2>2. QED
    BY <1>1, <1>3, <1>4, <2>1, PrefillStep, Zenon
<1>6. CASE Prefilled(turn)
  <2>1. /\ loaded' = Append(loaded, turn) /\ todo' = Tail(todo)
        /\ pc' = pc /\ want' = want /\ prompt' = prompt /\ reply' = reply
    BY <1>6, Zenon DEF Prefill, turn
  <2>2. loaded' \o todo' = want' /\ prompt' \in Padded
    BY <1>1, <1>3, <2>1, Zenon DEF Replaying
  <2>3. intact' => Reusable(cache', loaded')
    <3>1. ASSUME intact' PROVE Reusable(cache', loaded')
      <4>1. Reusable(cache, loaded) /\ cache \in Seq(Tokens)
        BY <1>1, <1>5, <3>1, Zenon DEF Replaying, Types
      <4>2. FALSE \in BOOLEAN
        OBVIOUS
      <4>3. Reusable(cache \o TextTokens(turn, FALSE), Append(loaded, turn))
        BY <1>2, <1>3, <4>1, <4>2, ReusableAppend, Zenon
      <4>4. QED
        BY <1>5, <2>1, <3>1, <4>3, Zenon
    <3>2. QED
      BY <3>1
  <2>4. Types'
    BY <1>1, <1>3, <1>4, <1>5, <2>1, Zenon DEF Types
  <2>5. Between' /\ Replaying' /\ Answered' /\ Rewound'
    BY <1>1, <2>1, <2>2, <2>3 DEF Between, Replaying, Answered, Rewound, Reusable
  <2>6. QED
    BY <2>4, <2>5, Zenon DEF ReuseInv
<1>7. CASE ~Prefilled(turn)
  <2>1. /\ pc' = "idle" /\ want' = <<>> /\ todo' = <<>> /\ prompt' = NoPrompt
        /\ loaded' = loaded /\ reply' = reply
    BY <1>7, Zenon DEF Prefill, turn
  <2>2. ~intact'
    BY <1>5, <1>7
  <2>3. <<>> \in Seq(Turns) /\ NoPrompt \in Padded \cup {NoPrompt}
    OBVIOUS
  <2>4. pc' \in {"idle", "replay", "append", "reload"}
    BY <2>1
  <2>5. Types'
    BY <1>1, <1>4, <1>5, <2>1, <2>3, <2>4, Zenon DEF Types
  <2>6. Between' /\ Replaying' /\ Answered' /\ Rewound'
    BY <2>1, <2>2 DEF Between, Replaying, Answered, Rewound
  <2>7. QED
    BY <2>5, <2>6, Zenon DEF ReuseInv
<1>8. QED
  BY <1>6, <1>7

\* The turn itself keeps it: what the boundary marks is the replay of the
\* history and the prompt.
LEMMA GenerateInv ==
    ASSUME ReuseInv, NEW r \in Padded \cup {NoPrompt}, NEW n \in 0 .. Budget, Generate(r, n)
    PROVE  ReuseInv'
<1> DEFINE base == IF Fits(cache, TurnNeeds(prompt)) THEN cache ELSE System
           turn == Turn("user", prompt.text)
<1>1. Types /\ Replaying /\ pc = "replay" /\ todo = <<>>
  BY Zenon DEF ReuseInv, Generate
<1>2. prompt \in Padded /\ loaded \o todo = want /\ (intact => Reusable(cache, loaded))
  BY <1>1, Zenon DEF Replaying
<1>3. /\ RunTurn(base, prompt, r, n) /\ loaded' = want /\ reply' = r /\ pc' = "append"
      /\ recurrent' = recurrent /\ want' = want /\ todo' = todo /\ prompt' = prompt
  BY Zenon DEF Generate
<1>4. n \in Nat
  <2>1. Budget \in Nat
    BY HistoryAssumption
  <2>2. QED
    BY <2>1
<1>5. base = cache \/ base = System
  OBVIOUS
<1> HIDE DEF base
<1>6. /\ cache' \in Seq(Tokens) /\ Len(cache') <= Ctx
      /\ intact' \in BOOLEAN /\ turn_boundary' \in -1 .. Ctx
      /\ intact' => /\ intact /\ turn_boundary' \in 0 .. Len(cache')
                    /\ SubSeq(cache', 1, turn_boundary') = cache \o TextTokens(turn, prompt.padded)
  BY <1>1, <1>2, <1>3, <1>4, <1>5, RunStep, Zenon
<1>7. cache \in Seq(Tokens) /\ loaded \in Seq(Turns) /\ want \in Seq(Turns)
  BY <1>1 DEF Types
<1>8. loaded = want
  BY <1>1, <1>2, <1>7, ConcatEmptySeq
<1>9. prompt.text # "" /\ prompt.padded \in BOOLEAN /\ turn \in Turns
  BY <1>2, PromptTurn
<1>10. WithPrompt' = Append(loaded', Turn("user", prompt'.text))
  BY <1>3, <1>9 DEF WithPrompt
<1> HIDE DEF turn
<1>11. ASSUME intact'
       PROVE  Reusable(SubSeq(cache', 1, turn_boundary'), WithPrompt')
  <2>1. Reusable(cache \o TextTokens(turn, prompt.padded), Append(loaded, turn))
    BY <1>2, <1>6, <1>7, <1>9, <1>11, ReusableAppend, Zenon
  <2>2. WithPrompt' = Append(loaded, turn)
    BY <1>3, <1>8, <1>10, Zenon DEF turn
  <2>3. QED
    BY <1>6, <1>11, <2>1, <2>2, Zenon
<1>12. Types'
  BY <1>1, <1>3, <1>6, <1>7 DEF Types
<1>13. Between' /\ Replaying' /\ Rewound'
  BY <1>3 DEF Between, Replaying, Rewound
<1>14. Answered'
  BY <1>1, <1>2, <1>3, <1>6, <1>11, Zenon DEF Answered, Reusable
<1>15. QED
  BY <1>12, <1>13, <1>14, Zenon DEF ReuseInv

\* The rewind keeps it: the cache is cut to where the prompt ends, and the
\* book gets the prompt. With no reply the request ends there.
LEMMA RewindInv ==
    ASSUME ReuseInv, Rewind
    PROVE  /\ ReuseInv'
           /\ reply.text = "" => loaded' = Append(want, Turn("user", prompt.text))
<1> DEFINE cut == SubSeq(cache, 1, turn_boundary)
           turn == Turn("user", prompt.text)
<1>1. Types /\ Answered /\ pc = "append" /\ CanRewind
  BY Zenon DEF ReuseInv, Rewind
<1>2. /\ loaded = want /\ todo = <<>> /\ prompt \in Padded
      /\ intact => Reusable(cut, WithPrompt)
  BY <1>1, Zenon DEF Answered
<1>3. /\ cache' = cut /\ loaded' = WithPrompt /\ recurrent' = recurrent
      /\ turn_boundary' = turn_boundary /\ intact' = intact
  BY Zenon DEF Rewind
<1>4. /\ cache \in Seq(Tokens) /\ Len(cache) <= Ctx /\ Ctx \in Nat
      /\ loaded \in Seq(Turns) /\ want \in Seq(Turns)
  BY <1>1, WindowType DEF Types
<1>5. turn_boundary \in 0 .. Len(cache)
  BY <1>1, Zenon DEF CanRewind
<1>6. cut \in Seq(Tokens) /\ Len(cut) <= Ctx
  BY <1>4, <1>5
<1>7. prompt.text # "" /\ turn \in Turns
  BY <1>2, PromptTurn
<1>8. WithPrompt = Append(loaded, turn)
  BY <1>7 DEF WithPrompt
<1> HIDE DEF cut, turn
<1>9. loaded' \in Seq(Turns) /\ loaded' = Append(want, turn)
  <2>1. \A s \in Seq(Turns), t \in Turns : Append(s, t) \in Seq(Turns)
    OBVIOUS
  <2>2. Append(want, turn) \in Seq(Turns)
    BY <1>4, <1>7, <2>1, Zenon
  <2>3. QED
    BY <1>2, <1>3, <1>8, <2>2, Zenon
<1>10. intact' => Reusable(cache', loaded')
  BY <1>2, <1>3, Zenon
<1>11. CASE reply.text = ""
  <2>1. /\ pc' = "idle" /\ want' = <<>> /\ todo' = <<>>
        /\ prompt' = NoPrompt /\ reply' = NoPrompt
    BY <1>11, Zenon DEF Rewind, EndRequest
  <2>2. <<>> \in Seq(Turns) /\ NoPrompt \in Padded \cup {NoPrompt}
    OBVIOUS
  <2>3. pc' \in {"idle", "replay", "append", "reload"}
    BY <2>1
  <2>4. Types'
    BY <1>1, <1>3, <1>6, <1>9, <2>1, <2>2, <2>3, Zenon DEF Types
  <2>5. Between' /\ Replaying' /\ Answered' /\ Rewound'
    BY <1>10, <2>1 DEF Between, Replaying, Answered, Rewound, Reusable
  <2>6. QED
    BY <1>9, <2>4, <2>5, Zenon DEF ReuseInv, turn
<1>12. CASE reply.text # ""
  <2>1. pc' = "reload" /\ want' = want /\ todo' = todo /\ prompt' = prompt /\ reply' = reply
    BY <1>12, Zenon DEF Rewind, requestVars
  <2>2. reply \in Padded
    BY <1>1, <1>12, ReplyText, Zenon DEF Types
  <2>3. pc' \in {"idle", "replay", "append", "reload"}
    BY <2>1
  <2>4. Types'
    BY <1>1, <1>3, <1>6, <1>9, <2>1, <2>3, Zenon DEF Types
  <2>5. pc' # "idle" /\ pc' # "replay" /\ pc' # "append"
    BY <2>1
  <2>6. Between' /\ Replaying' /\ Answered'
    BY <2>5, Zenon DEF Between, Replaying, Answered
  <2>7. Rewound'
    BY <1>2, <1>9, <1>10, <2>1, <2>2, Zenon DEF Rewound, Reusable, turn
  <2>8. QED
    BY <1>12, <2>4, <2>6, <2>7, Zenon DEF ReuseInv
<1>13. QED
  BY <1>11, <1>12

\* Giving up keeps it, and happens to an intact conversation only in a
\* recurrent model.
LEMMA GiveUpInv ==
    ASSUME ReuseInv, GiveUp
    PROVE  ReuseInv' /\ (intact' => recurrent)
<1>1. Types /\ Answered /\ pc = "append" /\ ~CanRewind
  BY Zenon DEF ReuseInv, GiveUp
<1>2. /\ loaded' = <<>> /\ recurrent' = recurrent /\ cache' = cache
      /\ turn_boundary' = turn_boundary /\ intact' = intact
      /\ pc' = "idle" /\ want' = <<>> /\ todo' = <<>> /\ prompt' = NoPrompt /\ reply' = NoPrompt
  BY Zenon DEF GiveUp, EndRequest, engineVars
<1>3. <<>> \in Seq(Turns) /\ NoPrompt \in Padded \cup {NoPrompt}
  OBVIOUS
<1>4. pc' \in {"idle", "replay", "append", "reload"}
  BY <1>2
<1>5. Types'
  BY <1>1, <1>2, <1>3, <1>4, Zenon DEF Types
<1>6. Between' /\ Replaying' /\ Answered' /\ Rewound'
  BY <1>2 DEF Between, Replaying, Answered, Rewound
<1>7. intact' => recurrent
  BY <1>1, <1>2, Zenon DEF Answered, CanRewind
<1>8. QED
  BY <1>5, <1>6, <1>7, Zenon DEF ReuseInv

\* Loading the reply from its text keeps it, and an intact conversation has
\* it in the book.
LEMMA ReloadInv ==
    ASSUME ReuseInv, Reload
    PROVE  /\ ReuseInv'
           /\ intact' => loaded' = Append(Append(want, Turn("user", prompt.text)),
                                          Turn("assistant", reply.text))
<1> DEFINE turn == Turn("assistant", reply.text)
<1>1. Types /\ Rewound /\ pc = "reload"
  BY Zenon DEF ReuseInv, Reload
<1>2. /\ prompt \in Padded /\ reply \in Padded
      /\ loaded = Append(want, Turn("user", prompt.text))
      /\ intact => Reusable(cache, loaded)
  BY <1>1, Zenon DEF Rewound
<1>3. turn \in Turns /\ reply.padded \in BOOLEAN
  BY <1>2, PromptTurn
<1>4. /\ PrefillEngine(turn, reply.padded) /\ recurrent' = recurrent
      /\ loaded' = IF Prefilled(turn) THEN Append(loaded, turn) ELSE <<>>
      /\ pc' = "idle" /\ want' = <<>> /\ todo' = <<>> /\ prompt' = NoPrompt /\ reply' = NoPrompt
  BY Zenon DEF Reload, EndRequest
<1> HIDE DEF turn
<1>5. /\ cache' \in Seq(Tokens) /\ Len(cache') <= Ctx
      /\ intact' \in BOOLEAN /\ turn_boundary' = turn_boundary
      /\ intact' => intact /\ Prefilled(turn) /\ cache' = cache \o TextTokens(turn, reply.padded)
  BY <1>1, <1>3, <1>4, PrefillStep, Zenon
<1>6. cache \in Seq(Tokens) /\ loaded \in Seq(Turns)
  BY <1>1, Zenon DEF Types
<1>7. <<>> \in Seq(Turns) /\ NoPrompt \in Padded \cup {NoPrompt}
  OBVIOUS
<1>8. loaded' \in Seq(Turns)
  <2>1. Append(loaded, turn) \in Seq(Turns)
    BY <1>3, <1>6
  <2>2. QED
    BY <1>4, <1>7, <2>1
<1>9. intact' => loaded' = Append(loaded, turn) /\ Reusable(cache', loaded')
  <2>1. intact' => Reusable(cache \o TextTokens(turn, reply.padded), Append(loaded, turn))
    BY <1>2, <1>3, <1>5, <1>6, ReusableAppend, Zenon
  <2>2. QED
    BY <1>4, <1>5, <2>1, Zenon
<1>10. pc' \in {"idle", "replay", "append", "reload"}
  BY <1>4
<1>11. Types'
  BY <1>1, <1>4, <1>5, <1>7, <1>8, <1>10, Zenon DEF Types
<1>12. Between' /\ Replaying' /\ Answered' /\ Rewound'
  BY <1>4, <1>9 DEF Between, Replaying, Answered, Rewound, Reusable
<1>13. QED
  BY <1>2, <1>9, <1>11, <1>12, Zenon DEF ReuseInv, turn

\* An embedding keeps it: what it leaves in the cache is not claimed to be
\* intact.
LEMMA EmbedInv ==
    ASSUME ReuseInv, NEW x \in Texts, Embed(x)
    PROVE  ReuseInv'
<1> DEFINE turn == Turn("", x)
<1>1. Types /\ Between /\ pc = "idle"
  BY Zenon DEF ReuseInv, Embed
<1>2. /\ cache' = IF x # "" /\ Size[x] <= Ctx THEN TextTokens(turn, FALSE) ELSE <<>>
      /\ intact' = FALSE /\ recurrent' = recurrent /\ turn_boundary' = turn_boundary
      /\ loaded' = loaded /\ pc' = pc
      /\ want' = want /\ todo' = todo /\ prompt' = prompt /\ reply' = reply
  BY Zenon DEF Embed, requestVars
<1>3. turn \in {"", "user", "assistant"} \X Texts /\ turn[2] = x
  BY DEF Turn
<1> HIDE DEF turn
<1>4. TextTokens(turn, FALSE) \in Seq(Tokens) /\ Len(TextTokens(turn, FALSE)) = Size[x]
  <2>1. FALSE \in BOOLEAN
    OBVIOUS
  <2>2. QED
    BY <1>3, <2>1, TextTokensType, Zenon
<1>5. cache' \in Seq(Tokens) /\ Len(cache') <= Ctx
  <2>1. <<>> \in Seq(Tokens) /\ Len(<<>>) = 0 /\ 0 <= Ctx
    BY WindowType
  <2>2. QED
    BY <1>2, <1>4, <2>1, Zenon
<1>6. intact' \in BOOLEAN
  BY <1>2
<1>7. Types'
  BY <1>1, <1>2, <1>5, <1>6, Zenon DEF Types
<1>8. Between' /\ Replaying' /\ Answered' /\ Rewound'
  BY <1>1, <1>2 DEF Between, Replaying, Answered, Rewound
<1>9. QED
  BY <1>7, <1>8, Zenon DEF ReuseInv

\* Every step keeps the invariant.
LEMMA ReuseStep == ReuseInv /\ [Next]_vars => ReuseInv'
<1> SUFFICES ASSUME ReuseInv, [Next]_vars PROVE ReuseInv'
  OBVIOUS
<1>1. ASSUME NEW n \in 0 .. MaxHistory, NEW messages \in [1 .. n -> Message],
             NEW p \in Padded, Chat(messages, p)
      PROVE  ReuseInv'
  <2>1. MaxHistory \in Nat
    BY HistoryAssumption, Zenon
  <2>2. \A k \in 0 .. MaxHistory : k \in Nat
    BY <2>1
  <2>3. n \in Nat
    BY <2>2, Zenon
  <2>4. QED
    BY <1>1, <2>3, ChatInv, Zenon
<1>2. CASE Prefill
  BY <1>2, PrefillInv
<1>3. ASSUME NEW r \in Padded \cup {NoPrompt}, NEW n \in 0 .. Budget, Generate(r, n)
      PROVE  ReuseInv'
  BY <1>3, GenerateInv
<1>4. CASE Rewind
  BY <1>4, RewindInv
<1>5. CASE GiveUp
  BY <1>5, GiveUpInv
<1>6. CASE Reload
  BY <1>6, ReloadInv
<1>7. ASSUME NEW x \in Texts, Embed(x)
      PROVE  ReuseInv'
  BY <1>7, EmbedInv
<1>8. CASE UNCHANGED vars
  BY <1>8, Zenon DEF vars, engineVars, requestVars, ReuseInv, Types, Between, Replaying,
                     Answered, Rewound, Reusable, WithPrompt
<1>9. QED
  BY <1>1, <1>2, <1>3, <1>4, <1>5, <1>6, <1>7, <1>8, Zenon DEF Next

-------------------------------------------------------------------------------
\* The book and the cache agree at every point of every request, as long as
\* the engine has not dropped the conversation on its own: while a history is
\* loaded, after the turn up to its boundary, after the rewind, and between
\* requests.
THEOREM ReuseInvariant == Spec => []ReuseInv
<1>1. QED
  BY ReuseInit, ReuseStep, PTL DEF Spec

\* The invariant has the types in it; what is left to load is a suffix of the
\* history.
LEMMA ReuseTypes == ReuseInv => TypeOK
<1> SUFFICES ASSUME ReuseInv PROVE TypeOK
  OBVIOUS
<1>1. Types
  BY Zenon DEF ReuseInv
<1>2. loaded \in Seq(Turns) /\ want \in Seq(Turns) /\ todo \in Seq(Turns)
  BY <1>1, Zenon DEF Types
<1>3. IsSuffix(todo, want)
  <2>1. CASE pc = "replay"
    <3>1. want = loaded \o todo
      BY <2>1, Zenon DEF ReuseInv, Replaying
    <3>2. IsSuffix(todo, loaded \o todo)
      BY <1>2, SuffixOf
    <3>3. QED
      BY <3>1, <3>2, Zenon
  <2>2. CASE pc # "replay"
    <3>1. todo = <<>>
      <4>1. pc \in {"idle", "append", "reload"}
        BY <1>1, <2>2 DEF Types
      <4>2. pc = "idle" \/ pc = "append" \/ pc = "reload"
        BY <4>1
      <4>3. QED
        BY <4>2, Zenon DEF ReuseInv, Between, Answered, Rewound
    <3>2. want \o <<>> = want /\ <<>> \in Seq(Turns)
      BY <1>2, ConcatEmptySeq
    <3>3. IsSuffix(<<>>, want \o <<>>)
      BY <1>2, <3>2, SuffixOf, Zenon
    <3>4. QED
      BY <3>1, <3>2, <3>3, Zenon
  <2>3. QED
    BY <2>1, <2>2
<1>4. QED
  BY <1>1, <1>3, Zenon DEF Types, TypeOK

\* The types of the shim's book and the engine's cache, and the window: the
\* engine never holds more tokens than it.
THEOREM TypeCorrect == Spec => []TypeOK
<1>1. QED
  BY ReuseInvariant, ReuseTypes, PTL

\* Between requests an intact conversation is in the cache exactly as the
\* book has it (the comment on `loaded`, and canonicalize_turn).
THEOREM BookExact == Spec => []BookIsExact
<1>1. ReuseInv => BookIsExact
  BY Zenon DEF ReuseInv, Between, Reusable, BookIsExact
<1>2. QED
  BY <1>1, ReuseInvariant, PTL

\* The answer is conditioned on the client's history and on nothing else,
\* whatever was reused of an intact conversation.
THEOREM AnswersFromHistory == Spec => []ConditionsOnHistory
<1>1. ReuseInv => ConditionsOnHistory
  <2> SUFFICES ASSUME ReuseInv, pc = "replay", todo = <<>>, intact
               PROVE  Plain(cache) = Replayed(want)
    BY Zenon DEF ConditionsOnHistory
  <2>1. loaded \o todo = want /\ Plain(cache) = Replayed(loaded)
    BY Zenon DEF ReuseInv, Replaying, Reusable
  <2>2. loaded \in Seq(Turns)
    BY Zenon DEF ReuseInv, Types
  <2>3. loaded \o <<>> = loaded
    BY <2>2, ConcatEmptySeq
  <2>4. QED
    BY <2>1, <2>3, Zenon
<1>2. QED
  BY <1>1, ReuseInvariant, PTL

-------------------------------------------------------------------------------
\* The book after an answered turn, as the history, the prompt and the reply.
LEMMA Answer ==
    ASSUME NEW s \in Seq(Turns), NEW p \in Padded, NEW r \in Padded \cup {NoPrompt}
    PROVE  s \o Normalized(<<Turn("user", p.text), Turn("assistant", r.text)>>)
             = IF r.text = "" THEN Append(s, Turn("user", p.text))
               ELSE Append(Append(s, Turn("user", p.text)), Turn("assistant", r.text))
<1> DEFINE u == Turn("user", p.text)
           a == Turn("assistant", r.text)
<1>1. u \in Turns
  BY PromptTurn
<1>2. a \in Message /\ a[2] = r.text
  BY ReplyText DEF Turn, Message
<1>3. r.text # "" => a \in Turns
  BY ReplyText, PromptTurn
<1> HIDE DEF u, a
<1>4. Normalized(<<u, a>>) = IF r.text = "" THEN <<u>> ELSE <<u, a>>
  BY <1>1, <1>2, NormalizedPair, Zenon
<1>5. s \o <<u>> = Append(s, u)
  BY <1>1
<1>6. a \in Turns => s \o <<u, a>> = Append(Append(s, u), a)
  BY <1>1
<1>7. QED
  BY <1>3, <1>4, <1>5, <1>6, Zenon DEF u, a

\* A step that ends an answered request with the conversation intact leaves
\* that book.
LEMMA AnswerStep == ReuseInv /\ [Next]_vars =>
    ((pc = "append" \/ pc = "reload") /\ pc' = "idle" /\ intact' /\ ~recurrent =>
        loaded' = want \o Normalized(<<Turn("user", prompt.text), Turn("assistant", reply.text)>>))
<1> SUFFICES ASSUME ReuseInv, [Next]_vars, pc = "append" \/ pc = "reload",
                    pc' = "idle", intact', ~recurrent
             PROVE  loaded' = want \o Normalized(<<Turn("user", prompt.text),
                                                   Turn("assistant", reply.text)>>)
  BY Zenon
<1>1. pc # "idle" /\ pc # "replay"
  OBVIOUS
<1>2. Rewind \/ GiveUp \/ Reload
  <2>1. ~UNCHANGED vars
    BY <1>1, Zenon DEF vars
  <2>2. QED
    BY <1>1, <2>1, Zenon DEF Next, Chat, Prefill, Generate, Embed
<1>3. want \in Seq(Turns) /\ reply \in Padded \cup {NoPrompt}
  BY Zenon DEF ReuseInv, Types
<1>4. prompt \in Padded
  BY Zenon DEF ReuseInv, Answered, Rewound
<1>5. CASE Rewind
  <2>1. reply.text = ""
    <3>1. reply.text # "" => pc' = "reload"
      BY <1>5, Zenon DEF Rewind
    <3>2. QED
      BY <3>1
  <2>2. loaded' = Append(want, Turn("user", prompt.text))
    BY <1>5, <2>1, RewindInv, Zenon
  <2>3. QED
    BY <1>3, <1>4, <2>1, <2>2, Answer, Zenon
<1>6. CASE GiveUp
  BY <1>6, GiveUpInv
<1>7. CASE Reload
  <2>1. loaded' = Append(Append(want, Turn("user", prompt.text)), Turn("assistant", reply.text))
    BY <1>7, ReloadInv, Zenon
  <2>2. reply.text # ""
    <3>1. reply \in Padded
      BY <1>7, Zenon DEF ReuseInv, Rewound, Reload
    <3>2. QED
      BY <3>1, PromptTurn
  <2>3. QED
    BY <1>3, <1>4, <2>1, <2>2, Answer, Zenon
<1>8. QED
  BY <1>2, <1>5, <1>6, <1>7

\* An answered turn is reusable: without recurrent layers the book then holds
\* the client's history, its prompt and the reply.
THEOREM AnswersAreReusable == Spec => AnswerIsReusable
<1>1. ReuseInv /\ [Next]_vars =>
        [(pc = "append" \/ pc = "reload") /\ pc' = "idle" /\ intact' /\ ~recurrent =>
          loaded' = want \o Normalized(<<Turn("user", prompt.text),
                                         Turn("assistant", reply.text)>>)]_vars
  BY AnswerStep, Zenon
<1>2. QED
  BY <1>1, ReuseInvariant, PTL DEF Spec, AnswerIsReusable

\* A step that refuses a turn had one that does not fit an empty
\* conversation.
LEMMA RefusalStep == ReuseInv /\ [Next]_vars =>
    (pc = "replay" /\ pc' = "idle" => Len(System) + Size[Head(todo)[2]] > Ctx)
<1> SUFFICES ASSUME ReuseInv, [Next]_vars, pc = "replay", pc' = "idle"
             PROVE  Len(System) + Size[Head(todo)[2]] > Ctx
  BY Zenon
<1>1. pc # "idle" /\ pc # "append" /\ pc # "reload" /\ pc' # "append" /\ pc' # "replay"
  OBVIOUS
<1>2. Prefill
  <2>1. ~UNCHANGED vars
    BY <1>1, Zenon DEF vars
  <2>2. QED
    BY <1>1, <2>1, Zenon DEF Next, Chat, Generate, Embed, Rewind, GiveUp, Reload
<1>3. todo # <<>> /\ PrefillEngine(Head(todo), FALSE) /\ Types
  BY <1>2, Zenon DEF Prefill, ReuseInv
<1>4. ~Prefilled(Head(todo))
  <2>1. Prefilled(Head(todo)) => pc' = pc
    BY <1>2, Zenon DEF Prefill
  <2>2. QED
    BY <1>1, <2>1
<1>5. Head(todo) \in Turns
  <2>1. todo \in Seq(Turns) /\ loaded \in Seq(Turns)
    BY <1>3, Zenon DEF Types
  <2>2. QED
    BY <1>3, <2>1, MoveHead, Zenon
<1>6. FALSE \in BOOLEAN
  OBVIOUS
<1>7. QED
  BY <1>3, <1>4, <1>5, <1>6, PrefillStep, Zenon

\* A request is refused for its size only if the refused turn could not fit
\* an empty conversation either (ContextTooSmall).
THEOREM RefusesOnlyTheTooLong == Spec => RefusedOnlyIfTooLong
<1>1. ReuseInv /\ [Next]_vars =>
        [pc = "replay" /\ pc' = "idle" => Len(System) + Size[Head(todo)[2]] > Ctx]_vars
  BY RefusalStep, Zenon
<1>2. QED
  BY <1>1, ReuseInvariant, PTL DEF Spec, RefusedOnlyIfTooLong
===============================================================================
