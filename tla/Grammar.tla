-------------------------------- MODULE Grammar --------------------------------
(***************************************************************************)
(* tensormark/gbnf.h and the GrammarFilter of llama_chat.cpp: a grammar's   *)
(* text is parsed to rules, compiled to a program of char, split, jump,     *)
(* call and return instructions, and run as a set of configurations (a      *)
(* program counter and a return stack each) over the bytes of the tokens;   *)
(* a step of decoding may sample the tokens the mask allows.                *)
(*                                                                          *)
(* The text is a sequence of lexemes [t, v]; a literal's v is a sequence of *)
(* codepoints, a class's [ranges, negate].  UTF-8 is scaled down to one bit *)
(* per continuation byte: "a" and "b" are the codepoints 0 and 1, "L" leads *)
(* 2 .. 3, "M" 4 .. 7, and "O" is the lead of an overlong form.  The cap on *)
(* the number of configurations (2^16) is left out: no grammar here reaches *)
(* it; the cap on the depth of a closure is not.                            *)
(***************************************************************************)
EXTENDS Integers, SequencesExt, FiniteSets

CONSTANTS Texts,     (* grammars: sequences of lexemes                       *)
          Vocab,     (* the bytes of each token; the last token is EOS        *)
          Blank,     (* ws_only: tokens of white space alone                  *)
          MaxBytes   (* bound: bytes of a document                            *)

VARIABLE doc   (* [g, cfg, pending, stall, out, ended]: one constrained turn *)

Eos == Len(Vocab)

-----------------------------------------------------------------------------
(* Bytes and codepoints.                                                     *)

Lead == [a |-> [extra |-> 0, bits |-> 0], b |-> [extra |-> 0, bits |-> 1],
         O |-> [extra |-> 1, bits |-> 0], L |-> [extra |-> 1, bits |-> 1],
         M |-> [extra |-> 2, bits |-> 1]]
Continuation == {"x", "y"}
Low == [a |-> 0, b |-> 1, x |-> 0, y |-> 1, O |-> 0, L |-> 1, M |-> 1]   \* the byte & 0x3F
Shortest(extra) == <<0, 2, 4>>[extra + 1]
Longest(extra) == <<1, 3, 7>>[extra + 1]

\* The value of a lead byte and the bytes after it, each taken for a continuation.
Value(p) == FoldLeft(LAMBDA acc, y : 2 * acc + Low[y], Lead[p[1]].bits, Tail(p))

\* utf8_one
Utf8One(p) ==
    IF p[1] \notin DOMAIN Lead THEN "invalid"
    ELSE IF Len(p) < Lead[p[1]].extra + 1 THEN "incomplete"
    ELSE IF \A i \in 2 .. Lead[p[1]].extra + 1 : p[i] \in Continuation THEN "complete"
    ELSE "invalid"

\* utf8_prefix_range: the codepoints whose encoding begins with p.
PrefixRange(p) ==
    LET extra == Lead[p[1]].extra
        rest  == extra - (Len(p) - 1)
        lo    == Value(p) * 2 ^ rest
    IN  {cp \in lo .. lo + 2 ^ rest - 1 : Shortest(extra) <= cp /\ cp <= Longest(extra)}

-----------------------------------------------------------------------------
(* Parser: every operator maps [i, rules, ...] to itself with i moved on.    *)
(* A group becomes a rule of its own, named by the order of its end.         *)

At(s, i, t) == i <= Len(s) /\ s[i].t = t
AtRuleStart(s, i) == At(s, i, "id") /\ At(s, i + 1, "::=")

Elem(kind, v) == [kind |-> kind, v |-> v, rep |-> "1"]

RECURSIVE Alternates(_, _), Sequence(_, _, _), Atom(_, _)

\* atom(): p = [i, groups]; the answer adds the element.
Atom(s, p) ==
    LET x == s[p.i]
    IN  IF x.t = "("
        THEN LET in == Alternates(s, [p EXCEPT !.i = @ + 1])
             IN  [i |-> in.i + 1, groups |-> Append(in.groups, in.alts),
                  elem |-> Elem("group", Len(in.groups) + 1)]
        ELSE [i |-> p.i + 1, groups |-> p.groups, elem |-> Elem(x.t, x.v)]

\* sequence() with element(): up to a bar, a closing parenthesis or the next rule.
Sequence(s, p, elems) ==
    IF p.i > Len(s) \/ At(s, p.i, "|") \/ At(s, p.i, ")") \/ AtRuleStart(s, p.i)
    THEN [i |-> p.i, groups |-> p.groups, elems |-> elems]
    ELSE LET a   == Atom(s, p)
             rep == IF a.i <= Len(s) /\ s[a.i].t \in {"*", "+", "?"} THEN s[a.i].t ELSE "1"
         IN  Sequence(s, [i |-> IF rep = "1" THEN a.i ELSE a.i + 1, groups |-> a.groups],
                      Append(elems, [a.elem EXCEPT !.rep = rep]))

\* alternates()
Alternates(s, p) ==
    LET q == Sequence(s, p, <<>>)
    IN  IF At(s, q.i, "|")
        THEN LET more == Alternates(s, [i |-> q.i + 1, groups |-> q.groups])
             IN  [more EXCEPT !.alts = <<q.elems>> \o @]
        ELSE [i |-> q.i, groups |-> q.groups, alts |-> <<q.elems>>]

\* Grammar::parse: the named rules in order, then the groups; references are
\* resolved to indices, and the entry is the rule named root.
RECURSIVE NamedRules(_, _, _)
NamedRules(s, p, rules) ==
    IF p.i > Len(s) THEN [rules |-> rules, groups |-> p.groups]
    ELSE LET body == Alternates(s, [i |-> p.i + 2, groups |-> p.groups])
         IN  NamedRules(s, body, Append(rules, [name |-> s[p.i].v, alts |-> body.alts]))

Resolved(rules, groups, alts) ==
    LET index(name) == CHOOSE r \in DOMAIN rules : rules[r].name = name
        element(e) == CASE e.kind = "id"    -> [e EXCEPT !.kind = "ref", !.v = index(e.v)]
                        [] e.kind = "group" -> [e EXCEPT !.kind = "ref", !.v = Len(rules) + e.v]
                        [] OTHER            -> e
    IN  [root  |-> index("root"),
         rules |-> [r \in DOMAIN alts |-> [a \in DOMAIN alts[r] |->
                      [i \in DOMAIN alts[r][a] |-> element(alts[r][a][i])]]]]

AllResolved(all) == Resolved(all.rules, all.groups, [r \in DOMAIN all.rules |-> all.rules[r].alts] \o all.groups)
Parse(s) == AllResolved(NamedRules(s, [i |-> 1, groups |-> <<>>], <<>>))

-----------------------------------------------------------------------------
(* Compiler.  An instruction is [op, a, b, v]; addresses count from 0.       *)

Inst(op, a, b, v) == [op |-> op, a |-> a, b |-> b, v |-> v]
OneOf(cps) == [ranges |-> cps, negate |-> FALSE]

\* emit_body: a literal is one char instruction per codepoint.
EmitBody(prog, e) ==
    LET next == Len(prog) + 1
    IN  CASE e.kind = "lit"   -> prog \o [k \in 1 .. Len(e.v) |->
                                   Inst("char", next + k - 1, 0, OneOf(<<<<e.v[k], e.v[k]>>>>))]
          [] e.kind = "class" -> Append(prog, Inst("char", next, 0, e.v))
          [] e.kind = "any"   -> Append(prog, Inst("char", next, 0, [ranges |-> <<>>, negate |-> TRUE]))
          [] OTHER            -> Append(prog, Inst("call", 0, next, e.v))

\* emit_elem: the body once, or under the split of its repetition.
EmitElem(prog, e) ==
    LET at == Len(prog)
        under(tail) == LET q == EmitBody(Append(prog, Inst("split", at + 1, 0, 0)), e) \o tail
                       IN  [q EXCEPT ![at + 1].b = Len(q)]
        q1 == EmitBody(prog, e)
    IN  CASE e.rep = "1" -> q1
          [] e.rep = "?" -> under(<<>>)
          [] e.rep = "*" -> under(<<Inst("jump", at, 0, 0)>>)
          [] e.rep = "+" -> Append(q1, Inst("split", at, Len(q1) + 1, 0))

\* compile(), one rule: a chain of splits to the alternatives, each ending in a
\* jump to the rule's return; ends[k] is the program after k alternatives.
EmitAlternative(prog, alt) == Append(FoldLeft(EmitElem, prog, alt), Inst("jump", -1, 0, 0))

LinkRule(c, n, ends) ==
    LET entry == Len(c.prog)
        start(k) == Len(ends[k - 1])
        ret   == Len(ends[n])
        linked(k, in) ==
            IF in.op = "jump" /\ in.a = -1 THEN [in EXCEPT !.a = ret]
            ELSE IF k > entry /\ k <= entry + n - 1
                 THEN [in EXCEPT !.a = start(k - entry),
                                 !.b = IF k - entry = n - 1 THEN start(n) ELSE k]
                 ELSE in
    IN  [prog  |-> Append([k \in 1 .. ret |-> linked(k, ends[n][k])], Inst("return", 0, 0, 0)),
         entry |-> Append(c.entry, entry)]

CompileRule(c, alts) ==
    LET n     == Len(alts)
        chain == c.prog \o [k \in 1 .. n - 1 |-> Inst("split", 0, 0, 0)]
    IN  LinkRule(c, n, [k \in 0 .. n |-> FoldLeft(EmitAlternative, chain, SubSeq(alts, 1, k))])

Matching(c, root) ==
    [prog |-> Append(c.prog, Inst("match", 0, 0, 0)), entry |-> c.entry, root |-> root, match |-> Len(c.prog)]
Compile(g) == Matching(FoldLeft(CompileRule, [prog |-> <<>>, entry |-> <<>>], g.rules), g.root)

Machines == [g \in DOMAIN Texts |-> Compile(Parse(Texts[g]))]

-----------------------------------------------------------------------------
(* The matcher.                                                              *)

Config(pc, ret) == [pc |-> pc, ret |-> ret]
At0(m, c) == m.prog[c.pc + 1]

\* One epsilon step of closure(): a call past the depth bound is dropped, a
\* return from the entry rule is the match.
EpsilonSteps_EntryOnly(m, c, depth) == {Config(At0(m, c).a, c.ret)}
EpsilonSteps(m, c, depth) ==
    LET in == At0(m, c)
    IN  CASE in.op = "jump"  -> {Config(in.a, c.ret)}
          [] in.op = "split" -> {Config(in.a, c.ret), Config(in.b, c.ret)}
          [] in.op = "call"  -> IF Len(c.ret) >= depth THEN {}
                                ELSE {Config(m.entry[in.v], Append(c.ret, in.b))}
          [] in.op = "return" -> IF c.ret = <<>> THEN {Config(m.match, <<>>)}
                                 ELSE {Config(Last(c.ret), Front(c.ret))}
          [] OTHER -> {}

RECURSIVE Reach(_, _, _, _)
Reach(m, work, seen, depth) ==
    IF work = {} THEN seen
    ELSE LET new == UNION {EpsilonSteps(m, c, depth) : c \in work} \ seen
         IN  Reach(m, new, seen \cup new, depth)

\* closure(): what is left are the configurations at a char or at the match.
Closure(m, cfgs) ==
    LET deepest == IF cfgs = {} THEN 0 ELSE Max({Len(c.ret) : c \in cfgs})
    IN  {c \in Reach(m, cfgs, cfgs, deepest + 2 * Len(m.entry) + 8) :
            At0(m, c).op \in {"char", "match"}}

Start(m) == [cfg |-> Closure(m, {Config(m.entry[m.root], <<>>)}), pending |-> <<>>]

\* can_end: not in the middle of a codepoint, and the match is reached.
CanEnd(m, s) == s.pending = <<>> /\ \E c \in s.cfg : At0(m, c).op = "match"

\* char_matches
CharMatches(in, cp) ==
    LET inside == \E r \in DOMAIN in.v.ranges : in.v.ranges[r][1] <= cp /\ cp <= in.v.ranges[r][2]
    IN  inside # in.v.negate

Dead == [cfg |-> {}, pending |-> <<>>]

\* advance: a byte completes a codepoint, is kept for it, or is refused.
Advance(m, s, byte) ==
    LET p == Append(s.pending, byte)
    IN  CASE Utf8One(p) = "invalid"    -> Dead
          [] Utf8One(p) = "incomplete" -> [s EXCEPT !.pending = p]
          [] OTHER -> [cfg |-> Closure(m, {Config(At0(m, c).a, c.ret) : c \in
                                  {d \in s.cfg : At0(m, d).op = "char" /\ CharMatches(At0(m, d), Value(p))}}),
                       pending |-> <<>>]

AdvanceAll(m, s, bytes) ==
    FoldLeft(LAMBDA t, byte : IF t.cfg = {} THEN t ELSE Advance(m, t, byte), s, bytes)

-----------------------------------------------------------------------------
(* The mask over the vocabulary.                                             *)

\* The first codepoint from lo on that the ranges, taken in order, do not cover.
Uncovered(ranges, lo) ==
    FoldLeft(LAMBDA cur, r : IF r[1] <= cur /\ cur <= r[2] THEN r[2] + 1 ELSE cur, lo, ranges)

\* admissible: a token that ends inside a codepoint needs one the grammar accepts.
Admissible(m, s) ==
    \/ s.pending = <<>>
    \/ LET span == PrefixRange(s.pending)
       IN  span # {} /\ \E c \in {d \in s.cfg : At0(m, d).op = "char"} :
               LET v == At0(m, c).v
               IN  IF v.negate THEN Uncovered(v.ranges, Min(span)) <= Max(span)
                   ELSE \E r \in DOMAIN v.ranges : v.ranges[r][1] <= Max(span) /\ v.ranges[r][2] >= Min(span)

\* TokenMask: of tokens with the same bytes the trie keeps the first.
Offered == {id \in 1 .. Eos - 1 : Vocab[id] # <<>> /\ \A j \in 1 .. id - 1 : Vocab[j] # Vocab[id]}

\* allowed(): the walk of the trie prunes a prefix the grammar refuses.
Survives(m, s) == s.cfg # {} /\ Admissible(m, s)
Allowed(m, s) ==
    {id \in Offered : Survives(m, AdvanceAll(m, s, Vocab[id]))} \cup {id \in {Eos} : CanEnd(m, s)}

\* GrammarFilter::restrict: a run of white space is cut if anything else is left.
Restricted(allowed, stall) ==
    IF stall >= 4 /\ allowed \ Blank # {} THEN allowed \ Blank ELSE allowed

-----------------------------------------------------------------------------
(* One turn under a grammar.                                                 *)

State(d) == [cfg |-> d.cfg, pending |-> d.pending]

Fresh(g, s) == [g |-> g, cfg |-> s.cfg, pending |-> s.pending, stall |-> 0, out |-> <<>>, ended |-> FALSE]
NewDoc(g) == Fresh(g, Start(Machines[g]))

\* run_turn, one iteration: restrict, sample, consume, and stop once EOS is the
\* only continuation.
Consumed(d, id, m, s) ==
    [d EXCEPT !.cfg = s.cfg, !.pending = s.pending, !.out = @ \o Vocab[id],
              !.stall = IF s = State(d) THEN @ + 1 ELSE 0, !.ended = Allowed(m, s) = {Eos}]

Sample ==
    /\ ~doc.ended
    /\ \E m \in {Machines[doc.g]} : \E id \in Restricted(Allowed(m, State(doc)), doc.stall) :
         \/ id = Eos /\ doc' = [doc EXCEPT !.ended = TRUE]
         \/ /\ id # Eos /\ Len(doc.out) + Len(Vocab[id]) <= MaxBytes
            /\ doc' = Consumed(doc, id, m, AdvanceAll(m, State(doc), Vocab[id]))
=============================================================================
