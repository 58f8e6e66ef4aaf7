---------------------------- MODULE GrammarLanguage ----------------------------
(* What a grammar means, independent of tensormark/gbnf.h: a grammar is a      *)
(* function from rule names to trees, printed as the text the parser reads,    *)
(* and denotes the least set of words closed under its rules.  Words are cut   *)
(* at a length so that the sets are finite.                                    *)
EXTENDS Integers, SequencesExt, FiniteSets

Lit(cps) == [n |-> "lit", v |-> cps]
Cls(ranges, negate) == [n |-> "class", v |-> [ranges |-> ranges, negate |-> negate]]
Dot == [n |-> "any", v |-> 0]
Ref(name) == [n |-> "id", v |-> name]
Cat(trees) == [n |-> "cat", v |-> trees]
Or(trees) == [n |-> "or", v |-> trees]
Rep(op, tree) == [n |-> "rep", v |-> tree, op |-> op]

Lexeme(t, v) == [t |-> t, v |-> v]
Sym(t) == Lexeme(t, 0)

RECURSIVE Printed(_), Denoted(_, _, _)

\* The lexemes of a tree; what binds looser than its place is put in a group.
Printed(tree) ==
    LET grouped(x) == IF x.n \in {"or", "cat", "rep"} THEN <<Sym("(")>> \o Printed(x) \o <<Sym(")")>>
                      ELSE Printed(x)
        listed(xs, sep) == [i \in DOMAIN xs |-> IF i = 1 THEN Printed(xs[i]) ELSE sep \o Printed(xs[i])]
    IN  CASE tree.n = "or"  -> FlattenSeq(listed(tree.v, <<Sym("|")>>))
          [] tree.n = "cat" -> FlattenSeq([i \in DOMAIN tree.v |->
                                  IF tree.v[i].n = "or" THEN grouped(tree.v[i]) ELSE Printed(tree.v[i])])
          [] tree.n = "rep" -> Append(grouped(tree.v), Sym(tree.op))
          [] OTHER -> <<Lexeme(tree.n, tree.v)>>

PrintedRules(names, rules) ==
    FlattenSeq([i \in DOMAIN names |-> <<Lexeme("id", names[i]), Sym("::=")>> \o Printed(rules[names[i]])])

Codepoints == 0 .. 7

Upto(n, words) == {w \in words : Len(w) <= n}
Concat(n, left, right) == Upto(n, {u \o v : u \in left, v \in right})

RECURSIVE Iterated(_, _, _)
Iterated(n, words, acc) ==
    LET more == acc \cup Concat(n, acc, words)
    IN  IF more = acc THEN acc ELSE Iterated(n, words, more)

\* The words of at most n codepoints a tree denotes where rules denote env.
Denoted(tree, env, n) ==
    CASE tree.n = "lit"   -> Upto(n, {tree.v})
      [] tree.n = "class" -> Upto(n, {<<cp>> : cp \in {d \in Codepoints :
                                (\E r \in DOMAIN tree.v.ranges :
                                   tree.v.ranges[r][1] <= d /\ d <= tree.v.ranges[r][2]) # tree.v.negate}})
      [] tree.n = "any"   -> Upto(n, {<<cp>> : cp \in Codepoints})
      [] tree.n = "id"    -> env[tree.v]
      [] tree.n = "or"    -> UNION {Denoted(tree.v[i], env, n) : i \in DOMAIN tree.v}
      [] tree.n = "cat"   -> FoldLeft(LAMBDA acc, x : Concat(n, acc, Denoted(x, env, n)), {<<>>}, tree.v)
      [] tree.n = "rep"   -> LET once == Denoted(tree.v, env, n)
                             IN  CASE tree.op = "?" -> once \cup {<<>>}
                                   [] tree.op = "*" -> Iterated(n, once, {<<>>})
                                   [] tree.op = "+" -> Iterated(n, once, once)

RECURSIVE Least(_, _, _)
Least(rules, env, n) ==
    LET next == [r \in DOMAIN rules |-> Denoted(rules[r], env, n)]
    IN  IF next = env THEN env ELSE Least(rules, next, n)

\* The language of the rule root.
Language(rules, n) == Least(rules, [r \in DOMAIN rules |-> {}], n)["root"]

Encoding(cp) == <<<<"a">>, <<"b">>, <<"L", "x">>, <<"L", "y">>, <<"M", "x", "x">>, <<"M", "x", "y">>,
                  <<"M", "y", "x">>, <<"M", "y", "y">>>>[cp + 1]
Encoded(w) == FlattenSeq([i \in DOMAIN w |-> Encoding(w[i])])
=============================================================================
