------------------------------ MODULE JsonSchema ------------------------------
(***************************************************************************)
(* tensormark/jsonschema_to_gbnf.py: a JSON schema compiled to a grammar    *)
(* whose every word is meant to be a document of the schema.  A rule is     *)
(* given as the tree of its body (GrammarLanguage); the names the compiler  *)
(* invents for rules and shares between equal bodies are left out, a        *)
(* reference to such a rule being the tree itself.  A literal is one symbol *)
(* for the JSON text it stands for, and white space is the empty word.      *)
(*                                                                          *)
(* A schema is a record [k, ...] with k the keyword or type that decides.   *)
(* Documents is the reference: the texts a schema admits, keys in the order *)
(* the compiler documents, declared required ones first.  A const is an     *)
(* enum of one value; what the compiler puts for a schema deeper than       *)
(* MaxDepth is left out.                                                    *)
(***************************************************************************)
EXTENDS GrammarLanguage

CONSTANTS MaxItems, MaxDepth,   (* Compiler.__init__                         *)
          MaxUnits              (* the 32 that a string may exceed minLength  *)

Quote == 20   Comma == 21   Colon == 22
LBrace == 23  RBrace == 24  LBrack == 25  RBrack == 26
Null == 27    True == 28    False == 29   Whole == 30   Decimal == 31   Char == 32

One(symbol) == Lit(<<symbol>>)
Keys(s) == 1 .. Len(s.props)

Least2(a, b) == IF a < b THEN a ELSE b

Bounds(s) == [lo |-> s.lo, hi |-> IF s.hi = -1 THEN MaxItems ELSE s.hi]
Lengths(s) == [lo |-> s.lo, hi |-> IF s.hi = -1 THEN s.lo + MaxUnits ELSE Least2(s.hi, s.lo + MaxUnits)]

\* The compiler raises Unsupported instead of widening the language.
RECURSIVE Supported(_, _, _)
Supported(s, defs, depth) ==
    /\ depth <= MaxDepth
    /\ CASE s.k = "$ref"   -> s.name \in DOMAIN defs /\ Supported(defs[s.name], defs, depth + 1)
         [] s.k = "enum"   -> s.values # <<>>
         [] s.k = "union"  -> \A i \in DOMAIN s.of : Supported(s.of[i], defs, depth)
         [] s.k = "string" -> s.bounded => Lengths(s).lo <= Lengths(s).hi
         [] s.k = "array"  -> Bounds(s).lo <= Bounds(s).hi /\ Supported(s.items, defs, depth + 1)
         [] s.k = "object" -> /\ s.props # <<>>
                              /\ \A i \in Keys(s) : Supported(s.props[i].of, defs, depth + 1)
         [] OTHER -> TRUE

\* bounded_comma: an alternation over the lengths lo .. hi, of which 0 is left out.
BoundedComma_OneMore(item, lo, hi) ==
    [k \in 1 .. hi + 1 |-> Cat([i \in 1 .. 2 * k - 1 |-> IF i % 2 = 1 THEN item ELSE One(Comma)])]
BoundedComma(item, lo, hi) ==
    LET first == IF lo > 1 THEN lo ELSE 1
    IN  [j \in 1 .. hi - first + 1 |->
           Cat([i \in 1 .. 2 * (first + j - 1) - 1 |-> IF i % 2 = 1 THEN item ELSE One(Comma)])]

\* _array_rule: no alternative at all means that only [] is legal.
ArrayRule(item, b) ==
    LET alts == IF b.hi = 0 THEN <<>> ELSE BoundedComma(item, b.lo, b.hi)
    IN  Cat(<<One(LBrack)>> \o (IF alts = <<>> THEN <<>> ELSE <<Or(alts)>>) \o <<One(RBrack)>>)

\* _length_bounded: the alternative of length 0 is dropped, and if it was the
\* only one a single unit stands in for it.
LengthBounded(lo, hi) ==
    LET first == IF lo > 1 THEN lo ELSE 1
        alts  == [j \in 1 .. hi - first + 1 |-> Cat([i \in 1 .. first + j - 1 |-> One(Char)])]
    IN  Cat(<<One(Quote), IF hi < first THEN One(Char) ELSE Or(alts), One(Quote)>>)

StringRule(s) == IF s.bounded THEN LengthBounded(Lengths(s).lo, Lengths(s).hi)
                 ELSE Cat(<<One(Quote), Rep("*", One(Char)), One(Quote)>>)

\* The members of an object in the order they are written: required ones first.
Ordered(s) == SelectSeq(s.props, LAMBDA p : p.required) \o SelectSeq(s.props, LAMBDA p : ~p.required)

\* _object_rule: member m is an optional group if its key is; each one after the
\* head hangs on the body before it with its comma, in an optional group again.
ObjectRule(s, pairs) ==
    LET ordered == Ordered(s)
        need    == Cardinality({i \in Keys(s) : s.props[i].required})
        member(i) == IF ordered[i].required THEN pairs[i] ELSE Rep("?", pairs[i])
        head == IF need = 0 THEN <<member(1)>>
                ELSE [i \in 1 .. 2 * need - 1 |-> IF i % 2 = 1 THEN member((i + 1) \div 2) ELSE One(Comma)]
        from == IF need = 0 THEN 2 ELSE need + 1
        tail == [j \in 1 .. Len(pairs) - from + 1 |->
                   Rep("?", Cat(<<One(Comma), member(from + j - 1)>>))]
        body == Cat(head \o tail)
    IN  Cat(<<One(LBrace), IF need = 0 THEN Rep("?", body) ELSE body, One(RBrace)>>)

\* rule_for
RECURSIVE RuleFor(_, _)
RuleFor(s, defs) ==
    CASE s.k = "$ref"    -> RuleFor(defs[s.name], defs)
      [] s.k = "enum"    -> Or([i \in DOMAIN s.values |-> One(s.values[i])])
      [] s.k = "union"   -> Or([i \in DOMAIN s.of |-> RuleFor(s.of[i], defs)])
      [] s.k = "null"    -> One(Null)
      [] s.k = "boolean" -> Or(<<One(True), One(False)>>)
      [] s.k = "integer" -> One(Whole)
      [] s.k = "number"  -> Or(<<One(Whole), One(Decimal)>>)
      [] s.k = "string"  -> StringRule(s)
      [] s.k = "array"   -> ArrayRule(RuleFor(s.items, defs), Bounds(s))
      [] s.k = "object"  -> ObjectRule(s, [i \in Keys(s) |->
            Cat(<<One(Ordered(s)[i].key), One(Colon), RuleFor(Ordered(s)[i].of, defs)>>)])

\* compile
CompileSchema(s, defs) == [root |-> RuleFor(s, defs)]

-----------------------------------------------------------------------------
(* The reference.                                                            *)

\* Sequences with a comma between one word of each set.
Joined(n, sets) ==
    FoldLeft(LAMBDA acc, i : Concat(n, IF i = 1 THEN acc ELSE Concat(n, acc, {<<Comma>>}), sets[i]),
             {<<>>}, [i \in DOMAIN sets |-> i])

RECURSIVE Documents(_, _, _)
Documents(s, defs, n) ==
    LET enclosed(l, words, r) == Concat(n, {<<l>>}, Concat(n, words, {<<r>>}))
    IN  CASE s.k = "$ref"    -> Documents(defs[s.name], defs, n)
          [] s.k = "enum"    -> {<<s.values[i]>> : i \in DOMAIN s.values}
          [] s.k = "union"   -> UNION {Documents(s.of[i], defs, n) : i \in DOMAIN s.of}
          [] s.k = "null"    -> {<<Null>>}
          [] s.k = "boolean" -> {<<True>>, <<False>>}
          [] s.k = "integer" -> {<<Whole>>}
          [] s.k = "number"  -> {<<Whole>>, <<Decimal>>}
          [] s.k = "string"  ->
                enclosed(Quote, {[i \in 1 .. k |-> Char] : k \in
                   {j \in 0 .. n : s.bounded => Lengths(s).lo <= j /\ j <= Lengths(s).hi}}, Quote)
          [] s.k = "array"   ->
                enclosed(LBrack, UNION {Joined(n, [i \in 1 .. k |-> Documents(s.items, defs, n)]) :
                                          k \in Bounds(s).lo .. Bounds(s).hi}, RBrack)
          [] s.k = "object"  ->
                LET pair(p) == Concat(n, {<<p.key, Colon>>}, Documents(p.of, defs, n))
                    picks == {present \in SUBSET Keys(s) :
                                \A i \in Keys(s) : s.props[i].required => i \in present}
                    chosen(present) == SelectSeq(Ordered(s), LAMBDA p : \E i \in present : s.props[i] = p)
                IN  enclosed(LBrace, UNION {Joined(n, [i \in DOMAIN chosen(u) |-> pair(chosen(u)[i])]) :
                                              u \in picks}, RBrace)
=============================================================================
