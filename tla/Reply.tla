--------------------------------- MODULE Reply ---------------------------------
(***************************************************************************)
(* How logits become text: tmsample.h picks a token, and run_turn of        *)
(* llama_chat.cpp streams the bytes of the tokens to its caller, holding    *)
(* back a tail that is half a codepoint.                                    *)
(*                                                                          *)
(* Logits are integers (Masked is minus infinity), a penalty divides or     *)
(* multiplies them by an integer, and Weight is the exponential function,   *)
(* to which a probability is in proportion.  Bytes are classes: "a" a       *)
(* character of one byte, "L", "M" and "N" the leads of two, three and      *)
(* four, "x" a continuation, "F" none of these.                             *)
(***************************************************************************)
EXTENDS Integers, SequencesExt, FiniteSetsExt

CONSTANTS TopK,      (* Opts.top_k                                          *)
          Window,    (* repeat_last_n                                       *)
          Penalty,   (* repeat_penalty; 1 is off                            *)
          Weight(_)  (* exp, of a logit that is not Masked                  *)

Masked == -1000

-----------------------------------------------------------------------------
(* Sampling.                                                                 *)

\* GrammarFilter::restrict on the logits of one step.
MaskedOut(logits, allowed) ==
    [t \in DOMAIN logits |-> IF t \in allowed THEN logits[t] ELSE Masked]

\* apply_repeat_penalty: once for every occurrence in the window.
Penalised(v) == IF v = Masked THEN v ELSE IF v > 0 THEN v \div Penalty ELSE v * Penalty
RepeatPenalty(logits, recent) ==
    LET n    == IF Len(recent) > Window THEN Window ELSE Len(recent)
        from == Len(recent) - n
        after[k \in 0 .. n] ==
          IF k = 0 THEN logits ELSE [after[k - 1] EXCEPT ![recent[from + k]] = Penalised(@)]
    IN  IF Penalty <= 1 THEN logits ELSE after[n]

\* The tokens by falling logit; equals in either order, as the sort leaves them.
Rankings(logits) ==
    {r \in Bijection(DOMAIN logits, DOMAIN logits) :
        \A i, j \in DOMAIN r : i < j => logits[r[i]] >= logits[r[j]]}

\* sample: the survivors of the cut at the share topP / 100 of the mass of the
\* first TopK; a token of no mass is never drawn.
Mass(logits, t) == IF logits[t] = Masked THEN 0 ELSE Weight(logits[t])
SumOver(f, S) == MapThenSumSet(LAMBDA x : f[x], S)
Survivors(logits, r, topP) ==
    LET pr  == [i \in 1 .. TopK |-> Mass(logits, r[i])]
        cut == {k \in 1 .. TopK : 100 * SumOver(pr, 1 .. k) >= topP * SumOver(pr, 1 .. TopK)}
        keep == IF cut = {} THEN TopK ELSE Min(cut)
    IN  {r[i] : i \in {k \in 1 .. keep : pr[k] > 0}}
Greedy(logits) ==
    CHOOSE t \in DOMAIN logits : \A u \in DOMAIN logits :
        logits[t] > logits[u] \/ (logits[t] = logits[u] /\ t <= u)

\* What one step may emit.
Drawn(logits, recent, allowed, topP, greedy) ==
    LET lg == RepeatPenalty(MaskedOut(logits, allowed), recent)
    IN  IF greedy THEN {Greedy(lg)}
        ELSE UNION {Survivors(lg, r, topP) : r \in Rankings(lg)}

-----------------------------------------------------------------------------
(* Streaming.                                                                *)

Utf8Len(b) == CASE b = "a" -> 1 [] b = "L" -> 2 [] b = "M" -> 3 [] b = "N" -> 4 [] OTHER -> 0

\* flush_out's scan: where the last complete codepoint ends that it meets from i
\* on, 0 if it meets none.
CompleteTo(buf) ==
    LET end[i \in 1 .. Len(buf) + 1] ==
          IF i > Len(buf) THEN 0
          ELSE LET n == Utf8Len(buf[i])
               IN  IF n = 0 THEN end[i + 1]
                   ELSE IF i + n - 1 > Len(buf) THEN 0
                   ELSE IF \E k \in 1 .. n - 1 : buf[i + k] # "x" THEN end[i + 1]
                   ELSE IF end[i + n] = 0 THEN i + n - 1 ELSE end[i + n]
    IN  end[1]

\* flush_out: what is shown grows, what is held is the rest.
FlushOut_NoHold(s, delta) ==
    LET complete == CompleteTo(delta)
    IN  [shown |-> s.shown \o SubSeq(delta, 1, complete), hold |-> <<>>]
FlushOut(s, delta) ==
    LET buf      == s.hold \o delta
        complete == CompleteTo(buf)
    IN  [shown |-> s.shown \o SubSeq(buf, 1, complete),
         hold  |-> SubSeq(buf, complete + 1, Len(buf))]
Streamed(deltas) ==
    LET after[k \in 0 .. Len(deltas)] ==
          IF k = 0 THEN [shown |-> <<>>, hold |-> <<>>] ELSE FlushOut(after[k - 1], deltas[k])
    IN  after[Len(deltas)].shown

-----------------------------------------------------------------------------
(* What these promise.                                                       *)

\* The draw is from the nucleus of what the grammar allows: no survivor is
\* masked, none is less likely than a token that was cut, what survives holds
\* the share topP of the mass of the best TopK, and would not without its last.
NucleusOfTheAllowed(logits, recent, allowed, topP) ==
    LET lg == RepeatPenalty(MaskedOut(logits, allowed), recent)
        mass == [t \in DOMAIN lg |-> Mass(lg, t)]
    IN  \A r \in Rankings(lg) :
          LET kept == Survivors(lg, r, topP)
              best == {r[i] : i \in 1 .. TopK}
          IN  /\ kept # {} /\ kept \subseteq allowed
              /\ \A t \in kept, u \in DOMAIN lg \ kept : lg[t] >= lg[u]
              /\ 100 * SumOver(mass, kept) >= topP * SumOver(mass, best)
              /\ \A t \in kept : (\A u \in kept : lg[t] <= lg[u]) =>
                    100 * SumOver(mass, kept \ {t}) < topP * SumOver(mass, best)

\* What the caller has been shown does not depend on where the tokens cut the
\* bytes, and of a well-formed text it is every complete character.
Chars == {<<"a">>, <<"L", "x">>, <<"M", "x", "x">>, <<"N", "x", "x", "x">>}
HalfChars == {<<>>, <<"L">>, <<"M">>, <<"M", "x">>, <<"N">>, <<"N", "x">>, <<"N", "x", "x">>}
CutsDoNotShow(deltas) == Streamed(deltas) = Streamed(<<FlattenSeq(deltas)>>)
WellFormedShown(chars, tail) ==
    LET text == FlattenSeq(chars)
    IN  \A cut \in 0 .. Len(text) + Len(tail) :
          LET all == text \o tail
          IN  Streamed(<<SubSeq(all, 1, cut), SubSeq(all, cut + 1, Len(all))>>) = text
=============================================================================
