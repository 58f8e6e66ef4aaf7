-------------------------------- MODULE Halves --------------------------------
(***************************************************************************)
(* The conversions between floats and halves of quant.h, on formats of any  *)
(* width.  A number is [neg, exp, man] with the fields of its encoding; a   *)
(* half is made by adding to its encoding, so that a carry out of the       *)
(* mantissa reaches the exponent.                                           *)
(***************************************************************************)
EXTENDS Integers, FiniteSets

CONSTANTS FloatExp, FloatMan,      \* 8 and 23: the widths of the fields of a float
          HalfExp, HalfMan         \* 5 and 10: those of a half

FloatTop == 2 ^ FloatExp - 1
HalfTop  == 2 ^ HalfExp - 1
FloatBias == 2 ^ (FloatExp - 1) - 1
HalfBias  == 2 ^ (HalfExp - 1) - 1
Floats == [neg : BOOLEAN, exp : 0 .. FloatTop, man : 0 .. 2 ^ FloatMan - 1]
HalfCodes == [neg : BOOLEAN, exp : 0 .. HalfTop, man : 0 .. 2 ^ HalfMan - 1]

Encoded(neg, code) == [neg |-> neg, exp |-> code \div 2 ^ HalfMan, man |-> code % 2 ^ HalfMan]
\* m / 2^shift to the nearest integer, a tie to the even one.
RoundedShift(m, shift) ==
    LET q == m \div 2 ^ shift  rem == m % 2 ^ shift  tie == 2 ^ (shift - 1)
    IN  IF rem > tie \/ (rem = tie /\ q % 2 = 1) THEN q + 1 ELSE q

Subnormal(f, exp) ==
    IF exp < -HalfMan THEN Encoded(f.neg, 0)
    ELSE Encoded(f.neg, RoundedShift(f.man + 2 ^ FloatMan, FloatMan - HalfMan + 1 - exp))
Normal(f, exp) ==
    LET r == RoundedShift(f.man, FloatMan - HalfMan)
    IN  IF r = 2 ^ HalfMan THEN Encoded(f.neg, (exp + 1) * 2 ^ HalfMan) ELSE Encoded(f.neg, (exp * 2 ^ HalfMan) + r)
ToHalf(f) ==
    LET exp == f.exp - FloatBias + HalfBias
    IN  IF f.exp = FloatTop
        THEN [neg |-> f.neg, exp |-> HalfTop, man |-> IF f.man # 0 THEN 2 ^ (HalfMan - 1) ELSE 0]
        ELSE IF exp >= HalfTop THEN [neg |-> f.neg, exp |-> HalfTop, man |-> 0]
        ELSE IF exp <= 0 THEN Subnormal(f, exp) ELSE Normal(f, exp)

\* The subnormal is a product of floats: its mantissa moved up to the implicit one.
ToFloat(h) ==
    LET wide == 2 ^ (FloatMan - HalfMan)
        up   == CHOOSE k \in 1 .. HalfMan + 1 : h.man * 2 ^ k \in 2 ^ HalfMan .. 2 ^ (HalfMan + 1) - 1
    IN  IF h.exp = 0
        THEN IF h.man = 0 THEN [neg |-> h.neg, exp |-> 0, man |-> 0]
             ELSE [neg |-> h.neg, exp |-> FloatBias - HalfBias + 1 - up, man |-> ((h.man * 2 ^ up) - 2 ^ HalfMan) * wide]
        ELSE [neg |-> h.neg, exp |-> IF h.exp = HalfTop THEN FloatTop ELSE h.exp + FloatBias - HalfBias, man |-> h.man * wide]

-----------------------------------------------------------------------------
(* Their values, in units of the smallest float.                               *)

Magnitude(exp, man, width) == IF exp = 0 THEN man ELSE (man + 2 ^ width) * 2 ^ (exp - 1)
FloatValue(f) == (IF f.neg THEN -1 ELSE 1) * Magnitude(f.exp, f.man, FloatMan)
HalfUnit == 2 ^ (FloatBias - HalfBias + FloatMan - HalfMan)
HalfValue(h) == (IF h.neg THEN -1 ELSE 1) * Magnitude(h.exp, h.man, HalfMan) * HalfUnit
IsNaN(x, top) == x.exp = top /\ x.man # 0
Gap(a, b) == IF a < b THEN b - a ELSE a - b

\* A half becomes the float of its value and comes back as it was; a NaN stays one.
RoundTrip(h) ==
    /\ h.exp < HalfTop => FloatValue(ToFloat(h)) = HalfValue(h)
    /\ (h.exp = HalfTop) <=> (ToFloat(h).exp = FloatTop)
    /\ IF IsNaN(h, HalfTop) THEN IsNaN(ToHalf(ToFloat(h)), HalfTop) ELSE ToHalf(ToFloat(h)) = h
\* A finite float becomes the nearest half, the even one of two as near; what is at
\* least half a step past the largest half becomes infinite.
NearestHalf(f) ==
    LET h == ToHalf(f)
        finite == {x \in HalfCodes : x.neg = f.neg /\ x.exp < HalfTop}
        far == HalfValue([neg |-> f.neg, exp |-> HalfTop, man |-> 0])
        last == [neg |-> f.neg, exp |-> HalfTop - 1, man |-> 2 ^ HalfMan - 1]
    IN  /\ h.neg = f.neg
        /\ h \in HalfCodes
        /\ IF f.exp = FloatTop THEN h.exp = HalfTop /\ ((f.man # 0) <=> (h.man # 0))
           ELSE IF h.exp = HalfTop
           THEN h.man = 0 /\ Gap(FloatValue(f), far) <= Gap(FloatValue(f), HalfValue(last))
           ELSE /\ \A x \in finite : Gap(FloatValue(f), HalfValue(h)) <= Gap(FloatValue(f), HalfValue(x))
                /\ \A x \in finite \ {h} : Gap(FloatValue(f), HalfValue(h)) = Gap(FloatValue(f), HalfValue(x)) => h.man % 2 = 0
                /\ Gap(FloatValue(f), far) >= Gap(FloatValue(f), HalfValue(h))
=============================================================================
