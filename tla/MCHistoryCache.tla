---------------------------- MODULE MCHistoryCache ----------------------------
(* A window of nine tokens: four short turns and a reply fit, a long text  *)
(* fits only a nearly empty conversation, and a huge one not even that.    *)
EXTENDS HistoryCache

MCTexts == {"", "short", "long", "huge"}
MCSize == [x \in MCTexts |-> CASE x = "" -> 0 [] x = "short" -> 1
                               [] x = "long" -> 4 [] x = "huge" -> 9]
\* Four characters to a token is less than a dense text has.
MCProxy == [x \in MCTexts |-> IF x = "" THEN 0 ELSE 1]

\* Enough for the stale book: short messages in a window they all fit.
MCShortTexts == {"", "short"}
MCShortSize == [x \in MCShortTexts |-> IF x = "" THEN 0 ELSE 1]
MCShortProxy == MCShortSize
===============================================================================
