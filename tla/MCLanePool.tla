------------------------------ MODULE MCLanePool ------------------------------
(* Two lanes, as `--lanes 2` starts them: the first is seeded faster.      *)
EXTENDS LanePool

CONSTANTS h1, h2

MCHandlers == {h1, h2}
MCSeedRate == <<3, 2>>

\* The extra lane measures either fast enough to be worth keeping, and then it
\* is the better choice for a request, or too slow to earn its memory.
MCRates == <<{3}, {2, 4}>>

\* The extra lane never earns its memory: judge may park it whenever it runs.
MCSteadyRates == <<{3}, {2}>>
===============================================================================
