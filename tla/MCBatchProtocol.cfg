\* Two engine processes one after the other, six messages each: the banner and
\* up to two /greedy, then requests with a turn, an empty prompt or none.
CONSTANTS
    MaxMessages = 6
    MaxPieces = 2
    Greedy = TRUE
    Sessions = 2
SPECIFICATION FairSpec
INVARIANTS TypeOK InStep OwnLines  
PROPERTIES RequestsEnd
CHECK_DEADLOCK FALSE
