\* Every history of up to two messages, so conversations of three turns grow
\* from one request to the next, diverge, shrink and overflow the window.
CONSTANTS
    Texts <- MCTexts
    Size <- MCSize
    Proxy <- MCProxy
    Ctx = 9
    Budget = 2
    Pads = {TRUE, FALSE}
    MaxHistory = 2
    Embedding = TRUE
SPECIFICATION Spec
INVARIANTS TypeOK  
PROPERTIES AnswerIsReusable RefusedOnlyIfTooLong
