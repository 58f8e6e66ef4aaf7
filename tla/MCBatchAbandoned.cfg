\* One engine process, a reply abandoned in the middle, and enough messages for
\* the driver to meet ACK lines again at the head of its queue.
CONSTANTS
    MaxMessages = 9
    MaxPieces = 2
    Greedy = TRUE
    Sessions = 1
SPECIFICATION Spec
PROPERTIES WrongReplyIsLoud
CHECK_DEADLOCK FALSE
