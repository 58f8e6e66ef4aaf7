\* Short messages in a window that holds them all, and an embedding.
CONSTANTS
    Texts <- MCShortTexts
    Size <- MCShortSize
    Proxy <- MCShortProxy
    Ctx = 20
    Budget = 1
    Pads = {FALSE}
    MaxHistory = 2
    Embedding = TRUE
SPECIFICATION Spec
PROPERTIES ReusesOnlyWhatIsHeld
