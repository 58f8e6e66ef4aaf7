SPECIFICATION Spec
CONSTANTS
    Texts <- MCTexts
    Vocab <- MCVocab
    Blank <- MCBlank
    MaxBytes = 5
INVARIANT ConvolutionOfTheSequence
CHECK_DEADLOCK FALSE
