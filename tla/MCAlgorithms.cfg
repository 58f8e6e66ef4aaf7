SPECIFICATION Spec
CONSTANTS
    Texts <- MCTexts
    Vocab <- MCVocab
    Blank <- MCBlank
    MaxBytes = 5
INVARIANT GrammarExact
PROPERTIES SchemaExact TokenizersExact ReplyExact KernelsExact GradientsExact RecurrencesExact  FormatsExact
CHECK_DEADLOCK FALSE
