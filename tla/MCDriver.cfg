CONSTANTS
    Files <- MCFiles
    Faulty <- Lines
    MaxBlanks = 2
SPECIFICATION Spec
INVARIANTS
    TypeOK
    ContentIsFile
    EveryCharacterOnce
    UnclosedCommentFallsBack
    ClosedTextIsReadAsEnclosed
    UnclosedQuoteTakesTheRest
PROPERTIES
    EveryStepAdvances
