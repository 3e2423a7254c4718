CONSTANTS
    Grammar <- MCGrammar
    Items <- MCItems
    Inputs <- MCInputs
    Lookahead <- LookaheadTable
    Viable <- CanMatch
    StartRule = "phrase_file"
SPECIFICATION Spec
INVARIANTS
    NamedContinuedByUnnamed
