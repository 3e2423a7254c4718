CONSTANTS
    Grammar <- MCGrammar
    Items <- MCItems
    Inputs <- MCInputs
    Lookahead <- LookaheadTable
    Viable <- CanMatch
    StartRule = "tsql_file"
SPECIFICATION Spec
INVARIANTS
    GoAfterSemicolonSeparates
    GoIsLostOnlyToOpenTails
    SemicolonTerminates
