CONSTANTS
    Grammar <- MCGrammar
    Items <- MCItems
    Inputs <- MCInputs
    Lookahead <- LookaheadTable
    Viable <- CanMatch
    StartRule = "tsql_file"
SPECIFICATION FairSpec
INVARIANTS
    ContextFollowsCalls
    IntervalsNest
    TokensHangInnermost
    AcceptedIsComplete
PROPERTIES
    TreeOnlyGrows
    Termination
