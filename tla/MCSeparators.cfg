CONSTANTS
    Grammar <- MCGrammar
    Items <- MCItems
    Inputs <- ExampleInputs
    Lookahead <- LookaheadTable
    Viable <- CanMatch
    StartRule = "tsql_file"
SPECIFICATION Spec
INVARIANTS
    GoSeparates
