CONSTANTS
    Tokens <- MCTokens
    Plain <- MCPlain
    Abort = "ABORT"
    Revisions <- MCRevisions
SPECIFICATION Spec
INVARIANTS
    NoEmptyMap
    RegeneratedAgrees
