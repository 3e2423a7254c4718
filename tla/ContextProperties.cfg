CONSTANTS
    Current <- Rules
    Port <- PortRules
SPECIFICATION Spec
INVARIANTS
    AccessorsReachEveryChild
    FieldsKeepTheirMatch
    ChildrenDetermineFields
    GoIsTakenOnlyByOpenTails
