SPECIFICATION FairSpec
CONSTANTS
    Values <- MCValues
    Token <- MCToken
    Quotes <- MCQuotes
    SpanL1 <- MCSpanL1
    SpanL2 <- MCSpanL2
    UNRECOGNISED = "unrecognised"
    NONE = NONE
    ABSENT = ABSENT
    CORRUPT = CORRUPT
    Fields <- MCFields
    SignalFields = {"sort_signal"}
    SortSignal = "sort_signal"
    Names = {"c1", "c2"}
    GoldList <- MCGoldList
    EnumReplies <- MCEnumReplies
    FieldReplies <- MCFieldReplies
    Options <- MCOptions
    MaxRetries = 2
    MaxStarts = 2
    MaxFaults = 1
INVARIANTS
    ReplaysAgree
    OneOutcomePerConstruction
    NoPartialSpecSet
    ArchiveIsThisRuns
PROPERTIES
    ZeroCostResume
    RunEnds
CHECK_DEADLOCK FALSE
