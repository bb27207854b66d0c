SPECIFICATION Spec
CONSTANTS
    ToolBodies <- MCTools
    Policies <- MCTable
    TaskTools <- MCTaskTools
    PreviewReads <- MCPreviewReads
    MaxRequests = 6
    MaxFaults = 3
    MaxRetries = 1
INVARIANTS
    NothingBeforeConsent
    HarmIsAsked
    RunsAsShown
    NoDuplicates
    HintedNeverUnknown
    NeverAskedInVain
CHECK_DEADLOCK FALSE
