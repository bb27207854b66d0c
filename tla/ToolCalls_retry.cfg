SPECIFICATION Spec
CONSTANTS
    ToolBodies <- MCTools
    Policies <- MCTable
    TaskTools <- MCTaskTools
    PreviewReads <- MCPreviewReads
    MaxRequests = 2
    MaxFaults = 2
    MaxRetries = 1
CHECK_DEADLOCK FALSE
INVARIANT GeneratedKeysAreEnough
