CONSTANTS
    MaxText = 4
    MaxUsage = 2
SPECIFICATION FairStreamSpec
PROPERTIES
    ViewFollowsEntry
    StopIsShown
CHECK_DEADLOCK FALSE
