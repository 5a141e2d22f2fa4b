SPECIFICATION BackupSpec
CONSTANTS
    Volumes <- TwoVolumes
    StopFirst = TRUE
    Keep = 1
    FailuresKept = 1
    MaxRuns = 2
    MaxRequests = 2
    MaxStops = 1
    MaxFaults = 1
    MaxStateRestores = 1
    Spent <- MCSpent
    Values = {"secret"}
    Specs = {"env"}
    FromEnvs = {TRUE, FALSE}
    RenameMayFail = FALSE
    CommitMayLie = FALSE
    MaxRotations = 2
    MaxKeyStops = 2
    UsualPart = 2
    MaxParts = 3
    PartStep = 1
    Attempts = 2
    FileSizes = {1, 2, 3, 6, 7}
    MaxObject = 9
    MaxAgentStops = 1
    MaxRefusals = 2
    ChunkSize = 2
    TagSize = 1
    HeaderSize = 1
    MaxPlain = 5
INVARIANTS BackupsSafe KeysSafe FilesWhole
PROPERTIES ComesThrough
CHECK_DEADLOCK FALSE
