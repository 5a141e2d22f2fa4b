SPECIFICATION MoveSpec
CONSTANTS
    Applications <- DatabaseFirst
    Contents <- Exports
    MaxExports = 2
    MaxImports = 2
    MaxPromotions = 1
    MaxUpsets = 1
    StopsInCommit = FALSE
    Hosted <- Two
    MaxDeploys = 2
    MaxWritten = 2
    ExportsKept = 1
    FailuresKept = 1
    MaxCopyFaults = 1
INVARIANTS TransferSafe
PROPERTIES StandbyKept FeedsReaders MovesEnd
CHECK_DEADLOCK FALSE
