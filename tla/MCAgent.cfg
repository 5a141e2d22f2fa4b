SPECIFICATION AgentSpec
CONSTANTS
    Jobs = {"sweep"}
    Every <- EverySecond
    Timeout <- OneMinute
    Kept = 2
    MaxMinute = 3
    MaxDeploys = 2
    MaxRequests = 1
    MaxStops = 1
    MaxFaults = 1
    Vars = {"A", "B"}
    SecretNames = {"S", "L"}
    Files <- MCFiles
    SecretTexts <- MCSecretTexts
    Environments <- MCEnvironments
    MaxSecrets = 2
    MaxVersions = 3
    MaxSets = 2
    Digests = {"d1", "d2", "d3"}
    NoIndex = {"d3"}
    Registry = {"r1"}
    Local = {"l1"}
    MaxRecords = 3
    VersionBudgets <- MCVersionBudgets
    Handlers = {h1}
    Operations = {o1}
    MaxProbes = 1
    RedirectAttempts = 2
    Day = 2
    MaxClock = 3
    ProcessBudgets <- MCProcessBudgets
INVARIANTS JobsSafe DocumentKept VersionsThere ProcessOrder
PROPERTIES JobsProgress
CHECK_DEADLOCK FALSE
