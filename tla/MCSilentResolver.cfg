INIT WatchingInit
NEXT WatchingNext
CONSTANTS
    Containers <- TwoBoxes
    Workers = {w1, w2}
    TailLines = 2
    MaxBytes = 2
    QuietBytes = 1
    MaxClock = 4
    MaxEntries = 4
    Budgets <- MCLogBudgets
    PageLimit = 1
    SearchBudget = 2
    MaxAlertTime = 4
    MaxReplicas = 2
    MemorySamples = 2
    RestartAlertCount = 2
    RestartAlertWindow = 2
    UnhealthyWarning = 1
    UnhealthyCritical = 3
    DockerAlertAfter = 1
    AlertBudgets <- MCAlertBudgets
    CertReasons = {"conn", "dns"}
    Minute = 2
    CertBudgets <- MCCertBudgets
    AppOrder <- MCOrder
    Exact = {"x", "r"}
    Wild = {"*"}
    OwnHosts = {}
    Specs <- MCSpecs
    Certs <- MCCerts
    DNSChallenge = FALSE
    RoutingBudgets <- MCSilentRestart
PROPERTY OnlyAnAnswer
CHECK_DEADLOCK FALSE
