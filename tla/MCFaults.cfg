SPECIFICATION MCFairSpec
CONSTANTS
    MaxDeployments = 2
    MaxReplicas = 1
    Strategies = {"rolling", "recreate"}
    MaxStops = 1
    MaxDeaths = 0
    MaxUserOps = 0
    Faults = TRUE
    Scenarios <- OneStrategy
INVARIANTS NobodyForgotten
PROPERTIES KeepsPromise DeploymentsComplete
