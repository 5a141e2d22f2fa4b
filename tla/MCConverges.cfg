SPECIFICATION MCFairSpec
CONSTANTS
    MaxDeployments = 2
    MaxReplicas = 2
    Strategies = {"rolling", "recreate"}
    MaxStops = 1
    MaxDeaths = 1
    MaxUserOps = 3
    Faults = FALSE
    Scenarios <- Quiet
INVARIANTS NeverSideBySide StaysStopped
PROPERTIES Converges
