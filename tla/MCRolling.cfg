SPECIFICATION MCSpec
CONSTANTS
    MaxDeployments = 2
    MaxReplicas = 3
    Strategies = {"rolling"}
    MaxStops = 1
    MaxDeaths = 0
    MaxUserOps = 0
    Faults = FALSE
    Scenarios <- Anything
INVARIANTS OneActive WithinBounds NamesEarned
