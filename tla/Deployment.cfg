\* Four scripts in a row on each network, one of them interrupted anywhere.
SPECIFICATION Spec
CONSTANTS
    Owner = "newAdmin"
    Networks <- EveryNetwork
    MaxRuns = 4
    MaxCrashes = 1
INVARIANTS
    KnownFactoriesAreReady
    
    HandoverIsComplete
    FinishedMeansWired
\* At most MaxRuns scripts are started.
CHECK_DEADLOCK FALSE
