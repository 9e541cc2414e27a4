SPECIFICATION FairSpec
CONSTANTS
    TaskIds = {t1, t2}
    StoredApps <- Ids
    StoredStatuses = {"DEPLOYING", "STOPPED"}
    Apps <- Manifests
    MaxWrites = 4
PROPERTIES
    CountsWithinRound
    SweepWithinRound
    GapIsRequested
