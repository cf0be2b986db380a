SPECIFICATION FairSpec
CONSTANTS
    old = old
    new = new
    Replicas <- MCReplicas
    Known <- MCKnown
    Migrating = {old, new}
    MaxAttempts = 5
    Initial = 3
    MaxDelay = 13
    DurationRange = 14
    MaxCrashes = 1
INVARIANTS
    TypeOK
    MigratedOnceInOrder
    ServesOnlyMigrated
    FailedAttemptsLeaveNothing
PROPERTY StartupEnds
