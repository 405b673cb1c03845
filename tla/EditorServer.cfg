SPECIFICATION FairSpec
CONSTANTS
    i1 = i1
    i2 = i2
    b1 = b1
    b2 = b2
    Ids <- TwoIds
    Bases <- OneBase
    Methods <- ThreadMethods
    PlanLimit = 1
    IdsUnique = TRUE
    ClientCancels = TRUE
    Faults = TRUE
    MaxJobs = 3
    MaxVersion = 0
    MaxSource = 0
INVARIANTS TypeOK Reachable AllSwept
PROPERTIES EveryRequestAnswered ServerExits ImplementsServer
