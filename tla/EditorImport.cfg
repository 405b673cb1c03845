SPECIFICATION Spec
CONSTANTS
    i1 = i1
    i2 = i2
    b1 = b1
    b2 = b2
    Ids <- OneId
    Bases <- TwoBases
    Methods <- ImportMethods
    PlanLimit = 1
    IdsUnique = TRUE
    ClientCancels = FALSE
    Faults = FALSE
    MaxJobs = 4
    MaxVersion = 2
    MaxSource = 1
SYMMETRY Symmetry
INVARIANTS AnswerTells
PROPERTIES PublishesWhatWasConfirmed PublishesLatestPlanOnce
