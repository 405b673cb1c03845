SPECIFICATION Spec
CONSTANTS
    r1 = r1
    r2 = r2
    r3 = r3
    t1 = t1
    t2 = t2
    Runs <- ThreeRuns
    Tails <- TwoTails
    MaxContent = 3
    MaxOutside = 1
SYMMETRY Symmetry
INVARIANTS CyclesPaired PromotedIsRecoverable PendingCanContinue AnswersAreTrue LogKept
PROPERTIES WorkSpared ImplementsOperations
CHECK_DEADLOCK FALSE
