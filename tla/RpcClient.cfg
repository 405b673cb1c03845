SPECIFICATION LiveSpec
CONSTANTS
    MaxCalls = 3
    Faults = TRUE
INVARIANTS OwnAnswer CrashReported
PROPERTIES OrderlyStop NoOrphan ImplementsContract
CHECK_DEADLOCK FALSE
