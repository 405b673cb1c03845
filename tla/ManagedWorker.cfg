SPECIFICATION Spec
CONSTANTS
    w1 = w1
    w2 = w2
    w3 = w3
    Workers <- ThreeWorkers
    MaxDrift = 2
SYMMETRY Symmetry
INVARIANTS  OutcomeIsTrue KnownIsComplete
PROPERTIES ImplementsJournal
CHECK_DEADLOCK FALSE
