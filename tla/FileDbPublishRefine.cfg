SPECIFICATION FairSpec
CONSTANTS
    w1 = w1
    w2 = w2
    u1 = u1
    Writers <- TwoWriters
    Users <- OneUser
    MaxFiles = 5
    MaxVersion = 4
    MaxUpsets = 2
    Unlocked = FALSE
    PowerCuts = FALSE
PROPERTIES SessionEnds ImplementsStore
