SPECIFICATION LiveSpec
CONSTANTS
    Bases = {a, b}
    MaxEvents = 3
    SettingsReturn = FALSE
INVARIANTS StatusTrue NoStrayServer
PROPERTIES LastChoiceWins ConnectingEnds
CHECK_DEADLOCK FALSE
