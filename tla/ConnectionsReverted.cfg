SPECIFICATION Spec
CONSTANTS
    Bases = {a, b}
    MaxEvents = 3
    SettingsReturn = TRUE
INVARIANT SettingsFollowed
CHECK_DEADLOCK FALSE
