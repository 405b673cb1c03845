SPECIFICATION ImportSpec
CONSTANTS
    Bases = {a}
    MaxEvents = 3
    SettingsReturn = FALSE
INVARIANTS SettingsFollowed
PROPERTIES PublishesToSelection PublishesUnderItsSettings
CHECK_DEADLOCK FALSE
