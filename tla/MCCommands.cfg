SPECIFICATION CommandsSpec
CONSTANTS
    Fields = {"DumpRoom"}
    Values = {0, 1}
    Default = 0
    Targets = {nearly_closed, half_open}
    Requests = {1, 2}
    MaxHappenings = 3
    None = None
INVARIANTS
    PageMatchesRam
    HeldNeverContradicts
PROPERTIES
    SettingsSurviveReset
    NodeFollowsHeld
CHECK_DEADLOCK FALSE
