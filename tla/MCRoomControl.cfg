SPECIFICATION Spec
CONSTANTS
    Full = 2
    Neutral = 1
    SlewStep = 2
    SettleFrames = 1
    ConfirmFrames = 1
    MaxPass = 1
    DefaultBudget = 1
    RampStep = 1
    Demands = {0}
PROPERTIES
    AutoInsideBudget
    StallIsNotRetriedBlindly
    RampConverges
    DumpRoomOpens
