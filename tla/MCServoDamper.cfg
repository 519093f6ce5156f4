SPECIFICATION ServoSpec
CONSTANTS
    Full = 5
    Neutral = 2
    SlewStep = 1
    SettleFrames = 4
    ConfirmFrames = 2
    MaxPass = 2
INVARIANTS
    RestIsConsistent
    StallExposureBounded
    ParkIsBounded
PROPERTIES
    NoJumpAtPowerUp
    MoveEnds
