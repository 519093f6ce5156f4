SPECIFICATION Spec
CONSTANTS
    Nodes = {1, 2, 3}
    Lively = {1, 2}
    Full = 4
    Neutral = 2
    DefaultBudget = 2
    Floor = 5
    BudgetStep = 1
    Deadband = 0
    Authority = 2
    None = None
    Temps <- SmallTemps
    Houses <- SmallHouses
    Reaches <- SmallReaches
    MaxLosses = 1
    MaxChanges = 1
INVARIANTS
    FloorIsAllocated
    PoolIsShared
PROPERTIES
    AirFindsItsWay
    BudgetsWalkBack
