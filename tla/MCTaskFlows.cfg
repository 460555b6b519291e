CONSTANTS
    None = None
    p1 = p1
    p2 = p2
    bread = bread
    curry = curry
    light = light
    heavy = heavy
    s1 = s1
    s2 = s2
    blue = blue
    red = red
    Projects <- TwoProjects
    CostOf <- Costs
    Foods <- TwoFoods
    Value <- Values
    Stock <- Larder
    Capacity = 3
    Appetite = 1
    Pools <- TwoPools
    PriceOf <- Prices
    Coins = 2
    Ships <- TwoShips
    Books <- TwoBooks
    Shelf <- Copies
    RewardsAllowed = TRUE
    Grant <- Given
    MaxInvocations = 2
    MaxPending = 2
SYMMETRY AnyProject
CONSTRAINT Focus
SPECIFICATION Spec
INVARIANT TypeOK
INVARIANT InputsFunded
PROPERTY ActsAsDecided
CHECK_DEADLOCK FALSE
