CONSTANTS
    TokenRequests = {r1, r2}
    Burst = 2
    Limit = 1
    Window = 1
    MaxUse = 2
    MaxAttempts = 2
    Delay = 1
    MaxAge = 13
    MaxOwed = 10
SPECIFICATION TokenSpec
SYMMETRY Symmetry
INVARIANTS NeverBelowBookings UsesPersist OverdraftBounded
