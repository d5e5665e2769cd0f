CONSTANTS
    Requests = {r1, r2}
    PlainBurst = 1
    PlainLimit = 1
    MarkLast = 1
    ColorLast = 1
    MarkLimits <- MCMarkLimits
    ColorLimits <- MCColorLimits
    Window = 2
    Skew = 1
SPECIFICATION Spec
SYMMETRY Symmetry
INVARIANTS RateBounded LowLeavesRoom RepaidBucketGives
