CONSTANTS
    Weights <- MCWeights
    DefaultWeight = 2
    Requests = {r1, r2, r3}
    RetryMaxCount = 3
SPECIFICATION Spec
INVARIANTS ZeroNeverPicked NoOverload NoStarvation

