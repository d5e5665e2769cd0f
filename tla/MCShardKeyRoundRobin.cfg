CONSTANTS
    r1 = r1
    r2 = r2
    r3 = r3
    k1 = k1
    k2 = k2
    Weights <- MCWeights
    DefaultWeight = 1
    Names <- MCNames
    Requests = {r1, r2, r3}
    ShardKeys <- MCShardKeys
    Keep = 1
    RetryMaxCount = 4
    MaxTime = 1
SPECIFICATION Spec
PROPERTIES NoBackendTwice ZeroWeightLast WeightConserved
