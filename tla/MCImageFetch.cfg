CONSTANTS
    r1 = r1
    r2 = r2
    u1 = u1
    u2 = u2
    k1 = k1
    Requests = {r1, r2}
    Keys = {k1}
    Urls <- MCUrls
    KeyOf <- MCKeyOf
    Sizes = {1, 2, 3}
    MaxBytesPerURL = 2
    MaxBytesPerRequest = 3
    RetryCount = 1
    MaxBucket = 1
    MaxSweeps = 1
SPECIFICATION Spec
INVARIANTS ForwardedFit NoOrphans
