CONSTANTS
    Files <- MCFiles
    Nil = Nil
    Requests = {r1, r2}
    Kinds <- MCKinds
    DefaultNames <- MCDefaultNames
    RetryMaxCount = 2
SPECIFICATION Spec
INVARIANT OriginalKept
