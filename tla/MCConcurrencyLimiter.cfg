\* RenewalsKeepUp holds: 8 > 3 * Latency + (MaxFails + 1) * RenewPeriod = 7.
CONSTANTS
    Requests = {r1, r2}
    Concurrency = 1
    Timeout = 8
    RenewPeriod = 2
    KeyTTL = 9
    Latency = 1
    MaxFails = 1
    MaxTime = 10
SPECIFICATION Spec
INVARIANTS TypeOK
PROPERTIES NoResurrection DeniedByTheLiving CloseCompletes BoundedAdmissionSpec
