CONSTANTS
    ColorRequests = {r1, r2, r3, r4}
    MarkerRates <- MCMarkerRates
    Total = 3
    PerPriority <- MCPerPriority
    Timeout = 1
    KeyTTL = 1
    MaxTime = 1
SYMMETRY Symmetry
SPECIFICATION ColorSpec
INVARIANTS SlotsReserved CountedInBoth
PROPERTIES TopDeniedByTop
