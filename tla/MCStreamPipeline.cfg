SPECIFICATION StreamSpec
CONSTANTS
    MaxStream = 4
    ModerateEvery = 2
    MaxRunes = 2
    MaxBeats = 1
INVARIANTS
    SpamHeldBack
    InOrder
    Complete
    OneWriter
PROPERTIES
    Drains
