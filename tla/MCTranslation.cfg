CONSTANTS
    Nil = Nil
    Asks <- MCAsks
    Allowlists <- MCAllowlists
    Shapes <- MCShapes
    MaxChunks = 5
SPECIFICATION Spec
INVARIANTS NothingLost StopReasonMeansWhole CallsComeBack
PROPERTIES ClaudeEventsSpec
