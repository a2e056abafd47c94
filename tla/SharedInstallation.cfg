SPECIFICATION Spec
CONSTANTS
    None = None
    Keys = {}
    MaxTransitions = 2
    MaxAuthorizations = 2
    MaxGeneration = 2
    MaxKeyset = 0
    Procs = {p1, p2}
    OpenOverlaps = FALSE
    MaxEnds = 3
    MaxStray = 0
SYMMETRY Symmetry
INVARIANTS
    EpochAccountedFor
    RetiredStaysRetired
    TerminalIsServersWord
    ExactEndRetry
    FreshAnswersAccepted
PROPERTIES
    HighWaterNeverFalls
    ImplementsLifecycle
