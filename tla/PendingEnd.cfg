SPECIFICATION Spec
CONSTANTS
    None = None
    Keys = {}
    MaxTransitions = 2
    MaxAuthorizations = 1
    MaxGeneration = 1
    MaxKeyset = 1
    Procs = {p1}
    OpenOverlaps = FALSE
    MaxEnds = 1
    MaxStray = 0
SYMMETRY Symmetry
INVARIANTS
    EndAnswersAccepted
