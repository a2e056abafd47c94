SPECIFICATION Spec
CONSTANTS
    None = None
    Keys = {}
    MaxTransitions = 2
    MaxAuthorizations = 1
    MaxGeneration = 1
    MaxKeyset = 0
    Procs = {p1, p2}
    OpenOverlaps = TRUE
    MaxEnds = 1
    MaxStray = 0
SYMMETRY Symmetry
INVARIANTS
    RetiredStaysRetired
