SPECIFICATION Spec
CONSTANTS
    None = None
    Keys = {}
    MaxTransitions = 2
    MaxAuthorizations = 1
    MaxGeneration = 2
    MaxKeyset = 1
    Procs = {p1}
    OpenOverlaps = FALSE
    MaxEnds = 1
    MaxStray = 1
SYMMETRY Symmetry
INVARIANTS
    TypeOK
    SavedStateReloads
    FreshAnswersAccepted
PROPERTIES
    TombstoneKept
