SPECIFICATION Spec
CONSTANTS
    Width = 2
    Half = 2
CHECK_DEADLOCK FALSE
INVARIANTS
    SignatureSurvives
