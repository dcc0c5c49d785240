SPECIFICATION Spec
CONSTANTS
    Words <- MCWords
    MaxCommits = 1
    MaxEdits = 2
INVARIANTS
    ReportedExactly
    HealthTold
PROPERTIES
    CorrectionRests
CHECK_DEADLOCK FALSE
