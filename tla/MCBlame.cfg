SPECIFICATION Spec
CONSTANTS
    Words <- MCWords
    MaxCommits = 1
    MaxEdits = 2
INVARIANTS
    RolledBackWasDeclared
CHECK_DEADLOCK FALSE
