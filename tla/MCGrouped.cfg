SPECIFICATION Spec
CONSTANTS
    Words <- MCGrouped
    MaxCommits = 1
    MaxEdits = 1
INVARIANTS
    EditsSeen
CHECK_DEADLOCK FALSE
