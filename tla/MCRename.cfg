SPECIFICATION Spec
CONSTANTS
    Names = {a, b}
    Releases = {r1, r2}
    Sets <- RenameSets
    Failing = {}
    Own = {}
    MaxEdits = 2
    MaxRestarts = 1
    None = None
    Bad = Bad
    a = a
    b = b
    r1 = r1
    r2 = r2
INVARIANTS
    SweepSparesDeclared
    EmptySetConfirmed
    HeadingsDisjoint
PROPERTIES
    CacheGrace
    PrunedStaysGone
