SPECIFICATION Spec
CONSTANTS
    Names = {a, b}
    Releases = {r1, r2}
    Sets <- HandoverSets
    Failing = {}
    Own = {}
    MaxEdits = 1
    MaxRestarts = 0
    None = None
    Bad = Bad
    a = a
    b = b
    r1 = r1
    r2 = r2
INVARIANTS
    SweepSparesDeclared
