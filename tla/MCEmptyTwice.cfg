SPECIFICATION Spec
CONSTANTS
    Names = {a, b}
    Releases = {r1}
    Sets <- OneSets
    Failing = {a}
    Own = {}
    MaxEdits = 3
    MaxRestarts = 0
    None = None
    Bad = Bad
    a = a
    b = b
    r1 = r1
    r2 = r2
INVARIANTS
    EmptySetConfirmed
