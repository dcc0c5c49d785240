SPECIFICATION FairSpec
CONSTANTS
    Names = {a}
    Releases = {r1}
    Sets <- OneSets
    Failing = {a}
    Own = {}
    MaxEdits = 2
    MaxRestarts = 1
    None = None
    Bad = Bad
    a = a
    b = b
    r1 = r1
    r2 = r2
PROPERTIES
    SetConverges
    DepartedSwept
