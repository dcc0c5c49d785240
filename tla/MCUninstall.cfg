SPECIFICATION FairSpec
CONSTANTS
    Releases = {r1, r2}
    Nodes = {n1, n2}
    Here = n1
    Heirs = {r2}
    MaxFaults = 2
INVARIANTS
    UninstallInv
PROPERTIES
    Removes
    AllGone
CHECK_DEADLOCK FALSE
