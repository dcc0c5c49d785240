SPECIFICATION FairSpec
CONSTANTS
    Names = {a}
    Entries = {e1}
    Syncs = {s1}
    Releases = {}
    Collide <- NoPair
    Flaky = {}
    Manual = {}
    MaxSpec = 2
    MaxHead = 0
    MaxFailures = 0
    None = None
    Drainer = Drainer
    a = a
    r1 = r1
    r2 = r2
PROPERTIES
    SyncAnswered
    RemoveReturns
    EditPickedUp
