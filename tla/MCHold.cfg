SPECIFICATION Spec
CONSTANTS
    Names = {a}
    Entries = {e1}
    Syncs = {}
    Releases = {}
    Collide <- NoPair
    Flaky = {1}
    Manual = {}
    MaxSpec = 2
    MaxHead = 0
    MaxFailures = 0
    None = None
    Drainer = Drainer
    a = a
    r1 = r1
    r2 = r2
INVARIANTS
    HoldBelongsToSpec
