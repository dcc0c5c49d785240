SPECIFICATION Spec
CONSTANTS
    Names = {a, b}
    Entries = {e1, e2}
    Syncs = {s1, s2}
    Releases = {r1, r2}
    Collide <- OnePair
    Flaky = {2}
    Manual = {3}
    MaxSpec = 3
    MaxHead = 1
    MaxFailures = 0
    None = None
    Drainer = Drainer
    a = a
    r1 = r1
    r2 = r2
SYMMETRY Symmetry
CONSTRAINT OneAtATime
INVARIANTS
    LeaseExclusive
    SweepMeetsNoWriter
    CoalescedSyncSeesPush
    CleanDrainIsQuiet
    EditNeverParked
    InstallsApart
PROPERTIES
    StatusAdvances
