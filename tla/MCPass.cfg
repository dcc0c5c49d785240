SPECIFICATION FairSpec
CONSTANTS
    Releases = {db, api, old}
    Wave <- TwoWaves
    Declares <- TwoCommits
    Manifests = {m1, m2}
    Wide = {m1}
    Flapping = {old}
    Own = api
    Policies <- Three
    MaxEdits = 2
    MaxFaults = 1
    MaxForced = 1
    None = None
    db = db
    api = api
    old = old
    m1 = m1
    m2 = m2
INVARIANTS
    PassInv
PROPERTIES
    BarrierHolds
    SuccessIsWhole
    SweepsInOrder
    SelfLast
    Converges
