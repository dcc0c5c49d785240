SPECIFICATION Spec
CONSTANTS
    Releases = {db, api, old}
    Wave <- TwoWaves
    Declares <- TwoCommits
    Manifests = {m1, m2}
    Wide = {m1}
    Flapping = {api}
    Own = None
    Policies <- Three
    MaxEdits = 0
    MaxFaults = 1
    MaxForced = 0
    None = None
    db = db
    api = api
    old = old
    m1 = m1
    m2 = m2
INVARIANTS
    DeployedOnce
