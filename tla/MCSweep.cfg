SPECIFICATION FairSpec
CONSTANTS
    Services = {web, job}
    Resources = {conf1, conf2, net}
    Networks = {net}
    Charts <- SomeCharts
    MaxPruneAttempts = 3
    MaxCommits = 2
    MaxHands = 3
    MaxFaults = 1
    Retention = 3
    web = web
    job = job
    conf1 = conf1
    conf2 = conf2
    net = net
INVARIANTS
    SweepInv
PROPERTIES
    DeletesOnlyFound
    SweepSettles
