SPECIFICATION FairSpec
CONSTANTS
  a = a
  ab = ab
  ctl = ctl
  sx = sx
  net = net
  cnet = cnet
  vol = vol
  token = token
  vx = vx
  vc = vc
  None = None
  Nobody = Nobody
  Controller = ctl
  ControllerService = vc
  ControllerMounts = {token}
  ControllerNetworks = {cnet}
  RecordLike = {}
  Wired = {token}
  SameRecord = {}
  MaxConflictRetries = 2
  MaxMishaps = 1
  MaxAtOnce = 2
  Stacks <- StacksDef
  Names <- NamesDef
  Services = {vx, vc}
  Kind <- KindDef
  Under <- UnderDef
  Allow <- AllowDef
  Runs <- RunsDef
  Options <- OptionsDef
  Collide <- CollideDef
  Self <- SelfDef
INVARIANTS
    DeployInv
PROPERTIES
    NothingTaken
    HandsKept
    RemovedIsGone
    DeployEnds
