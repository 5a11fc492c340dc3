SPECIFICATION Spec
CONSTANTS
  main = main
  dev = dev
  None = None
  Users = {"ann"}
  Servers = {"hub", "lab"}
  ReadOnly = {"lab"}
  Remotes = {"origin"}
  Origin = "origin"
  Branches = {main, dev}
  DefaultBranch = main
  Calls = {"clone", "fetch", "push", "pull", "commit", "others", "force", "crash", "checkout", "create", "mirror", "remote_add", "remote_set_url", "remote_remove", "set_upstream"}
  InitMade <- MCMade
  InitHistories <- TwoBranches
  OtherPushes <- MCOthers
  MaxCommits = 4
INVARIANTS
  TypeOK
PROPERTIES
  UpstreamFits
  ServerKeepsWork
  PullBringsIn
  LocalKeepsWork
  TrackFollowsServer
