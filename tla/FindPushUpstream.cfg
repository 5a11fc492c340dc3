SPECIFICATION Spec
CONSTANTS
  main = main
  dev = dev
  None = None
  Users = {"ann"}
  Servers = {"hub"}
  ReadOnly = {}
  Remotes = {"origin"}
  Origin = "origin"
  Branches = {main, dev}
  DefaultBranch = main
  Calls = {"clone", "push", "checkout", "create", "commit"}
  InitMade <- MCMade
  InitHistories <- TwoBranches
  OtherPushes <- MCOthers
  MaxCommits = 4
PROPERTIES
  UpstreamOnlyAfterPush
CHECK_DEADLOCK FALSE
