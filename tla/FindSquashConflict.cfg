SPECIFICATION PickSpec
CONSTANTS
  f = f
  g = g
  x = x
  y = y
  z = z
  main = main
  topic = topic
  other = other
  Files = {f, g}
  Absent = Absent
  Markers = Markers
  Conflict = Conflict
  Content <- MCContent
  EditContent <- MCEdits
  InitRepos <- DivergedRepos
  Branches = {main, topic}
  FirstBranch = main
  MergeFF = TRUE
  MaxCommits = 5
  Sessions = {s1}
  Calls = {"merge", "squash", "abort"}
CHECK_DEADLOCK FALSE
INVARIANTS
  ConflictsCanBeAborted
