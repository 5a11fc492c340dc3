SPECIFICATION PickSpec
CONSTANTS
  f = f
  g = g
  x = x
  y = y
  z = z
  main = main
  topic = topic
  other = other
  Files = {f, g}
  Absent = Absent
  Markers = Markers
  Conflict = Conflict
  Content <- MCContent
  EditContent <- NoEdits
  InitRepos <- AheadRepos
  Branches = {main, topic}
  FirstBranch = main
  MergeFF = TRUE
  MaxCommits = 4
  Sessions = {s1, s2}
  Calls = {"cherry_pick", "rebase", "commit", "merge", "soft", "hard", "orphan", "mixed", "delete", "crash"}
SYMMETRY AnySession
CHECK_DEADLOCK FALSE
PROPERTIES
  CommitKeepsTip
  SharedHistorySpec
