SPECIFICATION PickSpec
CONSTANTS
  f = f
  g = g
  x = x
  y = y
  z = z
  main = main
  topic = topic
  other = other
  Files = {f, g}
  Absent = Absent
  Markers = Markers
  Conflict = Conflict
  Content <- MCContent
  EditContent <- MCEdits
  InitRepos <- DivergedRepos
  Branches = {main, topic}
  FirstBranch = main
  MergeFF = TRUE
  MaxCommits = 5
  Sessions = {s1}
  Calls = {"merge", "stage_only", "no_commit", "commit", "commit_all", "abort", "add", "rm", "edit", "cherry_pick", "revert", "revert_only"}
CHECK_DEADLOCK FALSE
INVARIANTS
  TypeOK
PROPERTIES
  CommitsOnlyStaged
  MergeJoinsItsSides
  EditsNotReplaced
  PicksOneChange
