SPECIFICATION PickFairSpec
CONSTANTS
  f = f
  g = g
  x = x
  y = y
  z = z
  main = main
  topic = topic
  other = other
  Files = {f, g}
  Absent = Absent
  Markers = Markers
  Conflict = Conflict
  Content <- MCContent
  EditContent <- NoEdits
  InitRepos <- RebaseForks
  Branches = {main, topic}
  FirstBranch = main
  MergeFF = TRUE
  MaxCommits = 6
  Sessions = {s1}
  Calls = {"cherry_pick", "revert", "merge", "fast_forward", "squash", "checkout", "force_checkout", "create", "delete", "abort", "commit_all", "rebase"}
CHECK_DEADLOCK FALSE
INVARIANTS
  NothingHalfDone
  MergeTreeIsMerge
  NoMarkersCommitted
  CleanListNoConflict
PROPERTIES
  SerialHistorySpec
  RebaseKeepsWork
  MergeConcludes
