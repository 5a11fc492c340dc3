SPECIFICATION StashSpec
CONSTANTS
  f = f
  g = g
  x = x
  y = y
  main = main
  topic = topic
  Files = {f, g}
  Absent = Absent
  Markers = Markers
  Conflict = Conflict
  Content <- MCContent
  EditContent <- MCEdits
  InitRepos <- MCInitRepos
  Branches = {main, topic}
  FirstBranch = main
  MergeFF = TRUE
  MaxCommits = 3
  MaxStash = 2
  Sessions = {s1, s2}
  Calls = {"stash_save", "stash_pop", "stash_drop", "archive", "restore", "add", "edit", "mixed", "crash"}
SYMMETRY AnySession
INVARIANTS
  StashTypeOK
PROPERTIES
  StashKeepsEdits
  ArchiveRestores
