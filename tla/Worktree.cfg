SPECIFICATION Spec
CONSTANTS
  s1 = s1
  s2 = s2
  n1 = n1
  n2 = n2
  home = home
  desk = desk
  usb = usb
  None = None
  Half = Half
  Foreign = Foreign
  Sessions = {s1, s2}
  Names = {n1, n2}
  Paths = {home, desk, usb}
  Drive = {usb}
  Branches = {"main", "topic"}
  MainBranch = "main"
  Asked <- MCAsked
  Calls = {"add", "lock", "unlock", "prune", "remove", "branch", "user", "drive"}
SYMMETRY Symmetric
INVARIANTS
  TypeOK
  OneBranchOneTree
PROPERTIES
  PruneIsCautious
