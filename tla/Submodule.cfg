SPECIFICATION Spec
CONSTANTS
  None = None
  Refs = {"main", "dev"}
  Initial = "master"
  Commits = {1, 2, 3}
  Histories <- MCHistories
  Calls = {"add", "hash", "fetch", "set_to", "set_hash", "others", "delete", "branch", "crash"}
INVARIANTS
  TypeOK
PROPERTIES
  AddRecordsWhatItFound
  FetchIsCurrent
