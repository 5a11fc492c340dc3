SPECIFICATION FairSpec
CONSTANTS
  f = f
  g = g
  Files = {f, g}
  IntMax = 2
  MaxLine = 3
  Histories <- MCHistories
  Queries <- MCQueries
INVARIANTS
  TypeOK
  LogIsPrefix
  LogFailsOnlyOneShort
  StatIsSummary
PROPERTIES
  CallReturns
