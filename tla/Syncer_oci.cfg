CONSTANTS
  a = a
  b = b
  one = one
  two = two
  v = v
  Absent = Absent
  Torn = Torn
  NoDate = NoDate
  BadDate = BadDate
  Charts <- TaggedCharts
  Names <- PlainNames
  Versions <- TaggedVersions
  NameRank <- LatestFirstRank
  Parsable <- TaggedParsable
  Precedence <- TaggedPrecedence
  Canonical <- TaggedCanonical
  Created <- TaggedCreated
  Today = 4
  NoUrl = {}
  Kind = "OCI"
  Configs <- ListedConfigs
  Deployed <- ListedAll
  Reused = TRUE
  PersistentWorkdir = FALSE
  MaxFaults = 1
  MaxCrashes = 1
SPECIFICATION FairSpec
INVARIANTS
  NoErrorMeansSynced
  CallFailuresIsolated
  PushesAgainOnlyCarried
PROPERTIES
  ImplementsMirror
  ImplementsCacheFiles
  RunsEnd
  EventuallyMirrored
