CONSTANTS
  a = a
  b = b
  one = one
  two = two
  v = v
  Absent = Absent
  Torn = Torn
  NoDate = NoDate
  BadDate = BadDate
  Charts <- TaggedCharts
  Names <- PlainNames
  Versions <- TaggedVersions
  NameRank <- LatestFirstRank
  Parsable <- TaggedParsable
  Precedence <- TaggedPrecedence
  Canonical <- TaggedCanonical
  Created <- TaggedCreated
  Today = 4
  NoUrl = {}
  Kind = "OCI"
  Configs <- OnlyListedLatest
  Deployed <- ListedLatest
  Reused = FALSE
  PersistentWorkdir = TRUE
  MaxFaults = 0
  MaxCrashes = 0
SPECIFICATION Spec
INVARIANTS
  FailureIsolation
