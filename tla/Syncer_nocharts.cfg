CONSTANTS
  a = a
  b = b
  one = one
  two = two
  v = v
  Absent = Absent
  Torn = Torn
  NoDate = NoDate
  BadDate = BadDate
  Charts <- PlainCharts
  Names <- PlainNames
  Versions <- PlainVersions
  NameRank <- PlainRank
  Parsable <- PlainVersions
  Precedence <- PlainPrecedence
  Canonical <- PlainCanonical
  Created <- OldestFirst
  Today = 4
  NoUrl = {}
  Kind = "HELM"
  Configs <- OnlyMirrorAll
  Deployed <- MirrorAll
  Reused = FALSE
  PersistentWorkdir = TRUE
  MaxFaults = 1
  MaxCrashes = 0
SPECIFICATION Spec
INVARIANTS
  NoChartsMeansInSync
