CONSTANTS
  a = a
  b = b
  one = one
  two = two
  v = v
  Absent = Absent
  Torn = Torn
  NoDate = NoDate
  BadDate = BadDate
  Charts <- BrokenCharts
  Names <- PlainNames
  Versions <- PlainVersions
  NameRank <- PlainRank
  Parsable <- PlainVersions
  Precedence <- PlainPrecedence
  Canonical <- PlainCanonical
  Created <- BrokenCreated
  Today = 4
  NoUrl <- OnlyBroken
  Kind = "HELM"
  Configs <- DiscoveryConfigs
  Deployed <- MirrorLatest
  Reused = FALSE
  PersistentWorkdir = TRUE
  MaxFaults = 1
  MaxCrashes = 1
SPECIFICATION FairSpec
INVARIANTS
  TypeOK
  NoErrorMeansSynced
  FailureIsolation
  PushesOnlyMissing
PROPERTIES
  ImplementsMirror
  MirroredUnlessSpoilt
