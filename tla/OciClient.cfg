CONSTANTS
  one = one
  oneb = oneb
  oneb_ = oneb_
  stable = stable
  None = None
  Torn = Torn
  Empty = Empty
  Versions <- MCVersions
  Semver <- MCSemver
  Tags <- MCTags
  TagOf <- MCTagOf
  MayHold <- MCMayHold
  Indexes <- MCIndexes
  MaxMoves = 2
  MaxFaults = 1
SPECIFICATION Spec
INVARIANTS
  TypeOK
  ListsWhatLasted
  EmptyOnlyIfMoved
  PushesToEmptyTag
