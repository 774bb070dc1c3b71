CONSTANTS
  Files <- MCFiles
  Environments <- MCEnvironments
SPECIFICATION Spec
CHECK_DEADLOCK FALSE
INVARIANTS
  TypeOK
  UsableWhenStarted
  CredentialsAsDocumented
  OnlySourceIsIndexed
  IndexToldApart
