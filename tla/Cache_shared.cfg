CONSTANTS
  p1 = p1
  p2 = p2
  r1 = r1
  r2 = r2
  i1 = i1
  i2 = i2
  i3 = i3
  None = None
  Inodes <- ThreeInodes
  NChunks = 2
  Clients <- TwoClients
  Revisions <- OneRevision
  Oci = FALSE
  Uploads = FALSE
  Republishing = FALSE
  MaxFaults = 2
  MaxCrashes = 0
SPECIFICATION FairSpec
INVARIANTS
  RestsWhole
PROPERTIES
  KeepsReadingWhole
