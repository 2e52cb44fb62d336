SPECIFICATION Spec
CONSTANTS
  r1 = r1
  r2 = r2
  r3 = r3
  ann = ann
  bob = bob
  acme = acme
  Requests = {r1, r2, r3}
  Bodies <- MCBodies
  InitialRows <- MCRows
  SeedExternalIds = {"BBG", "BLK"}
  SeedTicker = "MRDN"
  SeedLei = "L1"
  SeedProposals = {"S1"}
  MaxFaults = 1
SYMMETRY Symmetric
INVARIANTS
  UniqueKeys
  SeedAllOrNothing
  RefusalsAreJustified
  PutsAreWhole
