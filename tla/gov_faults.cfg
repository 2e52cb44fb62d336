SPECIFICATION FairSpec
CONSTANTS
  Scale = 10000
  MajorityPct = 5000
  SupermajorityPct = 6667
  r1 = r1
  r2 = r2
  r3 = r3
  r4 = r4
  ann = ann
  bob = bob
  cid = cid
  p1 = p1
  p2 = p2
  NoOne = NoOne
  Requests = {r1, r2, r3}
  Proposals = {p1, p2}
  Users = {ann, bob}
  Existing = {p1}
  Bodies <- FaultBodies
  RuleOf <- MCRuleOf
  ClosesAt <- DueAtOnce
  InitialStake <- MCStake
  Trades <- Sale
  Leavers = {}
  RequireSignatures = TRUE
  MaxInFlight = 3
  MaxClock = 0
  MaxFaults = 1
INVARIANTS
  AuditMatchesTables
  AcknowledgedIsStored
PROPERTIES
  RequestsTerminate
