SPECIFICATION Spec
CONSTANTS
  Scale = 10000
  MajorityPct = 5000
  SupermajorityPct = 6667
  r1 = r1
  r2 = r2
  r3 = r3
  r4 = r4
  ann = ann
  bob = bob
  cid = cid
  p1 = p1
  p2 = p2
  NoOne = NoOne
  Requests = {r1, r2, r3}
  Proposals = {p1}
  Users = {ann, bob, cid}
  Existing = {p1}
  Bodies <- ConcurrentBodies
  RuleOf <- MCRuleOf
  ClosesAt <- NoDeadline
  InitialStake <- MCStake
  Trades = {}
  Leavers = {}
  RequireSignatures = FALSE
  MaxInFlight = 3
  MaxClock = 0
  MaxFaults = 0
SYMMETRY Symmetric
INVARIANTS
  ClosedOnce
