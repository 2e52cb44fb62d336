SPECIFICATION Spec
CONSTANTS
  Scale = 10000
  MajorityPct = 5000
  SupermajorityPct = 6667
  r1 = r1
  r2 = r2
  r3 = r3
  r4 = r4
  ann = ann
  bob = bob
  cid = cid
  p1 = p1
  p2 = p2
  NoOne = NoOne
  Requests = {r1, r2, r3, r4}
  Proposals = {p1, p2}
  Users = {ann, bob, cid}
  Existing = {p1}
  Bodies <- SerialBodies
  RuleOf <- MCRuleOf
  ClosesAt <- DueAtOnce
  InitialStake <- MCStake
  Trades = {}
  Leavers = {cid}
  RequireSignatures = TRUE
  MaxInFlight = 1
  MaxClock = 2
  MaxFaults = 0
SYMMETRY Symmetric
INVARIANTS
  AllVotesCounted
  DirectDelegationCounted
  ClosedOnce
PROPERTIES
  RegisterSpec
