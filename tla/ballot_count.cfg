SPECIFICATION Spec
CONSTANTS
  Scale = 10000
  MajorityPct = 5000
  SupermajorityPct = 6667
  RunRules <- MCRules
  Electorates <- MCElectorates
  Ballots <- MCBallots
  MaxCast = 9
INVARIANTS
  ThresholdOrder
PROPERTIES
  YesNeverHurts
  NoHelpsOnlyThroughQuorum
  AbstentionOnlyThroughQuorum
