SPECIFICATION FairSpec
CONSTANTS
  p1 = p1
  p2 = p2
  Proposals = {p1, p2}
  Nobody = Nobody
  Never = Never
  ClosesAt <- MCClosesAt
  Manual = {"request"}
  Patches = {"open"}
  Clients = {"terminal"}
  MaxClock = 1
  MaxFaults = 2
  MaxStarts = 2
INVARIANTS
  AnnouncedIsStored
  StopLosesOneEvent
  PublishersHaveABus
PROPERTIES
  EveryOverdueCloses
  ShutdownEnds
CHECK_DEADLOCK FALSE
