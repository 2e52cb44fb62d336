SPECIFICATION Spec
CONSTANTS
  Clients = {a}
  Limiters = {"votes", "general"}
  MaxRequests <- MCMaxRequests
  Window = 2
  MaxTime = 6
INVARIANTS
  WindowBound
  RemainingIsRoom
