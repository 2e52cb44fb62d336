SPECIFICATION FairSpec
CONSTANTS
  ping = ping
  result = result
  desk = desk
  archive = archive
  Events = {ping, result}
  Pings = {ping}
  Endpoints = {desk, archive}
  Registered = {archive}
  Matching <- MCMatching
  MaxRetries = 2
  MaxFaults = 1
CHECK_DEADLOCK FALSE
INVARIANTS
  LogWellFormed
  ReceivedIsLogged
  DeactivationSticks
  RetriesStop
  FailuresAreLogged
PROPERTIES
  EveryEndpointServed
