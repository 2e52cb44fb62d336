SPECIFICATION FairSpec
CONSTANTS
  Streams = {s1, s2}
  QueueSize = 2
  ReplaySize = 2
  MaxEvents = 4
INVARIANTS
  TypeOK
  NothingMissed
  ReplayIsLatest
PROPERTIES
  FeedSpec
  StreamsEnd
