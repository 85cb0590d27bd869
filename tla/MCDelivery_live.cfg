CONSTANTS
  s1 = s1
  s2 = s2
  c1 = c1
  Session <- TwoSessions
  Message <- TwoRows
  SessionOf <- TwoSessionsOf
  Channel <- OneChannel
  Internal = Internal
  ChannelOf <- TwoRoutes
  Deferred <- None
  Hung <- FirstHung
  NoMessage = NoMessage
  MAX_DELIVERY_ATTEMPTS = 2
  MaxFaults = 1
SPECIFICATION FairSpec
PROPERTIES EveryRowRecorded HungSessionIsIsolated
