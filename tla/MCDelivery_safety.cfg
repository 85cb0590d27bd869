CONSTANTS
  s1 = s1
  s2 = s2
  c1 = c1
  Session <- OneSession
  Message <- ThreeRows
  SessionOf <- OneSessionOf
  Channel <- OneChannel
  Internal = Internal
  ChannelOf <- OneChannelOf
  Deferred <- LastDeferred
  Hung <- None
  NoMessage = NoMessage
  MAX_DELIVERY_ATTEMPTS = 3
  MaxFaults = 1
SPECIFICATION Spec
INVARIANTS TypeOK DrainExclusive NoDuplicate RetryBudget NoOvertaking
PROPERTIES NothingAfterRecord ImplementsPromise
