CONSTANTS
  c1 = c1
  c2 = c2
  Message <- Rows3
  Trigger <- Outer
  OnWake <- None
  Deferred <- First
  Scripted <- First
  Command <- Third
  Clear <- None
  Slot <- Slots
  NoSlot = NoSlot
  MaxMessagesPerPrompt = 1
  MAX_TRIES = 1
  MaxFaults = 2
  MaxStopFailures = 0
SPECIFICATION FairSpec
PROPERTIES EverySettles
