CONSTANTS
  c1 = c1
  c2 = c2
  Message <- Rows2
  Trigger <- Rows2
  OnWake <- None
  Deferred <- None
  Scripted <- None
  Command <- None
  Clear <- None
  Slot <- Slots
  NoSlot = NoSlot
  MaxMessagesPerPrompt = 2
  MAX_TRIES = 1
  MaxFaults = 1
  MaxStopFailures = 0
SPECIFICATION Spec
PROPERTIES NoTurnLost
