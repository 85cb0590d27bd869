CONSTANTS
  c1 = c1
  c2 = c2
  Message <- Rows3
  Trigger <- Rows3
  OnWake <- Second
  Deferred <- None
  Scripted <- First
  Command <- Third
  Clear <- Third
  Slot <- Slots
  NoSlot = NoSlot
  MaxMessagesPerPrompt = 2
  MAX_TRIES = 1
  MaxFaults = 1
  MaxStopFailures = 1
SPECIFICATION Spec
SYMMETRY SlotSymmetry
CONSTRAINT StraysBound
INVARIANTS TypeOK OneContainer ClaimsHeld
PROPERTIES NoSecondTurn NothingSkippedSilently CompletionSticks FailedIsFinal
