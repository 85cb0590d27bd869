CONSTANTS
  Row <- Rows3
  NoRow = NoRow
  MAX_TRIES = 1
SPECIFICATION Spec
INVARIANTS TypeOK OneLiveRow SeriesGoesOn CancelHolds
