CONSTANTS
  Group = {"main", "side", "kid"}
  MaxSession = 3
  Founding <- MCFounding
  Known <- MCKnown
  Package = {"ffmpeg"}
  Server = {"search"}
  Name = {"aide", "boss", "helper", "parent"}
  Channel = {"room"}
  Workload <- MCWorkload
  MaxMail = 3
SPECIFICATION FairSpec
INVARIANTS MailTypeOK ProjectionCurrent NoteTrue
PROPERTIES GoesToAsker NoteHeeded
CHECK_DEADLOCK FALSE
