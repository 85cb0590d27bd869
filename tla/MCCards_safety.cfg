CONSTANTS
  Action = {"install", "command"}
  Yielding = {"command"}
  Credential = {"gmail", "drive"}
  Question = {"which"}
  Workload <- MCWorkload
  MaxTaps = 2
  MaxRestarts = 1
  MaxFailures = 1
SPECIFICATION FairSpec
INVARIANTS TypeOK VerdictOfApprover OneVerdict NoOrphanRow
PROPERTY CredentialsSettle
CHECK_DEADLOCK FALSE
