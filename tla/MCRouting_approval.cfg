CONSTANTS
  Agent <- MCAgent
  NoAgent = 0
  Chat = {"team", "lobby", "dm", "hall"}
  NoChat = "none"
  Group = {"team", "lobby", "hall"}
  Threaded = {"team", "lobby"}
  User = {"owner", "stranger", "nobody"}
  NoUser = "nobody"
  Owner = {"owner"}
  DmOf <- MCDmOf
  Event <- MCEvent
  SenderOf <- MCSenderOf
  ChatOf <- MCChatOf
  ThreadOf <- MCThreadOf
  Mention = {"hello", "knock", "ring", "clear", "help"}
  Matching = {"hello", "clear", "help"}
  Refused = {"clear", "help"}
  Denied = {"clear"}
  Blank = {"blank"}
  AutoAgent = {0, 1}
  FirstAgents <- MCFirstAgents
  FirstWiring <- MCWiring
  FirstPolicy <- MCPolicy
  Workload <- MCWorkload
  Rewirings <- MCRewirings
  Repolicies <- MCRepolicies
  MaxRestarts = 1
SPECIFICATION Spec
INVARIANT ApprovalReachesAgent
CHECK_DEADLOCK FALSE
