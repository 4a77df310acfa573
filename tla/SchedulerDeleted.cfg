SPECIFICATION MCSpec
CONSTANTS
  Tools <- MCTools
  MinModel <- MCMinModel
  Preferred <- MCPreferred
  AllowClientHint = TRUE
  RespectMinModel = TRUE
  FallbackChain <- MCChain
  GroupOf <- MCGroupOf
  PrefixOf <- MCPrefixOf
  Transactional = {}
  Requests <- MCRequests
  RuleSets <- MCRuleSets
  Providers = {"anthropic", "openai"}
  Enforced = {"analyze_market"}
  Required <- MCRequired
  Outputs <- MCOutputs
  MaxBlocks = 2
  MaxTurns = 2
  MaxTries = 2
  MaxRetriesPerModel = 1
  Ids = {"s1", "s2"}
  Periods = {0, 2}
  Cycle = 2
  MaxFailures = 2
  FailureCap = 2
  Sockets = {"s1", "s2"}
  Frames = {"r1"}
  Posts = {"p1"}
  MaxConnections = 1
  MaxBreaks = 1
  Left = "left"
INVARIANTS DeletedOnlySkipsUpdate
CHECK_DEADLOCK FALSE
