SPECIFICATION FairSpec
CONSTANTS
  Key = {k1, k2}
  Hint = {"h1", "h2"}
  NoHint = "none"
  Policy = {"p1", "p2"}
  NoPolicy = "nopolicy"
  Priority = {1, 2}
  RuleSet <- MCRuleSet
  PolicyOf <- MCPolicyOf
  MaxTasks = 2
  MaxPeriod = 2
  Buffer = 1
  Idle = Idle
  None = None
INVARIANTS TypeOK OneTaskPerKey SerialPerHint
PROPERTIES PauseServedInFull ImplementsService FifoWithinHint EveryTaskEnds
CHECK_DEADLOCK FALSE
