SPECIFICATION Spec
CONSTANTS
  Permissions = {"p1", "p2", "p3", "p4"}
  Questions = {"q1"}
  Streams = {"s1", "s2"}
  Patterns = {"a", "b", "no"}
  StreamOf <- StreamTable
  PatternsOf <- PatternTable
  AlwaysOf <- AlwaysTable
  Rule <- RuleTable
  MaxRestarts = 1
INVARIANTS
  DialogIffPending
  GrantJustified
  NoAskForGranted
  AbortLeavesNoQuestion
  ApprovalsPersist
CHECK_DEADLOCK FALSE
