SPECIFICATION QueueSpec
CONSTANTS
  Lanes = {"critical", "normal", "background"}
  Calls = {c1, c2, c3}
  NoEntry = NoEntry
SYMMETRY Symmetry
INVARIANTS
  UncontendedCallExact
CHECK_DEADLOCK FALSE
