SPECIFICATION FairRegistrySpec
CONSTANTS
  Tasks = {t1, t2}
  Instances = {i1, i2}
  MaxTroubles = 3
INVARIANTS
  RegistryExact
  OrphanAccountedFor
  ReportedOnce
PROPERTIES
  OrphansReported
CHECK_DEADLOCK FALSE
