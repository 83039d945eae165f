\* Two overlapping invocations, two recurring jobs of two types, every failure.
SPECIFICATION FairSpec
CONSTANTS
  r1 = r1
  r2 = r2
  Rows = {r1, r2}
  Types = {"send", "sweep"}
  TypeOf <- TwoTypes
  Priority <- Urgency
  DedupKey <- TwoKeys
  Recurring = {r1, r2}
  i1 = i1
  i2 = i2
  Invocations = {i1, i2}
  MaxAttempts = 2
  MaxDelay = 1
  Ceiling = 1
  Threshold = 1
  Retention = 0
  Period = 1
  Faults = {"die", "manual"}
  Cycle = 2
INVARIANTS
  TypeOK
  ExclusiveRun
  RunsBounded
PROPERTIES
  TerminalIsFinal
  ClaimedIsReleased
  StableTypesTakeTurns
