CONSTANTS
  AmountWord = 16
  TimeWord = 8
  Scale = 5
SPECIFICATION Spec
INVARIANTS
  TypeOK
  NoOverflow
  ExactFloor
  ProjectionMonotone
  RewriteNeverOverstates
  FrozenOnceCancelled
  CancelAlwaysRefunds
  ProgressIsHonest
  StatusMatchesAmounts
CHECK_DEADLOCK FALSE
