\* Every dependency table over four Actions and a missing id, some over five, and
\* the tables of the Actions before and after the point of no return.
CONSTANTS
  Plans <- AllPlans
  Levels = {"SUCCESS", "OVERRIDABLE", "ERROR"}
SPECIFICATION Spec
INVARIANTS
  RejectsExactlyUnschedulable DependenciesFinishFirst SkipsExactlyTheAffected
  EveryActionReported
  RemovalNeedsBackups ValidationNeedsSubscription BootPathKept
CHECK_DEADLOCK FALSE
