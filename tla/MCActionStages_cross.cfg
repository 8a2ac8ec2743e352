\* A failed check of the first stage, a dependent in the second.
CONSTANTS
  Plans <- OnlyPrePlan
  Levels = {"SUCCESS", "ERROR"}
SPECIFICATION Spec
INVARIANT RunsOnlyAfterSuccess
CHECK_DEADLOCK FALSE
