\* Three attempts and a daemon that answers late, or never.
CONSTANT MaxAttempts = 3
SPECIFICATION Spec
INVARIANTS TypeOK SuccessMeansRegistered RightServerIsAsked OsReleaseInPlace
PROPERTY RegistrationEnds
CHECK_DEADLOCK FALSE
