\* A file, a key, the repositories and the firmware; an exception or a Ctrl-C
\* at any step.
CONSTANTS
  PreChanges = {"file", "key", "repos", "firmware"}
  ByEnable = {"key", "repos"}
  OnlyLogged = {"key"}
  Unbacked = {"firmware"}
  Versionlock = "versionlock"
  Final = "rhel"
SPECIFICATION FairSpec
INVARIANTS ExitCodeTruthful ChangesAreAnnounced ReportMatchesRun BreadcrumbsTruthful
PROPERTIES KeepsPromise RollbackCompletes
CHECK_DEADLOCK FALSE
