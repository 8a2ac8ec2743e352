\* One Ctrl-C.
CONSTANTS
  PreChanges = {"file", "key", "repos", "firmware"}
  ByEnable = {"key", "repos"}
  OnlyLogged = {"key"}
  Unbacked = {"firmware"}
  Versionlock = "versionlock"
  Final = "rhel"
SPECIFICATION Spec
INVARIANT ExitsGracefully
CHECK_DEADLOCK FALSE
