\* The system is registered and the attachment of a subscription fails.
CONSTANTS
  Objects = {"key", "cert", "pkgs", "sub", "attached", "repos"}
  Kind <- KindOf
  Target <- TargetOf
  Resources <- AllResources
  Owner <- OwnerOf
  NoOwner = "nobody"
  Modified <- ModifiedFiles
  Skipped <- SkippedFiles
  SubMgr = "subscription-manager"
  Initial <- RhsmSystems
  Makes <- MakesOn
  Faults = {"attach"}
SPECIFICATION Spec
INVARIANT RegistrationUndone
CHECK_DEADLOCK FALSE
