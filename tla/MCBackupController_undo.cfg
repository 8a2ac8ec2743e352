\* The removal of packages with their files, and the subscription of a system.
CONSTANTS
  Objects = {"release", "release2", "var", "var_planted", "deleted", "pkg",
             "key", "cert", "pkgs", "sub", "attached", "repos"}
  Kind <- KindOf
  Target <- TargetOf
  Resources <- AllResources
  Owner <- OwnerOf
  NoOwner = "nobody"
  Modified <- ModifiedFiles
  Skipped <- SkippedFiles
  SubMgr = "subscription-manager"
  Initial <- AllSystems
  Makes <- MakesOn
  Faults = {"raise", "unavailable", "no_rpm_va", "no_backup_dir",
            "attach", "silent", "owned", "interrupt"}
SPECIFICATION Spec
INVARIANTS TypeOK RollbackRestores BackupIsPristine
CHECK_DEADLOCK FALSE
