---------------------------- MODULE SystemChecks ----------------------------
(***************************************************************************)
(* What the Actions that only look at the system conclude: the stage of    *)
(* the system checks and, from the stage before the point of no return,    *)
(* the checks that need the RHEL repositories.                             *)
(*                                                                         *)
(* The operator of a check gives its outcome as a function of the system,  *)
(* of the options and of `waived`, the overrides in force when it looks.   *)
(* The conditions of a check are looked at one after the other: each check *)
(* is a table whose first row that holds decides.                          *)
(***************************************************************************)
EXTENDS ToolOpts

VARIABLES
    system,   \* id, major, minor, and eus: RHEL has an EUS release of that version
    troubles, \* what is unusual about the system, its repositories, its tools
    env       \* overrides that are set as environment variables

systemFacts == <<system, troubles, env>>

Is(t) == t \in troubles

-----------------------------------------------------------------------------
(* Action.set_result and Action.add_message *)
Good == [level |-> "SUCCESS", id |-> "SUCCESS", messages |-> <<>>]
Result(level, id) == [Good EXCEPT !.level = level, !.id = id]
Error(id) == Result("ERROR", id)
Overridable(id) == Result("OVERRIDABLE", id)
Message(level, id) == [level |-> level, id |-> id]
Warns(id) == [Good EXCEPT !.messages = <<Message("WARNING", id)>>]

Row(condition, outcome) == [holds |-> condition, outcome |-> outcome]

Decide(rows) ==
    LET holding == {i \in DOMAIN rows : rows[i].holds}
    IN IF holding = {} THEN Good ELSE rows[Min(holding)].outcome

-----------------------------------------------------------------------------
CheckFirewalldAvailability ==
    Decide(<<Row(~(system.id = "oracle" /\ system.major = 8 /\ system.minor >= 8), Good),
             Row(Is("firewalld runs") /\ Is("it cleans up modules"),
                 Error("FIREWALLD_MODULES_CLEANUP_ON_EXIT_CONFIG"))>>)

(* Whether the tool is the installed RPM decides what is compared, not     *)
(* what follows.                                                           *)
IsOutdated == Is("newer version") \/ (Is("newer release") /\ ~Is("not from the rpm"))

Convert2rhelLatest(waived) ==
    Decide(<<Row(Is("no repofile"), Warns("CONVERT2RHEL_LATEST_CHECK_REPO_DOWNLOAD_FAILED")),
             Row(Is("repoquery fails"), Warns("CONVERT2RHEL_LATEST_CHECK_SKIP")),
             Row(IsOutdated /\ "allow_older_version" \in waived,
                 Warns("ALLOW_OLDER_VERSION_OPTION")),
             Row(IsOutdated, Overridable("OUT_OF_DATE"))>>)

DbusIsRunning ==
    Decide(<<Row(ShouldSubscribe /\ Is("no dbus"), Error("DBUS_DAEMON_NOT_RUNNING"))>>)

(* Version 7 tells a failure by a text, later ones by the exit code.       *)
DuplicatePackages ==
    Decide(<<Row(Is("repositories unreachable"),
                 IF system.major = 2 THEN Error("DUPLICATE_PACKAGES_FOUND")
                 ELSE Warns("DUPLICATE_PACKAGES_FAILURE")),
             Row(Is("duplicate packages"), Error("DUPLICATE_PACKAGES_FOUND"))>>)

Efi ==
    Decide(<<Row(~Is("uefi"), Good),
             Row(Is("other architecture"), Error("NON_x86_64")),
             Row(Is("no efibootmgr"), Error("EFIBOOTMGR_NOT_FOUND")),
             Row(Is("secure boot"), Error("SECURE_BOOT_DETECTED")),
             Row(Is("unreadable entries"), Error("BOOTLOADER_ERROR")),
             Row(Is("booted from the network"), Warns("UEFI_BOOTLOADER_MISMATCH"))>>)

ElsSystemCheck ==
    Decide(<<Row(system.major = 7 /\ "els" \notin cli.flags,
                 Warns("ELS_COMMAND_LINE_OPTION_UNUSED"))>>)

EusSystemCheck ==
    Decide(<<Row(system.eus /\ "eus" \notin cli.flags, Warns("EUS_COMMAND_LINE_OPTION_UNUSED"))>>)

GrubValidity == Decide(<<Row(Is("invalid grub file"), Error("INVALID_GRUB_FILE"))>>)

NoPublicRepositories == system.id = "oracle" /\ system.eus /\ "eus" \in cli.flags

(* The loaded kernel has to be the latest one, neither older nor newer.    *)
IsLoadedKernelLatest(waived) ==
    Decide(<<Row(NoPublicRepositories, Good),
             Row("skip_kernel_currency_check" \in waived,
                 Warns("UNSUPPORTED_SKIP_KERNEL_CURRENCY_CHECK_DETECTED")),
             Row(Is("repoquery fails"), Warns("UNABLE_TO_FETCH_RECENT_KERNELS")),
             Row(Is("no kernel in the repositories"), Overridable("KERNEL_CURRENCY_CHECK_FAIL")),
             Row(Is("unreadable kernel version"), Warns("INVALID_KERNEL_PACKAGE")),
             Row(Is("another kernel loaded"), Overridable("INVALID_KERNEL_VERSION"))>>)

PackageUpdates ==
    Decide(<<Row(NoPublicRepositories,
                 [Good EXCEPT !.messages =
                    <<Message("INFO", "PACKAGE_UPDATES_CHECK_SKIP_NO_PUBLIC_REPOSITORIES")>>]),
             Row(Is("repositories unreachable"), Warns("PACKAGE_UP_TO_DATE_CHECK_MESSAGE")),
             Row(Is("outdated packages"), Warns("OUT_OF_DATE_PACKAGES"))>>)

ReadonlyMountMnt == Decide(<<Row(Is("read-only mnt"), Error("MNT_DIR_READONLY_MOUNT"))>>)
ReadonlyMountSys == Decide(<<Row(Is("read-only sys"), Error("SYS_DIR_READONLY_MOUNT"))>>)

(* No kernel of Amazon Linux 2 has the version of RHEL 8: there the first  *)
(* row always holds, and what it says is only a warning.                   *)
BadKernel ==
    Decide(<<Row(system.major = 2 \/ Is("another kernel version"), Error("INCOMPATIBLE_VERSION")),
             Row(Is("kernel of no package"), Error("UNSIGNED_PACKAGE")),
             Row(Is("custom kernel"), Error("INVALID_KERNEL_PACKAGE_SIGNATURE")),
             Row(Is("realtime kernel"), Error("INVALID_PACKAGE_SUBSTRING"))>>)

RhelCompatibleKernel ==
    Decide(<<Row(BadKernel.level = "ERROR" /\ system.major = 2, Warns("INCOMPATIBLE_KERNEL_ON_AL2")),
             Row(BadKernel.level = "ERROR", BadKernel)>>)

(* Mutant: does not know its override. *)
TaintedKmods_Strict(waived) ==
    Decide(<<Row(Is("tainted modules"), Overridable("TAINTED_KMODS_DETECTED"))>>)

TaintedKmods(waived) ==
    Decide(<<Row(~Is("tainted modules"), Good),
             Row("tainted_kernel_module_check_skip" \notin waived,
                 Overridable("TAINTED_KMODS_DETECTED")),
             Row(TRUE, [Good EXCEPT !.messages =
                          <<Message("WARNING", "SKIP_TAINTED_KERNEL_MODULE_CHECK"),
                            Message("WARNING", "TAINTED_KMODS_DETECTED_MESSAGE")>>])>>)

-----------------------------------------------------------------------------
(* From the stage before the point of no return. *)

PreSubscription ==
    Decide(<<Row("no_rhsm" \in cli.flags, Warns("PRE_SUBSCRIPTION_CHECK_SKIP")),
             Row(Is("failed unregistration"), Error("UNABLE_TO_REGISTER")),
             Row(Is("no subscription-manager"), Error("FAILED_TO_INSTALL_SUBSCRIPTION_MANAGER"))>>)

SubscribeSystem ==
    Decide(<<Row("no_rhsm" \in cli.flags, Warns("SUBSCRIPTION_CHECK_SKIP")),
             Row(~ShouldSubscribe /\ Is("not registered"), Error("SYSTEM_NOT_REGISTERED")),
             Row(~ShouldSubscribe /\ Is("failed refresh"), Error("UNEXPECTED_ERROR")),
             Row(~ShouldSubscribe /\ Is("failed attachment"), Error("NO_ACCESS_TO_RHEL_REPOS")),
             Row(ShouldSubscribe /\ Is("failed registration"), Error("FAILED_TO_SUBSCRIBE_SYSTEM")),
             Row(Is("no rhel repositories"), Error("FAILED_TO_ENABLE_RHSM_REPOSITORIES"))>>)

CustomReposAreValid ==
    Decide(<<Row("enablerepo" \in cli.flags /\ Is("custom repositories unreachable"),
                 Error("UNABLE_TO_ACCESS_REPOSITORIES"))>>)

(* Mutant: looks at the override first. *)
EnsureKernelModulesCompatibility_OverrideFirst(waived) ==
    Decide(<<Row("allow_unavailable_kmods" \in waived, Warns("ALLOW_UNAVAILABLE_KERNEL_MODULES")),
             Row(Is("no rhel metadata"), Error("PROBLEM_WITH_PACKAGE_REPO")),
             Row(Is("unreadable module version"), Error("CANNOT_COMPARE_PACKAGE_VERSIONS")),
             Row(Is("no rhel modules"), Error("NO_RHEL_KERNEL_MODULES_FOUND")),
             Row(Is("unsupported modules"), Overridable("UNSUPPORTED_KERNEL_MODULES"))>>)

(* The repositories are asked before the override is looked at. *)
EnsureKernelModulesCompatibility(waived) ==
    Decide(<<Row(Is("no rhel metadata"), Error("PROBLEM_WITH_PACKAGE_REPO")),
             Row(Is("unreadable module version"), Error("CANNOT_COMPARE_PACKAGE_VERSIONS")),
             Row(Is("no rhel modules"), Error("NO_RHEL_KERNEL_MODULES_FOUND")),
             Row("allow_unavailable_kmods" \in waived, Warns("ALLOW_UNAVAILABLE_KERNEL_MODULES")),
             Row(Is("unsupported modules"), Overridable("UNSUPPORTED_KERNEL_MODULES"))>>)

-----------------------------------------------------------------------------
Outcome(a, waived) ==
    CASE a = "CHECK_FIREWALLD_AVAILABILITY"        -> CheckFirewalldAvailability
      [] a = "CONVERT2RHEL_LATEST_VERSION"         -> Convert2rhelLatest(waived)
      [] a = "DBUS_IS_RUNNING"                     -> DbusIsRunning
      [] a = "DUPLICATE_PACKAGES"                  -> DuplicatePackages
      [] a = "EFI"                                 -> Efi
      [] a = "ELS_SYSTEM_CHECK"                    -> ElsSystemCheck
      [] a = "EUS_SYSTEM_CHECK"                    -> EusSystemCheck
      [] a = "GRUB_VALIDITY"                       -> GrubValidity
      [] a = "IS_LOADED_KERNEL_LATEST"             -> IsLoadedKernelLatest(waived)
      [] a = "PACKAGE_UPDATES"                     -> PackageUpdates
      [] a = "READ_ONLY_MOUNTS_MNT"                -> ReadonlyMountMnt
      [] a = "READ_ONLY_MOUNTS_SYS"                -> ReadonlyMountSys
      [] a = "RHEL_COMPATIBLE_KERNEL"              -> RhelCompatibleKernel
      [] a = "TAINTED_KMODS"                       -> TaintedKmods(waived)
      [] a = "PRE_SUBSCRIPTION"                    -> PreSubscription
      [] a = "SUBSCRIBE_SYSTEM"                    -> SubscribeSystem
      [] a = "CUSTOM_REPOSITORIES_ARE_VALID"       -> CustomReposAreValid
      [] a = "ENSURE_KERNEL_MODULES_COMPATIBILITY" -> EnsureKernelModulesCompatibility(waived)

(* The override that a check reads (warn_deprecated_env), if any. A check  *)
(* that ends before it does so leaves tool_opts as it is, which nobody     *)
(* else would notice.                                                      *)
OverrideOf(a) ==
    CASE a = "CONVERT2RHEL_LATEST_VERSION"         -> {"allow_older_version"}
      [] a = "IS_LOADED_KERNEL_LATEST"             -> {"skip_kernel_currency_check"}
      [] a = "TAINTED_KMODS"                       -> {"tainted_kernel_module_check_skip"}
      [] a = "ENSURE_KERNEL_MODULES_COMPATIBILITY" -> {"allow_unavailable_kmods"}
      [] OTHER                                     -> {}
=============================================================================
