--------------------------- MODULE MCActionStages ---------------------------
(***************************************************************************)
(* Instances of ActionStages: every dependency table over a few Actions,   *)
(* and the tables of the Actions that convert2rhel runs before and after   *)
(* its point of no return.                                                 *)
(***************************************************************************)
EXTENDS ActionStages

(* Four Actions in two stages, and "typo", an id that no Action has. *)
FourIds == {"a", "b", "c", "d"}
FourPlans ==
  [stages : {<< <<"b", "c", "d">>, <<"a">> >>},
   deps   : [FourIds -> {D \in SUBSET (FourIds \cup {"typo"}) : Cardinality(D) <= 2}]]

(* Five Actions, three of them in the second stage; no cycles. *)
FiveIds == FourIds \cup {"e"}
FivePlans ==
  [stages : {<< <<"b", "e">>, <<"a", "c", "d">> >>},
   deps   : {g \in [FiveIds -> SUBSET FiveIds] :
               /\ g["e"] = {} /\ g["b"] \subseteq {"e"}
               /\ g["d"] \subseteq {"b", "e"} /\ g["a"] \subseteq {"b", "d"}
               /\ g["c"] \subseteq {"a", "d", "e"}}]
SmallPlans == FourPlans \cup FivePlans

(* The real tables: system_checks (the ones others depend on, and one more)  *)
(* and pre_ponr_changes.                                                     *)
SystemChecks ==
  <<"CHECK_FIREWALLD_AVAILABILITY", "EFI", "ELS_SYSTEM_CHECK", "EUS_SYSTEM_CHECK">>
PrePonrChanges ==
  <<"BACKUP_PACKAGE_FILES", "BACKUP_REDHAT_RELEASE", "BACKUP_REPOSITORY",
    "BACKUP_YUM_VARIABLES", "CUSTOM_REPOSITORIES_ARE_VALID",
    "ENSURE_KERNEL_MODULES_COMPATIBILITY", "INSTALL_RED_HAT_CERT_FOR_YUM",
    "INSTALL_RED_HAT_GPG_KEY", "LIST_THIRD_PARTY_PACKAGES", "PRE_SUBSCRIPTION",
    "REMOVE_IWLAX2XX_FIRMWARE", "REMOVE_SPECIAL_PACKAGES", "RESTORE_YUM_VAR_FILES",
    "SUBSCRIBE_SYSTEM", "VALIDATE_PACKAGE_MANAGER_TRANSACTION">>
PreDependencies(a) ==
  CASE a = "BACKUP_PACKAGE_FILES" ->
         {"BACKUP_REPOSITORY", "BACKUP_REDHAT_RELEASE", "BACKUP_YUM_VARIABLES"}
    [] a = "CUSTOM_REPOSITORIES_ARE_VALID" -> {"SUBSCRIBE_SYSTEM"}
    [] a = "REMOVE_SPECIAL_PACKAGES" ->
         {"BACKUP_REPOSITORY", "BACKUP_PACKAGE_FILES", "BACKUP_REDHAT_RELEASE",
          "BACKUP_YUM_VARIABLES"}
    [] a = "ENSURE_KERNEL_MODULES_COMPATIBILITY" -> {"SUBSCRIBE_SYSTEM"}
    [] a = "REMOVE_IWLAX2XX_FIRMWARE" -> {"BACKUP_PACKAGE_FILES"}
    [] a = "PRE_SUBSCRIPTION" ->
         {"REMOVE_SPECIAL_PACKAGES", "INSTALL_RED_HAT_CERT_FOR_YUM",
          "INSTALL_RED_HAT_GPG_KEY"}
    [] a = "SUBSCRIBE_SYSTEM" ->
         {"PRE_SUBSCRIPTION", "EUS_SYSTEM_CHECK", "ELS_SYSTEM_CHECK"}
    [] a = "VALIDATE_PACKAGE_MANAGER_TRANSACTION" ->
         {"INSTALL_RED_HAT_GPG_KEY", "REMOVE_IWLAX2XX_FIRMWARE",
          "CHECK_FIREWALLD_AVAILABILITY", "ENSURE_KERNEL_MODULES_COMPATIBILITY",
          "SUBSCRIBE_SYSTEM", "BACKUP_PACKAGE_FILES"}
    [] a = "RESTORE_YUM_VAR_FILES" -> {"REMOVE_SPECIAL_PACKAGES"}
    [] OTHER -> {}
PrePlan ==
  [stages |-> <<SystemChecks, PrePonrChanges>>,
   deps   |-> [a \in ToSet(SystemChecks \o PrePonrChanges) |-> PreDependencies(a)]]

(* The conversion stage, and the Actions of post_conversion others depend on. *)
Conversion ==
  <<"CONFIGURE_PKG_MANAGER", "CONVERT_SYSTEM_PACKAGES",
    "EFIBOOTMGR_UTILITY_INSTALLED", "FIX_DEFAULT_KERNEL",
    "FIX_INVALID_GRUB2_ENTRIES", "INSTALL_RHEL_KERNEL",
    "LIST_NON_RED_HAT_PKGS_LEFT", "LOCK_RELEASEVER_IN_RHEL_REPOSITORIES",
    "MOVE_GRUB_FILES", "NEW_DEFAULT_EFI_BIN", "REMOVE_EFI_CENTOS",
    "REMOVE_NON_RHEL_KERNELS", "REPLACE_EFI_BOOT_ENTRY", "UPDATE_KERNEL">>
PostConversion ==
  <<"BREADCRUMBS_FINISH_COLLECTION", "FIX_GRUB_SETTINGS_ON_AL2",
    "KERNEL_BOOT_FILES", "REMOVE_TMP_DIR", "UPDATE_GRUB">>
PostDependencies(a) ==
  CASE a \in {"CONFIGURE_PKG_MANAGER", "INSTALL_RHEL_KERNEL"} -> {"CONVERT_SYSTEM_PACKAGES"}
    [] a = "REMOVE_NON_RHEL_KERNELS" -> {"INSTALL_RHEL_KERNEL"}
    [] a \in {"FIX_INVALID_GRUB2_ENTRIES", "UPDATE_KERNEL", "LIST_NON_RED_HAT_PKGS_LEFT"} ->
         {"REMOVE_NON_RHEL_KERNELS"}
    [] a = "FIX_DEFAULT_KERNEL" -> {"FIX_INVALID_GRUB2_ENTRIES"}
    [] a = "NEW_DEFAULT_EFI_BIN" -> {"FIX_DEFAULT_KERNEL"}
    [] a = "EFIBOOTMGR_UTILITY_INSTALLED" -> {"NEW_DEFAULT_EFI_BIN"}
    [] a = "MOVE_GRUB_FILES" -> {"EFIBOOTMGR_UTILITY_INSTALLED"}
    [] a = "REMOVE_EFI_CENTOS" -> {"MOVE_GRUB_FILES"}
    [] a = "REPLACE_EFI_BOOT_ENTRY" -> {"REMOVE_EFI_CENTOS", "EFIBOOTMGR_UTILITY_INSTALLED"}
    [] a = "UPDATE_GRUB" -> {"FIX_GRUB_SETTINGS_ON_AL2"}
    [] a = "REMOVE_TMP_DIR" -> {"UPDATE_GRUB"}
    [] a = "BREADCRUMBS_FINISH_COLLECTION" -> {"KERNEL_BOOT_FILES", "UPDATE_GRUB"}
    [] OTHER -> {}
PostPlan ==
  [stages |-> <<Conversion, PostConversion>>,
   deps   |-> [a \in ToSet(Conversion \o PostConversion) |-> PostDependencies(a)]]
OnlyPrePlan == {PrePlan}

(* Small and real tables together. *)
AllPlans == SmallPlans \cup {PrePlan, PostPlan}

Ran == successes \cup failures

(* No package is removed, by REMOVE_SPECIAL_PACKAGES or by the transaction   *)
(* validation, unless the release file, the repository files, the yum        *)
(* variables and the modified package files have all been backed up.         *)
RemovalNeedsBackups ==
  Ran \cap {"REMOVE_SPECIAL_PACKAGES", "VALIDATE_PACKAGE_MANAGER_TRANSACTION"} # {}
    => {"BACKUP_REDHAT_RELEASE", "BACKUP_REPOSITORY", "BACKUP_YUM_VARIABLES",
        "BACKUP_PACKAGE_FILES"} \subseteq successes

(* The RHEL repositories are used (the transaction is validated against      *)
(* them) only after the Actions that remove the conflicting packages,        *)
(* install the Red Hat GPG key and certificate and subscribe the system have *)
(* succeeded; with --no-rhsm the last succeeds without a subscription.       *)
ValidationNeedsSubscription ==
  "VALIDATE_PACKAGE_MANAGER_TRANSACTION" \in Ran =>
    {"SUBSCRIBE_SYSTEM", "INSTALL_RED_HAT_GPG_KEY", "INSTALL_RED_HAT_CERT_FOR_YUM",
     "REMOVE_SPECIAL_PACKAGES", "REMOVE_IWLAX2XX_FIRMWARE"} \subseteq successes

(* The boot path is never pulled from under the system: the old kernels go   *)
(* only once the RHEL kernel is there, and the vendor's EFI directory and    *)
(* boot entry only once the default kernel, the EFI binary and the grub      *)
(* files that replace them are in place.                                     *)
BootPathKept ==
  /\ "REMOVE_NON_RHEL_KERNELS" \in Ran =>
       {"CONVERT_SYSTEM_PACKAGES", "INSTALL_RHEL_KERNEL"} \subseteq successes
  /\ Ran \cap {"REMOVE_EFI_CENTOS", "REPLACE_EFI_BOOT_ENTRY"} # {} =>
       {"INSTALL_RHEL_KERNEL", "FIX_DEFAULT_KERNEL", "NEW_DEFAULT_EFI_BIN",
        "MOVE_GRUB_FILES"} \subseteq successes
=============================================================================
