------------------------------ MODULE BootPath ------------------------------
(***************************************************************************)
(* From the replaced packages to a system that boots RHEL: the Actions of  *)
(* the stages Conversion and Post-conversion that change kernels, boot     *)
(* entries and the configuration of the boot loader.                       *)
(*                                                                         *)
(* An Action may run once those it depends on have ended, and is skipped   *)
(* when one of them failed or was skipped; the Actions after the           *)
(* conversion run whatever became of the conversion.  Every order that     *)
(* respects the dependencies is allowed, the one the tool takes (see       *)
(* ActionOrder) is one of them.                                            *)
(***************************************************************************)
EXTENDS Kernels, EfiBoot

VARIABLES
    level,     \* [Action -> "pending" or how it ended]
    nvram0     \* the NVRAM before the conversion

bootVars == <<kernelVars, efiVars, level, nvram0>>

ConversionDeps ==
    [INSTALL_RHEL_KERNEL          |-> {"CONVERT_SYSTEM_PACKAGES"},
     REMOVE_NON_RHEL_KERNELS      |-> {"INSTALL_RHEL_KERNEL"},
     FIX_INVALID_GRUB2_ENTRIES    |-> {"REMOVE_NON_RHEL_KERNELS"},
     FIX_DEFAULT_KERNEL           |-> {"FIX_INVALID_GRUB2_ENTRIES"},
     UPDATE_KERNEL                |-> {"REMOVE_NON_RHEL_KERNELS"},
     NEW_DEFAULT_EFI_BIN          |-> {"FIX_DEFAULT_KERNEL"},
     EFIBOOTMGR_UTILITY_INSTALLED |-> {"NEW_DEFAULT_EFI_BIN"},
     MOVE_GRUB_FILES              |-> {"EFIBOOTMGR_UTILITY_INSTALLED"},
     REMOVE_EFI_CENTOS            |-> {"MOVE_GRUB_FILES"},
     REPLACE_EFI_BOOT_ENTRY       |-> {"REMOVE_EFI_CENTOS", "EFIBOOTMGR_UTILITY_INSTALLED"}]

PostDeps ==
    [FIX_GRUB_SETTINGS_ON_AL2 |-> {},
     UPDATE_GRUB              |-> {"FIX_GRUB_SETTINGS_ON_AL2"},
     KERNEL_BOOT_FILES        |-> {}]

PostActions == DOMAIN PostDeps

Actions == DOMAIN ConversionDeps \cup PostActions \cup {"CONVERT_SYSTEM_PACKAGES"}

Deps(a) == CASE a \in DOMAIN ConversionDeps -> ConversionDeps[a]
             [] a \in PostActions           -> PostDeps[a]
             [] OTHER                       -> {}

Levels == {"SUCCESS", "WARNING", "ERROR"}

ConversionEnded == \A a \in DOMAIN ConversionDeps : level[a] # "pending"

DependenciesEnded(a) ==
    /\ \A d \in Deps(a) : level[d] # "pending"
    /\ a \in PostActions => ConversionEnded

FailedDependency(a) == \E d \in Deps(a) : level[d] \in {"ERROR", "SKIP"}

Ends(a, r) ==
    /\ level[a] = "pending"
    /\ DependenciesEnded(a)
    /\ ~FailedDependency(a)
    /\ level' = [level EXCEPT ![a] = r]
    /\ UNCHANGED nvram0

OnKernels(a, r) == Ends(a, r) /\ UNCHANGED efiVars
OnLoader(a, r) == Ends(a, r) /\ UNCHANGED kernelVars

KernelStep ==
    \E r \in Levels :
        \/ OnKernels("INSTALL_RHEL_KERNEL", r) /\ InstallRhelKernel(r)
        \/ OnKernels("REMOVE_NON_RHEL_KERNELS", r) /\ RemoveNonRhelKernels(r)
        \/ OnKernels("FIX_INVALID_GRUB2_ENTRIES", r) /\ FixInvalidGrub2Entries(r)
        \/ OnKernels("FIX_DEFAULT_KERNEL", r) /\ FixDefaultKernel(r)
        \/ OnKernels("UPDATE_KERNEL", r) /\ UpdateKernel(r)
        \/ OnKernels("KERNEL_BOOT_FILES", r) /\ KernelBootFiles(r)

LoaderStep ==
    \E r \in Levels :
        \/ OnLoader("NEW_DEFAULT_EFI_BIN", r) /\ NewDefaultEfiBin(r)
        \/ OnLoader("EFIBOOTMGR_UTILITY_INSTALLED", r) /\ EfibootmgrUtilityInstalled(r)
        \/ OnLoader("MOVE_GRUB_FILES", r) /\ MoveGrubFiles(r)
        \/ OnLoader("REMOVE_EFI_CENTOS", r) /\ RemoveEfiCentos(r)
        \/ OnLoader("REPLACE_EFI_BOOT_ENTRY", r) /\ ReplaceEfiBootEntry(r)
        \/ OnLoader("FIX_GRUB_SETTINGS_ON_AL2", r) /\ FixGrubSettings(r)
        \/ OnLoader("UPDATE_GRUB", r) /\ UpdateGrub(r)

Skip ==
    /\ \E a \in Actions :
          /\ level[a] = "pending"
          /\ DependenciesEnded(a)
          /\ FailedDependency(a)
          /\ level' = [level EXCEPT ![a] = "SKIP"]
    /\ UNCHANGED <<kernelVars, efiVars, nvram0>>

Init ==
    /\ KernelInit
    /\ release = major
    /\ EfiInit
    /\ nvram0 = nvram
    /\ \E r \in {"SUCCESS", "ERROR"} :
          level = [a \in Actions |-> IF a = "CONVERT_SYSTEM_PACKAGES" THEN r ELSE "pending"]

Next == KernelStep \/ LoaderStep \/ Skip

Spec == Init /\ [][Next]_bootVars

-----------------------------------------------------------------------------
(* Every variable has a value of its type. *)
TypeOK ==
    /\ KernelTypeOK
    /\ EfiTypeOK
    /\ level \in [Actions -> Levels \cup {"pending", "SKIP"}]

Over == \A a \in Actions : level[a] # "pending"

(* Nothing worse than a warning about something else than the boot path. *)
Clean == Over /\ \A a \in Actions :
            level[a] = "SUCCESS" \/ (a \in {"FIX_INVALID_GRUB2_ENTRIES", "FIX_DEFAULT_KERNEL",
                                            "REMOVE_EFI_CENTOS"} /\ level[a] = "WARNING")

(* Whatever fails or is refused, and in whatever order the Actions run, a  *)
(* kernel with a vmlinuz is installed - with one exception, which is named *)
(* here: from version 8 on REMOVE_NON_RHEL_KERNELS may take the only       *)
(* kernel-core away, when RHEL's package kernel was put over a core of the *)
(* original vendor and `yum install kernel-core`, whose exit status nobody *)
(* looks at, did nothing. A metapackage of RHEL is left then, and          *)
(* KERNEL_BOOT_FILES does not end without a warning.                       *)
KernelRemains ==
    \/ Cores # {}
    \/ /\ HasBls /\ RhelKernels # {}
       /\ level["REMOVE_NON_RHEL_KERNELS"] \notin {"pending", "SKIP"}
       /\ level["KERNEL_BOOT_FILES"] # "SUCCESS"

(* A conversion that reports no problem leaves only kernels of RHEL, the   *)
(* newest core with its boot files, only boot entries of installed         *)
(* kernels, one of them for the newest, and a firmware that starts the     *)
(* boot loader of RHEL with a configuration - this last unless an entry    *)
(* with RHEL's label and path was there before the conversion.             *)
CleanRunBoots ==
    Clean =>
       LET latest == Max(VersionsOf(Cores)) IN
       /\ OtherKernels = {} /\ Cores # {}
       /\ bootFiles[latest] = "ok"
       /\ [v |-> latest, here |-> TRUE] \in entries
       /\ \A e \in entries : e.v \in VersionsOf(Cores)
       /\ LoaderFindsGrub \/ IsRhelInBootEntries(nvram0)

(* The conversion takes a boot entry away only when its binary is gone or  *)
(* the entry that is now the first one starts the same binary, with the    *)
(* same exception.                                                         *)
UselessEntriesGo ==
    [][\A s \in Entries(nvram) \ Entries(nvram') :
          LET e == nvram.entries[s]
              first == nvram'.entries[Head(nvram'.order)]
          IN \/ ~BinaryExists(e.dir)
             \/ first.dir = e.dir /\ first.esp
             \/ IsRhelInBootEntries(nvram0)]_bootVars

-----------------------------------------------------------------------------
(* The inductive invariant behind the three properties.                    *)

Succeeded(a) == level[a] \in {"SUCCESS", "WARNING"}

(* An Action that did not fail follows others that did not. *)
InOrder ==
    /\ level \in [Actions -> Levels \cup {"pending", "SKIP"}]
    /\ \A a \in Actions : level[a] # "pending" => DependenciesEnded(a)
    /\ \A a \in Actions : Succeeded(a) => \A d \in Deps(a) : Succeeded(d)

(* Kernels are taken away when there is one of RHEL, and there is one when *)
(* INSTALL_RHEL_KERNEL succeeds. The last core goes from version 8 on only. *)
KernelsKept ==
    /\ kernels \subseteq Kernel /\ available \subseteq Versions
    /\ Succeeded("INSTALL_RHEL_KERNEL") => RhelKernels # {}
    /\ Cores = {} =>
          /\ HasBls /\ RhelKernels # {}
          /\ level["REMOVE_NON_RHEL_KERNELS"] \notin {"pending", "SKIP"}

(* Cores of RHEL come from its repositories. The core that was installed   *)
(* last is the one of RHEL, and the newest once the others are gone.       *)
NewestIsRhel ==
    /\ VersionsOf(RhelCores) \subseteq available
    /\ level["INSTALL_RHEL_KERNEL"] = "pending" /\ RhelKernels = {} => RhelCores = {}
    /\ ~Succeeded("REMOVE_NON_RHEL_KERNELS") => VersionsOf(RhelCores) \subseteq {newest}
    /\ Succeeded("REMOVE_NON_RHEL_KERNELS") =>
          /\ OtherKernels = {}
          /\ Cores # {} => newest \in VersionsOf(Cores)
          /\ \A v \in VersionsOf(Cores) : v <= newest
    /\ level["KERNEL_BOOT_FILES"] = "SUCCESS" =>
          /\ Cores # {}
          /\ newest \in VersionsOf(Cores) => bootFiles[newest] = "ok"

(* The entries of this machine-id are those of the installed cores.        *)
EntriesFollow ==
    /\ \A e \in entries : e.here \in BOOLEAN
    /\ \A e \in entries : e.here => e.v \in VersionsOf(Cores)
    /\ RhelCores # {} => [v |-> newest, here |-> TRUE] \in entries
    /\ ~HasBls \/ Succeeded("FIX_INVALID_GRUB2_ENTRIES") => \A e \in entries : e.here

KernelInv == InOrder /\ KernelsKept /\ NewestIsRhel /\ EntriesFollow

(* The firmware is as it was until its entry is replaced, and starts the   *)
(* loader of RHEL from then on.                                            *)
LoaderReplaced ==
    /\ nvram0 \in Nvrams
    /\ level["REPLACE_EFI_BOOT_ENTRY"] = "pending" => nvram = nvram0
    /\ level["REPLACE_EFI_BOOT_ENTRY"] = "SUCCESS" /\ efi /\ ~IsRhelInBootEntries(nvram0) =>
          /\ Len(nvram.order) \in Nat \ {0}
          /\ nvram.order[1] \in Slots
          /\ nvram.entries[nvram.order[1]] = RhelEntry
    /\ level["NEW_DEFAULT_EFI_BIN"] = "SUCCESS" /\ efi => BinaryExists("redhat")
    /\ level["UPDATE_GRUB"] = "SUCCESS" => RhelCfg \in files

BootInv == KernelInv /\ LoaderReplaced
=============================================================================
