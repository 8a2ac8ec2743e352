------------------------------ MODULE Kernels ------------------------------
(***************************************************************************)
(* The kernels of a system that is past the point of no return: the        *)
(* packages, their files under /boot, their boot loader entries, and what  *)
(* each Action on kernels does to them.                                    *)
(*                                                                         *)
(* An operator named after an Action holds for a step that ends with the   *)
(* level r.  The exit status of `yum install` and `yum update` is not      *)
(* looked at: Try(v) allows such a call to do nothing.                     *)
(***************************************************************************)
EXTENDS Naturals, FiniteSets, FiniteSetsExt

CONSTANT Versions   \* versions of kernel packages, as numbers

ASSUME VersionsAssumption == Versions \in SUBSET Nat /\ IsFiniteSet(Versions)

VARIABLES
    major,      \* major version of the system, 2 for Amazon Linux 2
    available,  \* versions of the kernel in the RHEL repositories
    kernels,    \* installed packages: [name, v: version, rhel: signed by Red Hat]
    bootFiles,  \* [Versions -> "none", "ok" or "bad"]: vmlinuz and initramfs
    entries,    \* boot loader entries: [v: version, here: named by the machine-id]
    newest,     \* the kernel whose files were installed last (rpm -q --last)
    sysconfig   \* DEFAULTKERNEL: "missing", "uek" or "kernel"

kernelVars == <<major, available, kernels, bootFiles, entries, newest, sysconfig>>

Kernel == [name : {"kernel", "kernel-core"}, v : Versions, rhel : BOOLEAN]

(* Boot entries are files named after the machine-id from version 8 on. *)
HasBls == major >= 8

(* From version 8 on `kernel` is a metapackage: vmlinuz, initramfs and the *)
(* boot entry come with the package kernel-core.                           *)
CoreName == IF HasBls THEN "kernel-core" ELSE "kernel"

CoresOf(ks) == {k \in ks : k.name = CoreName}
Cores == CoresOf(kernels)
VersionsOf(ks) == {k.v : k \in ks}
KernelVersions(ks) == {k.v : k \in {p \in ks : p.name = "kernel"}}

RhelPackages == {k \in kernels : k.rhel}
OtherKernels == kernels \ RhelPackages
RhelKernels == {k \in RhelPackages : k.name = "kernel"}
RhelCores == {k \in RhelPackages : k.name = CoreName}

-----------------------------------------------------------------------------
(* What is left of files and entries when the packages `from` are.         *)
BootFilesOf(from) ==
    [v \in Versions |-> IF v \in VersionsOf(CoresOf(from)) THEN bootFiles[v] ELSE "none"]
EntriesOf(from) == {e \in entries : e.here => e.v \in VersionsOf(CoresOf(from))}

KeepKernels(from) ==
    /\ kernels' = from
    /\ bootFiles' = BootFilesOf(from)
    /\ entries' = EntriesOf(from)
    /\ UNCHANGED newest

(* Packages of RHEL with these names take the place of any with the same   *)
(* name and version. The core brings the boot files and the entry; its     *)
(* initramfs may be missing or corrupt, for instance with a full /boot.    *)
InstallPackages(from, names, v) ==
    /\ kernels' = {k \in from : k.v # v \/ k.name \notin names}
                    \cup [name : names, v : {v}, rhel : {TRUE}]
    /\ IF CoreName \in names
       THEN /\ \E f \in {"ok", "bad"} : bootFiles' = [BootFilesOf(from) EXCEPT ![v] = f]
            /\ entries' = EntriesOf(from) \cup {[v |-> v, here |-> TRUE]}
            /\ newest' = v
       ELSE /\ bootFiles' = BootFilesOf(from)
            /\ entries' = EntriesOf(from)
            /\ UNCHANGED newest

(* kernel-<v> of RHEL. A core of that version, whoever has signed it, is   *)
(* what the metapackage needs: it stays.                                   *)
InstallKernel(from, v) ==
    InstallPackages(from, {"kernel"} \cup (IF HasBls /\ v \in VersionsOf(CoresOf(from))
                                            THEN {} ELSE {CoreName}), v)

(* yum install kernel-<v> with the packages `from` on the system. *)
Try(from, v) ==
    \/ v \in available \ KernelVersions(from) /\ InstallKernel(from, v)
    \/ KeepKernels(from)

Unchanged == UNCHANGED <<kernels, bootFiles, entries, newest>>

WithoutKernel(v) == {k \in kernels : k.name = "kernel" => k.v # v}

(* Mutant: removes the only kernel before it installs *)
(* another one.                                                            *)
HandleNoNewerRhelKernel_Removes(raises) ==
    \E all \in SUBSET available :
       LET toInstall == all \ KernelVersions(kernels)
       IN \/ toInstall # {} /\ ~raises /\ Try(kernels, Max(toInstall))
          \/ /\ toInstall = {} /\ all # {} /\ ~raises
             /\ Try(WithoutKernel(Max(all)), Max(all))
          \/ toInstall = {} /\ raises /\ Unchanged

(* handle_no_newer_rhel_kernel_available. `yum list` tells versions, not   *)
(* vendors: a version of RHEL equal to one installed counts as installed.  *)
(* The exit status of the call is not looked at: it may list nothing, or   *)
(* not all that is available. One of several kernels is removed before it  *)
(* is installed again, the only one is replaced by rpm.                    *)
(* It raises when a list that is needed is empty, a package cannot be      *)
(* removed, the user does not want the only kernel to be replaced, or the  *)
(* replacement cannot be downloaded or installed.                          *)
HandleNoNewerRhelKernel(raises) ==
    \E installed \in {KernelVersions(kernels), {}}, all \in SUBSET available :
       LET toInstall == all \ installed
       IN /\ installed = {} => all = {}
          /\ \/ toInstall # {} /\ ~raises /\ Try(kernels, Max(toInstall))
             \/ /\ toInstall = {} /\ Cardinality(installed) > 1 /\ all # {} /\ ~raises
                /\ Try(WithoutKernel(Max(all)), Max(all))
             \/ /\ toInstall = {} /\ Cardinality(installed) = 1 /\ ~raises
                /\ \E v \in installed \cap available : InstallKernel(kernels, v)
             \/ toInstall = {} /\ raises /\ Unchanged

(* INSTALL_RHEL_KERNEL looks at the packages named kernel only. *)
InstallRhelKernel(r) ==
    /\ IF RhelKernels # {}
       THEN Unchanged /\ r = "SUCCESS"
       ELSE \E raises \in BOOLEAN :
               /\ HandleNoNewerRhelKernel(raises)
               /\ r = IF raises \/ \A k \in kernels' : k.name = "kernel" => ~k.rhel
                      THEN "ERROR" ELSE "SUCCESS"
    /\ UNCHANGED <<major, available, sysconfig>>

(* Mutant: does not look whether they were removed. *)
RemoveNonRhelKernels_Silent(r) ==
    /\ \E kept \in {{}, OtherKernels} : KeepKernels(RhelPackages \cup kept)
    /\ r = "SUCCESS"
    /\ UNCHANGED <<major, available, sysconfig>>

(* install_additional_rhel_kernel_pkgs: `yum install` of the name of every *)
(* package removed but kernel, which with kernel-core means the newest one *)
(* there is. Nobody looks whether it did anything.                         *)
InstallAdditionalRhelKernelPkgs(left) ==
    \/ KeepKernels(left)
    \/ /\ HasBls /\ CoresOf(OtherKernels) # {}
       /\ available # {}
       /\ Max(available) \notin VersionsOf(CoresOf(left))
       /\ InstallPackages(left, {CoreName}, Max(available))

(* REMOVE_NON_RHEL_KERNELS takes every package kernel* that is not of      *)
(* RHEL. rpm may fail on some of them, and nothing is installed then.      *)
RemoveNonRhelKernels(r) ==
    /\ \E kept \in SUBSET OtherKernels :
          \/ kept # {} /\ r = "ERROR" /\ KeepKernels(RhelPackages \cup kept)
          \/ kept = {} /\ r = "SUCCESS" /\ InstallAdditionalRhelKernelPkgs(RhelPackages)
    /\ UNCHANGED <<major, available, sysconfig>>

(* The entries with another machine-id go, or some of them when a file     *)
(* cannot be read or removed. What grubby answers about the default entry  *)
(* is worth a warning at most.                                             *)
FixInvalidGrub2Entries(r) ==
    /\ IF HasBls
       THEN \E left \in SUBSET {e \in entries : ~e.here} :
               /\ entries' = {e \in entries : e.here} \cup left
               /\ r \in IF left = {} THEN {"SUCCESS", "WARNING", "ERROR"} ELSE {"ERROR"}
       ELSE r = "SUCCESS" /\ UNCHANGED entries
    /\ UNCHANGED <<major, available, kernels, bootFiles, newest, sysconfig>>

FixDefaultKernel(r) ==
    /\ sysconfig' = "kernel"
    /\ r = IF sysconfig = "kernel" THEN "SUCCESS" ELSE "WARNING"
    /\ UNCHANGED <<major, available, kernels, bootFiles, entries, newest>>

(* UPDATE_KERNEL: `yum update kernel`. *)
UpdateKernel(r) ==
    /\ \/ /\ \E v \in available : \A w \in KernelVersions(kernels) : v > w
          /\ InstallKernel(kernels, Max(available))
       \/ Unchanged
    /\ r = "SUCCESS"
    /\ UNCHANGED <<major, available, sysconfig>>

(* There are a vmlinuz and an initramfs that lsinitrd can read.            *)
BootFilesAreValid(v) == bootFiles[v] = "ok"

(* The core that rpm says was installed last: `newest`, one of the others  *)
(* when that one is gone, none when there is no core.                      *)
LatestInstalled ==
    {v \in VersionsOf(Cores) : newest \in VersionsOf(Cores) => v = newest}

(* KERNEL_BOOT_FILES. Without any core it looks for files nobody has. *)
KernelBootFiles(r) ==
    /\ \/ r = "SUCCESS" /\ \E v \in LatestInstalled : BootFilesAreValid(v)
       \/ r = "WARNING" /\ \E v \in LatestInstalled : ~BootFilesAreValid(v)
       \/ r = "WARNING" /\ LatestInstalled = {}
    /\ UNCHANGED kernelVars

-----------------------------------------------------------------------------
(* kernel-<v> of one vendor, with its core. *)
PackagesOf(vs, rhel) == [name : {"kernel", CoreName}, v : vs, rhel : {rhel}]

(* The system as the replacement of the packages has left it: kernels of   *)
(* the original vendor, and perhaps the newest one of RHEL as well. The    *)
(* machine-id may have changed since the original ones were installed.     *)
KernelInit ==
    /\ major \in {2, 7, 8, 9}
    /\ available \in SUBSET Versions
    /\ sysconfig \in {"missing", "uek", "kernel"}
    /\ \E orig \in (SUBSET Versions) \ {{}}, new \in SUBSET available, here \in BOOLEAN :
          /\ new \in {{}, {Max(available \cup {0})}}
          /\ new \cap orig = {}
          /\ ~here => major >= 8
          /\ kernels = PackagesOf(orig, FALSE) \cup PackagesOf(new, TRUE)
          /\ entries = [v : orig, here : {here}] \cup [v : new, here : {TRUE}]
          /\ newest = Max(IF new = {} THEN orig ELSE new)
          /\ bootFiles \in [Versions -> {"none", "ok", "bad"}]
          /\ \A v \in Versions : bootFiles[v] \in
                 CASE v \in orig -> {"ok"} [] v \in new -> {"ok", "bad"} [] OTHER -> {"none"}

KernelTypeOK ==
    /\ kernels \subseteq Kernel
    /\ bootFiles \in [Versions -> {"none", "ok", "bad"}]
    /\ entries \subseteq [v : Versions, here : BOOLEAN]
    /\ newest \in Versions
    /\ available \subseteq Versions
    /\ sysconfig \in {"missing", "uek", "kernel"}
=============================================================================
