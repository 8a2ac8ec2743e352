---------------------------- MODULE BootPath_proofs ----------------------------
(***************************************************************************)
(* For any versions of the kernel and any firmware: a kernel with its      *)
(* files remains but for one case that is named, a conversion that reports *)
(* no problem boots RHEL, and only boot entries that serve nothing are     *)
(* taken away.                                                             *)
(*                                                                         *)
(* InOrder says that an Action that did not fail follows others that did   *)
(* not.  On it rest the three parts about the kernels (KernelsKept,        *)
(* NewestIsRhel, EntriesFollow), one step per Action on kernels, and the   *)
(* one about the firmware (LoaderReplaced).                                *)
(***************************************************************************)
EXTENDS BootPath, FiniteSetTheorems, WellFoundedInduction, TLAPS

-----------------------------------------------------------------------------
(* Least and greatest elements. *)

(* Every set of naturals has a least element. *)
LEMMA LeastExists ==
  ASSUME NEW S \in SUBSET Nat, S # {}
  PROVE  \E x \in S : \A y \in S : x =< y
<1>1. PICK n \in S : n \in Nat
  OBVIOUS
<1> DEFINE Below(k) == {y \in S : y =< k}
           Cuts == {Below(k) : k \in Below(n)}
<1>2. \A k \in Below(n) : Below(k) \in FiniteSubsetsOf(S)
  <2> SUFFICES ASSUME NEW k \in Below(n) PROVE Below(k) \in FiniteSubsetsOf(S)
    OBVIOUS
  <2>1. Below(k) \in SUBSET Nat /\ k \in Nat /\ \A s \in Below(k) : s =< k
    OBVIOUS
  <2>2. IsFiniteSet(Below(k))
    BY <2>1, FS_BoundedSetOfNaturals
  <2>3. QED
    BY <2>2 DEF FiniteSubsetsOf
<1>3. Cuts \subseteq FiniteSubsetsOf(S) /\ Below(n) \in Cuts
  BY <1>1, <1>2
<1>4. PICK T \in Cuts : \A U \in Cuts : <<U, T>> \notin StrictSubsetOrdering(S)
  <2> HIDE DEF Cuts
  <2>1. QED
    BY <1>3, FS_StrictSubsetOrderingWellFounded, WFMin
<1>5. PICK k \in Below(n) : T = Below(k)
  OBVIOUS
<1>6. ASSUME NEW y \in S, y < k PROVE FALSE
  <2>1. y \in Nat /\ k \in Nat /\ y =< n /\ k =< n /\ n \in Nat
    BY <1>1, <1>6
  <2>2. Below(y) \in Cuts
    BY <1>6, <2>1
  <2>3. Below(y) \subseteq Below(k) /\ k \in Below(k) /\ k \notin Below(y)
    <3>1. \A z \in S : z =< y => z =< k
      BY <1>6, <2>1
    <3>2. k \in S /\ k =< k /\ ~(k =< y)
      BY <1>6, <2>1
    <3> HIDE DEF Cuts
    <3>3. QED
      BY <3>1, <3>2, Zenon
  <2>4. Below(y) \in SUBSET S /\ Below(k) \in SUBSET S
    OBVIOUS
  <2> HIDE DEF Below, Cuts
  <2>5. QED
    BY <1>4, <1>5, <2>2, <2>3, <2>4 DEF StrictSubsetOrdering
<1>7. QED
  BY <1>6

(* Min is that element. *)
LEMMA MinIsLeast ==
  ASSUME NEW S \in SUBSET Nat, S # {}
  PROVE  Min(S) \in S /\ \A y \in S : Min(S) =< y
BY LeastExists DEF Min

(* A finite set of naturals has a greatest element: a smallest subset without *)
(* one would lose an element and still have none.                             *)
LEMMA GreatestExists ==
  ASSUME NEW S \in SUBSET Nat, S # {}, IsFiniteSet(S)
  PROVE  \E x \in S : \A y \in S : x >= y
<1> DEFINE Unbounded == {T \in SUBSET S : T # {} /\ ~\E x \in T : \A y \in T : x >= y}
<1> SUFFICES ASSUME Unbounded # {} PROVE FALSE
  OBVIOUS
<1>1. Unbounded \subseteq FiniteSubsetsOf(S)
  BY FS_Subset DEF FiniteSubsetsOf
<1>2. PICK T \in Unbounded : \A U \in Unbounded : <<U, T>> \notin StrictSubsetOrdering(S)
  BY <1>1, FS_StrictSubsetOrderingWellFounded, WFMin
<1>3. PICK x \in T : TRUE
  OBVIOUS
<1>4. T \ {x} \notin Unbounded
  BY <1>2, <1>3 DEF StrictSubsetOrdering
<1>5. CASE T \ {x} = {}
  BY <1>3, <1>5
<1>6. CASE T \ {x} # {}
  <2>1. PICK m \in T \ {x} : \A y \in T \ {x} : m >= y
    BY <1>4, <1>6
  <2>2. m \in Nat /\ x \in Nat
    BY <1>3, <2>1
  <2>3. CASE m >= x
    BY <2>1, <2>2, <2>3
  <2>4. CASE x > m
    BY <1>3, <2>1, <2>2, <2>4
  <2>5. QED
    BY <2>2, <2>3, <2>4
<1>7. QED
  BY <1>5, <1>6

(* Max is that element. *)
LEMMA MaxIsGreatest ==
  ASSUME NEW S \in SUBSET Nat, S # {}, IsFiniteSet(S)
  PROVE  Max(S) \in S /\ \A y \in S : Max(S) >= y
BY GreatestExists DEF Max

-----------------------------------------------------------------------------
(* The Actions and their order                                              *)

(* The Actions of the model. *)
LEMMA ActionsAre ==
  Actions = {"CONVERT_SYSTEM_PACKAGES", "INSTALL_RHEL_KERNEL", "REMOVE_NON_RHEL_KERNELS",
             "FIX_INVALID_GRUB2_ENTRIES", "FIX_DEFAULT_KERNEL", "UPDATE_KERNEL",
             "NEW_DEFAULT_EFI_BIN", "EFIBOOTMGR_UTILITY_INSTALLED", "MOVE_GRUB_FILES",
             "REMOVE_EFI_CENTOS", "REPLACE_EFI_BOOT_ENTRY", "FIX_GRUB_SETTINGS_ON_AL2",
             "UPDATE_GRUB", "KERNEL_BOOT_FILES"}
BY DEF Actions, PostActions, PostDeps, ConversionDeps

(* What the Actions on kernels depend on. *)
LEMMA DepsAre ==
  /\ Deps("INSTALL_RHEL_KERNEL") = {"CONVERT_SYSTEM_PACKAGES"}
  /\ Deps("REMOVE_NON_RHEL_KERNELS") = {"INSTALL_RHEL_KERNEL"}
  /\ Deps("UPDATE_KERNEL") = {"REMOVE_NON_RHEL_KERNELS"}
  /\ Deps("FIX_INVALID_GRUB2_ENTRIES") = {"REMOVE_NON_RHEL_KERNELS"}
BY DEF Deps, PostActions, PostDeps, ConversionDeps

(* An Action that ends, ends for good, after those it depends on. *)
LEMMA InOrderStep == InOrder /\ [Next]_bootVars => InOrder'
<1> SUFFICES ASSUME InOrder, [Next]_bootVars PROVE InOrder'
  OBVIOUS
<1>1. \A a \in Actions : Deps(a) \subseteq Actions
  BY ActionsAre DEF Deps, PostActions, PostDeps, ConversionDeps
<1>2. DOMAIN ConversionDeps \subseteq Actions
  BY DEF Actions
<1>3. ASSUME NEW a \in Actions, NEW r \in Levels \cup {"SKIP"},
             level[a] = "pending", DependenciesEnded(a), level' = [level EXCEPT ![a] = r],
             r # "SKIP" => ~FailedDependency(a)
      PROVE  InOrder'
  <2>1. /\ level' \in [Actions -> Levels \cup {"pending", "SKIP"}]
        /\ level'[a] = r
        /\ \A b \in Actions \ {a} : level'[b] = level[b]
    BY <1>3 DEF InOrder
  <2>2. \A b \in Actions : level[b] # "pending" => level'[b] = level[b]
    BY <1>3, <2>1
  <2>3. \A b \in Actions : DependenciesEnded(b) => DependenciesEnded(b)'
    BY <1>1, <1>2, <2>2 DEF DependenciesEnded, ConversionEnded
  <2>4. (\A b \in Actions : level[b] # "pending" => DependenciesEnded(b))'
    BY <1>3, <2>1, <2>3 DEF InOrder
  <2>5. (\A b \in Actions : Succeeded(b) => \A d \in Deps(b) : Succeeded(d))'
    <3> SUFFICES ASSUME NEW b \in Actions, Succeeded(b)', NEW d \in Deps(b) PROVE Succeeded(d)'
      OBVIOUS
    <3>1. Succeeded(d)
      <4>1. CASE b = a
        BY <1>1, <1>3, <2>1, <4>1 DEF Succeeded, FailedDependency, DependenciesEnded, InOrder, Levels
      <4>2. CASE b # a
        BY <2>1, <4>2 DEF Succeeded, InOrder
      <4>3. QED
        BY <4>1, <4>2
    <3>2. QED
      BY <1>1, <2>2, <3>1 DEF Succeeded
  <2>6. QED
    BY <2>1, <2>4, <2>5 DEF InOrder
<1>4. ASSUME NEW a \in Actions, NEW r \in Levels, Ends(a, r) PROVE InOrder'
  BY <1>3, <1>4 DEF Ends
<1>5. CASE KernelStep
  BY <1>4, <1>5, ActionsAre DEF KernelStep, OnKernels
<1>6. CASE LoaderStep
  BY <1>4, <1>6, ActionsAre DEF LoaderStep, OnLoader
<1>7. CASE Skip
  BY <1>3, <1>7 DEF Skip
<1>8. CASE UNCHANGED bootVars
  BY <1>8 DEF bootVars, InOrder, DependenciesEnded, ConversionEnded, Succeeded
<1>9. QED
  BY <1>5, <1>6, <1>7, <1>8 DEF Next

-----------------------------------------------------------------------------
(* The kernels                                                              *)

(* More than one version is more than any one version. *)
LEMMA TwoVersions ==
  ASSUME NEW S, IsFiniteSet(S), Cardinality(S) > 1, NEW m
  PROVE  \E x \in S : x # m
<1> SUFFICES ASSUME S \subseteq {m} PROVE FALSE
  OBVIOUS
<1>1. IsFiniteSet({m}) /\ Cardinality({m}) = 1
  BY FS_Singleton
<1>2. Cardinality(S) \in Nat /\ Cardinality(S) <= 1
  BY <1>1, FS_Subset, FS_CardinalityType
<1>3. QED
  BY <1>2

(* Versions are naturals, finitely many of them. *)
LEMMA VersionsAreNat ==
  ASSUME NEW ks \in SUBSET Kernel
  PROVE  /\ VersionsOf(ks) \in SUBSET Versions /\ KernelVersions(ks) \in SUBSET Versions
         /\ VersionsOf(ks) \subseteq Nat
         /\ IsFiniteSet(VersionsOf(ks)) /\ IsFiniteSet(KernelVersions(ks))
<1>1. VersionsOf(ks) \in SUBSET Versions /\ KernelVersions(ks) \in SUBSET Versions
  BY DEF VersionsOf, KernelVersions, Kernel
<1>2. \A S \in SUBSET Versions : IsFiniteSet(S) /\ S \subseteq Nat
  BY VersionsAssumption, FS_Subset
<1>3. QED
  BY <1>1, <1>2

(* The newest of some versions is one of them. *)
LEMMA MaxOfVersions ==
  ASSUME NEW S \in SUBSET Versions, S # {}
  PROVE  Max(S) \in S /\ Max(S) \in Nat /\ \A v \in S : v <= Max(S)
<1>1. S \in SUBSET Nat /\ IsFiniteSet(S)
  BY VersionsAssumption, FS_Subset
<1> DEFINE m == Max(S)
<1>2. m \in S /\ \A v \in S : m >= v
  BY <1>1, MaxIsGreatest
<1> HIDE DEF m
<1>3. m \in S /\ m \in Nat /\ \A v \in S : v <= m
  BY <1>1, <1>2
<1>4. QED
  BY <1>3 DEF m

(* handle_no_newer_rhel_kernel_available() installs a kernel of RHEL in      *)
(* place of one with its version, or removes one of several, or nothing.     *)
LEMMA HandleOutcome ==
  ASSUME kernels \subseteq Kernel, available \subseteq Versions,
         NEW raises, HandleNoNewerRhelKernel(raises)
  PROVE  \/ Unchanged
         \/ \E v \in Versions :
               /\ KeepKernels(WithoutKernel(v))
               /\ \E w \in KernelVersions(kernels) : w # v
         \/ \E v \in available :
               \/ InstallKernel(kernels, v)
               \/ InstallKernel(WithoutKernel(v), v)
         \/ KeepKernels(kernels)
<1>1. PICK installed \in {KernelVersions(kernels), {}}, all \in SUBSET available :
          LET toInstall == all \ installed
          IN \/ toInstall # {} /\ Try(kernels, Max(toInstall))
             \/ /\ toInstall = {} /\ Cardinality(installed) > 1 /\ all # {}
                /\ Try(WithoutKernel(Max(all)), Max(all))
             \/ \E v \in installed \cap available : InstallKernel(kernels, v)
             \/ Unchanged
  BY DEF HandleNoNewerRhelKernel
<1>2. IsFiniteSet(installed)
  BY VersionsAreNat, FS_EmptySet
<1>3. CASE all \ installed # {} /\ Try(kernels, Max(all \ installed))
  <2>1. Max(all \ installed) \in available
    BY <1>3, MaxOfVersions
  <2>2. QED
    BY <1>3, <2>1 DEF Try
<1>4. CASE /\ Cardinality(installed) > 1 /\ all # {}
           /\ Try(WithoutKernel(Max(all)), Max(all))
  <2>1. Max(all) \in available /\ Max(all) \in Versions
    BY <1>4, MaxOfVersions
  <2>2. \E w \in installed : w # Max(all)
    BY <1>2, <1>4, TwoVersions
  <2>3. \E w \in KernelVersions(kernels) : w # Max(all)
    BY <2>2
  <2>4. QED
    BY <1>4, <2>1, <2>3 DEF Try
<1>5. QED
  BY <1>1, <1>3, <1>4

(* What the installation of packages leaves. *)
LEMMA InstallOutcome ==
  ASSUME NEW from \in SUBSET Kernel, NEW v \in Versions,
         NEW names \in SUBSET {"kernel", "kernel-core"}, InstallPackages(from, names, v),
         UNCHANGED major
  PROVE  /\ kernels' \subseteq Kernel
         /\ \A n \in names : [name |-> n, v |-> v, rhel |-> TRUE] \in kernels'
         /\ \A k \in kernels' : k \in from \/ (k.name \in names /\ k.v = v /\ k.rhel)
         /\ \A k \in from : k.rhel => k \in kernels'
         /\ VersionsOf(CoresOf(from)) \subseteq VersionsOf(Cores')
         /\ CoreName \in names => v \in VersionsOf(Cores')
         /\ IF CoreName \in names
            THEN newest' = v /\ entries' = EntriesOf(from) \cup {[v |-> v, here |-> TRUE]}
            ELSE newest' = newest /\ entries' = EntriesOf(from)
<1>1. kernels' = {k \in from : k.v # v \/ k.name \notin names}
                    \cup [name : names, v : {v}, rhel : {TRUE}]
  BY DEF InstallPackages
<1>2. \A k \in [name : names, v : {v}, rhel : {TRUE}] :
         k \in Kernel /\ k.name \in names /\ k.v = v /\ k.rhel
  BY DEF Kernel
<1>3. \A n \in names : [name |-> n, v |-> v, rhel |-> TRUE] \in kernels'
  BY <1>1
<1>4. kernels' \subseteq Kernel
      /\ \A k \in kernels' : k \in from \/ (k.name \in names /\ k.v = v /\ k.rhel)
  BY <1>1, <1>2
<1>5. ASSUME NEW k \in from
      PROVE  k \in kernels' \/ (k.name \in names /\ k.v = v)
  BY <1>1
<1>6. ASSUME NEW k \in from, k.rhel PROVE k \in kernels'
  <2>1. CASE k.name \in names /\ k.v = v
    <3>1. k = [name |-> k.name, v |-> k.v, rhel |-> TRUE]
      BY <1>6 DEF Kernel
    <3>2. QED
      BY <1>3, <2>1, <3>1
  <2>2. QED
    BY <1>5, <2>1
<1>7. CoreName' = CoreName
  BY DEF CoreName, HasBls
<1>8. CoreName \in names => v \in VersionsOf(Cores')
  <2> SUFFICES ASSUME CoreName \in names PROVE \E k \in kernels' : k.name = CoreName /\ k.v = v
    BY <1>7 DEF Cores, CoresOf, VersionsOf
  <2> DEFINE new == [name |-> CoreName, v |-> v, rhel |-> TRUE]
  <2>1. new \in kernels' /\ new.name = CoreName /\ new.v = v
    BY <1>3
  <2>2. QED
    BY <2>1
<1>9. ASSUME NEW w \in VersionsOf(CoresOf(from)) PROVE w \in VersionsOf(Cores')
  <2>1. PICK k \in from : k.name = CoreName /\ k.v = w
    BY <1>9 DEF VersionsOf, CoresOf
  <2>2. CASE k \in kernels'
    BY <1>7, <2>1, <2>2 DEF Cores, CoresOf, VersionsOf
  <2>3. QED
    BY <1>5, <1>8, <2>1, <2>2
<1>10. IF CoreName \in names
       THEN newest' = v /\ entries' = EntriesOf(from) \cup {[v |-> v, here |-> TRUE]}
       ELSE newest' = newest /\ entries' = EntriesOf(from)
  BY DEF InstallPackages
<1>11. QED
  BY <1>3, <1>4, <1>6, <1>8, <1>9, <1>10

(* Entries of this machine-id whose core stays. *)
LEMMA EntriesKept ==
  ASSUME NEW from, NEW n, NEW e \in EntriesOf(from) \cup {[v |-> n, here |-> TRUE]}
  PROVE  \/ e \in entries /\ (e.here => e.v \in VersionsOf(CoresOf(from)))
         \/ e.here = TRUE /\ e.v = n
BY DEF EntriesOf

(* What kernel-<v> of RHEL brings: the package, and a core of that version. *)
LEMMA KernelOutcome ==
  ASSUME NEW from \in SUBSET Kernel, NEW v \in Versions, InstallKernel(from, v), UNCHANGED major
  PROVE  /\ kernels' \subseteq Kernel
         /\ RhelKernels' # {}
         /\ \A k \in kernels' : k \in from \/ (k.v = v /\ k.rhel)
         /\ VersionsOf(CoresOf(from)) \subseteq VersionsOf(Cores')
         /\ v \in VersionsOf(Cores')
         /\ \/ /\ newest' = v /\ entries' = EntriesOf(from) \cup {[v |-> v, here |-> TRUE]}
            \/ /\ HasBls /\ v \in VersionsOf(CoresOf(from))
               /\ newest' = newest /\ entries' = EntriesOf(from)
               /\ \A k \in Cores' : k \in from
<1>1. PICK names \in {{"kernel"}, {"kernel", CoreName}} :
         /\ InstallPackages(from, names, v)
         /\ names = {"kernel"} => (HasBls /\ v \in VersionsOf(CoresOf(from))) \/ CoreName = "kernel"
  BY DEF InstallKernel
<1>2. CoreName \in {"kernel", "kernel-core"} /\ CoreName' = CoreName
      /\ (CoreName = "kernel-core" <=> HasBls)
  BY DEF CoreName, HasBls
<1>3. names \in SUBSET {"kernel", "kernel-core"} /\ "kernel" \in names
  BY <1>2
<1>4. /\ kernels' \subseteq Kernel
      /\ [name |-> "kernel", v |-> v, rhel |-> TRUE] \in kernels'
      /\ \A k \in kernels' : k \in from \/ (k.name \in names /\ k.v = v /\ k.rhel)
      /\ VersionsOf(CoresOf(from)) \subseteq VersionsOf(Cores')
      /\ CoreName \in names => v \in VersionsOf(Cores')
      /\ IF CoreName \in names
         THEN newest' = v /\ entries' = EntriesOf(from) \cup {[v |-> v, here |-> TRUE]}
         ELSE newest' = newest /\ entries' = EntriesOf(from)
  BY <1>1, <1>3, InstallOutcome
<1>5. RhelKernels' # {}
  <2> DEFINE new == [name |-> "kernel", v |-> v, rhel |-> TRUE]
  <2>1. new \in kernels' /\ new.name = "kernel" /\ new.rhel
    BY <1>4
  <2>2. QED
    BY <2>1 DEF RhelKernels, RhelPackages
<1>6. CASE CoreName \in names
  BY <1>4, <1>5, <1>6
<1>7. CASE CoreName \notin names
  <2>1. HasBls /\ v \in VersionsOf(CoresOf(from))
    BY <1>1, <1>2, <1>3, <1>7
  <2>2. \A k \in Cores' : k \in from
    BY <1>2, <1>4, <1>7 DEF Cores, CoresOf
  <2>3. QED
    BY <1>4, <1>5, <1>7, <2>1, <2>2
<1>8. QED
  BY <1>6, <1>7

(* What an Action that leaves the kernels alone keeps. *)
KernelFrame ==
  /\ UNCHANGED <<major, available, kernels, bootFiles, entries, newest>>
  /\ \A a \in {"INSTALL_RHEL_KERNEL", "REMOVE_NON_RHEL_KERNELS", "FIX_INVALID_GRUB2_ENTRIES"} :
        Succeeded(a)' => Succeeded(a)
  /\ Succeeded("REMOVE_NON_RHEL_KERNELS") => Succeeded("REMOVE_NON_RHEL_KERNELS")'
  /\ level'["INSTALL_RHEL_KERNEL"] = "pending" => level["INSTALL_RHEL_KERNEL"] = "pending"
  /\ level["REMOVE_NON_RHEL_KERNELS"] # "pending" =>
        level'["REMOVE_NON_RHEL_KERNELS"] = level["REMOVE_NON_RHEL_KERNELS"]
  /\ level'["KERNEL_BOOT_FILES"] = "SUCCESS" =>
        \/ level["KERNEL_BOOT_FILES"] = "SUCCESS"
        \/ Cores # {} /\ (newest \in VersionsOf(Cores) => bootFiles[newest] = "ok")

(* Such an Action preserves what is said of kernels. *)
LEMMA KernelFrameStep ==
  ASSUME KernelInv, KernelFrame
  PROVE  KernelsKept' /\ NewestIsRhel' /\ EntriesFollow'
<1>1. /\ HasBls' = HasBls /\ Cores' = Cores /\ RhelKernels' = RhelKernels
      /\ RhelCores' = RhelCores /\ OtherKernels' = OtherKernels
      /\ VersionsOf(Cores)' = VersionsOf(Cores) /\ VersionsOf(RhelCores)' = VersionsOf(RhelCores)
  BY DEF KernelFrame, HasBls, CoreName, Cores, CoresOf, RhelKernels, RhelCores, RhelPackages,
         OtherKernels, VersionsOf
<1>2. KernelsKept'
  BY <1>1 DEF KernelInv, KernelFrame, KernelsKept
<1>3. NewestIsRhel'
  BY <1>1 DEF KernelInv, KernelFrame, NewestIsRhel
<1>4. EntriesFollow'
  BY <1>1 DEF KernelInv, KernelFrame, EntriesFollow
<1>5. QED
  BY <1>2, <1>3, <1>4

(* While an Action of the conversion runs, those that follow it wait. *)
LEMMA Waiting ==
  ASSUME InOrder, NEW a \in DOMAIN ConversionDeps, level[a] = "pending"
  PROVE  /\ \A b \in Actions : a \in Deps(b) => level[b] = "pending"
         /\ level["KERNEL_BOOT_FILES"] = "pending" /\ level["UPDATE_GRUB"] = "pending"
<1>1. "KERNEL_BOOT_FILES" \in PostActions /\ "UPDATE_GRUB" \in PostActions
  BY DEF PostActions, PostDeps
<1>2. QED
  BY <1>1, ActionsAre DEF InOrder, DependenciesEnded, ConversionEnded

(* The Actions of the stage Conversion. *)
LEMMA ConversionActions ==
  DOMAIN ConversionDeps =
    {"INSTALL_RHEL_KERNEL", "REMOVE_NON_RHEL_KERNELS", "FIX_INVALID_GRUB2_ENTRIES",
     "FIX_DEFAULT_KERNEL", "UPDATE_KERNEL", "NEW_DEFAULT_EFI_BIN",
     "EFIBOOTMGR_UTILITY_INSTALLED", "MOVE_GRUB_FILES", "REMOVE_EFI_CENTOS",
     "REPLACE_EFI_BOOT_ENTRY"}
BY DEF ConversionDeps

(* INSTALL_RHEL_KERNEL *)
LEMMA InstallStep ==
  ASSUME KernelInv, NEW r \in Levels, Ends("INSTALL_RHEL_KERNEL", r), InstallRhelKernel(r)
  PROVE  KernelsKept' /\ NewestIsRhel' /\ EntriesFollow'
<1>1. /\ level["INSTALL_RHEL_KERNEL"] = "pending" /\ level["REMOVE_NON_RHEL_KERNELS"] = "pending"
      /\ level["UPDATE_KERNEL"] = "pending" /\ level["FIX_INVALID_GRUB2_ENTRIES"] = "pending"
      /\ level["KERNEL_BOOT_FILES"] = "pending"
  BY Waiting, ConversionActions, ActionsAre, DepsAre DEF Ends, KernelInv
<1>2. /\ level'["INSTALL_RHEL_KERNEL"] = r /\ level'["REMOVE_NON_RHEL_KERNELS"] = "pending"
      /\ level'["UPDATE_KERNEL"] = "pending" /\ level'["FIX_INVALID_GRUB2_ENTRIES"] = "pending"
      /\ level'["KERNEL_BOOT_FILES"] = "pending"
  BY <1>1, ActionsAre DEF Ends, KernelInv, InOrder
<1>3. Succeeded("INSTALL_RHEL_KERNEL")' => RhelKernels' # {}
  <2>1. \A k \in kernels' : k.name = "kernel" /\ k.rhel => k \in RhelKernels'
    BY DEF RhelKernels, RhelPackages
  <2>2. CASE RhelKernels # {}
    BY <2>2 DEF InstallRhelKernel, Unchanged, RhelKernels, RhelPackages
  <2>3. CASE RhelKernels = {}
    BY <1>2, <2>1, <2>3 DEF InstallRhelKernel, Succeeded
  <2>4. QED
    BY <2>2, <2>3
<1>4. UNCHANGED <<major, available>> /\ HasBls' = HasBls /\ CoreName' = CoreName
  BY DEF InstallRhelKernel, HasBls, CoreName
<1>5. /\ Succeeded("REMOVE_NON_RHEL_KERNELS")' = FALSE
      /\ Succeeded("REMOVE_NON_RHEL_KERNELS") = FALSE
      /\ level'["INSTALL_RHEL_KERNEL"] # "pending"
      /\ Succeeded("FIX_INVALID_GRUB2_ENTRIES")' = FALSE
      /\ Succeeded("FIX_INVALID_GRUB2_ENTRIES") = FALSE
      /\ level'["KERNEL_BOOT_FILES"] # "SUCCESS"
  BY <1>1, <1>2 DEF Succeeded, Levels
<1>6. kernels \subseteq Kernel /\ available \subseteq Versions /\ Cores # {}
  BY <1>1 DEF KernelInv, KernelsKept
<1>7. CASE Unchanged
  <2>1. /\ Cores' = Cores /\ RhelKernels' = RhelKernels /\ RhelCores' = RhelCores
        /\ VersionsOf(Cores)' = VersionsOf(Cores) /\ VersionsOf(RhelCores)' = VersionsOf(RhelCores)
        /\ UNCHANGED <<kernels, bootFiles, entries, newest>>
    BY <1>4, <1>7 DEF Unchanged, Cores, CoresOf, RhelKernels, RhelCores, RhelPackages, VersionsOf
  <2>2. KernelsKept'
    BY <1>3, <1>4, <1>6, <2>1 DEF KernelsKept
  <2>3. NewestIsRhel'
    BY <1>4, <1>5, <2>1 DEF KernelInv, NewestIsRhel
  <2>4. EntriesFollow'
    BY <1>4, <1>5, <2>1 DEF KernelInv, EntriesFollow
  <2>5. QED
    BY <2>2, <2>3, <2>4
<1>8. CASE ~Unchanged
  <2>1. RhelKernels = {} /\ \E raises \in BOOLEAN : HandleNoNewerRhelKernel(raises)
    BY <1>8 DEF InstallRhelKernel
  <2>2. RhelCores = {}
    BY <1>1, <2>1 DEF KernelInv, NewestIsRhel
  <2>3. \/ \E v \in Versions :
              KeepKernels(WithoutKernel(v)) /\ \E w \in KernelVersions(kernels) : w # v
        \/ \E from \in SUBSET kernels, v \in available : InstallKernel(from, v)
               /\ (from = kernels \/ from = WithoutKernel(v))
        \/ KeepKernels(kernels)
    <3>1. \A v \in available : WithoutKernel(v) \in SUBSET kernels
      BY DEF WithoutKernel
    <3>2. QED
      BY <1>6, <1>8, <2>1, <3>1, HandleOutcome
  <2>4. ASSUME NEW from \in SUBSET kernels, KeepKernels(from), CoresOf(from) # {}
        PROVE  KernelsKept' /\ NewestIsRhel' /\ EntriesFollow'
    <3>1. kernels' = from /\ newest' = newest /\ entries' = EntriesOf(from)
      BY <2>4 DEF KeepKernels
    <3>2. Cores' = CoresOf(from) /\ RhelCores' = {}
      BY <1>4, <2>2, <3>1 DEF Cores, CoresOf, RhelCores, RhelPackages
    <3>3. KernelsKept'
      BY <1>3, <1>4, <1>6, <2>4, <3>1, <3>2 DEF KernelsKept
    <3>4. NewestIsRhel'
      BY <1>5, <3>2 DEF NewestIsRhel, VersionsOf
    <3>5. EntriesFollow'
      BY <1>4, <1>5, <3>1, <3>2 DEF KernelInv, EntriesFollow, EntriesOf, VersionsOf
    <3>6. QED
      BY <3>3, <3>4, <3>5
  <2>5. CASE \E v \in Versions :
              KeepKernels(WithoutKernel(v)) /\ \E w \in KernelVersions(kernels) : w # v
    <3>1. PICK v \in Versions :
              KeepKernels(WithoutKernel(v)) /\ \E w \in KernelVersions(kernels) : w # v
      BY <2>5
    <3>2. CoresOf(WithoutKernel(v)) # {}
      <4>1. CASE HasBls
        BY <1>6, <4>1 DEF Cores, CoresOf, CoreName, WithoutKernel
      <4>2. CASE ~HasBls
        <5>1. PICK k \in kernels : k.name = "kernel" /\ k.v # v
          BY <3>1 DEF KernelVersions
        <5>2. k \in WithoutKernel(v) /\ k.name = CoreName
          BY <4>2, <5>1 DEF WithoutKernel, CoreName
        <5>3. QED
          BY <5>2 DEF CoresOf
      <4>3. QED
        BY <4>1, <4>2
    <3>3. WithoutKernel(v) \in SUBSET kernels
      BY DEF WithoutKernel
    <3>4. QED
      BY <2>4, <3>1, <3>2, <3>3
  <2>6. CASE KeepKernels(kernels)
    BY <1>6, <2>4, <2>6 DEF Cores
  <2>7. CASE \E from \in SUBSET kernels, v \in available : InstallKernel(from, v)
               /\ (from = kernels \/ from = WithoutKernel(v))
    <3>1. PICK from \in SUBSET kernels, v \in available : InstallKernel(from, v)
               /\ (from = kernels \/ from = WithoutKernel(v))
      BY <2>7
    <3>2. from \in SUBSET Kernel /\ v \in Versions
      BY <1>6
    <3>3. /\ kernels' \subseteq Kernel
          /\ RhelKernels' # {}
          /\ \A k \in kernels' : k \in from \/ (k.v = v /\ k.rhel)
          /\ VersionsOf(CoresOf(from)) \subseteq VersionsOf(Cores')
          /\ v \in VersionsOf(Cores')
          /\ \/ /\ newest' = v /\ entries' = EntriesOf(from) \cup {[v |-> v, here |-> TRUE]}
             \/ /\ HasBls /\ v \in VersionsOf(CoresOf(from))
                /\ newest' = newest /\ entries' = EntriesOf(from)
                /\ \A k \in Cores' : k \in from
      BY <1>4, <3>1, <3>2, KernelOutcome
    <3>4. KernelsKept'
      BY <1>4, <1>6, <3>3 DEF KernelsKept, VersionsOf
    <3>5. \A k \in RhelCores' : k \in Cores' /\ k.v = v /\ k \notin from
      BY <1>4, <2>2, <3>3 DEF RhelCores, RhelPackages, Cores, CoresOf
    <3>6. RhelCores' = {} \/ newest' = v
      BY <3>3, <3>5
    <3>7. NewestIsRhel'
      <4>1. VersionsOf(RhelCores') \subseteq {newest'} \cap available
        BY <3>1, <3>5, <3>6 DEF VersionsOf
      <4>2. QED
        BY <1>4, <1>5, <4>1 DEF NewestIsRhel, VersionsOf
    <3>8. EntriesFollow'
      <4>1. \A e \in entries' : \/ e \in entries /\ (e.here => e.v \in VersionsOf(CoresOf(from)))
                                \/ e.here = TRUE /\ e.v = v
        BY <3>3, EntriesKept
      <4>2. \A e \in entries' : e.here => e.v \in VersionsOf(Cores')
        BY <3>3, <4>1
      <4>3. RhelCores' # {} => [v |-> newest', here |-> TRUE] \in entries'
        BY <3>3, <3>5
      <4>4. QED
        BY <1>4, <1>5, <4>1, <4>2, <4>3 DEF KernelInv, EntriesFollow, VersionsOf
    <3>9. QED
      BY <3>4, <3>7, <3>8
  <2>8. QED
    BY <2>3, <2>5, <2>6, <2>7
<1>9. QED
  BY <1>7, <1>8

(* REMOVE_NON_RHEL_KERNELS *)
LEMMA RemoveStep ==
  ASSUME KernelInv, NEW r \in Levels, Ends("REMOVE_NON_RHEL_KERNELS", r), RemoveNonRhelKernels(r)
  PROVE  KernelsKept' /\ NewestIsRhel' /\ EntriesFollow'
<1>1. /\ level["REMOVE_NON_RHEL_KERNELS"] = "pending"
      /\ level["FIX_INVALID_GRUB2_ENTRIES"] = "pending" /\ level["KERNEL_BOOT_FILES"] = "pending"
  BY Waiting, ConversionActions, ActionsAre, DepsAre DEF Ends, KernelInv
<1>2. /\ level'["REMOVE_NON_RHEL_KERNELS"] = r
      /\ level'["INSTALL_RHEL_KERNEL"] = level["INSTALL_RHEL_KERNEL"]
      /\ level'["FIX_INVALID_GRUB2_ENTRIES"] = "pending"
      /\ level'["KERNEL_BOOT_FILES"] = "pending"
  BY <1>1, ActionsAre DEF Ends, KernelInv, InOrder
<1>3. RhelKernels # {} /\ level["INSTALL_RHEL_KERNEL"] # "pending"
  <2>1. Succeeded("INSTALL_RHEL_KERNEL")
    <3>1. level["INSTALL_RHEL_KERNEL"] \notin {"pending", "ERROR", "SKIP"}
      BY DepsAre DEF Ends, DependenciesEnded, FailedDependency
    <3>2. QED
      BY <3>1, ActionsAre DEF KernelInv, InOrder, Succeeded, Levels
  <2>2. QED
    BY <2>1 DEF KernelInv, KernelsKept, Succeeded
<1>4. VersionsOf(RhelCores) \subseteq {newest} /\ VersionsOf(RhelCores) \subseteq available
  BY <1>1 DEF KernelInv, NewestIsRhel, Succeeded
<1>5. UNCHANGED <<major, available>> /\ HasBls' = HasBls /\ CoreName' = CoreName
  BY DEF RemoveNonRhelKernels, HasBls, CoreName
<1>6. kernels \subseteq Kernel /\ available \subseteq Versions
  BY DEF KernelInv, KernelsKept
<1>7. /\ Succeeded("FIX_INVALID_GRUB2_ENTRIES")' = FALSE
      /\ Succeeded("FIX_INVALID_GRUB2_ENTRIES") = FALSE
      /\ level'["KERNEL_BOOT_FILES"] # "SUCCESS"
      /\ level'["REMOVE_NON_RHEL_KERNELS"] \notin {"pending", "SKIP"}
      /\ Succeeded("REMOVE_NON_RHEL_KERNELS")' <=> r # "ERROR"
  BY <1>1, <1>2 DEF Succeeded, Levels
<1>8. ASSUME RhelPackages \subseteq kernels', kernels' \subseteq Kernel
      PROVE  KernelsKept'
  <2>1. RhelKernels \subseteq RhelKernels'
    BY <1>8 DEF RhelKernels, RhelPackages
  <2>2. CASE ~HasBls
    <3>1. RhelKernels \subseteq Cores'
      BY <1>5, <1>8, <2>2 DEF RhelKernels, Cores, CoresOf, CoreName
    <3>2. QED
      BY <1>3, <1>5, <1>6, <1>8, <2>1, <3>1 DEF KernelsKept
  <2>3. QED
    BY <1>3, <1>5, <1>6, <1>7, <1>8, <2>1, <2>2 DEF KernelsKept
<1>9. CoresOf(RhelPackages) = RhelCores
  BY DEF CoresOf, RhelCores
<1>10. ASSUME NEW kept \in SUBSET OtherKernels, KeepKernels(RhelPackages \cup kept),
              r # "ERROR" => kept = {}
       PROVE  KernelsKept' /\ NewestIsRhel' /\ EntriesFollow'
  <2>1. /\ kernels' = RhelPackages \cup kept /\ newest' = newest
        /\ entries' = EntriesOf(kernels')
    BY <1>10 DEF KeepKernels
  <2>2. Cores' = CoresOf(kernels') /\ RhelCores' = RhelCores /\ OtherKernels' = kept
        /\ CoresOf(RhelPackages) \subseteq CoresOf(kernels')
    BY <1>5, <2>1 DEF Cores, CoresOf, RhelCores, RhelPackages, OtherKernels
  <2>3. KernelsKept'
    BY <1>6, <1>8, <2>1 DEF RhelPackages, OtherKernels
  <2>4. NewestIsRhel'
    <3>1. CASE r = "ERROR"
      BY <1>2, <1>3, <1>4, <1>5, <1>7, <2>1, <2>2, <3>1 DEF NewestIsRhel, VersionsOf
    <3>2. CASE r # "ERROR"
      <4>1. kept = {} /\ Cores' = RhelCores
        BY <1>9, <1>10, <2>1, <2>2, <3>2
      <4>2. VersionsOf(Cores') \subseteq {newest'} /\ VersionsOf(Cores') \subseteq Nat
        BY <1>4, <1>6, <2>1, <4>1, VersionsAssumption
      <4>3. Cores' # {} => newest' \in VersionsOf(Cores')
        BY <4>2 DEF VersionsOf
      <4>4. \A v \in VersionsOf(Cores') : v <= newest'
        BY <4>2
      <4>5. QED
        BY <1>2, <1>3, <1>4, <1>5, <1>7, <2>1, <2>2, <3>2, <4>1, <4>3, <4>4
        DEF NewestIsRhel, VersionsOf
    <3>3. QED
      BY <3>1, <3>2
  <2>5. EntriesFollow'
    <3>1. \A e \in entries' : e \in entries /\ (e.here => e.v \in VersionsOf(Cores'))
      BY <2>1, <2>2 DEF EntriesOf, VersionsOf
    <3>2. ASSUME RhelCores' # {} PROVE [v |-> newest', here |-> TRUE] \in entries'
      <4>1. [v |-> newest, here |-> TRUE] \in entries
        BY <2>2, <3>2 DEF KernelInv, EntriesFollow
      <4>2. newest \in VersionsOf(CoresOf(kernels'))
        BY <1>4, <1>9, <2>2, <3>2 DEF VersionsOf
      <4>3. QED
        BY <2>1, <4>1, <4>2 DEF EntriesOf
    <3>3. QED
      BY <1>5, <1>7, <3>1, <3>2 DEF KernelInv, EntriesFollow, VersionsOf
  <2>6. QED
    BY <2>3, <2>4, <2>5
<1>11. ASSUME HasBls, available # {}, r # "ERROR",
              InstallPackages(RhelPackages, {CoreName}, Max(available))
       PROVE  KernelsKept' /\ NewestIsRhel' /\ EntriesFollow'
  <2> DEFINE latest == Max(available)
  <2>1. latest \in available /\ latest \in Nat /\ \A v \in available : v <= latest
    BY <1>6, <1>11, MaxOfVersions
  <2>2. InstallPackages(RhelPackages, {CoreName}, latest) /\ latest \in Versions
    BY <1>6, <1>11, <2>1
  <2> HIDE DEF latest
  <2>3. RhelPackages \in SUBSET Kernel /\ {CoreName} \in SUBSET {"kernel", "kernel-core"}
    BY <1>6 DEF RhelPackages, CoreName
  <2>4. /\ kernels' \subseteq Kernel
        /\ \A k \in kernels' : k \in RhelPackages \/ (k.v = latest /\ k.rhel)
        /\ \A k \in RhelPackages : k \in kernels'
        /\ VersionsOf(CoresOf(RhelPackages)) \subseteq VersionsOf(Cores')
        /\ latest \in VersionsOf(Cores')
        /\ newest' = latest
        /\ entries' = EntriesOf(RhelPackages) \cup {[v |-> latest, here |-> TRUE]}
    <3>1. CoreName \in {CoreName} /\ \A k \in RhelPackages : k.rhel
      BY DEF RhelPackages
    <3> DEFINE names == {CoreName}
               from == RhelPackages
    <3>2. /\ kernels' \subseteq Kernel
          /\ \A k \in kernels' : k \in from \/ (k.name \in names /\ k.v = latest /\ k.rhel)
          /\ \A k \in from : k.rhel => k \in kernels'
          /\ VersionsOf(CoresOf(from)) \subseteq VersionsOf(Cores')
          /\ CoreName \in names => latest \in VersionsOf(Cores')
          /\ IF CoreName \in names
             THEN newest' = latest
                  /\ entries' = EntriesOf(from) \cup {[v |-> latest, here |-> TRUE]}
             ELSE newest' = newest /\ entries' = EntriesOf(from)
      <4>1. /\ from \in SUBSET Kernel /\ names \in SUBSET {"kernel", "kernel-core"}
            /\ InstallPackages(from, names, latest)
        BY <2>2, <2>3
      <4> HIDE DEF names, from
      <4>2. QED
        BY <1>5, <2>2, <4>1, InstallOutcome
    <3>3. QED
      BY <3>1, <3>2
  <2>5. OtherKernels' = {} /\ RhelCores' = Cores'
    BY <2>4 DEF OtherKernels, RhelPackages, RhelCores, Cores, CoresOf
  <2>6. \A v \in VersionsOf(Cores') : v \in available
    <3> SUFFICES ASSUME NEW k \in Cores' PROVE k.v \in available
      BY DEF VersionsOf
    <3>1. k \in RhelCores \/ k.v = latest
      BY <1>5, <2>4 DEF Cores, CoresOf, RhelCores
    <3>2. QED
      BY <1>4, <2>1, <3>1 DEF VersionsOf
  <2>7. KernelsKept'
    BY <1>8, <2>4
  <2>8. NewestIsRhel'
    BY <1>2, <1>3, <1>5, <1>7, <1>11, <2>1, <2>4, <2>5, <2>6 DEF NewestIsRhel
  <2>9. EntriesFollow'
    <3>1. \A e \in entries' :
             \/ e \in entries /\ (e.here => e.v \in VersionsOf(CoresOf(RhelPackages)))
             \/ e.here = TRUE /\ e.v = latest
      BY <2>4, EntriesKept
    <3>2. [v |-> newest', here |-> TRUE] \in entries'
      BY <2>4
    <3>3. \A e \in entries' : e.here => e.v \in VersionsOf(Cores')
      BY <2>4, <3>1
    <3>4. QED
      BY <1>5, <1>7, <3>1, <3>2, <3>3 DEF KernelInv, EntriesFollow, VersionsOf
  <2>10. QED
    BY <2>7, <2>8, <2>9
<1>12. QED
  <2>1. CASE \E kept \in SUBSET OtherKernels :
               kept # {} /\ r = "ERROR" /\ KeepKernels(RhelPackages \cup kept)
    BY <1>10, <2>1
  <2>2. CASE r = "SUCCESS" /\ KeepKernels(RhelPackages)
    <3>1. {} \in SUBSET OtherKernels /\ KeepKernels(RhelPackages \cup {})
      BY <2>2
    <3>2. QED
      BY <1>10, <3>1
  <2>3. QED
    BY <1>11, <2>1, <2>2 DEF RemoveNonRhelKernels, InstallAdditionalRhelKernelPkgs

(* FIX_INVALID_GRUB2_ENTRIES *)
LEMMA FixEntriesStep ==
  ASSUME KernelInv, NEW r \in Levels,
         Ends("FIX_INVALID_GRUB2_ENTRIES", r), FixInvalidGrub2Entries(r)
  PROVE  KernelsKept' /\ NewestIsRhel' /\ EntriesFollow'
<1>1. /\ level["FIX_INVALID_GRUB2_ENTRIES"] = "pending"
      /\ level'["FIX_INVALID_GRUB2_ENTRIES"] = r
      /\ \A a \in Actions \ {"FIX_INVALID_GRUB2_ENTRIES"} : level'[a] = level[a]
  BY ActionsAre DEF Ends, KernelInv, InOrder
<1>2. UNCHANGED <<major, available, kernels, bootFiles, newest>>
  BY DEF FixInvalidGrub2Entries
<1>3. /\ HasBls' = HasBls /\ Cores' = Cores /\ RhelKernels' = RhelKernels
      /\ RhelCores' = RhelCores /\ OtherKernels' = OtherKernels
      /\ VersionsOf(Cores)' = VersionsOf(Cores) /\ VersionsOf(RhelCores)' = VersionsOf(RhelCores)
  BY <1>2 DEF HasBls, CoreName, Cores, CoresOf, RhelKernels, RhelCores, RhelPackages,
         OtherKernels, VersionsOf
<1>4. KernelsKept'
  BY <1>1, <1>2, <1>3, ActionsAre DEF KernelInv, KernelsKept, Succeeded
<1>5. NewestIsRhel'
  BY <1>1, <1>2, <1>3, ActionsAre DEF KernelInv, NewestIsRhel, Succeeded
<1>6. /\ entries' \subseteq entries
      /\ \A e \in entries : e.here => e \in entries'
      /\ HasBls /\ r # "ERROR" => \A e \in entries' : e.here
  <2>1. CASE HasBls
    BY <2>1 DEF FixInvalidGrub2Entries
  <2>2. CASE ~HasBls
    BY <2>2 DEF FixInvalidGrub2Entries
  <2>3. QED
    BY <2>1, <2>2
<1>7. EntriesFollow'
  <2>1. RhelCores' # {} => [v |-> newest', here |-> TRUE] \in entries'
    BY <1>2, <1>3, <1>6 DEF KernelInv, EntriesFollow
  <2>2. ~HasBls' \/ Succeeded("FIX_INVALID_GRUB2_ENTRIES")' => \A e \in entries' : e.here
    BY <1>1, <1>3, <1>6 DEF KernelInv, EntriesFollow, Succeeded
  <2>3. QED
    BY <1>3, <1>6, <2>1, <2>2 DEF KernelInv, EntriesFollow
<1>8. QED
  BY <1>4, <1>5, <1>7

(* UPDATE_KERNEL *)
LEMMA UpdateStep ==
  ASSUME KernelInv, NEW r \in Levels, Ends("UPDATE_KERNEL", r), UpdateKernel(r)
  PROVE  KernelsKept' /\ NewestIsRhel' /\ EntriesFollow'
<1>1. /\ level["UPDATE_KERNEL"] = "pending" /\ level["KERNEL_BOOT_FILES"] = "pending"
      /\ level'["UPDATE_KERNEL"] = r
      /\ \A a \in Actions \ {"UPDATE_KERNEL"} : level'[a] = level[a]
  BY Waiting, ConversionActions, ActionsAre DEF Ends, KernelInv, InOrder
<1>2. Succeeded("REMOVE_NON_RHEL_KERNELS")
  <2>1. level["REMOVE_NON_RHEL_KERNELS"] \notin {"pending", "ERROR", "SKIP"}
    BY DepsAre DEF Ends, DependenciesEnded, FailedDependency
  <2>2. QED
    BY <2>1, ActionsAre DEF KernelInv, InOrder, Succeeded, Levels
<1>3. UNCHANGED <<major, available>>
  BY DEF UpdateKernel
<1>4. CASE Unchanged
  <2>1. KernelFrame
    BY <1>1, <1>3, <1>4, ActionsAre DEF KernelFrame, Unchanged, Succeeded, Levels
  <2>2. QED
    BY <2>1, KernelFrameStep
<1>5. CASE ~Unchanged
  <2>1. available # {} /\ InstallKernel(kernels, Max(available))
    BY <1>5 DEF UpdateKernel
  <2> DEFINE latest == Max(available)
  <2>2. kernels \in SUBSET Kernel /\ available \subseteq Versions
    BY DEF KernelInv, KernelsKept
  <2>3. latest \in available /\ latest \in Nat /\ \A v \in available : v <= latest
    BY <2>1, <2>2, MaxOfVersions
  <2>4. InstallKernel(kernels, latest) /\ latest \in Versions
    BY <2>1, <2>2, <2>3
  <2> HIDE DEF latest
  <2>5. /\ kernels' \subseteq Kernel
        /\ RhelKernels' # {}
        /\ \A k \in kernels' : k \in kernels \/ (k.v = latest /\ k.rhel)
        /\ VersionsOf(Cores) \subseteq VersionsOf(Cores')
        /\ latest \in VersionsOf(Cores')
        /\ \/ newest' = latest /\ entries' = EntriesOf(kernels) \cup {[v |-> latest, here |-> TRUE]}
           \/ /\ latest \in VersionsOf(Cores)
              /\ newest' = newest /\ entries' = EntriesOf(kernels)
    BY <1>3, <2>2, <2>4, KernelOutcome DEF Cores
  <2>6. HasBls' = HasBls /\ CoreName' = CoreName
    BY <1>3 DEF HasBls, CoreName
  <2>7. OtherKernels = {} /\ (Cores # {} => newest \in VersionsOf(Cores))
        /\ (\A v \in VersionsOf(Cores) : v <= newest)
        /\ VersionsOf(RhelCores) \subseteq available
    BY <1>2 DEF KernelInv, NewestIsRhel
  <2>8. OtherKernels' = {} /\ RhelCores' = Cores' /\ RhelCores = Cores
    BY <2>5, <2>7 DEF OtherKernels, RhelPackages, RhelCores, Cores, CoresOf
  <2>9. VersionsOf(Cores') \subseteq available
    <3> SUFFICES ASSUME NEW k \in Cores' PROVE k.v \in available
      BY DEF VersionsOf
    <3>1. k \in Cores \/ k.v = latest
      BY <2>5, <2>6 DEF Cores, CoresOf
    <3>2. QED
      BY <2>3, <2>7, <2>8, <3>1 DEF VersionsOf
  <2>10. newest' = latest
    <3>1. CASE latest \in VersionsOf(Cores) /\ newest' = newest
      <4>1. newest \in available /\ latest <= newest
        BY <2>7, <2>8, <3>1 DEF VersionsOf
      <4>2. newest \in Nat /\ newest <= latest
        BY <2>2, <2>3, <4>1, VersionsAssumption
      <4>3. QED
        BY <2>3, <3>1, <4>1, <4>2
    <3>2. QED
      BY <2>5, <3>1
  <2>11. KernelsKept'
    BY <1>3, <2>2, <2>5 DEF KernelsKept, VersionsOf
  <2>12. NewestIsRhel'
    <3>1. /\ level'["KERNEL_BOOT_FILES"] = "pending" /\ Succeeded("REMOVE_NON_RHEL_KERNELS")'
          /\ level'["INSTALL_RHEL_KERNEL"] = level["INSTALL_RHEL_KERNEL"]
      BY <1>1, <1>2, ActionsAre DEF Succeeded
    <3>2. newest' \in VersionsOf(Cores')
      BY <2>5, <2>10
    <3>3. \A v \in VersionsOf(Cores') : v <= newest'
      BY <2>3, <2>9, <2>10
    <3>4. QED
      BY <1>3, <2>5, <2>8, <2>9, <3>1, <3>2, <3>3 DEF NewestIsRhel
  <2>13. EntriesFollow'
    <3>1. \A e \in entries' :
             \/ e \in entries /\ (e.here => e.v \in VersionsOf(CoresOf(kernels)))
             \/ e.here = TRUE /\ e.v = latest
      BY <2>5, EntriesKept
    <3>2. \A e \in entries' : e.here => e.v \in VersionsOf(Cores')
      BY <2>5, <3>1 DEF Cores
    <3>3. [v |-> newest', here |-> TRUE] \in entries'
      <4>1. CASE newest' = newest /\ entries' = EntriesOf(kernels) /\ latest \in VersionsOf(Cores)
        <5>1. Cores # {}
          BY <4>1 DEF VersionsOf
        <5>2. [v |-> newest, here |-> TRUE] \in entries /\ newest \in VersionsOf(CoresOf(kernels))
          BY <2>7, <2>8, <5>1 DEF KernelInv, EntriesFollow, Cores
        <5>3. QED
          BY <4>1, <5>2 DEF EntriesOf
      <4>2. QED
        BY <2>5, <2>10, <4>1
    <3>4. /\ HasBls' = HasBls
          /\ Succeeded("FIX_INVALID_GRUB2_ENTRIES")' = Succeeded("FIX_INVALID_GRUB2_ENTRIES")
      BY <1>1, <2>6, ActionsAre DEF Succeeded
    <3>5. QED
      BY <3>1, <3>2, <3>3, <3>4 DEF KernelInv, EntriesFollow, VersionsOf
  <2>14. QED
    BY <2>11, <2>12, <2>13
<1>6. QED
  BY <1>4, <1>5

-----------------------------------------------------------------------------
(* The boot loader                                                          *)

(* A new entry is in a slot of its own, and the first of the order. *)
LEMMA WithRhelEntryOutcome ==
  ASSUME NEW nv \in Nvrams, NEW new, new = WithRhelEntry(nv)
  PROVE  \E s \in Slots \ Entries(nv) :
           /\ Entries(new) = Entries(nv) \cup {s}
           /\ new.entries[s] = RhelEntry
           /\ \A t \in Entries(nv) : new.entries[t] = nv.entries[t]
           /\ new.order = <<s>> \o nv.order
           /\ new.current = nv.current
           /\ new = [entries |-> new.entries, order |-> new.order, current |-> new.current]
<1> DEFINE s == Min(Slots \ Entries(nv))
<1>1. s \in Slots \ Entries(nv)
  BY NvramsAssumption, MinIsLeast
<1>2. new = [nv EXCEPT !.entries = [t \in Entries(nv) \cup {s} |->
                                 IF t = s THEN RhelEntry ELSE nv.entries[t]],
                       !.order = <<s>> \o nv.order]
  BY DEF WithRhelEntry
<1> HIDE DEF s
<1>3. nv = [entries |-> nv.entries, order |-> nv.order, current |-> nv.current]
  BY NvramsAssumption
<1>4. new = [entries |-> [t \in Entries(nv) \cup {s} |-> IF t = s THEN RhelEntry ELSE nv.entries[t]],
             order |-> <<s>> \o nv.order, current |-> nv.current]
  BY <1>2, <1>3
<1>5. QED
  BY <1>1, <1>4 DEF Entries

(* The first of an order stays when another one is removed. *)
LEMMA FirstStays ==
  ASSUME NEW S, NEW q \in Seq(S), NEW e, q # <<>>, q[1] # e
  PROVE  /\ Len(RemoveFirst(q, e)) \in Nat \ {0}
         /\ RemoveFirst(q, e)[1] = q[1]
<1>1. CASE \E i \in 1..Len(q) : q[i] = e
  <2> DEFINE I == {i \in 1..Len(q) : q[i] = e}
             m == SelectInSeq(q, LAMBDA v : v = e)
  <2>1. I \in SUBSET Nat /\ I # {}
    BY <1>1
  <2>2. m = Min(I)
    BY <2>1 DEF SelectInSeq
  <2>3. m \in I
    BY <2>1, <2>2, MinIsLeast
  <2>4. m \in 2..Len(q)
    BY <2>3
  <2>5. RemoveFirst(q, e) = SubSeq(q, 1, m - 1) \o SubSeq(q, m + 1, Len(q))
    BY <1>1 DEF RemoveFirst, RemoveAt
  <2> HIDE DEF m, I
  <2>6. SubSeq(q, 1, m - 1) \in Seq(S) /\ Len(SubSeq(q, 1, m - 1)) = m - 1 /\ SubSeq(q, 1, m - 1)[1] = q[1]
    BY <2>4
  <2>7. SubSeq(q, m + 1, Len(q)) \in Seq(S)
    BY <2>4
  <2>8. QED
    BY <2>4, <2>5, <2>6, <2>7
<1>2. CASE ~\E i \in 1..Len(q) : q[i] = e
  BY <1>2 DEF RemoveFirst
<1>3. QED
  BY <1>1, <1>2

(* An Action that is not about kernels, or is skipped. *)
LEMMA FrameOf ==
  ASSUME InOrder, NEW a \in Actions, NEW r \in Levels \cup {"SKIP"}, level[a] = "pending",
         level' = [level EXCEPT ![a] = r], UNCHANGED kernelVars,
         a \in {"INSTALL_RHEL_KERNEL", "REMOVE_NON_RHEL_KERNELS", "FIX_INVALID_GRUB2_ENTRIES"} =>
           r = "SKIP",
         a = "KERNEL_BOOT_FILES" /\ r = "SUCCESS" =>
           Cores # {} /\ (newest \in VersionsOf(Cores) => bootFiles[newest] = "ok")
  PROVE  KernelFrame
<1>1. level'[a] = r /\ \A b \in Actions \ {a} : level'[b] = level[b]
  BY DEF InOrder
<1>2. UNCHANGED <<major, available, kernels, bootFiles, entries, newest>>
  BY DEF kernelVars
<1>3. \A b \in {"INSTALL_RHEL_KERNEL", "REMOVE_NON_RHEL_KERNELS", "FIX_INVALID_GRUB2_ENTRIES"} :
        Succeeded(b)' => Succeeded(b)
  BY <1>1, ActionsAre DEF Succeeded
<1>4. /\ Succeeded("REMOVE_NON_RHEL_KERNELS") => Succeeded("REMOVE_NON_RHEL_KERNELS")'
      /\ level'["INSTALL_RHEL_KERNEL"] = "pending" => level["INSTALL_RHEL_KERNEL"] = "pending"
      /\ level["REMOVE_NON_RHEL_KERNELS"] # "pending" =>
            level'["REMOVE_NON_RHEL_KERNELS"] = level["REMOVE_NON_RHEL_KERNELS"]
  BY <1>1, ActionsAre DEF Succeeded
<1>5. level'["KERNEL_BOOT_FILES"] = "SUCCESS" =>
        \/ level["KERNEL_BOOT_FILES"] = "SUCCESS"
        \/ Cores # {} /\ (newest \in VersionsOf(Cores) => bootFiles[newest] = "ok")
  BY <1>1, ActionsAre
<1>6. QED
  BY <1>2, <1>3, <1>4, <1>5 DEF KernelFrame

(* The kernels, their entries and their boot files, step by step. *)
LEMMA KernelInvStep == KernelInv /\ [Next]_bootVars => KernelInv'
<1> SUFFICES ASSUME KernelInv, [Next]_bootVars PROVE KernelInv'
  OBVIOUS
<1>1. InOrder'
  BY InOrderStep DEF KernelInv
<1>2. SUFFICES KernelsKept' /\ NewestIsRhel' /\ EntriesFollow'
  BY <1>1 DEF KernelInv
<1>3. ASSUME NEW r \in Levels, OnKernels("INSTALL_RHEL_KERNEL", r), InstallRhelKernel(r)
      PROVE  KernelsKept' /\ NewestIsRhel' /\ EntriesFollow'
  BY <1>3, InstallStep DEF OnKernels
<1>4. ASSUME NEW r \in Levels, OnKernels("REMOVE_NON_RHEL_KERNELS", r), RemoveNonRhelKernels(r)
      PROVE  KernelsKept' /\ NewestIsRhel' /\ EntriesFollow'
  BY <1>4, RemoveStep DEF OnKernels
<1>5. ASSUME NEW r \in Levels, OnKernels("FIX_INVALID_GRUB2_ENTRIES", r), FixInvalidGrub2Entries(r)
      PROVE  KernelsKept' /\ NewestIsRhel' /\ EntriesFollow'
  BY <1>5, FixEntriesStep DEF OnKernels
<1>6. ASSUME NEW r \in Levels, OnKernels("UPDATE_KERNEL", r), UpdateKernel(r)
      PROVE  KernelsKept' /\ NewestIsRhel' /\ EntriesFollow'
  BY <1>6, UpdateStep DEF OnKernels
<1>7. ASSUME NEW r \in Levels, OnKernels("FIX_DEFAULT_KERNEL", r), FixDefaultKernel(r)
      PROVE  KernelsKept' /\ NewestIsRhel' /\ EntriesFollow'
  <2>1. KernelFrame
    <3>1. /\ level'["FIX_DEFAULT_KERNEL"] = r
          /\ \A a \in Actions \ {"FIX_DEFAULT_KERNEL"} : level'[a] = level[a]
      BY <1>7, ActionsAre DEF OnKernels, Ends, KernelInv, InOrder
    <3>2. QED
      BY <1>7, <3>1, ActionsAre DEF FixDefaultKernel, KernelFrame, Succeeded
  <2>2. QED
    BY <2>1, KernelFrameStep
<1>8. ASSUME NEW r \in Levels, OnKernels("KERNEL_BOOT_FILES", r), KernelBootFiles(r)
      PROVE  KernelsKept' /\ NewestIsRhel' /\ EntriesFollow'
  <2>1. UNCHANGED kernelVars /\ (r = "SUCCESS" =>
           Cores # {} /\ (newest \in VersionsOf(Cores) => bootFiles[newest] = "ok"))
    BY <1>8 DEF KernelBootFiles, BootFilesAreValid, LatestInstalled, VersionsOf
  <2>2. KernelFrame
    BY <1>8, <2>1, FrameOf, ActionsAre DEF OnKernels, Ends, KernelInv
  <2>3. QED
    BY <2>2, KernelFrameStep
<1>9. CASE KernelStep
  BY <1>3, <1>4, <1>5, <1>6, <1>7, <1>8, <1>9 DEF KernelStep
<1>10. CASE LoaderStep
  <2>1. PICK r \in Levels, a \in {"NEW_DEFAULT_EFI_BIN", "EFIBOOTMGR_UTILITY_INSTALLED",
            "MOVE_GRUB_FILES", "REMOVE_EFI_CENTOS", "REPLACE_EFI_BOOT_ENTRY",
            "FIX_GRUB_SETTINGS_ON_AL2", "UPDATE_GRUB"} : OnLoader(a, r)
    BY <1>10 DEF LoaderStep
  <2>2. KernelFrame
    BY <2>1, FrameOf, ActionsAre DEF OnLoader, Ends, KernelInv
  <2>3. QED
    BY <2>2, KernelFrameStep
<1>11. CASE Skip
  <2>1. PICK a \in Actions : level[a] = "pending" /\ level' = [level EXCEPT ![a] = "SKIP"]
    BY <1>11 DEF Skip
  <2>2. UNCHANGED kernelVars
    BY <1>11 DEF Skip
  <2>3. KernelFrame
    BY <2>1, <2>2, FrameOf DEF KernelInv
  <2>4. QED
    BY <2>3, KernelFrameStep
<1>12. CASE UNCHANGED bootVars
  <2>1. KernelFrame
    BY <1>12 DEF bootVars, kernelVars, KernelFrame, Succeeded
  <2>2. QED
    BY <2>1, KernelFrameStep
<1>13. QED
  BY <1>9, <1>10, <1>11, <1>12 DEF Next

(* What the replacement of the packages leaves. *)
LEMMA KernelInvInit == Init => KernelInv
<1> SUFFICES ASSUME Init PROVE KernelInv
  OBVIOUS
<1>1. PICK r \in {"SUCCESS", "ERROR"} :
        level = [a \in Actions |-> IF a = "CONVERT_SYSTEM_PACKAGES" THEN r ELSE "pending"]
  BY DEF Init
<1>2. \A a \in Actions \ {"CONVERT_SYSTEM_PACKAGES"} : level[a] = "pending"
  BY <1>1
<1>3. Deps("CONVERT_SYSTEM_PACKAGES") = {} /\ "CONVERT_SYSTEM_PACKAGES" \notin PostActions
  BY DEF Deps, ConversionDeps, PostActions, PostDeps
<1>4. InOrder
  BY <1>1, <1>2, <1>3 DEF InOrder, Levels, DependenciesEnded, Succeeded
<1>5. /\ level["INSTALL_RHEL_KERNEL"] = "pending" /\ level["REMOVE_NON_RHEL_KERNELS"] = "pending"
      /\ level["UPDATE_KERNEL"] = "pending" /\ level["FIX_INVALID_GRUB2_ENTRIES"] = "pending"
      /\ level["KERNEL_BOOT_FILES"] = "pending"
  BY <1>2, ActionsAre
<1>6. PICK orig \in (SUBSET Versions) \ {{}}, new \in SUBSET available, here \in BOOLEAN :
          /\ new \in {{}, {Max(available \cup {0})}}
          /\ new \cap orig = {}
          /\ ~here => major >= 8
          /\ kernels = PackagesOf(orig, FALSE) \cup PackagesOf(new, TRUE)
          /\ entries = [v : orig, here : {here}] \cup [v : new, here : {TRUE}]
          /\ newest = Max(IF new = {} THEN orig ELSE new)
          /\ bootFiles \in [Versions -> {"none", "ok", "bad"}]
          /\ \A v \in Versions : bootFiles[v] \in
                 CASE v \in orig -> {"ok"} [] v \in new -> {"ok", "bad"} [] OTHER -> {"none"}
  BY Zenon DEF Init, KernelInit
<1>7. available \subseteq Versions
  BY DEF Init, KernelInit
<1>8. CoreName \in {"kernel", "kernel-core"} /\ (HasBls <=> major >= 8)
  BY DEF CoreName, HasBls
<1>9. /\ \A v \in orig : [name |-> CoreName, v |-> v, rhel |-> FALSE] \in kernels
      /\ \A v \in new : [name |-> CoreName, v |-> v, rhel |-> TRUE] \in kernels
      /\ \A v \in new : [name |-> "kernel", v |-> v, rhel |-> TRUE] \in kernels
      /\ \A k \in kernels : k.rhel => k.v \in new
      /\ kernels \subseteq Kernel
  BY <1>6, <1>7, <1>8 DEF PackagesOf, Kernel
<1>10. orig \cup new \subseteq VersionsOf(Cores)
  <2> SUFFICES ASSUME NEW v \in orig \cup new
               PROVE  \E k \in kernels : k.name = CoreName /\ k.v = v
    BY DEF VersionsOf, Cores, CoresOf
  <2>1. CASE v \in orig
    <3> DEFINE k == [name |-> CoreName, v |-> v, rhel |-> FALSE]
    <3>1. k \in kernels /\ k.name = CoreName /\ k.v = v
      BY <1>9, <2>1
    <3>2. QED
      BY <3>1
  <2>2. CASE v \in new
    <3> DEFINE k == [name |-> CoreName, v |-> v, rhel |-> TRUE]
    <3>1. k \in kernels /\ k.name = CoreName /\ k.v = v
      BY <1>9, <2>2
    <3>2. QED
      BY <3>1
  <2>3. QED
    BY <2>1, <2>2
<1>11. KernelsKept
  <2>1. Cores # {}
    BY <1>6, <1>10 DEF VersionsOf
  <2>2. QED
    BY <1>5, <1>7, <1>9, <2>1 DEF KernelsKept, Succeeded
<1>12. VersionsOf(RhelCores) \subseteq new
  BY <1>9 DEF VersionsOf, RhelCores, RhelPackages
<1>13. ASSUME RhelKernels = {} PROVE RhelCores = {}
  <2>1. ASSUME NEW v \in new PROVE FALSE
    <3> DEFINE k == [name |-> "kernel", v |-> v, rhel |-> TRUE]
    <3>1. k \in kernels /\ k.name = "kernel" /\ k.rhel
      BY <1>9, <2>1
    <3>2. QED
      BY <1>13, <3>1 DEF RhelKernels, RhelPackages
  <2>2. QED
    BY <1>12, <2>1 DEF VersionsOf
<1>14. new # {} => new = {newest}
  <2> SUFFICES ASSUME new # {} PROVE new = {newest}
    OBVIOUS
  <2>1. PICK m : new = {m}
    BY <1>6
  <2>2. m \in Nat /\ IsFiniteSet(new)
    BY <1>7, <2>1, VersionsAssumption, FS_Singleton
  <2>3. Max(new) \in new
    BY <2>1, <2>2, MaxIsGreatest
  <2>4. QED
    BY <1>6, <2>1, <2>3
<1>15. NewestIsRhel
  <2>1. VersionsOf(RhelCores) \subseteq available /\ VersionsOf(RhelCores) \subseteq {newest}
    BY <1>14, <1>12
  <2>2. QED
    BY <1>5, <1>13, <2>1 DEF NewestIsRhel, Succeeded
<1>16. EntriesFollow
  <2>1. \A e \in entries : e.here \in BOOLEAN /\ (~e.here => major >= 8) /\ e.v \in orig \cup new
    BY <1>6
  <2>2. ASSUME RhelCores # {} PROVE [v |-> newest, here |-> TRUE] \in entries
    <3>1. newest \in new
      BY <1>14, <1>12, <2>2 DEF VersionsOf
    <3>2. QED
      BY <1>6, <3>1
  <2>3. QED
    BY <1>5, <1>8, <1>10, <2>1, <2>2 DEF EntriesFollow, Succeeded
<1>17. QED
  BY <1>4, <1>15, <1>16, <1>11 DEF KernelInv

(* What an Action that does not replace the entry of the firmware keeps. *)
LoaderFrame ==
  /\ UNCHANGED <<nvram, nvram0, efi, release>>
  /\ BinaryExists("redhat") => BinaryExists("redhat")'
  /\ level'["REPLACE_EFI_BOOT_ENTRY"] \in {level["REPLACE_EFI_BOOT_ENTRY"], "SKIP"}
  /\ level'["NEW_DEFAULT_EFI_BIN"] = "SUCCESS" /\ efi =>
        level["NEW_DEFAULT_EFI_BIN"] = "SUCCESS" \/ BinaryExists("redhat")
  /\ level'["UPDATE_GRUB"] = "SUCCESS" =>
        \/ level["UPDATE_GRUB"] = "SUCCESS" /\ (RhelCfg \in files => RhelCfg' \in files')
        \/ RhelCfg' \in files'

(* Such an Action preserves what is said of the loader. *)
LEMMA LoaderFrameStep == LoaderReplaced /\ LoaderFrame => LoaderReplaced'
BY DEF LoaderReplaced, LoaderFrame, BinaryExists, File

(* An Action that is not about the entry of the firmware, or is skipped. *)
LEMMA LoaderFrameOf ==
  ASSUME InOrder, NEW a \in Actions, NEW r \in Levels \cup {"SKIP"}, level[a] = "pending",
         level' = [level EXCEPT ![a] = r],
         UNCHANGED <<nvram, nvram0, efi, release>>,
         BinaryExists("redhat") => BinaryExists("redhat")',
         files \subseteq files' \/ level["UPDATE_GRUB"] = "pending",
         a = "REPLACE_EFI_BOOT_ENTRY" => r = "SKIP",
         a = "NEW_DEFAULT_EFI_BIN" /\ r = "SUCCESS" /\ efi => BinaryExists("redhat"),
         a = "UPDATE_GRUB" /\ r = "SUCCESS" => RhelCfg' \in files'
  PROVE  LoaderFrame
<1>1. level'[a] = r /\ \A b \in Actions \ {a} : level'[b] = level[b]
  BY DEF InOrder
<1>2. level'["REPLACE_EFI_BOOT_ENTRY"] \in {level["REPLACE_EFI_BOOT_ENTRY"], "SKIP"}
  BY <1>1, ActionsAre
<1>3. level'["NEW_DEFAULT_EFI_BIN"] = "SUCCESS" /\ efi =>
        level["NEW_DEFAULT_EFI_BIN"] = "SUCCESS" \/ BinaryExists("redhat")
  BY <1>1, ActionsAre
<1>4. RhelCfg' = RhelCfg
  BY DEF RhelCfg
<1>5. level'["UPDATE_GRUB"] = "SUCCESS" =>
        \/ level["UPDATE_GRUB"] = "SUCCESS" /\ (RhelCfg \in files => RhelCfg' \in files')
        \/ RhelCfg' \in files'
  BY <1>1, <1>4, ActionsAre
<1>6. QED
  BY <1>2, <1>3, <1>5 DEF LoaderFrame

(* REPLACE_EFI_BOOT_ENTRY: what becomes of the NVRAM. *)
LEMMA ReplaceOutcome ==
  ASSUME nvram \in Nvrams, efi, ~IsRhelInBootEntries(nvram), NEW r, ReplaceEfiBootEntry(r)
  PROVE  /\ r = "SUCCESS" =>
              /\ Len(nvram'.order) \in Nat \ {0}
              /\ nvram'.order[1] \in Slots
              /\ nvram'.entries[nvram'.order[1]] = RhelEntry
         /\ \A t \in Entries(nvram) \ Entries(nvram') :
              /\ ~BinaryExists(nvram.entries[t].dir) \/ nvram.entries[t].dir = "redhat"
              /\ nvram'.entries[Head(nvram'.order)] = RhelEntry
<1> DEFINE new == WithRhelEntry(nvram)
<1>1. PICK s \in Slots \ Entries(nvram) :
           /\ Entries(new) = Entries(nvram) \cup {s}
           /\ new.entries[s] = RhelEntry
           /\ \A t \in Entries(nvram) : new.entries[t] = nvram.entries[t]
           /\ new.order = <<s>> \o nvram.order
           /\ new.current = nvram.current
           /\ new = [entries |-> new.entries, order |-> new.order, current |-> new.current]
  BY WithRhelEntryOutcome
<1>2. AddRhelBootEntry(nvram) = new
  BY DEF AddRhelBootEntry
<1>3. /\ r = "SUCCESS" => nvram' = new \/ nvram' = WithoutOrig(new)
      /\ nvram' \in {nvram, new} \/ (OrigIsUseless(new) /\ nvram' = WithoutOrig(new))
  BY <1>2 DEF ReplaceEfiBootEntry
<1> HIDE DEF new
<1>4. nvram.order \in Seq(Entries(nvram)) /\ nvram.current \in Entries(nvram)
      /\ Entries(nvram) \subseteq Slots
  BY NvramsAssumption
<1>5. new.order \in Seq(Slots) /\ new.order # <<>> /\ new.order[1] = s /\ Len(new.order) \in Nat \ {0}
  BY <1>1, <1>4
<1>6. s # new.current
  BY <1>1, <1>4
<1> DEFINE left == WithoutOrig(new)
<1>7. /\ left.order = RemoveFirst(new.order, new.current)
      /\ left.entries = [t \in Entries(new) \ {new.current} |-> new.entries[t]]
  BY <1>1 DEF WithoutOrig
<1>8. Len(left.order) \in Nat \ {0} /\ left.order[1] = s
  BY <1>5, <1>6, <1>7, FirstStays
<1>9. left.entries[s] = RhelEntry /\ Entries(left) = Entries(new) \ {new.current}
  BY <1>1, <1>6, <1>7 DEF Entries
<1> HIDE DEF left
<1>10. r = "SUCCESS" =>
              /\ Len(nvram'.order) \in Nat \ {0}
              /\ nvram'.order[1] \in Slots
              /\ nvram'.entries[nvram'.order[1]] = RhelEntry
  BY <1>1, <1>3, <1>5, <1>8, <1>9 DEF left
<1>11. ASSUME NEW t \in Entries(nvram) \ Entries(nvram')
       PROVE  /\ ~BinaryExists(nvram.entries[t].dir) \/ nvram.entries[t].dir = "redhat"
              /\ nvram'.entries[Head(nvram'.order)] = RhelEntry
  <2>1. OrigIsUseless(new) /\ nvram' = left
    BY <1>1, <1>3, <1>11 DEF left
  <2>2. t = nvram.current
    BY <1>1, <1>9, <1>11, <2>1
  <2>3. Head(new.order) = s
    BY <1>5
  <2>4. ~BinaryExists(nvram.entries[t].dir) \/ nvram.entries[t].dir = "redhat"
    BY <1>1, <1>4, <2>1, <2>2, <2>3 DEF OrigIsUseless, RhelEntry, Entry
  <2>5. Head(left.order) = left.order[1]
    BY <1>1, <1>5, <1>7, <1>8
  <2>6. QED
    BY <1>8, <1>9, <2>1, <2>4, <2>5
<1>12. QED
  BY <1>10, <1>11

(* REPLACE_EFI_BOOT_ENTRY *)
LEMMA ReplaceStep ==
  ASSUME BootInv, NEW r \in Levels, OnLoader("REPLACE_EFI_BOOT_ENTRY", r), ReplaceEfiBootEntry(r)
  PROVE  LoaderReplaced'
<1>1. /\ level["REPLACE_EFI_BOOT_ENTRY"] = "pending"
      /\ level'["REPLACE_EFI_BOOT_ENTRY"] = r
      /\ \A a \in Actions \ {"REPLACE_EFI_BOOT_ENTRY"} : level'[a] = level[a]
  BY ActionsAre DEF OnLoader, Ends, BootInv, KernelInv, InOrder
<1>2. nvram = nvram0 /\ nvram0 \in Nvrams /\ nvram0' = nvram0
  BY <1>1 DEF BootInv, LoaderReplaced, OnLoader, Ends
<1>3. UNCHANGED <<files, efi, release>>
  BY DEF ReplaceEfiBootEntry, efiFacts
<1>4. level'["REPLACE_EFI_BOOT_ENTRY"] # "pending"
  BY <1>1 DEF Levels
<1>5. r = "SUCCESS" /\ efi /\ ~IsRhelInBootEntries(nvram0) =>
          /\ Len(nvram'.order) \in Nat \ {0}
          /\ nvram'.order[1] \in Slots
          /\ nvram'.entries[nvram'.order[1]] = RhelEntry
  BY <1>2, ReplaceOutcome
<1>6. RhelCfg' = RhelCfg /\ BinaryExists("redhat")' = BinaryExists("redhat")
      /\ IsRhelInBootEntries(nvram0)' = IsRhelInBootEntries(nvram0) /\ RhelEntry' = RhelEntry
  BY <1>2, <1>3 DEF RhelCfg, BinaryExists, IsRhelInBootEntries, Entries, RhelEntry, Entry, File
<1>7. /\ level'["NEW_DEFAULT_EFI_BIN"] = level["NEW_DEFAULT_EFI_BIN"]
      /\ level'["UPDATE_GRUB"] = level["UPDATE_GRUB"]
  BY <1>1, ActionsAre
<1>8. QED
  BY <1>1, <1>2, <1>3, <1>4, <1>5, <1>6, <1>7 DEF BootInv, LoaderReplaced

(* The boot loader, step by step. *)
LEMMA LoaderReplacedStep == BootInv /\ [Next]_bootVars => LoaderReplaced'
<1> SUFFICES ASSUME BootInv, [Next]_bootVars PROVE LoaderReplaced'
  OBVIOUS
<1>1. InOrder
  BY DEF BootInv, KernelInv
<1>2. LoaderFrame => LoaderReplaced'
  BY LoaderFrameStep DEF BootInv
<1>3. CASE UNCHANGED efiVars /\ \E a \in Actions, r \in Levels \cup {"SKIP"} :
             /\ level[a] = "pending" /\ level' = [level EXCEPT ![a] = r] /\ nvram0' = nvram0
             /\ a \in {"NEW_DEFAULT_EFI_BIN", "REPLACE_EFI_BOOT_ENTRY", "UPDATE_GRUB"} => r = "SKIP"
  <2>1. PICK a \in Actions, r \in Levels \cup {"SKIP"} :
             /\ level[a] = "pending" /\ level' = [level EXCEPT ![a] = r] /\ nvram0' = nvram0
             /\ a \in {"NEW_DEFAULT_EFI_BIN", "REPLACE_EFI_BOOT_ENTRY", "UPDATE_GRUB"} => r = "SKIP"
    BY <1>3
  <2>2. UNCHANGED <<nvram, nvram0, efi, release, files>>
    BY <1>3, <2>1 DEF efiVars
  <2>3. BinaryExists("redhat") => BinaryExists("redhat")'
    BY <2>2 DEF BinaryExists, File
  <2>4. LoaderFrame
    BY <1>1, <2>1, <2>2, <2>3, LoaderFrameOf
  <2>5. QED
    BY <1>2, <2>4
<1>4. CASE KernelStep
  <2>1. PICK r \in Levels, a \in {"INSTALL_RHEL_KERNEL", "REMOVE_NON_RHEL_KERNELS",
            "FIX_INVALID_GRUB2_ENTRIES", "FIX_DEFAULT_KERNEL", "UPDATE_KERNEL",
            "KERNEL_BOOT_FILES"} : OnKernels(a, r)
    BY <1>4 DEF KernelStep
  <2>2. a \in Actions /\ a \notin {"NEW_DEFAULT_EFI_BIN", "REPLACE_EFI_BOOT_ENTRY", "UPDATE_GRUB"}
    BY ActionsAre
  <2>3. QED
    BY <1>3, <2>1, <2>2 DEF OnKernels, Ends
<1>5. CASE Skip
  <2>1. PICK a \in Actions : level[a] = "pending" /\ level' = [level EXCEPT ![a] = "SKIP"]
    BY <1>5 DEF Skip
  <2>2. UNCHANGED efiVars /\ nvram0' = nvram0
    BY <1>5 DEF Skip
  <2>3. QED
    BY <1>3, <2>1, <2>2
<1>6. CASE UNCHANGED bootVars
  <2>1. LoaderFrame
    BY <1>6 DEF bootVars, efiVars, LoaderFrame, BinaryExists, RhelCfg, File
  <2>2. QED
    BY <1>2, <2>1
<1>7. ASSUME NEW r \in Levels, OnLoader("NEW_DEFAULT_EFI_BIN", r), NewDefaultEfiBin(r)
      PROVE  LoaderReplaced'
  <2>1. UNCHANGED <<nvram, nvram0, efi, release, files>>
        /\ (r = "SUCCESS" /\ efi => BinaryExists("redhat"))
    BY <1>7 DEF NewDefaultEfiBin, efiVars, OnLoader, Ends
  <2>2. BinaryExists("redhat") => BinaryExists("redhat")'
    BY <2>1 DEF BinaryExists, File
  <2>3. LoaderFrame
    BY <1>1, <1>7, <2>1, <2>2, LoaderFrameOf, ActionsAre DEF OnLoader, Ends
  <2>4. QED
    BY <1>2, <2>3
<1>8. ASSUME NEW r \in Levels, NEW a \in {"EFIBOOTMGR_UTILITY_INSTALLED", "REMOVE_EFI_CENTOS",
                "FIX_GRUB_SETTINGS_ON_AL2"}, OnLoader(a, r),
             UNCHANGED <<nvram, efi, release, files>>
      PROVE  LoaderReplaced'
  <2>1. BinaryExists("redhat") => BinaryExists("redhat")'
    BY <1>8 DEF BinaryExists, File
  <2>2. LoaderFrame
    BY <1>1, <1>8, <2>1, LoaderFrameOf, ActionsAre DEF OnLoader, Ends
  <2>3. QED
    BY <1>2, <2>2
<1>9. ASSUME NEW r \in Levels, OnLoader("MOVE_GRUB_FILES", r), MoveGrubFiles(r)
      PROVE  LoaderReplaced'
  <2>1. UNCHANGED <<nvram, nvram0, efi, release>>
    BY <1>9 DEF MoveGrubFiles, efiFacts, OnLoader, Ends
  <2>2. BinaryExists("redhat") => BinaryExists("redhat")'
    <3> SUFFICES ASSUME File("redhat", "shim") \in files PROVE File("redhat", "shim") \in files'
      BY DEF BinaryExists, File
    <3>1. \/ files' = files
          \/ \E moved \in SUBSET ToMove :
                files' = (files \ {File("centos", f) : f \in moved})
                                \cup {File("redhat", f) : f \in moved}
      BY <1>9 DEF MoveGrubFiles
    <3>2. \A f \in ToMove : File("centos", f) # File("redhat", "shim")
      BY DEF File
    <3>3. QED
      BY <3>1, <3>2
  <2>3. level["UPDATE_GRUB"] = "pending"
    BY <1>1, <1>9, Waiting, ConversionActions DEF OnLoader, Ends
  <2>4. LoaderFrame
    BY <1>1, <1>9, <2>1, <2>2, <2>3, LoaderFrameOf, ActionsAre DEF OnLoader, Ends
  <2>5. QED
    BY <1>2, <2>4
<1>10. ASSUME NEW r \in Levels, OnLoader("UPDATE_GRUB", r), UpdateGrub(r)
       PROVE  LoaderReplaced'
  <2>1. UNCHANGED <<nvram, nvram0, efi, release>>
    BY <1>10 DEF UpdateGrub, efiFacts, OnLoader, Ends
  <2>2. files \subseteq files' /\ (r = "SUCCESS" => RhelCfg \in files') /\ RhelCfg' = RhelCfg
    BY <1>10, <2>1 DEF UpdateGrub, RhelCfg
  <2>3. BinaryExists("redhat") => BinaryExists("redhat")'
    BY <2>2 DEF BinaryExists, File
  <2>4. LoaderFrame
    BY <1>1, <1>10, <2>1, <2>2, <2>3, LoaderFrameOf, ActionsAre DEF OnLoader, Ends
  <2>5. QED
    BY <1>2, <2>4
<1>11. CASE LoaderStep
  BY <1>7, <1>8, <1>9, <1>10, <1>11, ReplaceStep
  DEF LoaderStep, EfibootmgrUtilityInstalled, RemoveEfiCentos, FixGrubSettings, efiVars, efiFacts
<1>12. QED
  BY <1>4, <1>5, <1>6, <1>11 DEF Next

-----------------------------------------------------------------------------
(* The theorems                                                             *)

(* BootInv holds throughout the conversion. *)
LEMMA BootInvariant == Spec => []BootInv
<1>1. Init => LoaderReplaced
  <2> SUFFICES ASSUME Init PROVE LoaderReplaced
    OBVIOUS
  <2>1. \A a \in Actions \ {"CONVERT_SYSTEM_PACKAGES"} : level[a] = "pending"
    BY DEF Init
  <2>2. nvram \in Nvrams /\ nvram0 = nvram
    BY DEF Init, EfiInit
  <2>3. /\ level["REPLACE_EFI_BOOT_ENTRY"] = "pending" /\ level["NEW_DEFAULT_EFI_BIN"] = "pending"
        /\ level["UPDATE_GRUB"] = "pending"
    BY <2>1, ActionsAre
  <2>4. QED
    BY <2>2, <2>3 DEF LoaderReplaced
<1>2. BootInv /\ [Next]_bootVars => BootInv'
  BY KernelInvStep, LoaderReplacedStep DEF BootInv
<1>3. QED
  BY KernelInvInit, <1>1, <1>2, PTL DEF Spec, BootInv

(* Whatever fails, is refused or is skipped, a kernel with a vmlinuz stays:  *)
(* handle_no_newer_rhel_kernel_available() and the removal of the kernels    *)
(* that are not of RHEL never take the last one - but in the case that       *)
(* KernelRemains names, of which KERNEL_BOOT_FILES warns.                    *)
THEOREM KernelsRemain == Spec => []KernelRemains
<1>1. BootInv => KernelRemains
  BY DEF BootInv, KernelInv, KernelsKept, NewestIsRhel, KernelRemains
<1>2. QED
  BY BootInvariant, <1>1, PTL

(* The kernels of a conversion that reported no problem. *)
LEMMA CleanKernels ==
  ASSUME BootInv, Clean
  PROVE  LET latest == Max(VersionsOf(Cores)) IN
       /\ OtherKernels = {} /\ Cores # {}
       /\ bootFiles[latest] = "ok"
       /\ [v |-> latest, here |-> TRUE] \in entries
       /\ \A e \in entries : e.v \in VersionsOf(Cores)
<1>1. /\ level["REMOVE_NON_RHEL_KERNELS"] = "SUCCESS" /\ level["KERNEL_BOOT_FILES"] = "SUCCESS"
      /\ level["FIX_INVALID_GRUB2_ENTRIES"] \in {"SUCCESS", "WARNING"}
  BY ActionsAre DEF Clean
<1>2. /\ OtherKernels = {} /\ Cores # {} /\ newest \in VersionsOf(Cores)
      /\ \A v \in VersionsOf(Cores) : v <= newest
      /\ bootFiles[newest] = "ok"
  BY <1>1 DEF BootInv, KernelInv, NewestIsRhel, Succeeded
<1>3. VersionsOf(Cores) \in SUBSET Versions /\ VersionsOf(Cores) # {}
  BY <1>2 DEF BootInv, KernelInv, KernelsKept, Kernel, VersionsOf, Cores, CoresOf
<1> DEFINE m == Max(VersionsOf(Cores))
<1>4. m \in VersionsOf(Cores) /\ m \in Nat /\ \A v \in VersionsOf(Cores) : v <= m
  BY <1>3, MaxOfVersions
<1> HIDE DEF m
<1>5. m = newest
  <2>1. m <= newest /\ newest <= m
    BY <1>2, <1>4
  <2>2. newest \in Nat
    BY <1>2, <1>3, VersionsAssumption
  <2>3. QED
    BY <1>4, <2>1, <2>2
<1>6. RhelCores # {}
  BY <1>2 DEF RhelCores, RhelPackages, OtherKernels, Cores, CoresOf
<1>7. [v |-> newest, here |-> TRUE] \in entries /\ \A e \in entries : e.v \in VersionsOf(Cores)
  BY <1>1, <1>6 DEF BootInv, KernelInv, EntriesFollow, Succeeded
<1>8. QED
  BY <1>2, <1>5, <1>7 DEF m

(* Its boot loader. *)
LEMMA CleanLoader ==
  ASSUME BootInv, Clean, ~IsRhelInBootEntries(nvram0)
  PROVE  LoaderFindsGrub
<1>1. /\ level["UPDATE_GRUB"] = "SUCCESS" /\ level["NEW_DEFAULT_EFI_BIN"] = "SUCCESS"
      /\ level["REPLACE_EFI_BOOT_ENTRY"] = "SUCCESS"
  BY ActionsAre DEF Clean
<1>2. RhelCfg \in files
  BY <1>1 DEF BootInv, LoaderReplaced
<1>3. CASE efi
  <2> DEFINE found == {i \in 1 .. Len(nvram.order) :
                    LET e == nvram.entries[nvram.order[i]] IN e.esp /\ BinaryExists(e.dir)}
  <2>1. /\ Len(nvram.order) \in Nat \ {0} /\ nvram.order[1] \in Slots
        /\ nvram.entries[nvram.order[1]] = RhelEntry /\ BinaryExists("redhat")
    BY <1>1, <1>3 DEF BootInv, LoaderReplaced
  <2>2. 1 \in found
    BY <2>1 DEF RhelEntry, Entry
  <2>3. found \in SUBSET Nat
    OBVIOUS
  <2>4. Started = nvram.order[Min(found)]
    BY <2>2 DEF Started
  <2> HIDE DEF found
  <2>5. Min(found) \in found /\ Min(found) =< 1
    BY <2>2, <2>3, MinIsLeast
  <2>6. \A i \in found : i >= 1
    BY DEF found
  <2>7. Min(found) = 1
    <3> DEFINE m == Min(found)
    <3>1. m \in Nat /\ m =< 1 /\ m >= 1
      BY <2>3, <2>5, <2>6
    <3> HIDE DEF m
    <3>2. m = 1
      BY <3>1
    <3>3. QED
      BY <3>2 DEF m
  <2>8. Started # 0 /\ nvram.entries[Started].dir = "redhat"
    BY <2>1, <2>4, <2>7, NvramsAssumption DEF RhelEntry, Entry
  <2>9. QED
    BY <1>2, <1>3, <2>8 DEF LoaderFindsGrub
<1>4. CASE ~efi
  BY <1>2, <1>4 DEF LoaderFindsGrub
<1>5. QED
  BY <1>3, <1>4

(* A conversion that reports no problem has only kernels of RHEL, the newest *)
(* with its boot files and a boot entry, no entry of a kernel that is gone,  *)
(* and a firmware that starts the loader of RHEL with a configuration.       *)
THEOREM CleanRunsBoot == Spec => []CleanRunBoots
<1>1. BootInv => CleanRunBoots
  BY CleanKernels, CleanLoader DEF CleanRunBoots
<1>2. QED
  BY BootInvariant, <1>1, PTL

(* _remove_orig_boot_entry(): an entry of the firmware goes only when its    *)
(* binary is gone or is the one the first entry starts.                      *)
THEOREM OnlyUselessEntriesGo == Spec => UselessEntriesGo
<1> DEFINE Goes ==
      \A s \in Entries(nvram) \ Entries(nvram') :
          LET e == nvram.entries[s]
              first == nvram'.entries[Head(nvram'.order)]
          IN \/ ~BinaryExists(e.dir)
             \/ first.dir = e.dir /\ first.esp
             \/ IsRhelInBootEntries(nvram0)
<1>1. BootInv /\ [Next]_bootVars => Goes
  <2> SUFFICES ASSUME BootInv, [Next]_bootVars, nvram' # nvram, ~IsRhelInBootEntries(nvram0)
               PROVE  Goes
    OBVIOUS
  <2>1. PICK r \in Levels : OnLoader("REPLACE_EFI_BOOT_ENTRY", r) /\ ReplaceEfiBootEntry(r)
    BY DEF Next, bootVars, efiVars, Skip, KernelStep, OnKernels, LoaderStep, NewDefaultEfiBin,
           EfibootmgrUtilityInstalled, MoveGrubFiles, RemoveEfiCentos, FixGrubSettings, UpdateGrub
  <2>2. nvram = nvram0 /\ nvram \in Nvrams
    BY <2>1 DEF OnLoader, Ends, BootInv, LoaderReplaced
  <2>3. efi
    BY <2>1 DEF ReplaceEfiBootEntry
  <2>4. \A t \in Entries(nvram) \ Entries(nvram') :
              /\ ~BinaryExists(nvram.entries[t].dir) \/ nvram.entries[t].dir = "redhat"
              /\ nvram'.entries[Head(nvram'.order)] = RhelEntry
    BY <2>1, <2>2, <2>3, ReplaceOutcome
  <2>5. RhelEntry.dir = "redhat" /\ RhelEntry.esp
    BY DEF RhelEntry, Entry
  <2>6. QED
    BY <2>4, <2>5
<1>2. QED
  BY BootInvariant, <1>1, PTL DEF Spec, UselessEntriesGo
=============================================================================
