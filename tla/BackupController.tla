-------------------------- MODULE BackupController --------------------------
(***************************************************************************)
(* The undo log of convert2rhel (convert2rhel/backup): a LIFO stack of     *)
(* RestorableChange objects.  push() enables a change and remembers it,    *)
(* pop_all() restores all of them before the point of no return.  Modelled *)
(* are every class of RestorableChange, what the pre-conversion Actions do *)
(* to the system once a change is pushed, and the failures of the tools    *)
(* the classes call.                                                       *)
(*                                                                         *)
(* The system is a set of resources: files, RPM packages, the GPG key, the *)
(* certificates, the RHSM registration with its subscriptions and enabled  *)
(* repositories.  A resource is "absent", as it was originally ("orig"),   *)
(* or "changed".                                                           *)
(***************************************************************************)
EXTENDS Naturals, FiniteSets, SequencesExt

CONSTANTS
  Objects,     \* the RestorableChange objects the run may create
  Kind,        \* their class
  Target,      \* the resource each of them is about
  Resources,   \* all resources
  Owner,       \* the package of a file, the registration that a subscription
               \* and enabled repositories come with, or NoOwner
  NoOwner,
  Modified,    \* files whose content is not what their package ships
  Skipped,     \* files that BACKUP_PACKAGE_FILES leaves out: see FilesPushed
  SubMgr,      \* the resource that is the subscription-manager package
  Initial,     \* the systems the program may be started on
  Makes,       \* the changes that a run on such a system may make
  Faults       \* what may go wrong: see Fault below

Kinds == {"file", "missing", "installed", "key", "cert", "subscription",
          "auto_attach", "repos", "package", "package_set"}
Values == {"absent", "orig", "changed"}
None == "none"                       \* nothing saved
Unavailable == "unavailable"         \* a package that could not be downloaded
Slots == Objects \cup Resources

ASSUME ObjectsAssumption ==
  /\ Kind \in [Objects -> Kinds]
  /\ Target \in [Objects -> Resources]
  /\ Owner \in [Resources -> Resources \cup {NoOwner}]
  /\ NoOwner \notin Resources
  /\ Modified \subseteq Resources /\ Skipped \subseteq Resources
  /\ SubMgr \in Resources
  /\ Objects \cap Resources = {}
(* Only RestorableFiles and the InstalledFile of a yum variable share a      *)
(* path; packages own files, the registration what comes with it.            *)
ASSUME TargetsAssumption ==
  /\ \A o, q \in Objects :
       o # q /\ Target[o] = Target[q] => {Kind[o], Kind[q]} \subseteq {"file", "installed"}
  /\ \A o \in Objects :
       Owner[Target[o]] # NoOwner =>
         Kind[o] \in {"file", "missing", "installed", "auto_attach", "repos"}
  /\ \A o \in Objects : Kind[o] \in {"auto_attach", "repos"} => Owner[Target[o]] # NoOwner
  /\ \A o, q \in Objects :
       Owner[Target[o]] = Target[q] =>
         IF Kind[o] \in {"auto_attach", "repos"}
         THEN Kind[q] = "subscription" ELSE Kind[q] = "package"
(* subscription-manager is installed by the run if it is not there, and not  *)
(* among the packages that are removed.                                      *)
ASSUME SubMgrAssumption ==
  /\ Owner[SubMgr] = NoOwner
  /\ \A o \in Objects : Target[o] = SubMgr => Kind[o] = "package_set"
(* A system that is not registered has no subscription and no repositories   *)
(* of subscription-manager.                                                  *)
ASSUME InitialAssumption ==
  /\ Initial \subseteq [Resources -> {"absent", "orig"}]
  /\ Makes \in [Initial -> SUBSET Objects]
  /\ \A s \in Initial : \A o \in Objects :
       Kind[o] = "subscription" /\ s[Target[o]] = "absent" =>
         \A r \in Resources : Owner[r] = Target[o] => s[r] = "absent"
(* The packages to remove are installed ones, and a subscription is attached *)
(* to a registered system when it has none.                                  *)
ASSUME MakesAssumption ==
  \A s \in Initial : \A o \in Makes[s] :
    /\ Kind[o] = "package" => s[Target[o]] = "orig"
    /\ Kind[o] = "auto_attach" => s[Target[o]] = "absent"

VARIABLES
  sys,        \* the system
  orig,       \* the system as it was found (never assigned after Init)
  saved,      \* BACKUP_DIR by path, and what an object remembers
  on,         \* RestorableChange.enabled
  stack,      \* BackupController._restorables
  failures,   \* the objects behind BackupController._rollback_failures
  unnoticed,  \* what is left different and not recorded: files without a backup,
              \* and the objects that leave their effects behind (history)
  mode        \* "converting", "rollback", "restored" or "interrupted"

vars == <<sys, orig, saved, on, stack, failures, unnoticed, mode>>

TypeOK ==
  /\ sys \in [Resources -> Values]
  /\ orig \in Initial
  /\ saved \in [Slots -> Values \cup {None, Unavailable}]
  /\ on \in [Objects -> BOOLEAN]
  /\ stack \in Seq(Objects)
  /\ failures \subseteq Objects /\ unnoticed \subseteq Slots
  /\ mode \in {"converting", "rollback", "restored", "interrupted"}

Init ==
  /\ orig \in Initial
  /\ sys = orig
  /\ saved = [s \in Slots |-> None]
  /\ on = [o \in Objects |-> FALSE]
  /\ stack = <<>>
  /\ failures = {} /\ unnoticed = {}
  /\ mode = "converting"

(* The failures considered: "raise" - an operation raises an exception;     *)
(* "silent" - a tool fails and the code only logs it; "attach" - the system *)
(* is registered and attaching a subscription fails; "unavailable" - a      *)
(* package cannot be downloaded and the user allows an incomplete rollback; *)
(* "no_rpm_va" - there is no log of `rpm -Va`, and the user allows the same; *)
(* "no_backup_dir" - BACKUP_DIR is no directory; "owned" - a new package    *)
(* owns an installed certificate; "interrupt" - Ctrl-C during the rollback. *)
Fault(f) == f \in Faults

Present(r) == sys[r] # "absent"
OnStack == ToSet(stack)
Owned(p) == {r \in Resources : Owner[r] = p}
Becomes(r, value) == sys' = [sys EXCEPT ![r] = value]
GoesWithAllItOwns(p) ==
  sys' = [r \in Resources |-> IF r = p \/ r \in Owned(p) THEN "absent" ELSE sys[r]]
Remember(slot, value) == saved' = [saved EXCEPT ![slot] = value]

-----------------------------------------------------------------------------
(* enable() of each class, and the append of push() when it returns.        *)

Enabled(o) == on' = [on EXCEPT ![o] = TRUE] /\ stack' = Append(stack, o)
EnableRaises == Fault("raise") /\ UNCHANGED <<sys, saved, on, stack>>

(* RestorableFile: an absent file is not backed up, and still is pushed. *)
EnableFile(o) ==
  /\ Kind[o] = "file"
  /\ \/ Present(Target[o]) /\ Remember(Target[o], sys[Target[o]]) /\ Enabled(o)
        /\ UNCHANGED sys
     \/ ~Present(Target[o]) /\ stack' = Append(stack, o) /\ UNCHANGED <<sys, saved, on>>
     \/ Present(Target[o]) /\ EnableRaises

EnableMissing(o) ==
  /\ Kind[o] = "missing"
  /\ IF Present(Target[o]) THEN stack' = Append(stack, o) /\ UNCHANGED on ELSE Enabled(o)
  /\ UNCHANGED <<sys, saved>>

(* Mutant: RestoreYumVarFiles does not look whether there is a backup. *)
EnableInstalled_Always(o) ==
  /\ Kind[o] = "installed"
  /\ Becomes(Target[o], saved[Target[o]])
  /\ Enabled(o)
  /\ UNCHANGED saved

(* RestoreYumVarFiles copies a backed up file to its place and then pushes   *)
(* an InstalledFile for it.                                                  *)
EnableInstalled(o) ==
  /\ Kind[o] = "installed"
  /\ saved[Target[o]] # None
  /\ Becomes(Target[o], saved[Target[o]])
  /\ Enabled(o)
  /\ UNCHANGED saved

(* RestorableRpmKey, RestorablePEMCert: install it unless it is there. *)
EnableKeyOrCert(o) ==
  /\ Kind[o] \in {"key", "cert"}
  /\ \/ Remember(o, sys[Target[o]]) /\ Enabled(o)
        /\ IF Present(Target[o]) THEN UNCHANGED sys ELSE Becomes(Target[o], "changed")
     \/ EnableRaises

(* RestorableSystemSubscription: register_system() unregisters the system,   *)
(* if it is registered, and registers it anew, with some repositories and,   *)
(* by attach_subscription(), a subscription if it takes one.  An exception   *)
(* of attach_subscription() leaves the new registration, one of              *)
(* register_system() a system that is not registered.  Nothing brings back   *)
(* a registration that was there before.                                     *)
Register(o) ==
  \E granted \in SUBSET Owned(Target[o]) :
    sys' = [r \in Resources |->
              IF r = Target[o] \/ r \in granted THEN "changed"
              ELSE IF r \in Owned(Target[o]) THEN "absent" ELSE sys[r]]
EnableSubscription(o) ==
  /\ Kind[o] = "subscription"
  /\ Present(SubMgr)
  /\ \/ /\ Register(o) /\ Enabled(o) /\ UNCHANGED saved
        /\ unnoticed' = IF orig[Target[o]] = "absent" THEN unnoticed ELSE unnoticed \cup {o}
     \/ EnableRaises /\ UNCHANGED unnoticed
     \/ /\ Fault("raise") /\ orig[Target[o]] = "orig" /\ GoesWithAllItOwns(Target[o])
        /\ unnoticed' = unnoticed \cup {o}
        /\ UNCHANGED <<saved, on, stack>>
     \/ /\ Fault("attach") /\ Register(o)
        /\ unnoticed' = unnoticed \cup {o}
        /\ UNCHANGED <<saved, on, stack>>

(* RestorableAutoAttachmentSubscription, pushed on a registered system. *)
Registered(o) == Present(Owner[Target[o]])
EnableAutoAttach(o) ==
  /\ Kind[o] = "auto_attach"
  /\ Present(SubMgr) /\ Registered(o)
  /\ \/ Becomes(Target[o], "changed") /\ Remember(o, "changed") /\ Enabled(o)
     \/ EnableRaises

(* RestorableDisableRepositories: remember what is enabled, disable it all.  *)
(* With nothing to remember, restore() will do nothing.                      *)
EnableRepos(o) ==
  /\ Kind[o] = "repos"
  /\ Present(SubMgr) /\ Registered(o)
  /\ Remember(o, sys[Target[o]])
  /\ \/ /\ Becomes(Target[o], "absent") /\ Enabled(o)
        /\ unnoticed' = IF Present(Target[o]) THEN unnoticed ELSE unnoticed \cup {o}
     \/ Fault("raise") /\ UNCHANGED <<sys, on, stack, unnoticed>>

(* The files of a package that are not as shipped, and their backups. *)
NotAsShipped(p) == {r \in Owned(p) : r \in Modified \/ orig[r] = "absent"}
HasBeenPushed(r) ==
  \E q \in OnStack : Target[q] = r /\ Kind[q] = IF orig[r] = "absent" THEN "missing" ELSE "file"
WithoutBackup(p) == {r \in NotAsShipped(p) : ~HasBeenPushed(r)}

(* RestorablePackage: download the packages that are about to be removed.    *)
(* Without a directory for them there is a warning, and the package is       *)
(* pushed and removed all the same.                                          *)
EnablePackage(o) ==
  /\ Kind[o] = "package"
  /\ UNCHANGED sys
  /\ \/ /\ \/ Remember(o, "orig")
           \/ Fault("unavailable") /\ Remember(o, Unavailable)
        /\ Enabled(o)
        /\ unnoticed' = unnoticed \cup WithoutBackup(Target[o])
     \/ /\ Fault("no_backup_dir")
        /\ stack' = Append(stack, o)
        /\ unnoticed' = unnoticed \cup WithoutBackup(Target[o]) \cup {o}
        /\ UNCHANGED <<saved, on>>
     \/ EnableRaises /\ UNCHANGED unnoticed

(* RestorablePackageSet: install what is not installed yet. *)
EnablePackageSet(o) ==
  /\ Kind[o] = "package_set"
  /\ ~Present(Target[o])
  /\ \/ Becomes(Target[o], "changed") /\ Enabled(o) /\ UNCHANGED saved
     \/ EnableRaises

Enable(o) ==
  \/ EnableSubscription(o) \/ EnableRepos(o) \/ EnablePackage(o)
  \/ /\ \/ EnableFile(o) \/ EnableMissing(o) \/ EnableInstalled(o) \/ EnableKeyOrCert(o)
        \/ EnableAutoAttach(o) \/ EnablePackageSet(o)
     /\ UNCHANGED unnoticed

(* RestorableFiles are equal when their paths are, other objects only to     *)
(* themselves.                                                               *)
Equal(o, q) == o = q \/ (Kind[o] = "file" /\ Kind[q] = "file" /\ Target[o] = Target[q])
AlreadyBackedUp(o) == \E q \in OnStack : Equal(q, o)

(* What the dependencies of the Actions guarantee before a package is        *)
(* pushed for removal (REMOVE_SPECIAL_PACKAGES): of its files, the missing   *)
(* ones have been pushed as MissingFiles and the modified ones as            *)
(* RestorableFiles.  BACKUP_PACKAGE_FILES skips ghost files and, taken to be *)
(* backed up by other Actions, whatever is in the yum directories (Skipped), *)
(* and everything when there is no log of `rpm -Va`.                         *)
FilesPushed(o) ==
  Kind[o] = "package" => Fault("no_rpm_va") \/ WithoutBackup(Target[o]) \subseteq Skipped

(* Mutant: no look for a backup that is there already. *)
Push_Twice(o) ==
  /\ mode = "converting"
  /\ o \in Makes[orig]
  /\ o \notin OnStack
  /\ FilesPushed(o)
  /\ Enable(o)
  /\ UNCHANGED <<orig, failures, mode>>

(* push(): an object that is on the stack already is skipped, and one whose  *)
(* enable() raises is not appended.                                          *)
Push(o) ==
  /\ mode = "converting"
  /\ o \in Makes[orig]
  /\ ~AlreadyBackedUp(o)
  /\ FilesPushed(o)
  /\ Enable(o)
  /\ UNCHANGED <<orig, failures, mode>>
-----------------------------------------------------------------------------
(* What the Actions do to the system once the change has been pushed.       *)

Converting == mode = "converting" /\ UNCHANGED <<orig, stack, failures, unnoticed, mode>>

(* remove_pkgs(): the package and the files it owns are gone. *)
RemovePackage(o) ==
  /\ Kind[o] = "package" /\ o \in OnStack
  /\ GoesWithAllItOwns(Target[o])
  /\ Converting
  /\ UNCHANGED <<saved, on>>

(* A backed up file is edited or deleted, a missing one is created. *)
ChangeFile(o) ==
  /\ Kind[o] \in {"file", "missing"} /\ o \in OnStack /\ on[o]
  /\ \E value \in {"absent", "changed"} : Becomes(Target[o], value)
  /\ Converting
  /\ UNCHANGED <<saved, on>>

(* register_system() puts /etc/os-release back while the system is being     *)
(* registered, RestorableFile.restore(rollback=False), and then removes it.  *)
RestoreForConversion(o) ==
  /\ Kind[o] = "file" /\ o \in OnStack /\ on[o]
  /\ Becomes(Target[o], saved[Target[o]])
  /\ Converting
  /\ UNCHANGED <<saved, on>>

(* enable_repos(): the RHEL repositories. *)
EnableRhelRepos(o) ==
  /\ Kind[o] = "repos" /\ o \in OnStack
  /\ Becomes(Target[o], "changed")
  /\ Converting
  /\ UNCHANGED <<saved, on>>

-----------------------------------------------------------------------------
(* restore() of each class, for the object popped by pop_all().             *)

Disabled(o) == on' = [on EXCEPT ![o] = FALSE]
Survived == UNCHANGED <<failures, unnoticed>>
Recorded(o) == failures' = failures \cup {o} /\ UNCHANGED unnoticed
RestoreRaises(o) == Fault("raise") /\ Recorded(o)
OnlyLogged(o) == unnoticed' = unnoticed \cup {o} /\ UNCHANGED failures

(* shutil.copy2(), then os.remove() of the backup: either may fail. *)
RestoreFile(o) ==
  /\ Kind[o] = "file"
  /\ \/ ~on[o] /\ Survived /\ UNCHANGED <<sys, saved, on>>
     \/ on[o] /\ saved[Target[o]] # None /\ Becomes(Target[o], saved[Target[o]])
        /\ \/ Remember(Target[o], None) /\ Disabled(o) /\ Survived
           \/ RestoreRaises(o) /\ UNCHANGED <<saved, on>>
     \/ on[o] /\ RestoreRaises(o) /\ UNCHANGED <<sys, saved, on>>
     \/ on[o] /\ saved[Target[o]] = None
        /\ Recorded(o) /\ UNCHANGED <<sys, saved, on>>

(* MissingFile, InstalledFile: remove the file if it is there. *)
RestoreNewFile(o) ==
  /\ Kind[o] \in {"missing", "installed"}
  /\ UNCHANGED saved
  /\ \/ ~(on[o] /\ Present(Target[o])) /\ Survived /\ UNCHANGED <<sys, on>>
     \/ on[o] /\ Present(Target[o])
        /\ \/ Becomes(Target[o], "absent") /\ Disabled(o) /\ Survived
           \/ RestoreRaises(o) /\ UNCHANGED <<sys, on>>

(* RestorableRpmKey: the return code of `rpm -e` is not looked at. *)
RestoreKey(o) ==
  /\ Kind[o] = "key"
  /\ \/ on[o] /\ saved[o] = "absent" /\ Becomes(Target[o], "absent") /\ Survived
     \/ on[o] /\ saved[o] = "absent" /\ Fault("silent") /\ UNCHANGED sys /\ OnlyLogged(o)
     \/ ~(on[o] /\ saved[o] = "absent") /\ UNCHANGED sys /\ Survived
  /\ Disabled(o)
  /\ UNCHANGED saved

(* RestorablePEMCert: not removed when a package owns it by now. *)
RestoreCert(o) ==
  /\ Kind[o] = "cert"
  /\ UNCHANGED saved
  /\ \/ on[o] /\ saved[o] = "absent" /\ Becomes(Target[o], "absent") /\ Disabled(o) /\ Survived
     \/ on[o] /\ saved[o] = "absent" /\ RestoreRaises(o) /\ UNCHANGED <<sys, on>>
     \/ on[o] /\ saved[o] = "absent" /\ Fault("owned") /\ Disabled(o) /\ OnlyLogged(o)
        /\ UNCHANGED sys
     \/ ~(on[o] /\ saved[o] = "absent") /\ Disabled(o) /\ Survived /\ UNCHANGED sys

(* RestorableSystemSubscription: nothing to do without subscription-manager, *)
(* UnregisterError is only logged.                                           *)
RestoreSubscription(o) ==
  /\ Kind[o] = "subscription"
  /\ \/ on[o] /\ Present(SubMgr) /\ GoesWithAllItOwns(Target[o]) /\ Survived
     \/ on[o] /\ ~Present(SubMgr) /\ UNCHANGED sys /\ Survived
     \/ on[o] /\ Fault("silent") /\ UNCHANGED sys /\ OnlyLogged(o)
     \/ ~on[o] /\ UNCHANGED sys /\ Survived
  /\ Disabled(o)
  /\ UNCHANGED saved

(* RestorableAutoAttachmentSubscription *)
RestoreAutoAttach(o) ==
  /\ Kind[o] = "auto_attach"
  /\ UNCHANGED saved
  /\ \/ saved[o] = None /\ Survived /\ UNCHANGED <<sys, on>>
     \/ saved[o] # None /\ Present(SubMgr)
        /\ Becomes(Target[o], "absent") /\ Disabled(o) /\ Survived
     \/ saved[o] # None /\ ~Present(SubMgr)
        /\ Recorded(o) /\ UNCHANGED <<sys, on>>
     \/ saved[o] # None /\ RestoreRaises(o) /\ UNCHANGED <<sys, on>>

(* RestorableDisableRepositories: nothing is done when no repository was     *)
(* enabled; subscription-manager may fail after everything is disabled.      *)
RestoreRepos(o) ==
  /\ Kind[o] = "repos"
  /\ UNCHANGED saved
  /\ IF on[o] /\ saved[o] \in {"orig", "changed"}
     THEN \/ /\ Present(SubMgr)
             /\ Becomes(Target[o], saved[o]) /\ Disabled(o) /\ Survived
          \/ ~Present(SubMgr) /\ Recorded(o) /\ UNCHANGED <<sys, on>>
          \/ RestoreRaises(o) /\ Becomes(Target[o], "absent") /\ UNCHANGED on
     ELSE Disabled(o) /\ Survived /\ UNCHANGED sys

(* `rpm -i --replacepkgs`: the package is back, with its files as shipped;   *)
(* a file that is in the way may be kept.                                    *)
AsShipped(r) == IF r \in Modified \/ orig[r] = "absent" THEN "changed" ELSE "orig"
Reinstall(p) ==
  \E kept \in SUBSET {r \in Owned(p) : Present(r)} :
    sys' = [r \in Resources |->
              IF r = p THEN "orig"
              ELSE IF r \in Owned(p) \ kept THEN AsShipped(r) ELSE sys[r]]

(* RestorablePackage: a path that is None fails the whole command. *)
RestorePackage(o) ==
  /\ Kind[o] = "package"
  /\ UNCHANGED saved
  /\ \/ ~on[o] /\ Survived /\ UNCHANGED <<sys, on>>
     \/ on[o] /\ saved[o] = "orig" /\ Reinstall(Target[o]) /\ Disabled(o) /\ Survived
     \/ on[o] /\ saved[o] = "orig" /\ RestoreRaises(o) /\ UNCHANGED <<sys, on>>
     \/ on[o] /\ saved[o] = Unavailable
        /\ Recorded(o) /\ UNCHANGED <<sys, on>>

(* RestorablePackageSet: remove_pkgs(critical=False) only logs a failure. *)
RestorePackageSet(o) ==
  /\ Kind[o] = "package_set"
  /\ \/ on[o] /\ Becomes(Target[o], "absent") /\ Survived
     \/ on[o] /\ Fault("silent") /\ UNCHANGED sys /\ OnlyLogged(o)
     \/ ~on[o] /\ UNCHANGED sys /\ Survived
  /\ Disabled(o)
  /\ UNCHANGED saved

Restore(o) ==
  \/ RestoreFile(o) \/ RestoreNewFile(o) \/ RestoreKey(o) \/ RestoreCert(o)
  \/ RestoreSubscription(o) \/ RestoreAutoAttach(o) \/ RestoreRepos(o)
  \/ RestorePackage(o) \/ RestorePackageSet(o)

-----------------------------------------------------------------------------

(* rollback_changes(): no backups to restore is not an error. *)
StartRollback ==
  /\ mode = "converting"
  /\ mode' = IF stack = <<>> THEN "restored" ELSE "rollback"
  /\ UNCHANGED <<sys, orig, saved, on, stack, failures, unnoticed>>

(* Mutants: the first change pushed is restored first; the loop ends at the  *)
(* first exception.                                                          *)
PopAndRestore_Fifo ==
  /\ mode = "rollback" /\ stack # <<>>
  /\ stack' = Tail(stack)
  /\ Restore(Head(stack))
  /\ mode' = IF stack' = <<>> THEN "restored" ELSE "rollback"
  /\ UNCHANGED orig

PopAndRestore_Stops ==
  /\ mode = "rollback" /\ stack # <<>>
  /\ stack' = Front(stack)
  /\ Restore(Last(stack))
  /\ mode' = IF stack' = <<>> \/ failures' # failures THEN "restored" ELSE "rollback"
  /\ UNCHANGED orig

(* One turn of pop_all(): an exception is remembered and the loop goes on. *)
PopAndRestore ==
  /\ mode = "rollback" /\ stack # <<>>
  /\ stack' = Front(stack)
  /\ Restore(Last(stack))
  /\ mode' = IF stack' = <<>> THEN "restored" ELSE "rollback"
  /\ UNCHANGED orig

(* KeyboardInterrupt is not among what pop_all() catches: the change that    *)
(* was popped is lost, the rest of the stack stays.                          *)
InterruptRollback ==
  /\ Fault("interrupt")
  /\ mode = "rollback" /\ stack # <<>>
  /\ stack' = Front(stack)
  /\ mode' = "interrupted"
  /\ UNCHANGED <<sys, orig, saved, on, failures, unnoticed>>

Next ==
  \/ \E o \in Objects :
       \/ Push(o) \/ RemovePackage(o) \/ ChangeFile(o)
       \/ RestoreForConversion(o) \/ EnableRhelRepos(o)
  \/ StartRollback \/ PopAndRestore \/ InterruptRollback

Spec == Init /\ [][Next]_vars

-----------------------------------------------------------------------------

(* What an object may leave different. *)
Touches(o) == {Target[o]} \cup Owned(Target[o])
Spoilt(r) == r \in unnoticed \/ \E o \in failures \cup (unnoticed \cap Objects) : r \in Touches(o)

(* After the rollback every resource is as it was found, unless              *)
(*   - the restore of an object that has to do with it failed, recorded in   *)
(*     `failures` or only logged, or its enable failed half-way;             *)
(*   - it belongs to a registration from before the run that was replaced;   *)
(*   - it is the repositories of a registration that had none enabled;       *)
(*   - it is a file not as shipped that was skipped by the backups, or a     *)
(*     package without a backup for want of BACKUP_DIR, or one of its files  *)
(* (the others: `unnoticed`).  Neither the order of the restores nor the     *)
(* failure of another one may cost a file, a package or the registration.    *)
RollbackRestores ==
  mode = "restored" => \A r \in Resources : sys[r] = orig[r] \/ Spoilt(r)

(* From the push of a file to its restore, the copy in BACKUP_DIR is the     *)
(* file as it was found, however often the path is pushed again and          *)
(* whatever is done to the file meanwhile.                                   *)
BackupIsPristine ==
  \A o \in OnStack :
    Kind[o] = "file" /\ on[o] => saved[Target[o]] = orig[Target[o]]

(* "The tool allows rollback of any action until this point": a system that  *)
(* was not registered is not left registered.                                *)
RegistrationUndone ==
  mode = "restored" /\ failures = {} =>
    \A o \in Objects :
      Kind[o] = "subscription" /\ orig[Target[o]] = "absent" => sys[Target[o]] = "absent"

-----------------------------------------------------------------------------
(* The inductive invariant behind BackupIsPristine.                          *)

EnabledFile(o) == Kind[o] = "file" /\ o \in OnStack /\ on[o]
HasBackup(r) == \E o \in Objects : EnabledFile(o) /\ Target[o] = r

(* One object per path: what push() looks for. *)
OnePerPath ==
  \A o, q \in OnStack : Equal(o, q) => o = q

(* Up to the rollback, enabled objects are on the stack; *)
EnabledIsPushed ==
  mode = "converting" => \A o \in Objects : on[o] => o \in OnStack

(* a copy in BACKUP_DIR belongs to one of them; *)
CopyHasOwner ==
  \A r \in Resources :
    /\ saved[r] # Unavailable
    /\ mode = "converting" /\ saved[r] # None => HasBackup(r)

(* and a file without a backup is as it was found, or gone. *)
UnsavedIsUntouched ==
  mode = "converting" =>
    \A o \in Objects :
      Kind[o] = "file" /\ ~HasBackup(Target[o]) => sys[Target[o]] \in {orig[Target[o]], "absent"}

UndoInv ==
  /\ TypeOK /\ BackupIsPristine /\ OnePerPath /\ EnabledIsPushed
  /\ CopyHasOwner /\ UnsavedIsUntouched

-----------------------------------------------------------------------------
(* The inductive invariant behind RollbackRestores.  An enabled object on    *)
(* the stack is the reason why a resource in its reach may differ from what  *)
(* it was; whatever an object needs from others for its restore is below it. *)

Alters(o) == {Target[o]} \cup (IF Kind[o] = "subscription" THEN Owned(Target[o]) ELSE {})
Reach(o) == Alters(o) \cup (IF Kind[o] = "package" THEN Owned(Target[o]) ELSE {})

(* The enabled objects among the first n of the stack. *)
EnabledBelow(n) == {o \in Objects : on[o] /\ \E j \in 1 .. n : stack[j] = o}
BackedUpBelow(n, r) ==
  \E q \in EnabledBelow(n) : Kind[q] \in {"file", "missing"} /\ Target[q] = r

OnlyOnce == \A i, j \in 1 .. Len(stack) : stack[i] = stack[j] => i = j

(* Every resource is as it was found, unless an enabled object reaches it; a *)
(* file that is only reached by its package is not changed, but gone.        *)
NothingLost ==
  mode # "interrupted" =>
    \A r \in Resources :
      \/ Spoilt(r)
      \/ /\ sys[r] = orig[r] \/ \E o \in OnStack : on[o] /\ r \in Reach(o)
         /\ sys[r] \in {orig[r], "absent"} \/ \E o \in OnStack : on[o] /\ r \in Alters(o)

(* What an object has to know, and the system it was pushed on. *)
WellPushed(o) ==
  /\ o \in Makes[orig]
  /\ Kind[o] \notin {"file", "missing"} => on[o] \/ (Kind[o] = "package" /\ o \in unnoticed)
  /\ Kind[o] = "package" /\ on[o] => saved[o] \in {"orig", Unavailable}
  /\ Kind[o] = "auto_attach" => saved[o] # None
  /\ Kind[o] = "subscription" => o \in unnoticed \/ orig[Target[o]] = "absent"
  /\ \/ Spoilt(Target[o])
     \/ /\ Kind[o] \in {"key", "cert"} =>
              /\ saved[o] = orig[Target[o]]
              /\ saved[o] # "absent" => sys[Target[o]] = orig[Target[o]]
        /\ Kind[o] = "package_set" => orig[Target[o]] = "absent"

AllWellPushed == mode # "interrupted" => \A o \in OnStack : WellPushed(o)

(* A planted file hides one that is backed up below it, a file that was      *)
(* missing when it was pushed, but not originally, went with a package, a    *)
(* package whose files are not the shipped ones has their backups below it,  *)
(* repositories that are not the original ones go with the new registration, *)
(* and subscription-manager outlives all that needs it.                      *)
Supported(i) ==
  LET o == stack[i]
      below == EnabledBelow(i - 1)
  IN
  /\ Kind[o] = "installed" =>
       \E q \in below : Kind[q] = "file" /\ Target[q] = Target[o]
  /\ Kind[o] = "missing" /\ on[o] /\ orig[Target[o]] # "absent" =>
       Spoilt(Target[o]) \/ \E q \in below : Kind[q] = "package" /\ Target[o] \in Reach(q)
  /\ Kind[o] = "package" =>
       \A r \in Owned(Target[o]) :
         (orig[r] = "orig" /\ r \notin Modified) \/ Spoilt(r) \/ BackedUpBelow(i - 1, r)
  /\ Kind[o] = "repos" =>
       \/ Spoilt(Target[o])
       \/ saved[o] = "orig" /\ orig[Target[o]] = "orig"
       \/ \E q \in below : Kind[q] = "subscription" /\ Target[o] \in Alters(q)
  /\ Kind[o] \in {"subscription", "auto_attach", "repos"} =>
       Present(SubMgr) /\ \A j \in i .. Len(stack) : Target[stack[j]] # SubMgr

AllSupported == mode # "interrupted" => \A i \in 1 .. Len(stack) : Supported(i)

(* A file whose backup was not taken was not there, or is gone with its      *)
(* package; one that is not marked as missing was there.                     *)
NotEnabled ==
  mode = "converting" =>
    \A o \in OnStack : ~on[o] =>
      \/ Spoilt(Target[o])
      \/ /\ Kind[o] = "file" =>
              \/ orig[Target[o]] = "absent"
              \/ \E q \in OnStack : Kind[q] = "package" /\ Target[o] \in Reach(q)
         /\ Kind[o] = "missing" => orig[Target[o]] = "orig"

RestoreInv ==
  /\ UndoInv /\ OnlyOnce /\ NothingLost /\ AllWellPushed /\ AllSupported /\ NotEnabled
  /\ mode = "restored" => stack = <<>>
=============================================================================
