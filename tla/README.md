# A TLA+ verification of convert2rhel

convert2rhel turns a running CentOS, Oracle, Alma or Rocky Linux into RHEL, in
place.  It analyses the system, changes what it must in a way that can be rolled
back, passes a *point of no return* (PONR), and replaces the packages.  What
makes it hard is not computation but failure: any tool it calls may fail, the
user may hit Ctrl-C anywhere, a server may not answer, and the system must come
out either converted or as it was found, with a verdict that says which.

The modules here follow the code under `src/convert2rhel/`; all paths below are
relative to it.

## 1. The parts of the system

| part | state | operations | talks to |
|---|---|---|---|
| application lock, `applock.py` | the PID file; `_locked` | `try_to_lock`, `unlock` | other copies of the program, through the file |
| entry point, `main.py`, `phase.py` | current and last phase, the two result dictionaries, the exit code | `main`, `main_locked` with its two `except` handlers and its `finally`, `rollback_changes` | everything below |
| Action framework, `actions/__init__.py` | each Action's result; the lists of successes, failures and skips handed from stage to stage | `resolve_action_order`, `Stage.check_dependencies`, `Stage.run`, `run_pre_actions`, `run_post_actions` | called by `main_locked`; runs the Actions |
| backup controller, `backup/` | the stack `_restorables`, `_rollback_failures`, the files in `BACKUP_DIR`, `enabled` and what each change remembers | `push`, `pop_all`; `enable` and `restore` of ten classes | pushed to by Actions and by `clear_versionlock`, emptied by `rollback_changes` |
| Actions before the PONR, `actions/pre_ponr_changes/` | none; they change the system | `run` | push, then change |
| Actions after the PONR, `actions/conversion/`, `actions/post_conversion/` | none; they change the system for good | `run` | package manager, boot loader |
| system checks, `actions/system_checks/` | none; they read | `run` | - |
| RHSM registration, `subscription.py` | attempt counter; the system's identity and rhsm.conf | `register_system`, `RegistrationCommand.__call__`, `attach_subscription`, `unregister_system` | the rhsm daemon over D-Bus |
| packages, `pkghandler.py`, `repo.py`, `utils/rpm.py` | the RPM database | install, remove, download, version locks | yum, dnf, rpm |
| transactions, `pkgmanager/` | the transaction being built | validate, run | yum or dnf libraries, in a child process |
| boot loader, `grub.py`, `actions/conversion/set_efi_config.py` | EFI boot entries and their order | add, replace, remove | efibootmgr, grub |
| child processes, `utils/__init__.py` | result queue, exception pipe | `run_as_child_process` | - |
| report and breadcrumbs, `actions/report.py`, `breadcrumbs.py` | the assessment files, the JSON of the run | write once, at the end | - |
| options, `toolopts/`, `cli.py` | the merged options | parse, merge, validate | - |
| system information, logging, `systeminfo.py`, `logger.py` | read once | - | - |

How they interact: `main()` takes the lock and calls `main_locked()`, which walks
the phases.  `run_pre_actions()` runs the system checks and then the changes that
can be undone; each of those pushes a `RestorableChange` first.  An analysis ends
there with an exception of its own, a conversion with failed Actions likewise;
the handler rolls back, which pops the stack.  Otherwise the user is asked for the
last time and `run_post_actions()` does the rest.  `finally` writes the reports.

The hard behaviours, each listed at its line in `PROJECT.json` under "hazards":

* **interleaving** - several copies at the PID file; Ctrl-C at any point, with a child
  process that goes on; a late answer of the rhsm daemon during a later attempt;
* **partial failure** - one `restore()` of many fails; `enable()` fails after its
  first half; an exception in a handler; some packages are removed and others not;
  a file of grub stays where it was;
* **ordering** - backup before change, restore in the reverse order, the order of
  the Actions derived from a dependency table spread over the files, the order in
  which files, command line and rules decide on an option;
* **stale state** - a PID whose process is gone or replaced; a path backed up a
  second time after it was changed; the phase looked at when it is already
  ROLLBACK; a boot entry from an earlier conversion;
* **deadlock** - a parent that joins a child which waits for the parent to read;
* **timeouts and retries** - the registration; the transaction, which removes what is
  in its way and tries again.

What makes each part correct, and where it is stated, is section 3.

## 2. The modules

| module | models | how it corresponds |
|---|---|---|
| `AppLock` | `applock.py`, every system call as an action | `pidfile` is the content of the file, `exists` what `os.kill(pid, 0)` says, `pc[p]` the place of copy `p` in `try_to_lock()` |
| `ActionOrder` | `resolve_action_order()` and `check_dependencies()` as functions | a stage is the sequence of the ids of its Actions as `sorted()` leaves them; `Loop` is one pass over it with the body `Examine`, `FreeFirst` the first loop, `Turns` the `while` loop; the loops are recursive functions |
| `ActionStages` | `Stage.run()` for a chain of stages | one action per branch of the loop: skip, run, end of the stage; `failedIds` is the local `failed_action_ids` |
| `BackupController` | `backup/` and what the Actions do after a push | resources are "absent", "orig" or "changed"; one operator for each class's `enable()` and `restore()`; `saved` is `BACKUP_DIR` by path and what an object remembers |
| `Registration` | `register_system()` and what it calls | `pc` follows one attempt; the daemon's `Register` and `Refuse` are external actions that happen at any time |
| `Conversion` | `main.py`, `phase.py` | one action per step of `main_locked()`, of its handlers and of `finally`; `Raise`, `RaiseInHandler`, `RaiseUncaught` are the exceptions |
| `ConversionPromise` | no code: the promise to the user | abstract specification, implemented by `Conversion` under the mapping `Promise` |
| `ChildProcess` | `utils.run_as_child_process` | `parent` is the place in `wrapper()`, `pipe` and `queue` its two channels, `torn` the one with a message too large for its buffer |
| `Transaction` | `pkgmanager/handlers/` and the two Actions that call them | `step` is the place in a transaction, `pc` in the Action around it; with yum they are in two processes (`ChildProcess`), with dnf in one |
| `Kernels`, `EfiBoot` | the Actions on kernels, `grub.py`, `set_efi_config.py` | one operator per Action, with the level it ends with; the state is what is installed, in `/boot`, in the ESP and in the NVRAM |
| `BootPath` | the stages after the PONR, as far as they concern booting | runs the operators of `Kernels` and `EfiBoot` in every order their dependencies allow, skips included |
| `ToolOpts` | `toolopts/`, `cli.py` | `phase` is the next part of `initialize()`; the value of an option is the place it comes from |
| `SystemChecks` | `actions/system_checks/` and the Actions before the PONR that look at repositories | one decision table per check, its rows in the order of the code |
| `Report` | `actions/report.py` and the filters of `actions/__init__.py` | which entry is in which report, and the highest level |
| `Assessment` | from the start of the program to the reports of an analysis, and the next run | the options by `ToolOpts`, the checks in the order of `resolve_action_order()`, the reports by `Report` |
| `*_proofs` | - | theorems and proofs about the module of the name; `ActionStages_proofs` also about `ActionOrder` and the shipped tables, `BootPath_proofs` about `Kernels` and `EfiBoot`, `Assessment_proofs` about `ToolOpts`, `SystemChecks` and `Report` |
| `MC*` | - | constants of the runs; `MCActionStages` also holds the dependency tables of the real Actions |

`Conversion` has the backup controller in it in an abstract form: a set of
`backups`, filled by `push()` in its three steps - `Enable`, then `AppendRestorable` or
`EnableRaises`, then what the Action does (`PreAction`) - and emptied by `Restore`,
which undoes the change, records an exception, or fails with a line in the log.  Its
constants say what is different between the classes of changes:

| constant | the changes | in the code |
|---|---|---|
| `ByEnable` | made by `enable()` itself, before they are remembered | keys, certificates, registration, attachment, repositories, installed packages |
| `OnlyLogged` | whose `restore()` may leave them without `rollback_failed` | the key (`backup/certs.py:81-86`), the registration (`backup/subscription.py:50-64`, and one from before the run, which is replaced), installed packages (`backup/packages.py:293-301`), and what else `BackupController` has in `unnoticed` |
| `Unbacked` | made without a push | `rpm -e iwlax2xx-firmware` (`special_cases.py:64`) |

These, the change whose `enable()` raised (`lost`) and the one whose push is under way
(`pushing`) are `Unseen`: the program may leave them behind without knowing it, and the
properties of `Conversion` name them as their exception.  `BackupController` has the
same in detail, with the content of files, the ownership of packages and the tools
that fail.  The breadcrumbs are two files: `migration`, the sequence of entries the run
appends to `/etc/migration-results`, and `facts`, the RHSM facts that are overwritten;
the first may be written and the second not.

In the same way the operator `Register` of `BackupController` stands for the whole of
`Registration`: a system that is registered already is registered anew, and what came
with the old registration is gone.  The one action `PostAction` of `Conversion` stands
for any of those of `Transaction` and `BootPath`.

A kernel in `Kernels` is a set of packages.  Up to version 7 there is one, `kernel`.
From version 8 on `kernel` is a metapackage and `kernel-core` the one with vmlinuz,
initramfs and boot entry (`CoreName`, as in `kernel_boot_files.py:44-46`): the forced
replacement of the only kernel replaces the metapackage alone, REMOVE_NON_RHEL_KERNELS
removes every package of both names that is not of RHEL and has yum install RHEL's
core, of which nobody looks at the result.

`Transaction` EXTENDS `ChildProcess`, `BootPath` EXTENDS `Kernels` and `EfiBoot`, and
`Assessment` EXTENDS `SystemChecks` (which EXTENDS `ToolOpts`: the checks look at the
options) and `Report`: the variables of the parts are those of the whole.

`ActionStages` handles a `DependencyError` at the end of a stage, where the
generator raises it after all it could yield.  That the
end "unresolved" is never reached (a part of `RejectsExactlyUnschedulable`) needs the
check at the start, which is what the code relies on.

## 3. The runs

Twelve runs; eight must pass, four show a disagreement between the code and what
its comments or docstrings say.

| run | question | bounds, and why they are enough |
|---|---|---|
| `lock` | Is the lock exclusive, is a meddled file respected, does a stale one go away? | Three copies, one of which may be killed; pids are recycled at will. The known hole takes two that race and one that died, and a fourth copy can only repeat the part of one of them (the theorem is for any number). |
| `lock_race` | Is it exclusive without the condition? | the same instance: no |
| `stages_tables` | Is the order right, for any dependency table, and do the tables the tool ships order what must be ordered? | Every table over four Actions in two stages with up to two dependencies each on any of them or on an id that does not exist, cycles and self-dependencies included; five Actions without cycles, so that skips chain; and the real Actions of all four stages, less the system checks and post-conversion Actions that nothing depends on. All three kinds of result. |
| `stages_cross` | Does "only run if a depended upon Action succeeded" hold across stages? | the tables before the PONR: no |
| `backup_undo` | Is everything back after a rollback? | Two sets of changes. Three paths - a backed up one pushed twice, a modified yum variable that is planted again, a file deleted by the user - and the package that owns them all; and one change of each class about the subscription, on every system where each thing is there or not: not registered; registered without a subscription, which is attached one; registered with one, which is registered anew; with and without enabled repositories. The package also owns a modified file that no Action backs up. Any restore may raise or fail unnoticed, the package may not be downloaded, there may be no log of `rpm -Va` and no BACKUP_DIR, the attachment may fail, Ctrl-C. 25 systems, 298,272 states. |
| `backup_attach` | Is a system that was not registered left not registered? | the same with a failing attachment: no |
| `registration` | Is a success a registration, asked for at the right server; does the loop end? | The real number of attempts, three; with or without a server of the user's own; registered before or not; the daemon answers in time, late, with the answer lost, or never. |
| `conversion` | Do exit code, messages, report and breadcrumbs agree with the system? Is the promise kept? | Four changes before the PONR, one for each way a change may be made and restored: an edited file (pushed, then changed, its failures recorded), a key (made by `enable()`, its failures logged), repositories (made by `enable()`, failures recorded), the firmware (no backup); and the versionlock. Any of them may be made or not, in any order, also by a push that fails half-way. An analysis and a conversion, an exception at every step, also inside a push and in the handlers. |
| `conversion_graceful` | Does an exception always end in an exit code? | the same: no |
| `transaction` | What do the two transactions leave behind, whatever fails in them? Do they end? | Two packages, one with a counterpart of another name, each offered in every combination of versions that leads to a different operation; every set of packages that gets in the way; both handlers; the real number of attempts, three. A third package would share the treatment of one of the two. |
| `boot` | Does a conversion that reports no problem boot RHEL? | Three versions of the kernel: one older, one equal and one newer than that of RHEL. Firmwares whose first entry is that of the original system or of the network, with and without an entry that an earlier conversion left. Every set of kernels with a usual firmware or a BIOS, on versions 7 and 8 (the Actions on kernels tell no others apart), and a usual set of kernels with every firmware on versions 2, 8 and 9: no Action reads both. `yum list` may show any part of the kernels that are available. 4,276 initial systems, half a million states. |
| `assessment` | Are options, checks, overrides and reports consistent with one another? | Two files (with a third, the one in the middle could only repeat one of them) and every set of credentials in them and on the command line, on a system without troubles; and three usual command lines on every system with at most two troubles out of 40 and one override, in the environment, in a file, or left empty in the file of the highest priority. Two runs, the second with the overrides of the inhibitors of the first. |

What the passing runs show, property by property:

* `ExclusiveUnlessOvertaken` - the only hole of the lock is the time between
  reading a stale PID file and unlinking it.  `MeddlingBlocks` - a file that is
  no pid is never removed.  `StaleLockCleared` - a dead process does not lock the
  system for ever.
* `RejectsExactlyUnschedulable`, `DependenciesFinishFirst` - the check refuses
  exactly the tables that have no order, an accepted table never fails half-way,
  and the order respects the table.  `SkipsExactlyTheAffected`,
  `EveryActionReported` - what runs, what is skipped, and that nothing is lost from
  the report.
* `RemovalNeedsBackups`, `ValidationNeedsSubscription`, `BootPathKept` - three
  safety requirements that no single file states, derived from the tables.
* `RollbackRestores` - after a rollback each resource is as it was found, unless
  an object that has to do with that resource failed, or it is one of the exceptions
  the code has.  `failures` are the objects whose failure the controller recorded; the
  history variable `unnoticed` holds what is left behind without a record: a tool's
  status that is not looked at, an `enable()` that raised half-way, a registration from
  before the run that was replaced, repositories of a registration that had none
  enabled, a modified file in a directory that BACKUP_PACKAGE_FILES leaves out (or any,
  without a log of `rpm -Va`), a package that had no BACKUP_DIR.  So one failure, or one
  exception, never costs another resource.
  `BackupIsPristine` - a copy in `BACKUP_DIR` is the original.
* `SuccessMeansRegistered`, `RightServerIsAsked`, `OsReleaseInPlace`,
  `RegistrationEnds` - see `Registration`.
* `ExitCodeTruthful`, `ChangesAreAnnounced`, `ReportMatchesRun`,
  `BreadcrumbsTruthful`, `KeepsPromise`, `RollbackCompletes` - see `Conversion`.
  The first two and the promise are about the changes outside of `Unseen`: an analysis
  does exit with 0 after the failure to remove a key, and a run with inhibitors does
  leave a registration whose attachment failed.  Of the other changes
  `ChangesAreAnnounced` names three places where the run ends without a word about
  them: an exception before the Actions with the versionlock cleared, one between the
  end of an analysis and its announcement, and one in a handler.
  `BreadcrumbsTruthful` - the facts and the *last* entry of migration-results have the
  verdict; past the PONR an entry "success" may stand above that of the failure.
* `RestoredCompletely` - whatever stops the validation, the packages it removed are
  back after the rollback, unless the user has renounced that.
  `PonrCrossedValidated` - the last test transaction before the PONR was about the
  packages that are installed when it is crossed, also when some had to be removed
  on the way.  `SuccessMeansReplaced` - CONVERT_SYSTEM_PACKAGES succeeds only with
  every package replaced that RHEL has.  Both have one exception, `lost`: a child
  that ended without an answer is taken for one that had nothing to complain about.
  `ChildWorksAlone` - the tool does not touch packages while its child may do so,
  before Ctrl-C.  `RunEnds` - the attempts come to an end.
* `KernelRemains` - a kernel with its vmlinuz is installed at every moment, with one
  exception: from version 8 on REMOVE_NON_RHEL_KERNELS may leave RHEL's metapackage and
  no core.  KERNEL_BOOT_FILES then does not succeed.  `CleanRunBoots` - a
  conversion without errors and warnings leaves kernels of RHEL only, with boot
  files and boot entries, and a firmware that starts grub of RHEL with a
  configuration.  The exception is a firmware with an older entry of RHEL, which is
  taken for the new one wherever it points.  `UselessEntriesGo` - a boot entry goes
  only if it started nothing, or what the first one starts.
* `PriorityIsKept` - a credential comes from the source with the highest priority
  that mentions it, unless a password on the command line does away with the
  activation key of a file.  `CompleteCredentialsAreUsed` - a complete set of
  credentials is never lost in the resolution of conflicts; the exception it names is
  a password without a username.  `NamedServerIsAsked` - credentials never go to
  another server than that of --serverurl, although its parts are set before the
  conflicts are resolved.
* `RegistrationHasDbus` - the check and the registration, a stage apart, agree on
  whether there is something to register.  `OverridesAreHonoured` - an inhibitor the
  user has overridden does not come back, unless a file of higher priority takes the
  override back.  `OverridesOnlySilenceInhibitors` - an
  override hides no error, and what it silences is told as a warning.
  `ReportsAgree` - every problem is in the reports, and their level agrees with the
  decision to go on or not.  (No check gives two messages with one id.)

`CHECK_DEADLOCK FALSE` stands in the configurations of everything that ends: a
run of the program, a rollback, a registration, a conversion.  In `AppLock` pids are
recycled for ever and deadlock is checked.

### Fairness

Four specifications state it.  `AppLock`: weak fairness of each copy's own steps
- no step of `try_to_lock()` or `unlock()` waits for anything - and none of starts, kills or
recycled pids.  `Registration`: weak fairness of the program's steps, among them the
timeout of the D-Bus call; none of the daemon, so that `RegistrationEnds` holds
with a daemon that never answers.  `Conversion`: weak fairness of `Step`, which
assumes that prompts are answered and that the tools called return; a tool that
hangs does hang the program.  An exception is never forced to happen.
`Transaction`: weak fairness of the tool's steps and of the work on a transaction,
which is the same assumption for yum and dnf; none of Ctrl-C and of the end of a child
by a signal.  A child that waits for a reader is not at work: `RunEnds` states the
wait as its exception.

### Findings

1. **`lock_race`** (`applock.py:156`).  Two copies read the same stale pid, one
   unlinks and creates its own file, the other then unlinks *that*.  Both run.
2. **`stages_cross`** (`actions/__init__.py:537`).  `failed_action_ids` is empty at
   the start of each stage, so a failed system check does not skip the Action of
   the next stage that depends on it.
3. **`backup_attach`** (`backup/subscription.py:46`).  The registration succeeds, the
   attachment raises, `push()` does not remember the change: the rollback leaves
   the system registered.
4. **`conversion_graceful`** (`main.py:314`).  After the PONR the handler reports
   results that do not exist if the exception came out of `run_post_actions()`.

Seen while modelling, without a run of their own.  The rollback and its verdict:

* `RestorableDisableRepositories.restore()` does nothing when no repository was
  enabled (`backup/subscription.py:140`), so on a system that stays registered the RHEL
  repositories the conversion enabled stay enabled.
* `rollback_failed` ("bool True if the rollback failed, False if rollback succeeded.",
  `backup/__init__.py:159`) is False when `rpm -e` of the GPG key, the unregistration or
  the removal of the installed packages fails: these are only logged.  An analysis then
  exits with 0.  They are `OnlyLogged` in `Conversion`, and `unnoticed` in
  `BackupController` keeps track of them.
* `register_system()` unregisters a system that is registered
  (`subscription.py:167-180`), and no restore registers it again: with credentials on
  the command line the registration from before the run is lost in an analysis, too.
* BACKUP_PACKAGE_FILES takes every modified file of `/etc/yum.repos.d` and of the
  directories of the variables to be backed up elsewhere (`backup_system.py:131-133`),
  but BACKUP_REPOSITORY copies only `*.repo`.  Another file there, owned by a package
  that is removed, does not come back as it was.
* The removal of iwlax2xx-firmware (`special_cases.py:64`) has no backup.
* After a failure past the PONR, `/etc/migration-results` has an entry "success" of the
  same run above the one of the failure (`breadcrumbs.py:200-203`, `main.py:273`).
* "No changes were made to the system" is logged after the version locks were
  cleared, when an exception strikes in the phase PREPARE (`main.py:285`);
  `ChangesAreAnnounced` names this case.
* `_raise_for_skipped_failures()` announces a rollback also after the PONR
  (`main.py:252`), where there is none.

The registration:

* When the shutdown of the private D-Bus raises while a Ctrl-C is on its way, the
  D-Bus exception takes its place and the registration is tried again
  (`subscription.py:529-535`, against the comment at `subscription.py:233`).  It is
  in `Registration` as a branch of `Interrupt`.
* A request abandoned by its timeout may still register the system after the last
  attempt was given up; `register_system()` raises and nothing unregisters it.  This
  has the consequence of finding 3.

Transactions and child processes:

* After Ctrl-C the parent terminates the child and does not wait for it, so that
  the rollback may find it alive.  The comment at `utils/__init__.py:254-262` explains
  why both have to end.  `ChildWorksAlone` therefore leaves out the rollback.
* `None`, the result of a child that was killed or whose result could not be
  pickled, is what a resolution without complaints returns
  (`pkgmanager/handlers/yum/__init__.py:347-356`): `lost` in `Transaction`.
* A resolution that fails with an empty list of messages is taken for a success, and
  the branch for it (`yum/__init__.py:61-64`) is never reached.
* The loop makes four attempts, its comment says three (`yum/__init__.py:399`).
* When the first base cannot be set up, `_close_yum_base()` fails on `None` and its
  AttributeError replaces the error that was meant.  The base of dnf is not closed
  when a step fails.

Booting:

* From version 8 on the forced replacement of the only kernel
  (`pkghandler.py:653-697`) replaces the metapackage `kernel`, which has no files.
  REMOVE_NON_RHEL_KERNELS then removes the original kernel-core, and whether yum could
  install one of RHEL is not looked at (`preserve_only_rhel_kernel.py:219-232`): the
  Action succeeds on a system without a kernel.  KERNEL_BOOT_FILES warns.
* `_is_rhel_in_boot_entries()` (`grub.py:337-345`) compares label and path.  An entry
  left by an earlier conversion, last in the order or about a partition that is gone,
  passes for the new one; the docstring (`grub.py:477-478`) says that the entry is
  always created and set as the default.

Options and checks:

* A password on the command line without a username does away with the activation
  key of a file: the system is not registered, after no more than a warning.
  With a key on the command line as well, the key is announced and the
  password used.
* The docstring and the comment at `toolopts/config.py:113-134` say that of the
  configuration files only a custom one is used; all of them are merged.
* On Amazon Linux 2 the version check of the loaded kernel always fails, with a warning, so
  that neither its package nor its signature is looked at; and an unreachable
  repository is reported as duplicate packages.
* The comment "set the no_rpm_va to False" (`toolopts/__init__.py:97`) is not followed
  by such an assignment.

## 4. The proofs

Every safety property that a run checks is also a theorem, for every value of the
constants.  The inductive invariant of a module stands at its end, after the
properties, so that TLC can be asked about it as well; the proof module has a
lemma for the initial states and one for each action or each part of the invariant,
and theorems whose last step is by PTL.

* **`AppLock_proofs`**, for any set of processes.  Exclusion itself is not an
  invariant (finding 1), so `LockExcludes` proves `[]FreshTakeover =>
  []MutualExclusion`.  `LockInv` adds to the types: the copy that holds the lock is
  the one the file names, what a copy is about to unlink was written by a copy that
  is gone, a pid that was read belongs to a copy that was started.  Without
  the last two, a step of a copy that has not started yet could bring the stale pid
  to life between probe and unlink.  `MeddledStays` proves `MeddlingBlocks`: with a
  meddled file no copy is past the reading of it, which no takeover can change.
* **`ActionStages_proofs`**, for any number of Actions, any dependency table and any
  results.  `StagesInv` says of what a stage still has to run (`Queue`) that each
  Action comes after all it depends on, and of the chain (`Progress`) that the
  stages before are finished.  A stage is entered with the order
  `resolve_action_order()` returns, so this rests on lemmas about that function:
  each pass only adds Actions whose dependencies are met (`LoopRuns`, `LoopYields`),
  the `while` loop ends in a turn that yields nothing (`TurnsEndIdle`), what is left
  then waits for itself or for something that is not there (`OrderResolves`), and so
  the check accepts exactly what can be scheduled (`SatisfiedIffSchedulable`):
  `ChecksDecide`.  `DependenciesHold`, `SkipsAreJustified` and
  `EveryActionHasAResult` follow from the invariant.  `BackupsComeFirst`,
  `SubscriptionComesFirst` and `BootPathComesFirst` assume `TablesKept` besides: the
  Actions that the tool ships declare at least the dependencies they have now.
  Others may be added, before, between and after them, and those of the run satisfy it.
* **`BackupController_proofs`**, for any set of changes, resources, owners and
  faults.  `BackupsArePristine` follows from `UndoInv`: at most one object per path
  is on the stack (what `push()` looks for), an enabled object is on the stack
  before the rollback, a copy in `BACKUP_DIR` has its object, and - the part that
  makes it inductive - a file without a copy is as it was found or gone, so that
  what `enable()` copies is the original.
  `RollbackBringsBack` proves `RollbackRestores` from `RestoreInv`, which follows the
  stack from the top down: every resource that is not as it was found is reached by
  an enabled object that is still on the stack (`NothingLost`), each object knows
  what it has to put back (`AllWellPushed`), and what its restore needs lies *below*
  it (`AllSupported`): the backup of a file that is planted again, the backups of the
  files a package does not ship, the new registration that repositories go with,
  subscription-manager for whatever talks to the server.  With an empty stack nothing is left to differ.  A resource
  that an object with a failure touches, or that is one of the exceptions
  (`Spoilt`), is left out, and the lemmas show that none of them spoils another one.
* **`Registration_proofs`**, for any number of attempts.  `RegInv` says which attempts
  can have registered the system, that /etc/os-release stays from the first restore
  to the first success, and that a request which went out has had its server written
  to the configuration unless that failed.
* **`Conversion_proofs`**, for any set of changes of each kind.  `ExitCodes` proves
  `ExitCodeTruthful`, `ConversionKeepsPromise` the refinement of
  `ConversionPromise`, in which the system is dirty when there is a change outside of
  `Unseen`.  `Inv` ties the phase to the step, the handler to what brought
  the program there, and every change to its backup until the rollback is over, unless
  it is unbacked, lost or being pushed (`BackedUp`); `Pushing` has where a push may be
  under way and that it changes nothing but what `enable()` itself does.
  `Account`, on top of it, has what was announced, reported and recorded at
  each step of the handlers and of `finally`: `ChangesAnnounced`, `ReportsMatch`,
  `BreadcrumbsTrue`.  For the last, `Recorded` follows both files: at most one entry of
  a success, past the PONR, when a handler adds its own.
* **`Transaction_proofs`**, for any set of packages and any limit of attempts, with both
  handlers, Ctrl-C, and a child that may vanish or be too talkative.  The four safety
  properties follow from `TransInv`.  They say what an answer means when it is given,
  and the answer is read later, by another process; so the invariant needs to know
  where the work is (`PlaceOfWork`), what a channel can hold while the parent is at
  each of its steps (`ChannelsOK`), that nothing is removed between answer and
  reading (`ChildWorksAlone`), and what a good answer in the queue says of the
  packages (`TestedAsInstalled`, `AnswerMeansReplaced`).  `LeftIsPlanned` and
  `NoneForgotten` follow the loop of the replacement.
* **`BootPath_proofs`**, for any versions of kernels and any firmware.  `BootInv` has
  the order the dependencies impose (`InOrder`: an Action succeeded only after those
  it depends on), what each success leaves behind for the Actions after it
  (`KernelsKept`, `NewestIsRhel`, `EntriesFollow`), and that the firmware is as it was
  until its entry is replaced (`LoaderReplaced`).  `CleanRunsBoot` puts these together
  at the end of a run without a complaint.  The newest kernel is chosen by `Max`, so
  that finite sets of numbers have a greatest element is proved first.
* **`Assessment_proofs`**, for any list of files with any contents, any command line and
  any system.  `AssessmentInv` describes the options while the files are read
  (`LastOneFound`: what was found is from the last file read that mentions it) and
  after each rule of the command line (`CredentialsFollow`, `ServerFollows`), ties each
  result to the decision table of its check with the overrides in force
  (`Answered`), and keeps that D-Bus was checked before the next stage
  (`StageFollows`).  Seven theorems, one for each property of the run.

The assumptions are the named `ASSUME`s of the modules, each of which is evaluated by a
passing run.  Besides constants that are distinct or of the right kind they say:

* `TargetsAssumption`, `SubMgrAssumption`, `MakesAssumption` (`BackupController`) - no
  two classes share a path, except a `RestorableFile` and the `InstalledFile` of a
  yum variable; subscription-manager is installed as a package set and not removed;
  only installed packages are removed, and a subscription is attached only where there is
  none.  Any system, registered or not, with or without repositories, may be registered.
* `InitialAssumption` (`BackupController`) - a system that is not registered has no
  subscription and no repositories of subscription-manager.
* `ChangesAssumption` (`Conversion`) - the kinds of changes are told apart; what has no
  backup is not made by `enable()` and has no restore.
* `PlansAssumption` (`ActionStages`) - chains of two stages, every Action with an id of
  its own.
* `NvramsAssumption` (`EfiBoot`) - a firmware lists the entry it started and each entry
  of its order once, and has room for one more.
* `FilesAssumption` (`ToolOpts`), `AssessmentAssumption` (`Assessment`) - the places an
  option may come from can be told apart; the overrides the checks ask for are options
  of the tool, and the user writes to one of the files it reads.  A file may occur twice
  in the list.
* `TransactionAssumption`, `VersionsAssumption` - finitely many packages and versions.

The theorems of the libraries for induction take an operator as a parameter, which none of the
provers at hand instantiates.  Where an induction was needed, over the turns of
the loops, the files that are read or the versions of a kernel, the proof takes a
least counterexample; that it exists (`LeastExists`) comes from the well-foundedness
of the strict subset ordering of finite sets.

Model-checked only: liveness - `StaleLockCleared`, `RollbackCompletes`,
`RegistrationEnds`, `RunEnds` - which the prover does not handle.  The properties of the four
runs that must be violated are no theorems, of course; for the lock the theorem
has the condition under which it would be one.

## 5. What is not modelled

* The texts of messages and reports, the logging, the parsing of what `rpm`, `yum`,
  `efibootmgr` and `lsblk` print.  Only which message is given, and when, is in
  `Conversion` and `Assessment`.
* argparse and configparser; the value of an option is the place it comes from.
* The insides of yum and dnf.  A transaction replaces its packages one after the
  other and may stop in between; which packages get in the way is chosen freely.
* A second run after a crash.  `BACKUP_DIR` starts empty; the stack lives in memory
  only, so after a crash the code has nothing to roll back (hazard at
  `backup/__init__.py:75`).
* `BackupController.pop()`, which nothing calls; ghost files, which are skipped.
* In `Kernels` the packages kernel-tools, kernel-headers and the like, which are removed and
  installed again together with the core and have no part in booting.
* Host metering, the lock of the releasever, the configuration of the package
  manager, the list of packages left over, the diff of modified files and the removal of
  the temporary directory: each writes or calls once, after the PONR, with a message
  for its failure.  They are in the dependency tables only.
* A vmlinuz that is cut short (the code looks at whether it is there).  The grub.cfg stub
  in the ESP of RHEL 9, which the package brings, is taken for correct.

## 6. Plan

1. **done** `AppLock`, `ActionOrder`/`ActionStages`, `BackupController`,
   `Conversion`/`ConversionPromise`, `Registration`, and their proofs.
2. **done** `ChildProcess` and `Transaction`, and its proofs.
3. **done** `Kernels`, `EfiBoot` and `BootPath`, and their proofs.
4. **done** `ToolOpts`, `SystemChecks`, `Report` and `Assessment`, and their proofs.
5. `BackupController` with a crash and a second run that finds the `BACKUP_DIR` of
   the first, and with the directories of the yum variables.
6. Composition: `Conversion` with `BackupController` in place of its abstract set of
   backups, as a refinement; `BackupController` with `Registration`; `Transaction` as
   the step `PostAction` of `Conversion`.
7. **done** Theorems about every safety property of the runs.  Left: the refinements of
   item 6, and type invariants of `BootPath` and `Assessment` as theorems of their own.
