----------------------------- MODULE Conversion -----------------------------
(***************************************************************************)
(* One run of convert2rhel (convert2rhel/main.py): main_locked() with its  *)
(* phases, the handlers of its exceptions, the rollback and the `finally`  *)
(* that writes the reports.  An exception or a Ctrl-C may strike at any    *)
(* step; one that strikes in a handler is caught by nobody.                *)
(*                                                                         *)
(* The Actions are abstracted to what matters here.  Before the point of   *)
(* no return a change goes through push(): enable(), then the append, then *)
(* what the Action does; after it changes are for good.  Some changes are  *)
(* made by enable() itself, before anything is remembered of them; the     *)
(* failed restore() of some is only logged; one Action changes the system  *)
(* without a backup.  BackupController models each class of changes.       *)
(***************************************************************************)
EXTENDS Sequences

CONSTANTS
  PreChanges,   \* the changes the Actions before the PONR may make
  ByEnable,     \* made by enable(): keys, certificates, registration, repositories
  OnlyLogged,   \* restore() may fail with a log line: keys, registration, packages
  Unbacked,     \* made without a backup: the removal of iwlax2xx-firmware
  Versionlock,  \* the change made by clear_versionlock()
  Final         \* what the Actions after the PONR do

None == "none"

ASSUME ChangesAssumption ==
  /\ Versionlock \notin PreChanges /\ Final \notin PreChanges /\ Versionlock # Final
  /\ None \notin PreChanges /\ None # Versionlock /\ None # Final
  /\ ByEnable \subseteq PreChanges /\ OnlyLogged \subseteq PreChanges
  /\ Unbacked \subseteq PreChanges \ (ByEnable \cup OnlyLogged)

Recoverable == PreChanges \cup {Versionlock}

VARIABLES
  activity,       \* tool_opts.activity
  pc,             \* where main() is
  phase,          \* ConversionPhases.current_phase, or None
  lastStage,      \* its last_stage, of interest once it is ROLLBACK
  pre, post,      \* pre_conversion_results, post_conversion_results
  handler,        \* the `except` clause that was entered, or None
  failedAt,       \* where exceptions struck (history)
  changed,        \* what is different from the system as it was found
  pushing,        \* the change whose enable() runs in push(), or None
  lost,           \* the changes whose enable() raised (history)
  backups,        \* BackupController._restorables
  rollbackFailed, \* BackupController.rollback_failed
  migration,      \* the entries this run appended to /etc/migration-results
  facts,          \* "success" or "failure" in the RHSM facts file, or None
  said,           \* what the user was told about the state of the system
  files,          \* the assessment files written
  exit            \* ConversionExitCodes, or "traceback" for an uncaught exception

vars == <<activity, pc, phase, lastStage, pre, post, handler, failedAt, changed,
          pushing, lost, backups, rollbackFailed, migration, facts, said, files, exit>>

Phases == {"POST_CLI", "PREPARE", "PRE_PONR_CHANGES", "ANALYZE_EXIT",
           "POST_PONR_CHANGES", "ROLLBACK"}
Results == {None, "good", "bad"}   \* bad: at least one result of level SKIP or above
(* The steps of the body of `try`, and of its handlers. *)
Body == {"boilerplate", "versionlock", "clear", "metadata", "pre_actions", "check_pre",
         "raise_exit", "confirm", "post_actions", "check_post", "report_post"}
Handling == {"collect", "facts", "rollback", "pop", "status", "undetermined"}

TypeOK ==
  /\ activity \in {"analysis", "conversion"}
  /\ pc \in {"lock", "logging", "finally", "done"} \cup Body \cup Handling
  /\ phase \in Phases \cup {None}
  /\ lastStage \in Phases \cup {None}
  /\ pre \in Results /\ post \in Results
  /\ handler \in {None, "analyze", "inhibitors", "error"}
  /\ failedAt \subseteq {"logging", "finally"} \cup Body \cup Handling
  /\ changed \subseteq Recoverable \cup {Final}
  /\ pushing \in PreChanges \cup {None}
  /\ lost \subseteq PreChanges /\ backups \subseteq Recoverable
  /\ rollbackFailed \in BOOLEAN
  /\ migration \in Seq({"failure", "success"})
  /\ facts \in {None, "failure", "success"}
  /\ said \subseteq {"no_changes", "undetermined", "rollback_incomplete"}
  /\ files \subseteq {"pre_conversion", "post_conversion"}
  /\ exit \in {None, "SUCCESSFUL", "FAILURE", "INHIBITORS_FOUND", "traceback"}
  /\ pc \in {"finally", "done"} => exit # None

Init ==
  /\ activity \in {"analysis", "conversion"}
  /\ pc = "lock"
  /\ phase = None /\ lastStage = None
  /\ pre = None /\ post = None
  /\ handler = None /\ failedAt = {}
  /\ changed = {} /\ pushing = None /\ lost = {}
  /\ backups = {} /\ rollbackFailed = FALSE
  /\ migration = <<>> /\ facts = None /\ said = {} /\ files = {} /\ exit = None

At(here) == pc = here
Goto(there) == pc' = there
SetPhase(p) == phase' = p /\ lastStage' = phase

breadcrumbs == <<migration, facts>>
outcome == <<breadcrumbs, said, files, exit>>
results == <<pre, post>>
pushed == <<pushing, lost>>
undo == <<pushed, backups, rollbackFailed>>

(* finish_collection(): one more entry in migration-results, then new facts. *)
FinishCollection(success) ==
  migration' = Append(migration, success) /\ facts' = success
(* It was struck between the two. *)
HalfFinishCollection(success) ==
  migration' = Append(migration, success) /\ UNCHANGED facts

-----------------------------------------------------------------------------
(* main() and the body of main_locked()                                     *)

(* Another copy of convert2rhel holds the application lock, or it does not. *)
TakeLock ==
  /\ At("lock")
  /\ \/ Goto("logging") /\ phase' = "POST_CLI" /\ UNCHANGED outcome
     \/ /\ Goto("done") /\ exit' = "FAILURE" /\ said' = {"no_changes"}
        /\ UNCHANGED <<phase, breadcrumbs, files>>
  /\ UNCHANGED <<activity, lastStage, results, handler, failedAt, changed, undo>>

InitializeLogging ==
  /\ At("logging") /\ Goto("boilerplate") /\ SetPhase("PREPARE")
  /\ UNCHANGED <<activity, results, handler, failedAt, changed, undo, outcome>>

Boilerplate ==
  /\ At("boilerplate") /\ Goto("versionlock")
  /\ UNCHANGED <<activity, phase, lastStage, results, handler, failedAt, changed, undo, outcome>>

(* clear_versionlock(): with locks and the user's consent, back the file up *)
(* and clear it.                                                            *)
PushVersionlock ==
  /\ At("versionlock")
  /\ \/ Goto("clear") /\ backups' = backups \cup {Versionlock}
     \/ Goto("metadata") /\ UNCHANGED backups
  /\ UNCHANGED <<activity, phase, lastStage, results, handler, failedAt, changed,
                 pushed, rollbackFailed, outcome>>

ClearVersionlock ==
  /\ At("clear") /\ Goto("metadata")
  /\ changed' = changed \cup {Versionlock}
  /\ UNCHANGED <<activity, phase, lastStage, results, handler, failedAt, undo, outcome>>

CleanMetadata ==
  /\ At("metadata") /\ Goto("pre_actions") /\ SetPhase("PRE_PONR_CHANGES")
  /\ UNCHANGED <<activity, results, handler, failedAt, changed, undo, outcome>>

(* push(), up to the end of enable(): one that is remembered is skipped.     *)
(* Where it is enable() that makes the change, the change may be there by    *)
(* now.                                                                      *)
Enable(c) ==
  /\ At("pre_actions") /\ pushing = None
  /\ c \in PreChanges \ (Unbacked \cup backups \cup lost)
  /\ pushing' = c
  /\ changed' \in {changed, changed \cup ({c} \cap ByEnable)}
  /\ UNCHANGED <<activity, pc, phase, lastStage, results, handler, failedAt, lost, backups,
                 rollbackFailed, outcome>>

(* enable() returned. *)
AppendRestorable ==
  /\ At("pre_actions") /\ pushing # None
  /\ backups' = backups \cup {pushing}
  /\ pushing' = None
  /\ UNCHANGED <<activity, pc, phase, lastStage, results, handler, failedAt, changed, lost,
                 rollbackFailed, outcome>>

(* enable() raised, so nothing is appended, and the Action ends in an ERROR. *)
EnableRaises ==
  /\ At("pre_actions") /\ pushing # None
  /\ lost' = lost \cup {pushing}
  /\ pushing' = None
  /\ UNCHANGED <<activity, pc, phase, lastStage, results, handler, failedAt, changed, backups,
                 rollbackFailed, outcome>>

(* Between two pushes, an Action changes what was pushed, or what has no     *)
(* backup.                                                                   *)
PreAction(c) ==
  /\ At("pre_actions") /\ pushing = None
  /\ c \in (backups \cap PreChanges) \cup Unbacked
  /\ changed' = changed \cup {c}
  /\ UNCHANGED <<activity, pc, phase, lastStage, results, handler, failedAt, undo, outcome>>

FinishPreActions ==
  /\ At("pre_actions") /\ pushing = None /\ Goto("check_pre")
  /\ \/ pre' = "good" /\ lost = {}
     \/ pre' = "bad"
  /\ UNCHANGED <<activity, phase, lastStage, post, handler, failedAt, changed, undo, outcome>>

(* The analysis ends here. *)
EndAnalysis ==
  /\ At("check_pre") /\ activity = "analysis"
  /\ Goto("raise_exit") /\ SetPhase("ANALYZE_EXIT")
  /\ UNCHANGED <<activity, results, handler, failedAt, changed, undo, outcome>>

RaiseAnalyzeExit ==
  /\ At("raise_exit") /\ Goto("collect") /\ handler' = "analyze"
  /\ UNCHANGED <<activity, phase, lastStage, results, failedAt, changed, undo, outcome>>

(* Mutant: the failures are not looked at. *)
CheckPre_Ignored ==
  /\ At("check_pre") /\ activity = "conversion"
  /\ Goto("confirm") /\ UNCHANGED handler
  /\ UNCHANGED <<activity, phase, lastStage, results, failedAt, changed, undo, outcome>>

(* _raise_for_skipped_failures(pre_conversion_results) *)
CheckPre ==
  /\ At("check_pre") /\ activity = "conversion"
  /\ \/ pre = "bad" /\ Goto("collect") /\ handler' = "inhibitors"
     \/ pre = "good" /\ Goto("confirm") /\ UNCHANGED handler
  /\ UNCHANGED <<activity, phase, lastStage, results, failedAt, changed, undo, outcome>>

(* The report, and the user's last word: the point of no return. *)
Confirm ==
  /\ At("confirm") /\ Goto("post_actions") /\ SetPhase("POST_PONR_CHANGES")
  /\ UNCHANGED <<activity, results, handler, failedAt, changed, undo, outcome>>

(* An Action changes the system for good. *)
PostAction ==
  /\ At("post_actions")
  /\ changed' = changed \cup {Final}
  /\ UNCHANGED <<activity, pc, phase, lastStage, results, handler, failedAt, undo, outcome>>

(* The Action of this name runs once, and may fail after the first file. *)
BreadcrumbsFinishCollection ==
  /\ At("post_actions") /\ migration = <<>>
  /\ FinishCollection("success") \/ HalfFinishCollection("success")
  /\ UNCHANGED <<activity, pc, phase, lastStage, results, handler, failedAt, changed, undo,
                 said, files, exit>>

FinishPostActions ==
  /\ At("post_actions") /\ Goto("check_post")
  /\ \/ post' = "good" /\ facts = "success"
     \/ post' = "bad"
  /\ UNCHANGED <<activity, phase, lastStage, pre, handler, failedAt, changed, undo, outcome>>

(* _raise_for_skipped_failures(post_conversion_results) *)
CheckPost ==
  /\ At("check_post")
  /\ \/ post = "bad" /\ Goto("collect") /\ handler' = "inhibitors"
     \/ post = "good" /\ Goto("report_post") /\ UNCHANGED handler
  /\ UNCHANGED <<activity, phase, lastStage, results, failedAt, changed, undo, outcome>>

(* post_conversion_report(), restart_system(), return SUCCESSFUL *)
Succeed ==
  /\ At("report_post") /\ Goto("finally") /\ exit' = "SUCCESSFUL"
  /\ UNCHANGED <<activity, phase, lastStage, results, handler, failedAt, changed, undo,
                 breadcrumbs, said, files>>

(* An exception other than the two of main.py, a SystemExit or a Ctrl-C. *)
Raise ==
  /\ pc \in Body /\ Goto("collect")
  /\ handler' = "error"
  /\ failedAt' = failedAt \cup {pc}
  /\ UNCHANGED <<activity, phase, lastStage, results, changed, undo, outcome>>

-----------------------------------------------------------------------------
(* The handlers                                                             *)

Return(code) == Goto("finally") /\ exit' = code
FailureCode == IF handler = "inhibitors" THEN "INHIBITORS_FOUND" ELSE "FAILURE"

(* Mutant: the breadcrumbs stay as they are. *)
Collect_Skipped ==
  /\ At("collect")
  /\ \/ /\ phase \in {"POST_CLI", "PREPARE"}
        /\ said' = said \cup {"no_changes"} /\ Return("FAILURE")
     \/ /\ handler # "analyze" /\ phase = "ANALYZE_EXIT"
        /\ Return("FAILURE") /\ UNCHANGED said
     \/ /\ handler = "analyze" \/ phase \in {"PRE_PONR_CHANGES", "POST_PONR_CHANGES"}
        /\ Goto("facts") /\ UNCHANGED <<said, exit>>
  /\ UNCHANGED <<activity, phase, lastStage, results, handler, failedAt, changed, undo,
                 breadcrumbs, files>>

(* The first steps of the handlers: log the error, finish_collection(), and  *)
(* branch on the phase.  No branch is for an error in the phase ANALYZE_EXIT. *)
Collect ==
  /\ At("collect")
  /\ FinishCollection(IF handler = "analyze" THEN "success" ELSE "failure")
  /\ \/ /\ phase \in {"POST_CLI", "PREPARE"}
        /\ said' = said \cup {"no_changes"} /\ Return("FAILURE")
     \/ /\ handler # "analyze" /\ phase = "ANALYZE_EXIT"
        /\ Return("FAILURE") /\ UNCHANGED said
     \/ /\ handler = "analyze" \/ phase \in {"PRE_PONR_CHANGES", "POST_PONR_CHANGES"}
        /\ Goto("facts") /\ UNCHANGED <<said, exit>>
  /\ UNCHANGED <<activity, phase, lastStage, results, handler, failedAt, changed, undo, files>>

(* update_rhsm_custom_facts(): a call of the RHSM server. *)
UpdateFacts ==
  /\ At("facts")
  /\ Goto(IF phase = "POST_PONR_CHANGES" THEN "undetermined" ELSE "rollback")
  /\ UNCHANGED <<activity, phase, lastStage, results, handler, failedAt, changed, undo, outcome>>

(* rollback_changes(), up to pop_all(); no backup to restore is no error. *)
StartRollback ==
  /\ At("rollback") /\ SetPhase("ROLLBACK")
  /\ Goto(IF backups = {} THEN "status" ELSE "pop")
  /\ UNCHANGED <<activity, results, handler, failedAt, changed, undo, outcome>>

(* Mutant: the first failure ends the rollback. *)
Restore_StopsAtFailure(c) ==
  /\ At("pop")
  /\ backups' = backups \ {c}
  /\ \/ changed' = changed \ {c} /\ UNCHANGED rollbackFailed
        /\ Goto(IF backups' = {} THEN "status" ELSE "pop")
     \/ rollbackFailed' = TRUE /\ UNCHANGED changed /\ Goto("status")
  /\ UNCHANGED <<activity, phase, lastStage, results, handler, failedAt, pushed, outcome>>

(* Mutant: nobody remembers the failure. *)
Restore_Forgets(c) ==
  /\ At("pop")
  /\ backups' = backups \ {c}
  /\ changed' \in {changed, changed \ {c}} /\ UNCHANGED rollbackFailed
  /\ Goto(IF backups' = {} THEN "status" ELSE "pop")
  /\ UNCHANGED <<activity, phase, lastStage, results, handler, failedAt, pushed, outcome>>

(* One turn of pop_all(): restore() undoes the change, or it raises and that *)
(* is recorded, or it fails with no more than a line in the log.             *)
Restore(c) ==
  /\ At("pop")
  /\ backups' = backups \ {c}
  /\ \/ changed' = changed \ {c} /\ UNCHANGED rollbackFailed
     \/ rollbackFailed' = TRUE /\ UNCHANGED changed
     \/ c \in OnlyLogged /\ UNCHANGED <<changed, rollbackFailed>>
  /\ Goto(IF backups' = {} THEN "status" ELSE "pop")
  /\ UNCHANGED <<activity, phase, lastStage, results, handler, failedAt, pushed, outcome>>

(* Mutant: an analysis succeeds whatever became of the rollback. *)
CodeAfterRollback_Analysis ==
  IF handler = "analyze" THEN (IF pre = "bad" THEN "INHIBITORS_FOUND" ELSE "SUCCESSFUL")
  ELSE IF rollbackFailed THEN "FAILURE" ELSE FailureCode

(* What the handlers return after a rollback. *)
CodeAfterRollback ==
  IF rollbackFailed THEN "FAILURE"
  ELSE IF handler = "analyze" THEN (IF pre = "bad" THEN "INHIBITORS_FOUND" ELSE "SUCCESSFUL")
  ELSE FailureCode

(* provide_status_after_rollback(), and the return of the handler. *)
ProvideStatus ==
  /\ At("status")
  /\ said' = IF rollbackFailed THEN said \cup {"rollback_incomplete"} ELSE said
  /\ Return(CodeAfterRollback)
  /\ UNCHANGED <<activity, phase, lastStage, results, handler, failedAt, changed, undo,
                 breadcrumbs, files>>

(* After the PONR: the warning, then post_conversion_report(results), which  *)
(* raises AttributeError when run_post_actions() did not return results.     *)
WarnUndetermined ==
  /\ At("undetermined")
  /\ said' = said \cup {"undetermined"}
  /\ Return(IF post = None THEN "traceback" ELSE FailureCode)
  /\ UNCHANGED <<activity, phase, lastStage, results, handler, failedAt, changed, undo,
                 breadcrumbs, files>>

(* An exception in a handler leaves main_locked(), after `finally`.  One of  *)
(* pop_all() loses the change that was being restored, one of                *)
(* finish_collection() the facts.                                            *)
RaiseInHandler ==
  /\ pc \in Handling
  /\ Return("traceback")
  /\ failedAt' = failedAt \cup {pc}
  /\ IF pc = "pop" THEN \E c \in backups : backups' = backups \ {c} ELSE UNCHANGED backups
  /\ \/ UNCHANGED breadcrumbs
     \/ pc = "collect" /\ HalfFinishCollection(IF handler = "analyze" THEN "success" ELSE "failure")
  /\ UNCHANGED <<activity, phase, lastStage, results, handler, changed, pushed, rollbackFailed,
                 said, files>>

(* initialize_file_logging() is outside of `try`, and nothing catches what   *)
(* is raised in `finally`.                                                   *)
RaiseUncaught ==
  /\ pc \in {"logging", "finally"} /\ Goto("done")
  /\ exit' = "traceback"
  /\ failedAt' = failedAt \cup {pc}
  /\ UNCHANGED <<activity, phase, lastStage, results, handler, changed, undo,
                 breadcrumbs, said, files>>

-----------------------------------------------------------------------------
(* `finally`                                                                *)

(* _pick_conversion_results() *)
PickedResults == IF phase = "POST_PONR_CHANGES" THEN post ELSE pre
(* Mutant: the phase itself, not the one before the rollback. *)
ExecutionPhase_Current == phase
ExecutionPhase == IF phase = "ROLLBACK" THEN lastStage ELSE phase

(* _REPORT_MAPPING *)
ReportFiles ==
  IF PickedResults = None THEN {}
  ELSE IF ExecutionPhase \in {"ANALYZE_EXIT", "PRE_PONR_CHANGES"} THEN {"pre_conversion"}
  ELSE IF ExecutionPhase = "POST_PONR_CHANGES" THEN {"post_conversion"}
  ELSE {}

WriteReports ==
  /\ At("finally") /\ Goto("done")
  /\ files' = IF rollbackFailed THEN files ELSE files \cup ReportFiles
  /\ UNCHANGED <<activity, phase, lastStage, results, handler, failedAt, changed, undo,
                 breadcrumbs, said, exit>>

(* The program's own steps, the exceptions apart. *)
Step ==
  \/ TakeLock \/ InitializeLogging \/ Boilerplate \/ PushVersionlock \/ ClearVersionlock
  \/ CleanMetadata \/ AppendRestorable \/ FinishPreActions \/ EndAnalysis
  \/ RaiseAnalyzeExit \/ CheckPre \/ Confirm
  \/ PostAction \/ BreadcrumbsFinishCollection \/ FinishPostActions \/ CheckPost \/ Succeed
  \/ Collect \/ UpdateFacts \/ StartRollback \/ ProvideStatus \/ WarnUndetermined
  \/ WriteReports
  \/ \E c \in backups : Restore(c)

Next ==
  \/ Step
  \/ \E c \in PreChanges : Enable(c) \/ PreAction(c)
  \/ EnableRaises \/ Raise \/ RaiseInHandler \/ RaiseUncaught

Spec == Init /\ [][Next]_vars
(* The program goes on as long as it can: the prompts are answered and the   *)
(* tools it calls return.  No exception need ever be raised.                 *)
FairSpec == Spec /\ WF_vars(Step)
-----------------------------------------------------------------------------

(* What the program may leave behind without knowing it: a change whose      *)
(* failed restore was only logged, one without a backup, and one whose push  *)
(* was struck between the change and the append.                             *)
Unseen == OnlyLogged \cup Unbacked \cup lost \cup {pushing}

(* The exit codes tell the truth.  SUCCESSFUL: no exception struck, and the  *)
(* analysis found nothing and left nothing behind, but for changes without a *)
(* backup or whose failed restore is only logged, or the conversion ended    *)
(* without a failed Action.  INHIBITORS_FOUND: some Action failed, and       *)
(* before the PONR nothing is left behind but what is Unseen; of a push that *)
(* failed half-way, only what enable() itself did.  FAILURE: there was an    *)
(* exception, the rollback failed, or another copy is running.               *)
ExitCodeTruthful ==
  pc = "done" =>
    /\ exit = "SUCCESSFUL" =>
         /\ failedAt = {} /\ ~rollbackFailed
         /\ IF activity = "analysis"
            THEN pre = "good" /\ changed \subseteq OnlyLogged \cup Unbacked
            ELSE post = "good"
    /\ exit = "INHIBITORS_FOUND" =>
         /\ failedAt = {} /\ ~rollbackFailed
         /\ \/ post = "bad"
            \/ /\ post = None /\ pre = "bad"
               /\ changed \subseteq Unseen /\ changed \cap lost \subseteq ByEnable
    /\ exit = "FAILURE" => failedAt # {} \/ rollbackFailed \/ phase = None

(* A run that ends without success, with a change on the system that is not  *)
(* Unseen, has told so, whatever struck - but for three places: before the   *)
(* Actions with the versionlock cleared, between the end of an analysis and  *)
(* its exception, and in a handler.                                          *)
ChangesAreAnnounced ==
  pc = "done" /\ ~(changed \subseteq Unseen) /\ exit # "SUCCESSFUL" =>
    \/ said \cap {"undetermined", "rollback_incomplete"} # {}
    \/ failedAt \cap ({"metadata", "raise_exit"} \cup Handling) # {}
    \/ failedAt = {"finally"}

(* The assessment file that other tools read is the one of the part of the   *)
(* run the exit code is about, and there is none after a failed rollback.    *)
ReportMatchesRun ==
  pc = "done" =>
    /\ rollbackFailed => files = {}
    /\ exit \in {"SUCCESSFUL", "INHIBITORS_FOUND"} =>
         files = {IF post = None THEN "pre_conversion" ELSE "post_conversion"}

(* The breadcrumbs of a conversion call it a success exactly when it was one *)
(* in the facts and in the last entry of migration-results, also when an     *)
(* Action failed, or the user hit Ctrl-C, after the Action that had recorded *)
(* the success.  An entry "success" of a run that failed can be found only   *)
(* above the one that says so, and only of a run past the PONR.              *)
BreadcrumbsTruthful ==
  pc = "done" /\ phase # None /\ activity = "conversion" /\ exit # "traceback" =>
    /\ facts = "success" <=> exit = "SUCCESSFUL"
    /\ \/ migration = <<facts>>
       \/ /\ migration = <<"success", facts>> /\ facts = "failure"
          /\ phase = "POST_PONR_CHANGES"

(* The end of an analysis, and a failure before the point of no return, are  *)
(* followed by the restore of every backup, unless the handler is struck.    *)
RollbackCompletes ==
  (handler = "analyze" \/ (handler # None /\ phase = "PRE_PONR_CHANGES"))
    ~> (backups = {} \/ exit = "traceback")

-----------------------------------------------------------------------------
(* The inductive invariant behind ExitCodeTruthful and KeepsPromise.         *)

Preparing == {"boilerplate", "versionlock", "clear", "metadata"}
BeforePonr == {"pre_actions", "check_pre", "confirm"}
AfterPonr == {"post_actions", "check_post", "report_post"}
Forward == {"lock", "logging"} \cup Body

(* The phase is the one of the step. *)
PhaseOfStep ==
  /\ pc = "lock" => phase = None
  /\ pc \in Preparing => phase = "PREPARE"
  /\ pc \in BeforePonr => phase = "PRE_PONR_CHANGES"
  /\ pc = "raise_exit" => phase = "ANALYZE_EXIT"
  /\ pc \in AfterPonr \cup {"undetermined"} => phase = "POST_PONR_CHANGES"
  /\ pc \in {"collect", "facts"} => phase \in Phases \ {"ROLLBACK"}
  /\ pc = "rollback" => phase \in {"PRE_PONR_CHANGES", "ANALYZE_EXIT"}
  /\ pc \in {"pop", "status"} => phase = "ROLLBACK"
  /\ pc = "facts" => phase \in {"PRE_PONR_CHANGES", "ANALYZE_EXIT", "POST_PONR_CHANGES"}
  /\ pc = "logging" => phase = "POST_CLI"

(* Nothing went wrong on the way forward, and nothing is returned before the *)
(* end.                                                                      *)
Clean ==
  /\ pc \in Forward => handler = None /\ failedAt = {}
  /\ pc \notin {"finally", "done"} => exit = None
  /\ rollbackFailed => phase = "ROLLBACK"

(* How far the Actions are. *)
Assessed ==
  /\ pc \in {"lock", "logging", "pre_actions"} \cup Preparing => pre = None
  /\ pc \in {"check_pre", "raise_exit"} => pre # None
  /\ pc \in {"raise_exit"} => activity = "analysis"
  /\ pc = "confirm" => pre = "good" /\ activity = "conversion"
  /\ phase = "POST_PONR_CHANGES" => pre = "good" /\ activity = "conversion"
  /\ phase # "POST_PONR_CHANGES" => post = None /\ Final \notin changed
  /\ pc = "report_post" => post = "good"

(* What brought the program into a handler. *)
HandlerKnowsWhy ==
  /\ pc \in Handling => handler # None
  /\ pc \in Handling /\ handler # "error" => failedAt = {}
  /\ handler = "error" => failedAt # {}
  /\ handler = "analyze" =>
       activity = "analysis" /\ pre # None /\ phase \in {"ANALYZE_EXIT", "ROLLBACK"}
  /\ handler = "inhibitors" =>
       /\ phase \in {"PRE_PONR_CHANGES", "POST_PONR_CHANGES", "ROLLBACK"}
       /\ IF phase = "POST_PONR_CHANGES" THEN post = "bad" ELSE pre = "bad"

(* A push is under way only among the Actions, and only what enable() itself *)
(* did comes before the append.  An ERROR of it is in the results.           *)
Pushing ==
  /\ pc \in Forward \ {"pre_actions"} => pushing = None
  /\ handler # "error" /\ pc # "pre_actions" => pushing = None
  /\ pc \in {"lock", "logging"} \cup Preparing => lost = {}
  /\ pre = "good" => lost = {}
  /\ changed \cap (lost \cup {pushing}) \subseteq ByEnable
  /\ lost \cap (backups \cup Unbacked) = {}
  /\ pushing \notin backups \cup Unbacked \cup lost

(* Every change that can be seen has its backup until the rollback is over. *)
BackedUp ==
  /\ pc \in Forward \cup {"collect", "facts", "rollback"} =>
       changed \ {Final} \subseteq backups \cup Unbacked \cup lost \cup {pushing}
  /\ pc = "clear" => Versionlock \in backups
  /\ pc = "pop" => changed \subseteq backups \cup Unseen \/ rollbackFailed
  /\ pc = "status" => changed \subseteq Unseen \/ rollbackFailed

(* What a value of exit stands for once it is set. *)
Verdict ==
  /\ exit = "SUCCESSFUL" =>
       /\ failedAt = {} /\ ~rollbackFailed
       /\ \/ /\ phase = "ROLLBACK" /\ activity = "analysis" /\ pre = "good"
             /\ post = None /\ changed \subseteq OnlyLogged \cup Unbacked
          \/ phase = "POST_PONR_CHANGES" /\ activity = "conversion" /\ post = "good"
  /\ exit = "INHIBITORS_FOUND" =>
       /\ failedAt = {} /\ ~rollbackFailed
       /\ \/ phase = "ROLLBACK" /\ pre = "bad" /\ post = None /\ changed \subseteq Unseen
          \/ phase = "POST_PONR_CHANGES" /\ post = "bad"
  /\ exit = "FAILURE" => failedAt # {} \/ rollbackFailed \/ phase = None

Inv ==
  /\ TypeOK /\ PhaseOfStep /\ Clean /\ Assessed
  /\ HandlerKnowsWhy /\ Pushing /\ BackedUp /\ Verdict

-----------------------------------------------------------------------------
(* What the run leaves for the user and for other tools: the invariant       *)
(* behind ChangesAreAnnounced, ReportMatchesRun and BreadcrumbsTruthful.     *)

Told == said \cap {"undetermined", "rollback_incomplete"} # {}
Unheard == failedAt \cap ({"metadata", "raise_exit"} \cup Handling) # {}

(* Nothing is changed before the versionlock is cleared; a handler that says *)
(* nothing of changes was entered where Unheard allows it.                   *)
Announced ==
  /\ pc \in {"lock", "logging", "boilerplate", "versionlock", "clear"} => changed = {}
  /\ pc = "collect" /\ phase \in {"POST_CLI", "PREPARE"} /\ changed # {} => Unheard
  /\ pc = "collect" /\ phase = "ANALYZE_EXIT" /\ handler = "error" => Unheard
  /\ exit \notin {None, "SUCCESSFUL"} /\ ~(changed \subseteq Unseen) =>
       Told \/ Unheard \/ failedAt = {"finally"}

(* The files are written last, and a rollback remembers what it follows.     *)
Reported ==
  /\ pc # "done" \/ rollbackFailed => files = {}
  /\ phase = "ROLLBACK" => lastStage \in {"PRE_PONR_CHANGES", "ANALYZE_EXIT"}
  /\ pc = "done" /\ exit \in {"SUCCESSFUL", "INHIBITORS_FOUND"} =>
       files = {IF post = None THEN "pre_conversion" ELSE "post_conversion"}

(* The last word of the breadcrumbs is a failure. *)
FailureRecorded ==
  /\ facts = "failure"
  /\ \/ migration = <<"failure">>
     \/ /\ migration = <<"success", "failure">>
        /\ phase = "POST_PONR_CHANGES"

(* The breadcrumbs are final from finish_collection() of a handler on.       *)
Recorded ==
  /\ pc \in {"lock", "logging", "raise_exit"} \cup Preparing \cup BeforePonr =>
       migration = <<>> /\ facts = None
  /\ pc \in AfterPonr => migration \in {<<>>, <<"success">>} /\ facts \in {None, "success"}
  /\ pc \in AfterPonr /\ facts = "success" => migration = <<"success">>
  /\ pc \in {"check_post", "report_post"} /\ post = "good" => facts = "success"
  /\ pc = "collect" =>
       migration = <<>> \/ (phase = "POST_PONR_CHANGES" /\ migration = <<"success">>)
  /\ pc \in Handling \ {"collect"} /\ handler # "analyze" => FailureRecorded
  /\ activity = "conversion" /\ phase # None =>
       /\ exit = "SUCCESSFUL" => facts = "success" /\ migration = <<"success">>
       /\ exit \in {"FAILURE", "INHIBITORS_FOUND"} => FailureRecorded

Account == Announced /\ Reported /\ Recorded

-----------------------------------------------------------------------------
(* Every run is one that ConversionPromise allows.                           *)
Stage ==
  CASE pc = "done" -> "ended"
    [] pc # "done" /\ phase = "POST_PONR_CHANGES" -> "committed"
    [] pc # "done" /\ phase = "ROLLBACK" -> "undoing"
    [] OTHER -> "forward"

Promise == INSTANCE ConversionPromise WITH
  stage <- Stage, dirty <- ~(changed \subseteq Unseen), assessment <- pre,
  verdict <- IF pc = "done" THEN exit ELSE None

(* The user is promised, of all changes that are not Unseen: recoverable     *)
(* ones until the consent, no way past it with inhibitors, no way back after *)
(* it, and a true verdict.                                                   *)
KeepsPromise == Promise!Spec

-----------------------------------------------------------------------------
(* What the program says of itself.                                          *)

(* "graceful exit due to several different Exception types": an exception in *)
(* the body of main_locked() does not end in a traceback.                    *)
ExitsGracefully == pc = "done" /\ failedAt \subseteq Body => exit # "traceback"
=============================================================================
