-------------------------- MODULE Conversion_proofs --------------------------
(***************************************************************************)
(* For any set of changes, whichever of them are made by enable(), have a  *)
(* restore that only logs, or no backup, and wherever exceptions strike:   *)
(* the exit code of convert2rhel is truthful, every run is one that        *)
(* ConversionPromise allows, and the messages, the assessment files and    *)
(* the breadcrumbs say what became of the system, Unseen changes apart.    *)
(***************************************************************************)
EXTENDS Conversion, SequenceTheorems, TLAPS

(* The value the entries of migration-results have after one more. *)
LEMMA Appended ==
  ASSUME NEW old \in Seq({"failure", "success"}), NEW one \in {"failure", "success"}
  PROVE  Append(old, one) \in Seq({"failure", "success"})
  OBVIOUS

LEMMA AppendedFirst ==
  ASSUME NEW one
  PROVE  Append(<<>>, one) = <<one>>
  OBVIOUS

LEMMA AppendedSecond ==
  ASSUME NEW one \in {"failure", "success"}, NEW two \in {"failure", "success"}
  PROVE  Append(<<one>>, two) = <<one, two>>
<1>1. <<one>> \in Seq({"failure", "success"}) /\ Len(<<one>>) = 1
  OBVIOUS
<1>2. /\ Append(<<one>>, two) \in Seq({"failure", "success"}) /\ Len(Append(<<one>>, two)) = 2
      /\ Append(<<one>>, two)[1] = one /\ Append(<<one>>, two)[2] = two
  BY <1>1
<1>3. <<one, two>> \in Seq({"failure", "success"}) /\ Len(<<one, two>>) = 2
  OBVIOUS
<1>4. /\ <<one, two>>[1] = one /\ <<one, two>>[2] = two
      /\ \A i \in 1 .. 2 : i = 1 \/ i = 2
  OBVIOUS
<1>5. \A i \in 1 .. Len(Append(<<one>>, two)) : Append(<<one>>, two)[i] = <<one, two>>[i]
  BY <1>2, <1>4
<1>6. QED
  BY <1>2, <1>3, <1>5, SeqEqual

(* Inv holds when the program starts. *)
LEMMA ConversionInit == Init => Inv
<1> SUFFICES ASSUME Init PROVE Inv
  OBVIOUS
<1>1. <<>> \in Seq({"failure", "success"})
  OBVIOUS
<1>2. TypeOK
  BY <1>1 DEF Init, TypeOK, Body, Handling, Phases, Results, None
<1>3. PhaseOfStep /\ Clean /\ Assessed /\ HandlerKnowsWhy /\ Pushing /\ BackedUp /\ Verdict
  BY ChangesAssumption
     DEF Init, PhaseOfStep, Clean, Assessed, HandlerKnowsWhy, Pushing, BackedUp, Verdict, Unseen,
         Body, Handling, Phases, Preparing, BeforePonr, AfterPonr, Forward, None
<1>4. QED
  BY <1>2, <1>3 DEF Inv

(* Every step of the program preserves Inv. *)
LEMMA ConversionStep == Inv /\ [Next]_vars => Inv'
<1> SUFFICES ASSUME Inv, [Next]_vars PROVE Inv'
  OBVIOUS
<1> USE ChangesAssumption
<1> USE DEF Inv, TypeOK, PhaseOfStep, Clean, Assessed, HandlerKnowsWhy, Pushing, BackedUp,
        Verdict, Unseen, pushed, breadcrumbs,
        Body, Handling, Phases, Results, Preparing, BeforePonr, AfterPonr, Forward, None,
        Recoverable, At, Goto, SetPhase, outcome, results, undo
<1>1. CASE TakeLock
  <2>1. TypeOK'
    BY <1>1 DEF TakeLock
  <2>2. PhaseOfStep' /\ Clean' /\ Assessed' /\ HandlerKnowsWhy' /\ Verdict'
    BY <1>1 DEF TakeLock
  <2>3. Pushing' /\ BackedUp'
    BY <1>1 DEF TakeLock
  <2>4. QED
    BY <2>1, <2>2, <2>3
<1>2. CASE InitializeLogging
  BY <1>2 DEF InitializeLogging
<1>3. CASE Boilerplate
  BY <1>3 DEF Boilerplate
<1>4. CASE PushVersionlock
  BY <1>4 DEF PushVersionlock
<1>5. CASE ClearVersionlock
  BY <1>5 DEF ClearVersionlock
<1>6. CASE CleanMetadata
  BY <1>6 DEF CleanMetadata
<1>7. CASE FinishPreActions
  BY <1>7 DEF FinishPreActions
<1>8. CASE EndAnalysis
  BY <1>8 DEF EndAnalysis
<1>9. CASE RaiseAnalyzeExit
  BY <1>9 DEF RaiseAnalyzeExit
<1>10. CASE CheckPre
  BY <1>10 DEF CheckPre
<1>11. CASE Confirm
  BY <1>11 DEF Confirm
<1>12. CASE PostAction
  BY <1>12 DEF PostAction
<1>13. CASE FinishPostActions
  BY <1>13 DEF FinishPostActions
<1>14. CASE CheckPost
  BY <1>14 DEF CheckPost
<1>15. CASE Succeed
  BY <1>15 DEF Succeed
<1>16. CASE Collect
  <2>1. said' \subseteq said \cup {"no_changes"}
    BY <1>16 DEF Collect
  <2>2. exit' \in {exit, "FAILURE"} /\ (exit' # exit => pc' = "finally")
    BY <1>16 DEF Collect, Return
  <2>3. TypeOK'
    <3>1. pc' \in {"finally", "facts"} /\ (pc' = "finally" => exit' = "FAILURE")
      BY <1>16 DEF Collect, Return
    <3>2. facts' \in {"failure", "success"} /\ migration' \in Seq({"failure", "success"})
      BY <1>16, Appended DEF Collect, FinishCollection
    <3>3. UNCHANGED <<activity, phase, lastStage, pre, post, handler, failedAt, changed,
                      pushing, lost, backups, rollbackFailed, files>>
      BY <1>16 DEF Collect
    <3>4. said' \subseteq {"no_changes", "undetermined", "rollback_incomplete"}
      BY <2>1
    <3>5. QED
      BY <2>2, <3>1, <3>2, <3>3, <3>4
  <2>4. PhaseOfStep' /\ Clean' /\ Assessed' /\ HandlerKnowsWhy' /\ Pushing' /\ BackedUp'
        /\ Verdict'
    BY <1>16 DEF Collect, Return
  <2>5. QED
    BY <2>3, <2>4
<1>17. CASE UpdateFacts
  BY <1>17 DEF UpdateFacts
<1>18. CASE StartRollback
  BY <1>18 DEF StartRollback
<1>19. CASE ProvideStatus
  BY <1>19 DEF ProvideStatus, Return, CodeAfterRollback, FailureCode
<1>20. CASE WarnUndetermined
  BY <1>20 DEF WarnUndetermined, Return, FailureCode
<1>21. CASE WriteReports
  BY <1>21 DEF WriteReports, ReportFiles
<1>22. CASE Raise
  BY <1>22 DEF Raise
<1>23. CASE RaiseInHandler
  BY <1>23, Appended DEF RaiseInHandler, Return, HalfFinishCollection
<1>24. CASE RaiseUncaught
  BY <1>24 DEF RaiseUncaught
<1>25. ASSUME NEW c \in PreChanges, PreAction(c) PROVE Inv'
  <2>1. /\ pc = "pre_actions" /\ pushing = None /\ c \notin lost
        /\ c \in backups \/ c \in Unbacked
        /\ changed' = changed \cup {c} /\ UNCHANGED <<activity, pc, phase, lastStage, pre, post,
              handler, failedAt, pushing, lost, backups, rollbackFailed, migration, facts, said,
              files, exit>>
    BY <1>25 DEF PreAction
  <2>2. TypeOK' /\ PhaseOfStep' /\ Clean' /\ Assessed' /\ HandlerKnowsWhy' /\ Verdict'
    BY <2>1
  <2>3. Pushing'
    BY <2>1
  <2>4. BackedUp'
    BY <2>1
  <2>5. QED
    BY <2>2, <2>3, <2>4
<1>26. CASE BreadcrumbsFinishCollection
  <2>1. /\ migration' \in Seq({"failure", "success"}) /\ facts' \in {facts, "success"}
        /\ UNCHANGED <<activity, pc, phase, lastStage, pre, post, handler, failedAt, changed,
              pushing, lost, backups, rollbackFailed, said, files, exit>>
    <3>1. Append(migration, "success") \in Seq({"failure", "success"})
      BY Appended
    <3>2. QED
      BY <1>26, <3>1 DEF BreadcrumbsFinishCollection, FinishCollection, HalfFinishCollection
  <2>2. TypeOK' /\ PhaseOfStep' /\ Clean' /\ Assessed' /\ HandlerKnowsWhy' /\ Verdict'
    BY <2>1
  <2>3. Pushing' /\ BackedUp'
    BY <2>1
  <2>4. QED
    BY <2>2, <2>3
<1>27. CASE AppendRestorable
  BY <1>27 DEF AppendRestorable
<1>28. CASE EnableRaises
  BY <1>28 DEF EnableRaises
<1>29. ASSUME NEW c \in PreChanges, Enable(c) PROVE Inv'
  BY <1>29 DEF Enable
<1>30. ASSUME NEW c \in backups, Restore(c) PROVE Inv'
  <2>1. TypeOK' /\ PhaseOfStep' /\ Clean' /\ Assessed' /\ HandlerKnowsWhy' /\ Verdict'
    <3>1. /\ pc = "pop" /\ pc' \in {"pop", "status"} /\ rollbackFailed' \in BOOLEAN
          /\ changed' \subseteq changed /\ backups' \subseteq backups
          /\ UNCHANGED <<activity, phase, lastStage, pre, post, handler, failedAt, pushing, lost,
                         migration, facts, said, files, exit>>
      BY <1>30 DEF Restore
    <3>2. QED
      BY <3>1
  <2>2. Pushing'
    BY <1>30 DEF Restore
  <2>3. BackedUp'
    <3>1. pc' \in {"pop", "status"} /\ Unseen' = Unseen
      BY <1>30 DEF Restore
    <3>2. CASE rollbackFailed'
      BY <3>1, <3>2
    <3>3. CASE ~rollbackFailed'
      <4>1. /\ changed \subseteq backups \cup Unseen /\ backups' = backups \ {c}
            /\ changed' = changed \ {c} \/ (c \in Unseen /\ changed' = changed)
        BY <1>30, <3>3 DEF Restore
      <4>2. changed' \subseteq backups' \cup Unseen'
        BY <3>1, <4>1
      <4>3. pc' = "status" => changed' \subseteq Unseen'
        BY <1>30, <4>2 DEF Restore
      <4>4. QED
        BY <3>1, <4>2, <4>3
    <3>4. QED
      BY <3>2, <3>3
  <2>4. QED
    BY <2>1, <2>2, <2>3
<1>31. CASE UNCHANGED vars
  BY <1>31 DEF vars
<1>32. QED
  BY <1>1, <1>2, <1>3, <1>4, <1>5, <1>6, <1>7, <1>8, <1>9, <1>10, <1>11, <1>12, <1>13,
     <1>14, <1>15, <1>16, <1>17, <1>18, <1>19, <1>20, <1>21, <1>22, <1>23, <1>24, <1>25, <1>26,
     <1>27, <1>28, <1>29, <1>30, <1>31
     DEF Next, Step

(* SUCCESSFUL, INHIBITORS_FOUND and FAILURE mean what they stand for,        *)
(* wherever an exception or a Ctrl-C strikes: ConversionExitCodes.  What an  *)
(* exit code can conceal is named: a restore that was only logged, a change  *)
(* without a backup, and what enable() did before it raised.                 *)
THEOREM ExitCodes == Spec => []ExitCodeTruthful
<1>1. Inv => ExitCodeTruthful
  BY DEF Inv, TypeOK, Verdict, Pushing, Unseen, ExitCodeTruthful, None, Results
<1>2. QED
  BY ConversionInit, ConversionStep, <1>1, PTL DEF Spec

(* A step of the program is a step of the promise, or none of its business. *)
LEMMA PromiseStep == Inv /\ Inv' /\ [Next]_vars => [Promise!Next]_(Promise!promiseVars)
<1> SUFFICES ASSUME Inv, Inv', [Next]_vars PROVE [Promise!Next]_(Promise!promiseVars)
  OBVIOUS
<1> USE DEF Promise!Next, Promise!promiseVars, Promise!Change, Promise!Assess, Promise!Commit,
        Promise!TurnBack, Promise!Undo, Promise!End, Stage
<1> USE ChangesAssumption
<1> USE DEF Inv, TypeOK, PhaseOfStep, Clean, Assessed, Pushing, BackedUp, Verdict, Unseen, Body,
        Handling, Phases, Results, Preparing, BeforePonr, AfterPonr, Forward, None, At, Goto,
        SetPhase, outcome, breadcrumbs, results, pushed, undo
<1>1. CASE TakeLock
  BY <1>1 DEF TakeLock
<1>2. CASE InitializeLogging
  BY <1>2 DEF InitializeLogging
<1>3. CASE Boilerplate
  BY <1>3 DEF Boilerplate
<1>4. CASE PushVersionlock
  BY <1>4 DEF PushVersionlock
<1>5. CASE ClearVersionlock
  BY <1>5 DEF ClearVersionlock
<1>6. CASE CleanMetadata
  BY <1>6 DEF CleanMetadata
<1>7. CASE FinishPreActions
  BY <1>7 DEF FinishPreActions
<1>8. CASE EndAnalysis
  BY <1>8 DEF EndAnalysis
<1>9. CASE RaiseAnalyzeExit
  BY <1>9 DEF RaiseAnalyzeExit
<1>10. CASE CheckPre
  BY <1>10 DEF CheckPre
<1>11. CASE Confirm
  BY <1>11 DEF Confirm
<1>12. CASE PostAction
  BY <1>12 DEF PostAction
<1>13. CASE FinishPostActions
  BY <1>13 DEF FinishPostActions
<1>14. CASE CheckPost
  BY <1>14 DEF CheckPost
<1>15. CASE Succeed
  BY <1>15 DEF Succeed
<1>16. CASE Collect
  BY <1>16 DEF Collect, Return
<1>17. CASE UpdateFacts
  BY <1>17 DEF UpdateFacts
<1>18. CASE StartRollback
  BY <1>18 DEF StartRollback
<1>19. CASE ProvideStatus
  BY <1>19 DEF ProvideStatus, Return
<1>20. CASE WarnUndetermined
  BY <1>20 DEF WarnUndetermined, Return
<1>21. CASE WriteReports
  BY <1>21 DEF WriteReports
<1>22. CASE Raise
  BY <1>22 DEF Raise
<1>23. CASE RaiseInHandler
  BY <1>23 DEF RaiseInHandler, Return
<1>24. CASE RaiseUncaught
  BY <1>24 DEF RaiseUncaught
<1>25. ASSUME NEW c \in PreChanges, PreAction(c) PROVE [Promise!Next]_(Promise!promiseVars)
  BY <1>25 DEF PreAction
<1>26. CASE BreadcrumbsFinishCollection
  BY <1>26 DEF BreadcrumbsFinishCollection
<1>27. CASE AppendRestorable
  BY <1>27 DEF AppendRestorable
<1>28. CASE EnableRaises
  BY <1>28 DEF EnableRaises
<1>29. ASSUME NEW c \in PreChanges, Enable(c) PROVE [Promise!Next]_(Promise!promiseVars)
  BY <1>29 DEF Enable
<1>30. ASSUME NEW c \in backups, Restore(c) PROVE [Promise!Next]_(Promise!promiseVars)
  BY <1>30 DEF Restore
<1>31. CASE UNCHANGED vars
  BY <1>31 DEF vars
<1>32. QED
  BY <1>1, <1>2, <1>3, <1>4, <1>5, <1>6, <1>7, <1>8, <1>9, <1>10, <1>11, <1>12, <1>13,
     <1>14, <1>15, <1>16, <1>17, <1>18, <1>19, <1>20, <1>21, <1>22, <1>23, <1>24, <1>25, <1>26,
     <1>27, <1>28, <1>29, <1>30, <1>31
     DEF Next, Step

(* convert2rhel keeps its promise, of the changes that are not Unseen:       *)
(* recoverable until the user's consent, no way past it with inhibitors,     *)
(* none back after it, and a true verdict.                                   *)
THEOREM ConversionKeepsPromise == Spec => KeepsPromise
<1>1. Init => Promise!Init
  BY DEF Init, Promise!Init, Stage, None
<1>2. QED
  BY ConversionInit, ConversionStep, PromiseStep, <1>1, PTL DEF Spec, KeepsPromise, Promise!Spec

(* A step tells of the changes it leaves, or strikes where Unheard allows it. *)
LEMMA AnnouncedStep == Inv /\ Inv' /\ Announced /\ [Next]_vars => Announced'
<1>0. failedAt = {} \/ failedAt = {"finally"} => failedAt \cup {"finally"} = {"finally"}
  OBVIOUS
<1> USE ChangesAssumption
<1> USE DEF Inv, TypeOK, PhaseOfStep, Clean, Assessed, HandlerKnowsWhy, Pushing, BackedUp,
        Verdict, Unseen, pushed, breadcrumbs,
        Body, Handling, Phases, Results, Preparing, BeforePonr, AfterPonr, Forward, None,
        At, Goto, SetPhase, outcome, results, undo
<1> USE DEF Next, Step, vars, TakeLock, InitializeLogging, Boilerplate, PushVersionlock,
        ClearVersionlock, CleanMetadata, FinishPreActions, EndAnalysis, RaiseAnalyzeExit,
        CheckPre, Confirm, PostAction, FinishPostActions, CheckPost, Succeed, Collect,
        UpdateFacts, StartRollback, ProvideStatus, WarnUndetermined, WriteReports, Restore,
        Enable, AppendRestorable, EnableRaises, PreAction, BreadcrumbsFinishCollection, Raise,
        RaiseInHandler, RaiseUncaught, Return
<1> SUFFICES ASSUME Inv, Inv', Announced, [Next]_vars PROVE Announced'
  OBVIOUS
<1>1. (pc \in {"lock", "logging", "boilerplate", "versionlock", "clear"} => changed = {})'
  BY DEF Announced
<1>2. (pc = "collect" /\ phase \in {"POST_CLI", "PREPARE"} /\ changed # {} => Unheard)'
  BY DEF Announced, Unheard
<1>3. (pc = "collect" /\ phase = "ANALYZE_EXIT" /\ handler = "error" => Unheard)'
  BY DEF Announced, Unheard
<1>4. CASE exit = None
  <2>1. CASE Collect
    BY <1>1, <1>2, <1>3, <2>1 DEF Announced, Told, Unheard
  <2>2. CASE ProvideStatus
    <3>1. rollbackFailed \/ changed \subseteq Unseen
      BY <2>2
    <3>2. changed' = changed /\ Unseen' = Unseen /\ (rollbackFailed => Told')
      BY <2>2 DEF Told
    <3>3. QED
      BY <1>1, <1>2, <1>3, <3>1, <3>2 DEF Announced
  <2>3. CASE WarnUndetermined \/ RaiseInHandler \/ RaiseUncaught
    <3>1. Told' \/ Unheard' \/ changed' = {}
      <4>1. CASE WarnUndetermined
        <5>1. said' = said \cup {"undetermined"}
          BY <4>1
        <5>2. QED
          BY <5>1 DEF Told
      <4>2. CASE RaiseInHandler
        <5>1. pc \in {"collect", "facts", "rollback", "pop", "status", "undetermined"}
              /\ failedAt' = failedAt \cup {pc}
          BY <4>2
        <5>2. pc \in failedAt' \cap ({"metadata", "raise_exit"} \cup Handling)
          BY <5>1
        <5>3. QED
          BY <5>2 DEF Unheard
      <4>3. CASE RaiseUncaught
        <5>1. pc = "logging" /\ changed' = changed
          BY <1>4, <4>3
        <5>2. QED
          BY <5>1 DEF Announced
      <4>4. QED
        BY <2>3, <4>1, <4>2, <4>3
    <3>2. QED
      BY <1>1, <1>2, <1>3, <1>4, <3>1 DEF Announced
  <2>4. CASE exit' \in {None, "SUCCESSFUL"} \/ changed' = {}
    BY <1>1, <1>2, <1>3, <2>4 DEF Announced
  <2>5. QED
    <3>1. CASE TakeLock
      BY <2>4, <3>1 DEF Announced
    <3>2. QED
      BY <1>4, <2>1, <2>2, <2>3, <2>4, <3>1
<1>5. CASE exit # None
  <2>1. /\ pc \in {"finally", "done"} /\ UNCHANGED <<said, changed>>
        /\ \/ UNCHANGED <<failedAt, exit>>
           \/ failedAt' = failedAt \cup {"finally"}
    BY <1>5
  <2>2. CASE Told \/ Unheard
    <3>1. Told' \/ Unheard'
      BY <2>1, <2>2 DEF Told, Unheard
    <3>2. QED
      BY <1>1, <1>2, <1>3, <3>1 DEF Announced
  <2>3. CASE changed = {}
    BY <1>1, <1>2, <1>3, <2>1, <2>3 DEF Announced
  <2>4. CASE exit = "SUCCESSFUL" \/ failedAt = {"finally"}
    <3>1. failedAt = {} \/ failedAt = {"finally"}
      BY <2>4
    <3>2. failedAt \cup {"finally"} = {"finally"}
      BY <1>0, <3>1
    <3>3. failedAt' = {"finally"} \/ UNCHANGED <<failedAt, exit>>
      BY <2>1, <3>2
    <3>4. QED
      BY <1>1, <1>2, <1>3, <2>1, <2>4, <3>3 DEF Announced
  <2>5. QED
    BY <1>5, <2>2, <2>3, <2>4 DEF Announced
<1>9. QED
  BY <1>1, <1>2, <1>3, <1>4, <1>5 DEF Announced

(* The files stay unwritten until `finally`, and are then those of the verdict. *)
LEMMA ReportedStep == Inv /\ Inv' /\ Reported /\ [Next]_vars => Reported'
<1> USE ChangesAssumption
<1> USE DEF Inv, TypeOK, PhaseOfStep, Clean, Assessed, HandlerKnowsWhy, Pushing, BackedUp,
        Verdict, Unseen, pushed, breadcrumbs,
        Body, Handling, Phases, Results, Preparing, BeforePonr, AfterPonr, Forward, None,
        At, Goto, SetPhase, outcome, results, undo
<1> USE DEF Next, Step, vars, TakeLock, InitializeLogging, Boilerplate, PushVersionlock,
        ClearVersionlock, CleanMetadata, FinishPreActions, EndAnalysis, RaiseAnalyzeExit,
        CheckPre, Confirm, PostAction, FinishPostActions, CheckPost, Succeed, Collect,
        UpdateFacts, StartRollback, ProvideStatus, WarnUndetermined, WriteReports, Restore,
        Enable, AppendRestorable, EnableRaises, PreAction, BreadcrumbsFinishCollection, Raise,
        RaiseInHandler, RaiseUncaught, Return
<1> SUFFICES ASSUME Inv, Inv', Reported, [Next]_vars PROVE Reported'
  OBVIOUS
<1>1. (phase = "ROLLBACK" => lastStage \in {"PRE_PONR_CHANGES", "ANALYZE_EXIT"})'
  BY DEF Reported
<1>2. (pc # "done" \/ rollbackFailed => files = {})'
  BY DEF Reported
<1>3. (pc = "done" /\ exit \in {"SUCCESSFUL", "INHIBITORS_FOUND"} =>
       files = {IF post = None THEN "pre_conversion" ELSE "post_conversion"})'
  <2>1. CASE WriteReports
    <3>1. exit = "SUCCESSFUL" \/ exit = "INHIBITORS_FOUND" =>
            /\ ~rollbackFailed /\ files = {}
            /\ ReportFiles = {IF post = None THEN "pre_conversion" ELSE "post_conversion"}
      BY <2>1 DEF Reported, ReportFiles, PickedResults, ExecutionPhase
    <3>2. files' = (IF rollbackFailed THEN files ELSE files \cup ReportFiles)
          /\ exit' = exit /\ post' = post
      BY <2>1
    <3>3. QED
      BY <3>1, <3>2
  <2>2. CASE UNCHANGED <<pc, exit, files, post>>
    BY <2>2 DEF Reported
  <2>3. CASE pc' # "done" \/ exit' \in {"FAILURE", "traceback"}
    BY <2>3
  <2>4. QED
    BY <2>1, <2>2, <2>3
<1>9. QED
  BY <1>1, <1>2, <1>3 DEF Reported

(* The breadcrumbs follow the verdict. *)
LEMMA RecordedStep == Inv /\ Inv' /\ Recorded /\ [Next]_vars => Recorded'
<1> USE DEF Inv, TypeOK, PhaseOfStep, Clean, Assessed, HandlerKnowsWhy, Verdict, pushed,
        breadcrumbs, Body, Handling, Phases, Results, Preparing, BeforePonr, AfterPonr, Forward,
        None, At, Goto, SetPhase, outcome, results, undo, Recorded, FailureRecorded
<1> SUFFICES ASSUME Inv, Inv', Recorded, [Next]_vars PROVE Recorded'
  OBVIOUS
<1>1. CASE TakeLock
  BY <1>1 DEF TakeLock
<1>2. CASE InitializeLogging
  BY <1>2 DEF InitializeLogging
<1>3. CASE Boilerplate
  BY <1>3 DEF Boilerplate
<1>4. CASE PushVersionlock
  BY <1>4 DEF PushVersionlock
<1>5. CASE ClearVersionlock
  BY <1>5 DEF ClearVersionlock
<1>6. CASE CleanMetadata
  BY <1>6 DEF CleanMetadata
<1>7. CASE AppendRestorable
  BY <1>7 DEF AppendRestorable
<1>8. CASE EnableRaises
  BY <1>8 DEF EnableRaises
<1>9. CASE FinishPreActions
  BY <1>9 DEF FinishPreActions
<1>10. CASE EndAnalysis
  BY <1>10 DEF EndAnalysis
<1>11. CASE RaiseAnalyzeExit
  BY <1>11 DEF RaiseAnalyzeExit
<1>12. CASE CheckPre
  BY <1>12 DEF CheckPre
<1>13. CASE Confirm
  BY <1>13 DEF Confirm
<1>14. CASE PostAction
  BY <1>14 DEF PostAction
<1>15. CASE FinishPostActions
  BY <1>15 DEF FinishPostActions
<1>16. CASE CheckPost
  BY <1>16 DEF CheckPost
<1>17. CASE Succeed
  BY <1>17 DEF Succeed
<1>18. CASE UpdateFacts
  BY <1>18 DEF UpdateFacts
<1>19. CASE StartRollback
  BY <1>19 DEF StartRollback
<1>20. CASE ProvideStatus
  BY <1>20 DEF ProvideStatus, Return, CodeAfterRollback, FailureCode
<1>21. CASE WarnUndetermined
  BY <1>21 DEF WarnUndetermined, Return, FailureCode
<1>22. CASE WriteReports
  BY <1>22 DEF WriteReports
<1>23. CASE Raise
  BY <1>23 DEF Raise
<1>24. CASE RaiseUncaught
  BY <1>24 DEF RaiseUncaught
<1>25. ASSUME NEW c \in PreChanges, Enable(c) \/ PreAction(c) PROVE Recorded'
  BY <1>25 DEF Enable, PreAction
<1>26. ASSUME NEW c \in backups, Restore(c) PROVE Recorded'
  BY <1>26 DEF Restore
<1>27. CASE UNCHANGED vars
  BY <1>27 DEF vars
<1>28. CASE BreadcrumbsFinishCollection
  <2>1. /\ pc = "post_actions" /\ phase = "POST_PONR_CHANGES" /\ exit = None
        /\ migration' = Append(<<>>, "success") /\ facts' \in {facts, "success"}
        /\ UNCHANGED <<activity, pc, phase, post, handler, exit>>
    BY <1>28 DEF BreadcrumbsFinishCollection, FinishCollection, HalfFinishCollection
  <2>2. migration' = <<"success">>
    BY <2>1, AppendedFirst
  <2>3. QED
    BY <2>1, <2>2
<1>29. CASE Collect
  <2>1. /\ pc = "collect" /\ pc' \in {"facts", "finally"}
        /\ UNCHANGED <<activity, phase, post, handler>>
        /\ \/ exit' = None
           \/ exit' = "FAILURE" /\ (handler # "analyze" \/ phase \in {"POST_CLI", "PREPARE"})
    BY <1>29 DEF Collect, Return
  <2>2. CASE handler = "analyze"
    BY <2>1, <2>2
  <2>3. CASE handler # "analyze"
    <3>1. migration' = Append(migration, "failure") /\ facts' = "failure"
      BY <1>29, <2>3 DEF Collect, FinishCollection
    <3>2. migration = <<>> \/ (phase = "POST_PONR_CHANGES" /\ migration = <<"success">>)
      BY <2>1
    <3>3. FailureRecorded'
      BY <2>1, <3>1, <3>2, AppendedFirst, AppendedSecond
    <3>4. QED
      BY <2>1, <2>3, <3>3
  <2>4. QED
    BY <2>2, <2>3
<1>30. CASE RaiseInHandler
  <2>1. pc' = "finally" /\ exit' = "traceback"
    BY <1>30 DEF RaiseInHandler, Return
  <2>2. QED
    BY <2>1
<1>31. QED
  BY <1>1, <1>2, <1>3, <1>4, <1>5, <1>6, <1>7, <1>8, <1>9, <1>10, <1>11, <1>12, <1>13,
     <1>14, <1>15, <1>16, <1>17, <1>18, <1>19, <1>20, <1>21, <1>22, <1>23, <1>24, <1>25, <1>26,
     <1>27, <1>28, <1>29, <1>30
     DEF Next, Step

(* Account, on top of Inv. *)
LEMMA RunAccounts == Spec => [](Inv /\ Account)
<1>1. Init => Account
  <2> SUFFICES ASSUME Init PROVE Account
    OBVIOUS
  <2>1. Announced
    BY DEF Init, Announced, None
  <2>2. Reported
    BY DEF Init, Reported, None
  <2>3. Recorded
    BY DEF Init, Recorded, FailureRecorded, None, Handling, Preparing, BeforePonr, AfterPonr
  <2>4. QED
    BY <2>1, <2>2, <2>3 DEF Account
<1>2. Inv /\ Inv' /\ Account /\ [Next]_vars => Account'
  BY AnnouncedStep, ReportedStep, RecordedStep DEF Account
<1>3. QED
  BY ConversionInit, ConversionStep, <1>1, <1>2, PTL DEF Spec

(* Whatever strikes main_locked(), a run that leaves a change that is not    *)
(* Unseen and does not succeed has told the user so, but for the three       *)
(* places named.                                                             *)
THEOREM ChangesAnnounced == Spec => []ChangesAreAnnounced
<1>1. Inv /\ Account => ChangesAreAnnounced
  BY DEF Inv, TypeOK, Account, Announced, Told, Unheard, ChangesAreAnnounced, None
<1>2. QED
  BY RunAccounts, <1>1, PTL

(* `finally` writes the assessment of the part of the run the exit code is   *)
(* about (_pick_conversion_results(), _REPORT_MAPPING), and none after a     *)
(* failed rollback.                                                          *)
THEOREM ReportsMatch == Spec => []ReportMatchesRun
<1>1. Account => ReportMatchesRun
  BY DEF Account, Reported, ReportMatchesRun
<1>2. QED
  BY RunAccounts, <1>1, PTL

(* finish_collection(): the facts and the last entry of migration-results    *)
(* call a conversion a success exactly when it was one, also when something  *)
(* strikes after the first time they were written; an entry above it is one  *)
(* of a run past the point of no return.                                     *)
THEOREM BreadcrumbsTrue == Spec => []BreadcrumbsTruthful
<1>1. Inv /\ Account => BreadcrumbsTruthful
  BY DEF Inv, TypeOK, Account, Recorded, FailureRecorded, BreadcrumbsTruthful, None
<1>2. QED
  BY RunAccounts, <1>1, PTL
=============================================================================
