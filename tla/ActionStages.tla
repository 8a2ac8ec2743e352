---------------------------- MODULE ActionStages ----------------------------
(***************************************************************************)
(* The Action framework (convert2rhel/actions/__init__.py): run_pre_actions *)
(* and run_post_actions each check and run a chain of two stages.  A stage  *)
(* runs its Actions in dependency order, skips those that depend on an      *)
(* Action that did not succeed, and hands its lists to the next stage.      *)
(***************************************************************************)
EXTENDS ActionOrder

CONSTANTS
  Plans,      \* the chains of stages to consider and their dependency tables
  Levels      \* result levels an Action may end with

(* system_checks and pre_ponr_changes, conversion and post_conversion: every *)
(* Action has an id of its own.                                              *)
ASSUME PlansAssumption ==
  \A p \in Plans :
    /\ DOMAIN p.stages = 1 .. 2
    /\ \A i \in 1 .. 2 : /\ p.stages[i] \in Seq(DOMAIN p.deps)
                         /\ IsInjective(p.stages[i])
    /\ ToSet(p.stages[1]) \cap ToSet(p.stages[2]) = {}
ASSUME LevelsAssumption == Levels \subseteq {"SUCCESS", "OVERRIDABLE", "ERROR"}

VARIABLES
  plan,       \* the chain that runs: its stages, Action.dependencies of each Action
  pc,         \* where run_pre_actions()/run_post_actions() is
  stage,      \* index of the stage that runs
  todo,       \* what its resolve_action_order() generator still yields
  failedIds,  \* failed_action_ids, a local variable of Stage.run()
  successes, failures, skips    \* ids in the three lists

vars == <<plan, pc, stage, todo, failedIds, successes, failures, skips>>
lists == <<successes, failures, skips>>

(* The Actions of each stage of the chain. *)
Stages == [i \in DOMAIN plan.stages |-> ToSet(plan.stages[i])]
deps == plan.deps
Finished == successes \cup failures \cup skips
StageActions == UNION {Stages[i] : i \in DOMAIN Stages}

TypeOK ==
  /\ plan \in Plans
  /\ pc \in {"check", "run", "done", "dependency_error", "unresolved", "interrupted"}
  /\ stage \in DOMAIN Stages
  /\ ToSet(todo) \subseteq Stages[stage]
  /\ failedIds \subseteq Stages[stage]
  /\ Finished \subseteq StageActions

Init ==
  /\ plan \in Plans
  /\ pc = "check"
  /\ stage = 1
  /\ todo = <<>>
  /\ failedIds = {}
  /\ successes = {} /\ failures = {} /\ skips = {}

(* Stage.run() up to its loop: the order, and a fresh failed_action_ids.  A  *)
(* DependencyError of the generator would surface after what it yields; it   *)
(* is raised at the end of the stage.                                        *)
Enter(i) ==
  /\ stage' = i
  /\ todo' = ResolveActionOrder(deps, plan.stages[i], Finished).order
  /\ failedIds' = {}

(* check_dependencies() comes before anything runs, logger.critical() exits. *)
Check ==
  /\ pc = "check"
  /\ \/ DependenciesSatisfied(deps, plan.stages)  /\ pc' = "run" /\ Enter(1)
     \/ ~DependenciesSatisfied(deps, plan.stages) /\ pc' = "dependency_error"
        /\ UNCHANGED <<stage, todo, failedIds>>
  /\ UNCHANGED <<plan, lists>>

FailedDeps(a) == deps[a] \cap failedIds

(* Mutant: a skipped Action does not count as failed for its dependents. *)
SkipAction_NotFailed ==
  /\ pc = "run" /\ todo # <<>>
  /\ FailedDeps(Head(todo)) # {}
  /\ skips' = skips \cup {Head(todo)}
  /\ todo' = Tail(todo)
  /\ UNCHANGED <<plan, pc, stage, failedIds, successes, failures>>

(* The next Action depends on one that failed or was skipped: result SKIP. *)
SkipAction ==
  /\ pc = "run" /\ todo # <<>>
  /\ FailedDeps(Head(todo)) # {}
  /\ skips' = skips \cup {Head(todo)}
  /\ failedIds' = failedIds \cup {Head(todo)}
  /\ todo' = Tail(todo)
  /\ UNCHANGED <<plan, pc, stage, successes, failures>>

(* Mutant: a success is remembered as a failure too. *)
RunAction_AllFail(level) ==
  /\ pc = "run" /\ todo # <<>>
  /\ FailedDeps(Head(todo)) = {}
  /\ IF level = "SUCCESS"
     THEN successes' = successes \cup {Head(todo)} /\ UNCHANGED failures
     ELSE failures' = failures \cup {Head(todo)} /\ UNCHANGED successes
  /\ failedIds' = failedIds \cup {Head(todo)}
  /\ todo' = Tail(todo)
  /\ UNCHANGED <<plan, pc, stage, skips>>

(* Action.run(): an Exception or a SystemExit becomes an ERROR result, a run *)
(* that sets no result a SUCCESS.  Up to WARNING it is a success.            *)
RunAction(level) ==
  /\ pc = "run" /\ todo # <<>>
  /\ FailedDeps(Head(todo)) = {}
  /\ IF level = "SUCCESS"
     THEN successes' = successes \cup {Head(todo)} /\ UNCHANGED <<failures, failedIds>>
     ELSE /\ failures' = failures \cup {Head(todo)}
          /\ failedIds' = failedIds \cup {Head(todo)}
          /\ UNCHANGED successes
  /\ todo' = Tail(todo)
  /\ UNCHANGED <<plan, pc, stage, skips>>

(* Ctrl-C in Action.run() is not caught: no stage finishes. *)
Interrupt ==
  /\ pc = "run" /\ todo # <<>>
  /\ FailedDeps(Head(todo)) = {}
  /\ pc' = "interrupted"
  /\ UNCHANGED <<plan, stage, todo, failedIds, lists>>

(* Mutant: the next stage is not told about the Actions that were skipped. *)
EndStage_ForgetSkips ==
  /\ pc = "run" /\ todo = <<>>
  /\ IF stage < Len(Stages) THEN Enter(stage + 1) /\ skips' = {} /\ UNCHANGED pc
     ELSE pc' = "done" /\ UNCHANGED <<stage, todo, failedIds, skips>>
  /\ UNCHANGED <<plan, successes, failures>>

(* The generator is exhausted: DependencyError if it could not yield every   *)
(* Action, else on to next_stage.run(), or return the lists.                 *)
EndStage ==
  /\ pc = "run" /\ todo = <<>>
  /\ IF Stages[stage] \subseteq Finished /\ stage < Len(Stages)
     THEN Enter(stage + 1) /\ UNCHANGED pc
     ELSE /\ pc' = IF Stages[stage] \subseteq Finished THEN "done" ELSE "unresolved"
          /\ UNCHANGED <<stage, todo, failedIds>>
  /\ UNCHANGED <<plan, lists>>

Next ==
  \/ Check \/ SkipAction \/ Interrupt \/ EndStage
  \/ \E level \in Levels : RunAction(level)

Spec == Init /\ [][Next]_vars
-----------------------------------------------------------------------------

(* What check_dependencies() should decide: every dependency is an Action of *)
(* the same stage or of an earlier one, and no set of Actions waits for       *)
(* itself.                                                                   *)
Schedulable ==
  \A i \in DOMAIN Stages :
    /\ \A a \in Stages[i] : deps[a] \subseteq UNION {Stages[j] : j \in 1..i}
    /\ \A S \in SUBSET Stages[i] : S # {} => \E a \in S : deps[a] \cap S = {}

(* The dependencies are refused before anything runs exactly when they are   *)
(* circular, missing or in a later stage ("fail early if dependencies are    *)
(* not properly set"): those that passed check_dependencies() never raise    *)
(* DependencyError in the middle of run(), after changes to the system.      *)
RejectsExactlyUnschedulable ==
  /\ pc = "dependency_error" => ~Schedulable
  /\ pc = "done" => Schedulable
  /\ pc # "unresolved"

(* At any moment, whatever has been run or skipped had everything it depends *)
(* on, in its stage or an earlier one, run or skipped before.                *)
DependenciesFinishFirst == \A a \in Finished : deps[a] \subseteq Finished

(* Inside a stage, an Action runs only if all the Actions of the stage that  *)
(* it depends on succeeded, and none is skipped without a reason: what it    *)
(* depends on, directly or through skipped Actions, includes one that really *)
(* failed.                                                                   *)
SkipsExactlyTheAffected ==
  \A i \in DOMAIN Stages :
    /\ \A a \in Stages[i] \cap (successes \cup failures) :
          deps[a] \cap Stages[i] \subseteq successes
    /\ \A a \in Stages[i] \cap skips : deps[a] \cap Stages[i] \cap (failures \cup skips) # {}
    /\ skips \cap Stages[i] # {} => failures \cap Stages[i] # {}

(* The same across stages: "whether an Action can only run if a depended     *)
(* upon Action succeeded".                                                   *)
RunsOnlyAfterSuccess ==
  \A a \in successes \cup failures : deps[a] \subseteq successes

(* The results run_*_actions() return are complete: each Action of each      *)
(* stage has exactly one, so no failure is missing when main() looks for     *)
(* results of level SKIP or worse.                                           *)
EveryActionReported ==
  pc = "done" =>
    /\ Finished = StageActions
    /\ Cardinality(successes) + Cardinality(failures) + Cardinality(skips)
         = Cardinality(StageActions)
-----------------------------------------------------------------------------
(* The inductive invariant the proofs rest on. *)

(* What a stage still has to run: distinct Actions, none of them done, each  *)
(* after everything it depends on.                                           *)
Queue(table, done, A, s) ==
  /\ s \in Seq(A) /\ IsInjective(s)
  /\ ToSet(s) \cap done = {}
  /\ \A i \in DOMAIN s : table[s[i]] \subseteq done \cup {s[j] : j \in 1 .. (i - 1)}

(* How far the chain is: stages run one after the other, each to its end,    *)
(* and nothing runs unless the dependencies were accepted.                   *)
Progress ==
  /\ pc \in {"check", "dependency_error"} => Finished = {} /\ todo = <<>> /\ stage = 1
  /\ pc = "dependency_error" => ~DependenciesSatisfied(deps, plan.stages)
  /\ pc \in {"run", "done", "interrupted"} =>
       /\ DependenciesSatisfied(deps, plan.stages)
       /\ Stages[stage] \subseteq Finished \cup ToSet(todo)
  /\ stage = 1 => Finished \subseteq Stages[1]
  /\ stage = 2 => Stages[1] \subseteq Finished
  /\ pc = "done" => Finished = StageActions
  /\ pc # "unresolved"

(* An Action has one result, and failed_action_ids are those of this stage.  *)
Results ==
  /\ successes \cap failures = {} /\ successes \cap skips = {} /\ failures \cap skips = {}
  /\ failedIds = (failures \cup skips) \cap Stages[stage]

StagesInv ==
  /\ TypeOK /\ Progress /\ Results
  /\ Queue(deps, Finished, Stages[stage], todo)
  /\ DependenciesFinishFirst
  /\ SkipsExactlyTheAffected
=============================================================================
