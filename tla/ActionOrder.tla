---------------------------- MODULE ActionOrder ----------------------------
(***************************************************************************)
(* resolve_action_order() and Stage.check_dependencies() of                *)
(* convert2rhel/actions/__init__.py: the order in which the Actions of a   *)
(* stage run.  Operators only; ActionStages runs the order they return.    *)
(* A stage is the sequence of the ids of its Actions, sorted() as the      *)
(* program sorts them, and deps[a] the set of ids in a's `dependencies`.   *)
(***************************************************************************)
EXTENDS Naturals, FiniteSets, SequencesExt

(* What is known while the generator runs: the ids yielded so far, those a   *)
(* dependency may name, and the Actions that have not been yielded.          *)
Yield(st, a) ==
  [order      |-> Append(st.order, a),
   resolved   |-> st.resolved \cup {a},
   unresolved |-> st.unresolved \ {a}]

(* Mutant: one dependency out of several is enough. *)
Examine_Any(deps, first, st, a) ==
  IF /\ a \in st.unresolved
     /\ deps[a] = {} \/ (~first /\ deps[a] \cap st.resolved # {})
  THEN Yield(st, a) ELSE st

(* The bodies of the two loops over the Actions.  The first loop yields what *)
(* depends on nothing, the other an Action as soon as everything it depends  *)
(* on has been yielded, also when that happened in the same turn.            *)
Examine(deps, first, st, a) ==
  IF /\ a \in st.unresolved
     /\ deps[a] \subseteq IF first THEN {} ELSE st.resolved
  THEN Yield(st, a) ELSE st

(* One pass of either loop over the Actions of the stage.                    *)
Loop(deps, first, potential, st) ==
  LET after[k \in 0 .. Len(potential)] ==
        IF k = 0 THEN st ELSE Examine(deps, first, after[k - 1], potential[k])
  IN  after[Len(potential)]

Turn(deps, potential, st) == Loop(deps, FALSE, potential, st)

(* Mutant: a single turn over the Actions that have dependencies. *)
Turns_One(deps, potential, st) == Turn(deps, potential, st)

(* The while loop: turns until one of them yields nothing, at the latest     *)
(* when nothing is left to yield.                                            *)
Turns(deps, potential, st) ==
  LET after[n \in 0 .. Cardinality(st.unresolved)] ==
        IF n = 0 THEN st ELSE Turn(deps, potential, after[n - 1])
      idle == CHOOSE n \in 0 .. Cardinality(st.unresolved) :
                Turn(deps, potential, after[n]) = after[n]
  IN  after[idle]

(* The Actions without dependencies come first. *)
FreeFirst(deps, potential, previous) ==
  Loop(deps, TRUE, potential,
       [order |-> <<>>, resolved |-> previous, unresolved |-> ToSet(potential)])

(* The order of `potential`, and whether DependencyError follows it.  The    *)
(* loop is not entered when its guard is false from the start.               *)
ResolveActionOrder(deps, potential, previous) ==
  LET start == FreeFirst(deps, potential, previous)
      enter == Len(potential) + Cardinality(previous) # Cardinality(start.unresolved)
      end   == IF enter THEN Turns(deps, potential, start) ELSE start
  IN  [order |-> end.order, error |-> end.unresolved # {}]

(* check_dependencies() of the first of a chain of stages.  Each stage hands *)
(* over to the next only its own Actions, not those of the stages before it. *)
DependenciesSatisfied(deps, stages) ==
  \A i \in DOMAIN stages :
    LET previous == IF i = 1 THEN {} ELSE ToSet(stages[i - 1])
    IN  ~ ResolveActionOrder(deps, stages[i], previous).error
=============================================================================
