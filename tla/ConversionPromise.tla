-------------------------- MODULE ConversionPromise --------------------------
(***************************************************************************)
(* What convert2rhel promises the one who runs it, without its phases,     *)
(* handlers and Actions: until the user agrees to go on, all the changes   *)
(* it keeps track of can be undone; nobody is asked with inhibitors        *)
(* pending; there is no way back after that; and the verdict is true.      *)
(***************************************************************************)
VARIABLES
  stage,       \* "forward", "undoing", "committed" (past the PONR), "ended"
  dirty,       \* a change the program keeps track of is on the system
  assessment,  \* of the Actions before the PONR
  verdict

promiseVars == <<stage, dirty, assessment, verdict>>

Init == stage = "forward" /\ dirty = FALSE /\ assessment = "none" /\ verdict = "none"

Change ==
  /\ stage \in {"forward", "committed"}
  /\ dirty' = TRUE
  /\ UNCHANGED <<stage, assessment, verdict>>

Assess ==
  /\ stage = "forward" /\ assessment = "none"
  /\ assessment' \in {"good", "bad"}
  /\ UNCHANGED <<stage, dirty, verdict>>

(* The point of no return. *)
Commit ==
  /\ stage = "forward" /\ assessment = "good"
  /\ stage' = "committed"
  /\ UNCHANGED <<dirty, assessment, verdict>>

TurnBack ==
  /\ stage = "forward"
  /\ stage' = "undoing"
  /\ UNCHANGED <<dirty, assessment, verdict>>

Undo ==
  /\ stage = "undoing" /\ dirty
  /\ dirty' = FALSE
  /\ UNCHANGED <<stage, assessment, verdict>>

(* A good or a bad assessment is the verdict only when nothing is left of    *)
(* what was done for it, or of a run past the point of no return.            *)
End ==
  /\ stage # "ended"
  /\ stage' = "ended"
  /\ \/ verdict' \in {"FAILURE", "traceback"}
     \/ stage = "undoing" /\ ~dirty /\ assessment = "good" /\ verdict' = "SUCCESSFUL"
     \/ stage = "undoing" /\ ~dirty /\ assessment = "bad" /\ verdict' = "INHIBITORS_FOUND"
     \/ stage = "committed" /\ verdict' \in {"SUCCESSFUL", "INHIBITORS_FOUND"}
  /\ UNCHANGED <<dirty, assessment>>

Next == Change \/ Assess \/ Commit \/ TurnBack \/ Undo \/ End

Spec == Init /\ [][Next]_promiseVars
=============================================================================
