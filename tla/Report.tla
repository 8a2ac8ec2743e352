------------------------------- MODULE Report -------------------------------
(***************************************************************************)
(* What the reports say about the results of the Actions. A result has a   *)
(* level, an id and a sequence of messages, each with a level and an id.   *)
(*                                                                         *)
(* The reports for people are built from a dictionary whose keys are the   *)
(* Action and the id: of two entries with the same key the later one       *)
(* stays. The JSON file has them all.                                      *)
(***************************************************************************)
EXTENDS Integers, Sequences, FiniteSets, FiniteSetsExt

StatusCode == [SUCCESS |-> 0, INFO |-> 25, WARNING |-> 51,
               SKIP |-> 101, OVERRIDABLE |-> 152, ERROR |-> 202]

Status(entry) == StatusCode[entry.level]

(* ActionResult and ActionMessage refuse other levels. *)
ResultLevels == {"SUCCESS", "SKIP", "OVERRIDABLE", "ERROR"}
MessageLevels == {"INFO", "WARNING"}

LevelsOf(result) ==
    {Status(result)} \cup {Status(result.messages[i]) : i \in DOMAIN result.messages}

Ids(result) == {result.id} \cup {result.messages[i].id : i \in DOMAIN result.messages}

(* get_combined_results_and_message: one level per id, the result first.   *)
CombinedLevel(result, id) ==
    LET same == {i \in DOMAIN result.messages : result.messages[i].id = id}
    IN IF same = {} THEN Status(result) ELSE Status(result.messages[Max(same)])

Combined(results) ==
    UNION {{[action |-> a, id |-> id, code |-> CombinedLevel(results[a], id)] : id \in Ids(results[a])}
             : a \in DOMAIN results}

(* Mutant: without the entries of that very level. *)
OfSeverity_Above(entries, level) == {e \in entries : e.code > StatusCode[level]}

(* find_actions_of_severity *)
OfSeverity(entries, level) == {e \in entries : e.code >= StatusCode[level]}

ScreenReport(results) == OfSeverity(Combined(results), "WARNING")
TextReport(results) == OfSeverity(Combined(results), "INFO")

(* find_highest_report_level fails when there is no result. *)
HighestReportLevel(results) == Max(UNION {LevelsOf(results[a]) : a \in DOMAIN results})

(* _pick_conversion_results and _raise_for_skipped_failures *)
Inhibited(results) == \E a \in DOMAIN results : Status(results[a]) >= StatusCode["SKIP"]
=============================================================================
