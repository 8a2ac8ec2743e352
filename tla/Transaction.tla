----------------------------- MODULE Transaction -----------------------------
(***************************************************************************)
(* The two transactions of a conversion: VALIDATE_PACKAGE_MANAGER_         *)
(* TRANSACTION tests the replacement of the packages before the point of   *)
(* no return, CONVERT_SYSTEM_PACKAGES does it after.  Both call            *)
(* run_transaction of the yum handler, which works in a child process, may *)
(* remove packages that stand in the way and tries again, or of the dnf    *)
(* handler, which works in the process of the tool and tries once.         *)
(*                                                                         *)
(* `step` is where the work on the transaction is, `pc` where run() of the *)
(* Action is; with yum the two are in different processes.                 *)
(***************************************************************************)
EXTENDS ChildProcess, Naturals, FiniteSets

CONSTANTS
    Packages,   \* packages signed with the key of the original vendor
    Swapped,    \* those with a counterpart of another name (swap_pkgs)
    MaxRetries  \* MAX_NUM_OF_ATTEMPTS_TO_RESOLVE_DEPS

ASSUME TransactionAssumption ==
    /\ IsFiniteSet(Packages)
    /\ Swapped \subseteq Packages
    /\ MaxRetries \in Nat
    /\ {"loop limit", "other"} \cap Packages = {}

VARIABLES
    handler,     \* "yum" or "dnf"
    offers,      \* [Packages -> versions in the RHEL repositories, relative to the installed one]
    incomplete,  \* the incomplete_rollback override
    clash,       \* packages whose dependencies the replacement breaks
    mode,        \* "validate", then "replace"
    pc, step,
    attempts,    \* failed attempts of this run_transaction
    todo,        \* packages to remove, or still to be replaced
    copied,      \* packages whose rpm is in the backup
    state,       \* [Packages -> "orig", "removed" or "rhel"]
    result,      \* [mode -> what the Action reports]
    tested,      \* packages that the last test transaction with a good end was about
    lost         \* some call was answered by nothing

facts == <<handler, offers, incomplete, clash>>
work  == <<pc, step, attempts, todo>>
vars  == <<childVars, facts, work, mode, copied, state, result, tested, lost>>

Installed == {p \in Packages : state[p] # "removed"}

Breaking == clash \cap {p \in Packages : state[p] = "orig"}

(* What _perform_operations adds to the transaction for a package. *)
Operation(p) ==
    CASE p \in Swapped          -> "swap"
      [] "newer" \in offers[p]  -> "update"
      [] "same" \in offers[p]   -> "reinstall"
      [] "older" \in offers[p]  -> "downgrade"
      [] OTHER                  -> "keep"

InTransaction == {p \in Packages : state[p] = "orig" /\ Operation(p) # "keep"}

-----------------------------------------------------------------------------
(* The end of run(): a CriticalError becomes an ERROR of the Action by its *)
(* run(), anything else by Stage.run. Before the point of no return an     *)
(* ERROR leads to the rollback.                                            *)

Report(id) ==
    /\ result' = [result EXCEPT ![mode] = id]
    /\ pc' = IF mode = "replace" THEN "over"
             ELSE IF id = "SUCCESS" THEN "validated" ELSE "rollback"

GiveUp(id) ==
    /\ Report(id)
    /\ step' = "idle"
    /\ UNCHANGED <<attempts, todo>>

(* The work on a transaction ends with an exception. *)
WorkRaises(id) ==
    IF handler = "yum"
    THEN /\ \E fits \in BOOLEAN : ChildRaises(id, fits)
         /\ step' = "idle"
         /\ UNCHANGED <<pc, attempts, todo, result>>
    ELSE GiveUp(id) /\ UNCHANGED childVars

WorkGoesOn ==
    /\ handler = "yum" => child = "running"
    /\ UNCHANGED <<childVars, pc, attempts, result>>

-----------------------------------------------------------------------------
(* _set_up_base, and for yum the start of the child process. When the      *)
(* first base is not even created, _close_yum_base fails on None and its   *)
(* error replaces the one that made it run.                                *)

BaseIsOpen ==
    /\ pc' = "working"
    /\ step' = "prepare"
    /\ IF handler = "yum" THEN StartChild ELSE UNCHANGED childVars
    /\ UNCHANGED <<attempts, todo, result>>

SetUp ==
    /\ pc = "setup"
    /\ \/ BaseIsOpen
       \/ GiveUp("UNEXPECTED_ERROR") /\ UNCHANGED childVars
    /\ UNCHANGED <<facts, mode, copied, state, tested, lost>>

(* _enable_repos and _perform_operations. *)
ReposFail ==
    \/ WorkRaises("FAILED_TO_ENABLE_REPOS")
    \/ handler = "yum" /\ WorkRaises("FAILED_TO_LOAD_REPOSITORIES")

Prepare ==
    /\ step = "prepare"
    /\ \/ /\ WorkGoesOn
          /\ step' = "solve"
          /\ UNCHANGED todo
       \/ ReposFail
    /\ UNCHANGED <<facts, mode, copied, state, tested, lost>>

(* _resolve_dependencies. yum names some of the packages that break, stops *)
(* at its own limit, says something no package can be read from, or fails  *)
(* without a word, which is taken for a success.                           *)
Solved ==
    /\ WorkGoesOn
    /\ step' = "process"
    /\ todo' = InTransaction

Messages ==
    {m \in SUBSET Breaking : m # {}} \cup {{"loop limit"}, {"other"}}

Solve ==
    /\ step = "solve"
    /\ IF handler = "yum"
       THEN \/ Solved
            \/ /\ Breaking # {}
               /\ \E m \in Messages, fits \in BOOLEAN : ChildReturns(m, fits)
               /\ step' = "idle"
               /\ UNCHANGED <<pc, attempts, todo, result>>
       ELSE \/ Breaking = {} /\ Solved
            \/ Breaking # {} /\ WorkRaises("FAILED_TO_RESOLVE_DEPENDENCIES")
            \/ WorkRaises("FAILED_TO_DOWNLOAD_TRANSACTION_PACKAGES")
    /\ UNCHANGED <<facts, mode, copied, state, tested, lost>>

(* _process_transaction: with the test flag nothing changes; without it    *)
(* the packages are replaced one after the other. A transaction that still *)
(* breaks dependencies fails rpm's own check first.                        *)
ReplaceOne ==
    /\ step = "process"
    /\ mode = "replace"
    /\ Breaking = {}
    /\ WorkGoesOn
    /\ \E p \in todo :
          /\ state' = [state EXCEPT ![p] = "rhel"]
          /\ todo' = todo \ {p}
    /\ UNCHANGED <<facts, mode, step, copied, tested, lost>>

ProcessFails ==
    /\ step = "process"
    /\ WorkRaises("FAILED_TO_VALIDATE_TRANSACTION")
    /\ UNCHANGED <<facts, mode, copied, state, tested, lost>>

(* Mutant: ends while there are packages left to replace. *)
ProcessEnds_Early ==
    /\ step = "process"
    /\ Breaking = {}
    /\ step' = "idle"
    /\ tested' = IF mode = "validate" THEN Installed ELSE tested
    /\ IF handler = "yum"
       THEN ChildReturns({}, TRUE) /\ UNCHANGED <<pc, result>>
       ELSE Report("SUCCESS") /\ UNCHANGED childVars
    /\ UNCHANGED <<facts, mode, attempts, todo, copied, state, lost>>

ProcessEnds ==
    /\ step = "process"
    /\ Breaking = {}
    /\ mode = "replace" => todo = {}
    /\ step' = "idle"
    /\ tested' = IF mode = "validate" THEN Installed ELSE tested
    /\ IF handler = "yum"
       THEN ChildReturns({}, TRUE) /\ UNCHANGED <<pc, result>>
       ELSE Report("SUCCESS") /\ UNCHANGED childVars
    /\ UNCHANGED <<facts, mode, attempts, todo, copied, state, lost>>

-----------------------------------------------------------------------------
(* The parent of the yum handler. *)

Join ==
    /\ pc = "working"
    /\ JoinChild
    /\ lost' = (lost \/ JoinOutcome = "nothing")
    /\ UNCHANGED <<facts, work, mode, copied, state, result, tested>>

Answered ==
    /\ pc = "working"
    /\ parent \in {"returned", "raised", "nothing"}

ChildRaised ==
    /\ Answered
    /\ parent = "raised"
    /\ GiveUp(IF pipe[1] = "UnableToSerialize" THEN "UNEXPECTED_ERROR" ELSE pipe[1])
    /\ TakeOutcome
    /\ UNCHANGED <<facts, mode, copied, state, tested, lost>>

(* No messages: the result of the call is None, whatever the reason. *)
NoMessages ==
    \/ parent = "nothing"
    \/ parent = "returned" /\ queue[1] = {}

ChildDone ==
    /\ Answered
    /\ NoMessages
    /\ GiveUp("SUCCESS")
    /\ TakeOutcome
    /\ UNCHANGED <<facts, mode, copied, state, tested, lost>>

(* Mutants: the attempts are not counted; exhausted attempts are taken for *)
(* a success.                                                              *)
Again_NotCounted ==
    /\ pc' = "setup"
    /\ todo' = {}
    /\ UNCHANGED <<step, attempts, result>>

Again_Succeeds ==
    IF attempts < MaxRetries
    THEN /\ pc' = "setup"
         /\ attempts' = attempts + 1
         /\ todo' = {}
         /\ UNCHANGED <<step, result>>
    ELSE GiveUp("SUCCESS")

(* Messages: before the point of no return the packages they name are      *)
(* backed up and removed; then the loop tries again, unless it has done so *)
(* MaxRetries times already.                                               *)
Again ==
    IF attempts < MaxRetries
    THEN /\ pc' = "setup"
         /\ attempts' = attempts + 1
         /\ todo' = {}
         /\ UNCHANGED <<step, result>>
    ELSE GiveUp("FAILED_TO_RESOLVE_DEPENDENCIES")

ToRemove(messages) == messages \cap Packages

ChildComplains ==
    /\ Answered
    /\ parent = "returned"
    /\ queue[1] # {}
    /\ IF mode = "validate" /\ ToRemove(queue[1]) # {}
       THEN /\ pc' = "backup"
            /\ todo' = ToRemove(queue[1])
            /\ UNCHANGED <<step, attempts, result>>
       ELSE Again
    /\ TakeOutcome
    /\ UNCHANGED <<facts, mode, copied, state, tested, lost>>

(* Mutant: goes on without the packages it could not download. *)
BackUp_Lenient ==
    /\ pc = "backup"
    /\ \E got \in SUBSET todo : copied' = copied \cup got
    /\ pc' = "remove"
    /\ UNCHANGED <<childVars, facts, mode, step, attempts, todo, state, result, tested, lost>>

(* RestorablePackage: a package that cannot be downloaded stops the        *)
(* Action, unless the user has said that the rollback may be incomplete.   *)
BackUp ==
    /\ pc = "backup"
    /\ \E got \in SUBSET todo :
          /\ copied' = copied \cup got
          /\ IF got = todo \/ incomplete
             THEN pc' = "remove" /\ UNCHANGED <<step, attempts, todo, result>>
             ELSE GiveUp("UNEXPECTED_ERROR")
    /\ UNCHANGED <<childVars, facts, mode, state, tested, lost>>

(* remove_pkgs tries them all and then fails if it could not remove one. *)
Remove ==
    /\ pc = "remove"
    /\ \E gone \in SUBSET todo :
          /\ state' = [p \in Packages |-> IF p \in gone THEN "removed" ELSE state[p]]
          /\ IF gone = todo THEN Again ELSE GiveUp("FAILED_TO_REMOVE_PACKAGES")
    /\ UNCHANGED <<childVars, facts, mode, copied, tested, lost>>

-----------------------------------------------------------------------------
(* Ctrl-C. It finds the parent of the yum handler in the wrapper or in the *)
(* removal of packages; in the dnf handler rpm holds the signal off while  *)
(* it works. KeyboardInterrupt leaves the stages: the rollback follows,    *)
(* or, past the point of no return, the end.                               *)
Interrupted ==
    /\ pc' = IF mode = "validate" THEN "rollback" ELSE "over"
    /\ result' = [result EXCEPT ![mode] = "interrupted"]

InterruptCall ==
    /\ pc = "working"
    /\ Interrupted
    /\ IF handler = "yum"
       THEN InterruptParent /\ UNCHANGED step
       ELSE step \in {"prepare", "solve"} /\ step' = "idle" /\ UNCHANGED childVars
    /\ UNCHANGED <<facts, mode, attempts, todo, copied, state, tested, lost>>

InterruptRemoval ==
    /\ pc \in {"backup", "remove"}
    /\ Interrupted
    /\ \E gone \in SUBSET todo :
          state' = IF pc = "backup" THEN state
                   ELSE [p \in Packages |-> IF p \in gone THEN "removed" ELSE state[p]]
    /\ UNCHANGED <<childVars, facts, mode, step, attempts, todo, copied, tested, lost>>

(* The child is killed, or its answer cannot be sent. *)
LoseChild ==
    /\ ChildVanishes
    /\ step' = "idle"
    /\ UNCHANGED <<facts, pc, attempts, todo, mode, copied, state, result, tested, lost>>

-----------------------------------------------------------------------------
(* The stages around the two Actions. *)

CrossPonr ==
    /\ pc = "validated"
    /\ mode' = "replace"
    /\ pc' = "setup"
    /\ attempts' = 0
    /\ todo' = {}
    /\ UNCHANGED <<childVars, facts, step, copied, state, result, tested, lost>>

(* backup_control.pop_all installs the packages in the backup again. *)
Rollback ==
    /\ pc = "rollback"
    /\ pc' = "restored"
    /\ state' = [p \in Packages |->
                    IF state[p] = "removed" /\ p \in copied THEN "orig" ELSE state[p]]
    /\ UNCHANGED <<childVars, facts, mode, step, attempts, todo, copied, result, tested, lost>>

-----------------------------------------------------------------------------
Init ==
    /\ ChildInit
    /\ handler \in {"yum", "dnf"}
    /\ offers \in [Packages -> {{}, {"newer", "same"}, {"same", "older"}, {"older"}}]
    /\ incomplete \in BOOLEAN
    /\ clash \in SUBSET Packages
    /\ mode = "validate"
    /\ pc = "setup"
    /\ step = "idle"
    /\ attempts = 0
    /\ todo = {}
    /\ copied = {}
    /\ state = [p \in Packages |-> "orig"]
    /\ result = [m \in {"validate", "replace"} |-> "none"]
    /\ tested = {}
    /\ lost = FALSE

Work == Prepare \/ Solve \/ ReplaceOne \/ ProcessFails \/ ProcessEnds

Tool == \/ SetUp \/ Join \/ ChildRaised \/ ChildDone \/ ChildComplains
        \/ BackUp \/ Remove \/ CrossPonr \/ Rollback

Next ==
    \/ Tool
    \/ Work
    \/ InterruptCall
    \/ InterruptRemoval
    \/ LoseChild

(* The tool goes on whenever it can, and a transaction makes progress. *)
Spec == Init /\ [][Next]_vars /\ WF_vars(Tool) /\ WF_vars(Work)

-----------------------------------------------------------------------------
Errors ==
    {"UNEXPECTED_ERROR", "FAILED_TO_ENABLE_REPOS", "FAILED_TO_LOAD_REPOSITORIES",
     "FAILED_TO_RESOLVE_DEPENDENCIES", "FAILED_TO_DOWNLOAD_TRANSACTION_PACKAGES",
     "FAILED_TO_VALIDATE_TRANSACTION", "FAILED_TO_REMOVE_PACKAGES"}

Ids == {"none", "SUCCESS", "interrupted"} \cup Errors

(* Every variable has a value of its type. *)
TypeOK ==
    /\ parent \in {"idle", "joining", "returned", "raised", "nothing", "stuck", "interrupted"}
    /\ child \in {"none", "running", "blocked", "dead"}
    /\ torn \in {"no", "pipe", "queue"}
    /\ clash \subseteq Packages /\ copied \subseteq Packages
    /\ todo \subseteq Packages /\ tested \subseteq Packages
    /\ mode \in {"validate", "replace"}
    /\ pc \in {"setup", "working", "backup", "remove", "validated", "rollback", "restored", "over"}
    /\ step \in {"idle", "prepare", "solve", "process"}
    /\ attempts \in 0 .. MaxRetries
    /\ state \in [Packages -> {"orig", "removed", "rhel"}]
    /\ result \in [{"validate", "replace"} -> Ids]
    /\ incomplete \in BOOLEAN /\ lost \in BOOLEAN

(* Whatever stops the validation (an error in the child, a failed download *)
(* or removal, Ctrl-C in the middle of it), the rollback puts back every   *)
(* package as it was, unless the user has renounced a complete one.        *)
RestoredCompletely ==
    pc = "restored" /\ ~incomplete => \A p \in Packages : state[p] = "orig"

(* The point of no return is crossed only when a test transaction about    *)
(* the very packages that are installed has ended well, unless a child     *)
(* went away without an answer.                                            *)
PonrCrossedValidated ==
    mode = "replace" /\ ~lost => tested = Installed

(* When CONVERT_SYSTEM_PACKAGES reports no error, every package that RHEL  *)
(* has is the one of RHEL, and the rest is as it was, unless a child went  *)
(* away without an answer.                                                 *)
SuccessMeansReplaced ==
    result["replace"] = "SUCCESS" /\ ~lost =>
        \A p \in Installed :
            state[p] = IF offers[p] # {} \/ p \in Swapped THEN "rhel" ELSE "orig"

(* No step of the tool's own is taken while a child works on the packages, *)
(* as long as nobody has pressed Ctrl-C: the backup, the removal and the   *)
(* next attempt find the rpm database free.                                *)
ChildWorksAlone ==
    pc \in {"setup", "backup", "remove", "validated"} => ~ChildAlive

(* Every run comes to its end, with no more than MaxRetries further        *)
(* attempts, unless an answer larger than the buffer of its channel keeps  *)
(* the child from ending and the parent from reading.                      *)
RunEnds == <>(pc \in {"restored", "over"} \/ torn # "no")

-----------------------------------------------------------------------------
(* The inductive invariant of the proofs, in named parts.                  *)

Complaints == SUBSET (Packages \cup {"loop limit", "other"})

FactsOK ==
    /\ handler \in {"yum", "dnf"}
    /\ offers \in [Packages -> {{}, {"newer", "same"}, {"same", "older"}, {"older"}}]

(* What the parent finds once the child is gone. *)
ChannelsOK ==
    /\ queue \in Seq(Complaints) /\ pipe \in Seq(Errors \cup {"UnableToSerialize"})
    /\ queue # <<>> \/ parent \in {"returned", "raised", "nothing"} => child = "dead"
    /\ parent = "returned" => queue # <<>>
    /\ parent = "raised" => pipe # <<>>
    /\ parent = "nothing" => lost

(* The work is in the child with yum, in the process of the tool with dnf. *)
PlaceOfWork ==
    /\ handler = "dnf" => parent = "idle" /\ child = "none" /\ queue = <<>>
                           /\ (pc # "working" => step = "idle")
    /\ handler = "yum" /\ child # "running" => step = "idle"
    /\ handler = "yum" /\ pc = "working" => parent # "idle"

StageOfAction ==
    /\ pc \in {"backup", "remove", "validated", "rollback", "restored"} => mode = "validate"
    /\ pc = "over" => mode = "replace"
    /\ pc # "over" => result["replace"] = "none"
    /\ mode = "validate" => \A p \in Packages : state[p] # "rhel"

RemovedIsCopied ==
    ~incomplete =>
        /\ \A p \in Packages : state[p] = "removed" => p \in copied
        /\ pc = "remove" => todo \subseteq copied

(* An answer without complaints is about the packages as they are. *)
TestedAsInstalled ==
    /\ mode = "validate" /\ pc = "working" /\ queue # <<>> /\ queue[1] = {} => tested = Installed
    /\ pc = "validated" /\ ~lost => tested = Installed

(* What has been replaced, and what is left to be, is what was planned. *)
ReplacedIsPlanned == \A p \in Packages : state[p] = "rhel" => Operation(p) # "keep"
LeftIsPlanned ==
    step = "process" => \A p \in todo : state[p] = "orig" /\ Operation(p) # "keep"
NoneForgotten == mode = "replace" /\ step = "process" => InTransaction \subseteq todo
AnswerMeansReplaced ==
    mode = "replace" /\ pc = "working" /\ queue # <<>> /\ queue[1] = {} => InTransaction = {}
ResultMeansReplaced == result["replace"] = "SUCCESS" /\ ~lost => InTransaction = {}

ReplacedAsPlanned ==
    ReplacedIsPlanned /\ LeftIsPlanned /\ NoneForgotten /\ AnswerMeansReplaced /\ ResultMeansReplaced

TransInv ==
    /\ TypeOK /\ FactsOK /\ ChannelsOK /\ PlaceOfWork /\ StageOfAction
    /\ ChildWorksAlone /\ RemovedIsCopied /\ RestoredCompletely
    /\ TestedAsInstalled /\ PonrCrossedValidated /\ ReplacedAsPlanned
=============================================================================
