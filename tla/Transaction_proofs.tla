-------------------------- MODULE Transaction_proofs --------------------------
(***************************************************************************)
(* For any set of packages, any limit of attempts and whatever fails in    *)
(* either handler: the rollback owes no package, the point of no return is *)
(* crossed on a tested transaction only, a success is a replacement, and   *)
(* the tool touches no package while its child does.                       *)
(*                                                                         *)
(* TransInv is inductive. Its first parts say where the work is and what   *)
(* may be in the channels; without them nothing would relate an answer to  *)
(* the transaction it is about. One lemma per part follows.                *)
(***************************************************************************)
EXTENDS Transaction, TLAPS

(* What a channel holds is empty, or one message.                          *)
LEMMA SeqFacts == ASSUME NEW S PROVE <<>> \in Seq(S) /\ \A s \in S : <<s>> \in Seq(S)
  OBVIOUS

(* What is read from a channel is a message.                               *)
LEMMA FirstOf == ASSUME NEW S, NEW q \in Seq(S), q # <<>> PROVE q[1] \in S
  OBVIOUS

LEMMA EmptyComplaint == {} \in Complaints
  BY DEF Complaints

(* What _resolve_dependencies of yum returns.                              *)
LEMMA MessagesAreComplaints == Messages \subseteq Complaints
<1> SUFFICES ASSUME NEW m \in Messages PROVE m \subseteq Packages \cup {"loop limit", "other"}
  BY DEF Complaints
<1>1. CASE m \in SUBSET Breaking
  BY <1>1 DEF Breaking
<1>2. CASE m = {"loop limit"} \/ m = {"other"}
  BY <1>2
<1>3. m \in SUBSET Breaking \/ m = {"loop limit"} \/ m = {"other"}
  BY DEF Messages
<1>4. QED
  BY <1>1, <1>2, <1>3

(* The counter of attempts stays within its limit.                         *)
LEMMA AttemptsCount ==
  ASSUME TypeOK, attempts' = attempts \/ attempts' = 0 \/ (attempts < MaxRetries /\ attempts' = attempts + 1)
  PROVE attempts' \in 0 .. MaxRetries
<1>1. MaxRetries \in Nat /\ attempts \in 0 .. MaxRetries
  BY TransactionAssumption DEF TypeOK
<1>2. QED
  BY <1>1

(* The work on a transaction that fails, in either process, replaces nothing. *)
LEMMA FailureKeeps ==
  ASSUME NEW id \in Errors, WorkRaises(id)
  PROVE /\ queue' = queue
        /\ pc' \in {pc, "over", "rollback"}
        /\ step' = "idle"
        /\ todo' = todo
        /\ result' = result \/ result' = [result EXCEPT ![mode] = id]
  BY DEF WorkRaises, ChildRaises, GiveUp, Report, Errors, childVars

(* While a transaction is worked on, the Action itself waits for it.       *)
LEMMA WorkIsElsewhere ==
  ASSUME TypeOK, FactsOK, PlaceOfWork, ChildWorksAlone, step # "idle"
  PROVE pc \notin {"setup", "backup", "remove", "validated"}
  BY DEF TypeOK, FactsOK, PlaceOfWork, ChildWorksAlone, ChildAlive

(* _resolve_dependencies goes on, raises or returns messages.              *)
LEMMA SolveOutcome ==
  ASSUME Solve
  PROVE \/ Solved
        \/ \E id \in Errors : WorkRaises(id)
        \/ \E m \in Messages, fits \in BOOLEAN :
              ChildReturns(m, fits) /\ step' = "idle" /\ UNCHANGED <<pc, attempts, todo, result>>
<1>1. CASE handler = "yum"
  BY <1>1 DEF Solve
<1>2. CASE handler # "yum"
  BY <1>2 DEF Solve, Errors
<1>3. QED
  BY <1>1, <1>2

LEMMA ResultTyped ==
  ASSUME TypeOK, NEW id \in Ids, result' = [result EXCEPT ![mode] = id]
  PROVE result' \in [{"validate", "replace"} -> Ids]
  BY DEF TypeOK

(* An answer is read when the work is over.                                *)
LEMMA AnsweredIsIdle ==
  ASSUME TypeOK, FactsOK, ChannelsOK, PlaceOfWork, Answered
  PROVE step = "idle"
  BY DEF TypeOK, FactsOK, ChannelsOK, PlaceOfWork, Answered

(* No step changes what is planned for a package.                          *)
LEMMA SameOperation ==
  ASSUME [Next]_vars
  PROVE \A p \in Packages : Operation(p)' = Operation(p)
<1>1. offers' = offers
  BY DEF Next, Tool, Work, SetUp, Prepare, Solve, ReplaceOne, ProcessFails, ProcessEnds,
     Join, ChildRaised, ChildDone, ChildComplains, BackUp, Remove, CrossPonr, Rollback,
     InterruptCall, InterruptRemoval, LoseChild, vars, facts
<1>2. QED
  BY <1>1 DEF Operation

LEMMA SamePlan ==
  ASSUME UNCHANGED <<offers, state>>
  PROVE InTransaction' = InTransaction
  BY DEF InTransaction, Operation

(* Each step keeps the types.                                              *)
LEMMA TypeStep ==
  ASSUME TransInv, [Next]_vars
  PROVE  TypeOK'
<1> USE DEF TransInv, Next, Tool, Work, SetUp, BaseIsOpen, Prepare, ReposFail, Solved, WorkGoesOn, ReplaceOne,
         ProcessFails, ProcessEnds, Join, ChildRaised, ChildDone, ChildComplains, BackUp, Remove, CrossPonr, Rollback,
         InterruptCall, InterruptRemoval, LoseChild
<1>1. (parent \in {"idle", "joining", "returned", "raised", "nothing", "stuck", "interrupted"})'
  BY DEF TypeOK, Solve, WorkRaises, StartChild, ChildReturns, ChildRaises,
     ChildVanishes, JoinChild, JoinOutcome, InterruptParent, TakeOutcome, vars,
     childVars
<1>2. (child \in {"none", "running", "blocked", "dead"} /\ torn \in {"no", "pipe", "queue"})'
  BY DEF TypeOK, Solve, WorkRaises, StartChild, ChildReturns, ChildRaises,
     ChildVanishes, JoinChild, InterruptParent, TakeOutcome, vars, childVars
<1>3. (clash \subseteq Packages /\ incomplete \in BOOLEAN /\ mode \in {"validate", "replace"})'
  BY DEF TypeOK, Solve, vars, facts
<1>4. (copied \subseteq Packages)'
  BY DEF TypeOK, Solve, vars
<1>5. (todo \subseteq Packages)'
  <2>1. \/ todo' \subseteq todo
        \/ todo' = InTransaction
        \/ \E messages : todo' = ToRemove(messages)
    BY SolveOutcome, FailureKeeps DEF Again, GiveUp, Errors, vars, work
  <2>2. QED
    BY <2>1 DEF TypeOK, InTransaction, ToRemove
<1>6. (tested \subseteq Packages)'
  <2>1. tested' = tested \/ tested' = Installed
    BY DEF Solve, vars
  <2>2. QED
    BY <2>1 DEF TypeOK, Installed
<1>7. (lost \in BOOLEAN)'
  <2>1. lost' = lost \/ lost' = (lost \/ JoinOutcome = "nothing")
    BY DEF Solve, vars
  <2>2. CASE lost' = lost
    BY <2>2 DEF TypeOK
  <2>3. CASE lost' = (lost \/ JoinOutcome = "nothing")
    BY <2>3, Zenon
  <2>4. QED
    BY <2>1, <2>2, <2>3
<1>8. (pc \in {"setup", "working", "backup", "remove", "validated", "rollback", "restored", "over"})'
  BY SolveOutcome, FailureKeeps DEF TypeOK, Again, GiveUp, Report, Interrupted, Errors,
     vars, work
<1>9. (step \in {"idle", "prepare", "solve", "process"})'
  BY SolveOutcome, FailureKeeps DEF TypeOK, Again, GiveUp, Errors, vars, work
<1>10. (attempts \in 0 .. MaxRetries)'
  <2>1. attempts' = attempts \/ attempts' = 0 \/ (attempts < MaxRetries /\ attempts' = attempts + 1)
    BY DEF WorkRaises, Solve, Again, GiveUp, vars, work
  <2>2. QED
    BY <2>1, AttemptsCount
<1>11. (state \in [Packages -> {"orig", "removed", "rhel"}])'
  BY DEF TypeOK, Solve, vars
<1>12. (result \in [{"validate", "replace"} -> Ids])'
  <2>1. result' = result \/ \E id \in Ids : result' = [result EXCEPT ![mode] = id]
    <3>1. CASE ChildRaised
      <4>1. pipe[1] \in Errors \cup {"UnableToSerialize"}
        BY <3>1, FirstOf DEF ChannelsOK
      <4>2. QED
        BY <3>1, <4>1 DEF GiveUp, Report, Errors, Ids
    <3>2. CASE ~ChildRaised
      BY <3>2, SolveOutcome, FailureKeeps DEF Again, GiveUp, Report, Interrupted,
         Errors, Ids, vars
    <3>3. QED
      BY <3>1, <3>2
  <2>2. QED
    BY <2>1, ResultTyped DEF TypeOK
<1>13. QED
  BY <1>1, <1>2, <1>3, <1>4, <1>5, <1>6, <1>7, <1>8, <1>9, <1>10, <1>11, <1>12 DEF TypeOK

(* The facts of the system stay.                                           *)
LEMMA FactsStep ==
  ASSUME TransInv, [Next]_vars
  PROVE  FactsOK'
  BY DEF TransInv, FactsOK, Next, Tool, Work, SetUp, BaseIsOpen, Prepare, ReposFail,
     Solve, Solved, WorkGoesOn, WorkRaises, ReplaceOne, ProcessFails, ProcessEnds, Join,
     ChildRaised, ChildDone, ChildComplains, BackUp, Remove, CrossPonr, Rollback,
     InterruptCall, InterruptRemoval, LoseChild, vars, facts

(* What the parent finds once the child is gone.                           *)
LEMMA ChannelsStep ==
  ASSUME TransInv, [Next]_vars
  PROVE  ChannelsOK'
<1> USE DEF TransInv, Next, Tool, Work, SetUp, BaseIsOpen, Prepare, ReposFail, Solved, WorkGoesOn, ReplaceOne,
         ProcessFails, ProcessEnds, Join, ChildRaised, ChildDone, ChildComplains, BackUp, Remove, CrossPonr, Rollback,
         InterruptCall, InterruptRemoval, LoseChild
<1>1. (queue \in Seq(Complaints))'
  <2>1. queue' = queue \/ queue' = <<>> \/ \E m \in Complaints : queue' = <<m>>
    <3>1. CASE Solve
      BY <3>1, SolveOutcome, FailureKeeps, MessagesAreComplaints DEF ChildReturns, childVars
    <3>2. CASE ProcessEnds
      BY <3>2, EmptyComplaint DEF ChildReturns, childVars
    <3>3. CASE ~Solve /\ ~ProcessEnds
      BY <3>3 DEF Solve, WorkRaises, StartChild, ChildReturns, ChildRaises,
         ChildVanishes, JoinChild, InterruptParent, TakeOutcome, vars, childVars
    <3>4. QED
      BY <3>1, <3>2, <3>3
  <2>2. QED
    BY <2>1, SeqFacts DEF ChannelsOK
<1>2. (pipe \in Seq(Errors \cup {"UnableToSerialize"}))'
  <2>1. pipe' = pipe \/ pipe' = <<>> \/ \E id \in Errors \cup {"UnableToSerialize"} : pipe' = <<id>>
    BY DEF Solve, WorkRaises, StartChild, ChildReturns, ChildRaises, ChildVanishes,
       JoinChild, InterruptParent, TakeOutcome, Errors, vars, childVars
  <2>2. QED
    BY <2>1, SeqFacts DEF ChannelsOK
<1>3. (queue # <<>> \/ parent \in {"returned", "raised", "nothing"} => child = "dead")'
  BY DEF ChannelsOK, Solve, WorkRaises, StartChild, ChildReturns, ChildRaises,
     ChildVanishes, JoinChild, InterruptParent, TakeOutcome, vars, childVars
<1>4. (parent = "returned" => queue # <<>>)' /\ (parent = "raised" => pipe # <<>>)'
  BY DEF ChannelsOK, PlaceOfWork, FactsOK, Solve, WorkRaises, StartChild, ChildReturns,
     ChildRaises, ChildVanishes, JoinChild, InterruptParent, TakeOutcome, JoinOutcome,
     vars, childVars
<1>5. (parent = "nothing" => lost)'
  <2>1. parent' = "nothing" => parent = "nothing" \/ (Join /\ JoinOutcome = "nothing")
    BY DEF Solve, WorkRaises, StartChild, ChildReturns, ChildRaises, ChildVanishes,
       JoinChild, InterruptParent, TakeOutcome, vars, childVars
  <2>2. lost => lost'
    BY DEF Solve, WorkRaises, vars
  <2>3. Join /\ JoinOutcome = "nothing" => lost'
    OBVIOUS
  <2>4. QED
    BY <2>1, <2>2, <2>3 DEF ChannelsOK
<1>6. QED
  BY <1>1, <1>2, <1>3, <1>4, <1>5 DEF ChannelsOK

(* The work is where its handler does it.                                  *)
LEMMA PlaceStep ==
  ASSUME TransInv, [Next]_vars
  PROVE  PlaceOfWork'
<1> USE DEF TransInv, Next, Tool, Work, SetUp, BaseIsOpen, Prepare, ReposFail, Solved, WorkGoesOn, ReplaceOne,
         ProcessFails, ProcessEnds, Join, ChildRaised, ChildDone, ChildComplains, BackUp, Remove, CrossPonr, Rollback,
         InterruptCall, InterruptRemoval, LoseChild
<1>1. (handler = "dnf" => parent = "idle" /\ child = "none" /\ queue = <<>>)'
  BY DEF PlaceOfWork, FactsOK, Solve, WorkRaises, StartChild, ChildReturns, ChildRaises,
     ChildVanishes, JoinChild, InterruptParent, TakeOutcome, Answered, ChildAlive, vars,
     facts, childVars
<1>2. (handler = "dnf" /\ pc # "working" => step = "idle")'
  BY DEF PlaceOfWork, FactsOK, Solve, WorkRaises, GiveUp, Again, Report, Interrupted,
     ChildAlive, ChildVanishes, vars, facts, work
<1>3. (handler = "yum" /\ child # "running" => step = "idle")'
  BY DEF PlaceOfWork, ChannelsOK, FactsOK, Solve, WorkRaises, StartChild, ChildReturns,
     ChildRaises, ChildVanishes, JoinChild, InterruptParent, TakeOutcome, GiveUp, Again,
     vars, facts, work, childVars
<1>4. (handler = "yum" /\ pc = "working" => parent # "idle")'
  BY DEF PlaceOfWork, FactsOK, Solve, WorkRaises, StartChild, ChildReturns, ChildRaises,
     ChildVanishes, JoinChild, InterruptParent, TakeOutcome, JoinOutcome, GiveUp, Again,
     Report, Interrupted, vars, facts, work, childVars
<1>5. QED
  BY <1>1, <1>2, <1>3, <1>4 DEF PlaceOfWork

(* The Action is in its stage.                                             *)
LEMMA StageStep ==
  ASSUME TransInv, [Next]_vars
  PROVE  StageOfAction'
<1> USE DEF TransInv, Next, Tool, Work, SetUp, BaseIsOpen, Prepare, ReposFail, Solved, WorkGoesOn, ReplaceOne,
         ProcessFails, ProcessEnds, Join, ChildRaised, ChildDone, ChildComplains, BackUp, Remove, CrossPonr, Rollback,
         InterruptCall, InterruptRemoval, LoseChild
<1>1. (pc \in {"backup", "remove", "validated", "rollback", "restored"} => mode = "validate")'
  BY DEF StageOfAction, TypeOK, Solve, WorkRaises, GiveUp, Again, Report, Interrupted,
     vars, work
<1>2. (pc = "over" => mode = "replace")'
  BY DEF StageOfAction, TypeOK, Solve, WorkRaises, GiveUp, Again, Report, Interrupted,
     vars, work
<1>3. (pc # "over" => result["replace"] = "none")'
  <2>1. \/ result' = result
        \/ \E id : result' = [result EXCEPT ![mode] = id] /\ (mode = "replace" => pc' = "over")
    BY DEF Solve, WorkRaises, GiveUp, Again, Report, Interrupted, vars
  <2>2. pc = "over" => pc' = "over"
    BY DEF PlaceOfWork, FactsOK, StageOfAction, TypeOK, Solve, WorkRaises, Answered,
       GiveUp, Again, Report, Interrupted, vars, work
  <2>3. QED
    BY <2>1, <2>2 DEF StageOfAction, TypeOK
<1>4. (mode = "validate" => \A p \in Packages : state[p] # "rhel")'
  BY DEF StageOfAction, TypeOK, Solve, WorkRaises, vars
<1>5. QED
  BY <1>1, <1>2, <1>3, <1>4 DEF StageOfAction

(* The tool changes nothing itself while its child works.                  *)
LEMMA AloneStep ==
  ASSUME TransInv, [Next]_vars
  PROVE  ChildWorksAlone'
<1> USE DEF TransInv
<1>1. (pc \in {"setup", "backup", "remove", "validated"} => ~ChildAlive)'
  BY DEF ChildWorksAlone, PlaceOfWork, FactsOK, ChannelsOK, ChildAlive, Answered, Next,
     Tool, Work, SetUp, BaseIsOpen, Prepare, ReposFail, Solve, Solved, WorkGoesOn,
     WorkRaises, ReplaceOne, ProcessFails, ProcessEnds, Join, ChildRaised, ChildDone,
     ChildComplains, BackUp, Remove, CrossPonr, Rollback, InterruptCall,
     InterruptRemoval, LoseChild, StartChild, ChildReturns, ChildRaises, ChildVanishes,
     JoinChild, InterruptParent, TakeOutcome, GiveUp, Again, Report, Interrupted, vars,
     work, childVars
<1>2. QED
  BY <1>1 DEF ChildWorksAlone

(* A package is removed after it has been copied.                          *)
LEMMA CopiedStep ==
  ASSUME TransInv, [Next]_vars
  PROVE  RemovedIsCopied'
<1> USE DEF TransInv, Next, Tool, Work, SetUp, BaseIsOpen, Prepare, ReposFail, Solved, WorkGoesOn, ReplaceOne,
         ProcessFails, ProcessEnds, Join, ChildRaised, ChildDone, ChildComplains, BackUp, Remove, CrossPonr, Rollback,
         InterruptCall, InterruptRemoval, LoseChild
<1>1. (~incomplete => \A p \in Packages : state[p] = "removed" => p \in copied)'
  <2>1. incomplete' = incomplete /\ copied \subseteq copied'
    BY DEF Solve, WorkRaises, vars, facts
  <2>2. \A p \in Packages : state'[p] = "removed" => state[p] = "removed" \/ (pc = "remove" /\ p \in todo)
    BY DEF TypeOK, Solve, WorkRaises, vars
  <2>3. QED
    BY <2>1, <2>2 DEF RemovedIsCopied
<1>2. (~incomplete /\ pc = "remove" => todo \subseteq copied)'
  <2>1. CASE pc = "backup"
    BY <2>1 DEF Solve, WorkRaises, Answered, GiveUp, Report, Interrupted, vars, work,
       facts, PlaceOfWork, FactsOK, ChildWorksAlone, ChildAlive, RemovedIsCopied
  <2>2. CASE pc # "backup"
    <3>1. pc' = "remove" => pc = "remove"
      BY <2>2 DEF Solve, WorkRaises, Answered, GiveUp, Again, Report, Interrupted, vars,
         work
    <3>2. pc = "remove" => todo' \subseteq todo \/ pc' # "remove"
      BY WorkIsElsewhere DEF Solve, WorkRaises, Answered, GiveUp, Again, Report,
         Interrupted, vars, work
    <3>3. incomplete' = incomplete /\ copied \subseteq copied'
      BY DEF Solve, WorkRaises, vars, facts
    <3>4. QED
      BY <3>1, <3>2, <3>3 DEF RemovedIsCopied
  <2>3. QED
    BY <2>1, <2>2
<1>3. QED
  BY <1>1, <1>2 DEF RemovedIsCopied

(* A good answer is about the packages as they are installed.              *)
LEMMA TestedStep ==
  ASSUME TransInv, [Next]_vars
  PROVE  TestedAsInstalled'
<1> USE DEF TransInv, Next, Tool, Work, SetUp, BaseIsOpen, Prepare, ReposFail, Solved, WorkGoesOn, ReplaceOne,
         ProcessFails, ProcessEnds, Join, ChildRaised, ChildDone, ChildComplains, BackUp, Remove, CrossPonr, Rollback,
         InterruptCall, InterruptRemoval, LoseChild
<1>1. (mode = "validate" /\ pc = "working" /\ queue # <<>> /\ queue[1] = {} => tested = Installed)'
  <2>1. CASE ProcessEnds
    BY <2>1 DEF Installed
  <2>2. CASE ~ProcessEnds
    <3>1. UNCHANGED <<tested, state>> \/ pc' # "working" \/ mode' = "replace"
      BY <2>2, WorkIsElsewhere DEF TypeOK, StageOfAction, Solve, WorkRaises, GiveUp,
         Again, Report, Interrupted, vars
    <3>2. pc' # "working" \/ queue' = <<>> \/ queue'[1] # {} \/ (pc = "working" /\ queue' = queue)
      <4>1. CASE Solve
        <5>1. \A m \in Messages : m # {}
          BY DEF Messages
        <5>2. \A m \in Messages, fits \in BOOLEAN : ChildReturns(m, fits) => queue' = <<>> \/ queue'[1] # {}
          BY <5>1 DEF ChildReturns
        <5>3. pc' # "working" \/ pc = "working"
          BY <4>1, SolveOutcome, FailureKeeps
        <5>4. QED
          BY <4>1, <5>2, <5>3, SolveOutcome, FailureKeeps DEF childVars
      <4>2. CASE ~Solve
        BY <2>2, <4>2, FailureKeeps DEF StartChild, ChildVanishes, JoinChild,
           InterruptParent, TakeOutcome, GiveUp, Again, Report, Interrupted, Errors,
           PlaceOfWork, FactsOK, vars, work, childVars
      <4>3. QED
        BY <4>1, <4>2
    <3>3. mode' = "validate" => mode = "validate"
      BY DEF TypeOK, Solve, WorkRaises, vars
    <3>4. QED
      BY <3>1, <3>2, <3>3 DEF TestedAsInstalled, Installed
  <2>3. QED
    BY <2>1, <2>2
<1>2. (pc = "validated" /\ ~lost => tested = Installed)'
  <2>1. CASE ProcessEnds
    BY <2>1 DEF Report, Installed, TypeOK, PlaceOfWork, ChildWorksAlone, FactsOK, ChildAlive
  <2>2. CASE ChildDone
    <3>1. UNCHANGED <<tested, state, lost>>
      BY <2>2
    <3>2. mode = "validate" => tested = Installed \/ lost
      BY <2>2 DEF Answered, NoMessages, TestedAsInstalled, ChannelsOK
    <3>3. pc' = "validated" => mode = "validate"
      BY <2>2 DEF GiveUp, Report, TypeOK
    <3>4. QED
      BY <3>1, <3>2, <3>3 DEF Installed
  <2>3. CASE ChildRaised
    <3>1. pipe[1] \in Errors \cup {"UnableToSerialize"}
      BY <2>3, FirstOf DEF ChannelsOK
    <3>2. pc' # "validated"
      BY <2>3, <3>1 DEF GiveUp, Report, Errors
    <3>3. QED
      BY <3>2
  <2>4. CASE ~ProcessEnds /\ ~ChildDone /\ ~ChildRaised
    <3>1. pc' = "validated" => pc = "validated"
      BY <2>4, SolveOutcome, FailureKeeps DEF GiveUp, Again, Report, Interrupted,
         Errors, vars, work
    <3>2. pc = "validated" => UNCHANGED <<tested, state>> /\ (lost => lost')
      BY <2>4, WorkIsElsewhere DEF Solve, WorkRaises, Answered, vars
    <3>3. QED
      BY <3>1, <3>2 DEF TestedAsInstalled, Installed
  <2>5. QED
    BY <2>1, <2>2, <2>3, <2>4
<1>3. QED
  BY <1>1, <1>2 DEF TestedAsInstalled

(* The point of no return is crossed with that answer.                     *)
LEMMA PonrStep ==
  ASSUME TransInv, [Next]_vars
  PROVE  PonrCrossedValidated'
<1> USE DEF TransInv, Next, Tool, Work, SetUp, BaseIsOpen, Prepare, ReposFail, Solved, WorkGoesOn, ReplaceOne,
         ProcessFails, ProcessEnds, Join, ChildRaised, ChildDone, ChildComplains, BackUp, Remove, CrossPonr, Rollback,
         InterruptCall, InterruptRemoval, LoseChild
<1>1. CASE CrossPonr
  BY <1>1 DEF TestedAsInstalled, PonrCrossedValidated, Installed
<1>2. CASE ReplaceOne
  <2>1. PICK p \in todo : state' = [state EXCEPT ![p] = "rhel"]
    BY <1>2
  <2>2. state[p] = "orig"
    BY <1>2 DEF ReplacedAsPlanned, LeftIsPlanned
  <2>3. Installed' = Installed
    BY <2>1, <2>2 DEF TypeOK, Installed
  <2>4. QED
    BY <1>2, <2>3 DEF PonrCrossedValidated
<1>3. CASE ~CrossPonr /\ ~ReplaceOne
  <2>1. mode' = mode
    BY <1>3 DEF Solve, WorkRaises, vars
  <2>2. lost => lost'
    BY <1>3 DEF Solve, WorkRaises, vars
  <2>3. mode = "replace" => UNCHANGED <<tested, state>>
    BY <1>3 DEF StageOfAction, Solve, WorkRaises, vars
  <2>4. QED
    BY <2>1, <2>2, <2>3 DEF PonrCrossedValidated, Installed
<1>4. QED
  BY <1>1, <1>2, <1>3

(* A package becomes the one of RHEL only when that was planned.           *)
LEMMA ReplacedIsPlannedStep ==
  ASSUME TransInv, [Next]_vars
  PROVE  ReplacedIsPlanned'
<1> USE DEF TransInv, ReplacedIsPlanned
<1>1. ASSUME state' = state
      PROVE  ReplacedIsPlanned'
  BY <1>1, SameOperation DEF ReplacedAsPlanned
<1>2. CASE ReplaceOne
  <2>1. PICK p \in todo : state' = [state EXCEPT ![p] = "rhel"]
    BY <1>2 DEF ReplaceOne
  <2>2. Operation(p) # "keep"
    BY <1>2 DEF ReplaceOne, ReplacedAsPlanned, LeftIsPlanned
  <2>3. QED
    BY <2>1, <2>2, SameOperation DEF ReplacedAsPlanned, TypeOK
<1>3. CASE Remove \/ InterruptRemoval \/ Rollback
  <2>1. \A p \in Packages : state'[p] = "rhel" => state[p] = "rhel"
    BY <1>3 DEF Remove, InterruptRemoval, Rollback, TypeOK
  <2>2. QED
    BY <2>1, SameOperation DEF ReplacedAsPlanned
<1>4. QED
  BY <1>1, <1>2, <1>3 DEF Next, Tool, Work, SetUp, Prepare, Solve, ProcessFails,
     ProcessEnds, Join, ChildRaised, ChildDone, ChildComplains, BackUp, CrossPonr,
     InterruptCall, LoseChild, vars

(* What is left of a transaction is original and planned.                  *)
LEMMA LeftIsPlannedStep ==
  ASSUME TransInv, [Next]_vars
  PROVE  LeftIsPlanned'
<1> USE DEF TransInv
<1>1. ASSUME step' = "idle"
      PROVE  LeftIsPlanned'
  BY <1>1 DEF LeftIsPlanned
<1>2. ASSUME step' \in {step, "solve"}, todo' = todo, state' = state
      PROVE  LeftIsPlanned'
  BY <1>2, SameOperation DEF ReplacedAsPlanned, LeftIsPlanned, TypeOK
<1>3. CASE Solve
  <2>1. CASE Solved
    <3>1. state' = state /\ todo' = InTransaction
      BY <1>3, <2>1 DEF Solve, Solved
    <3>2. QED
      BY <3>1, SameOperation DEF LeftIsPlanned, InTransaction
  <2>2. CASE ~Solved
    BY <1>1, <1>3, <2>2, SolveOutcome, FailureKeeps
  <2>3. QED
    BY <2>1, <2>2
<1>4. CASE ChildRaised \/ ChildDone \/ ChildComplains
  BY <1>1, <1>4, AnsweredIsIdle DEF ChildRaised, ChildDone, ChildComplains, Again, GiveUp
<1>5. CASE BackUp \/ Remove \/ InterruptRemoval \/ CrossPonr
  BY <1>1, <1>5, WorkIsElsewhere DEF BackUp, Remove, InterruptRemoval, CrossPonr, Again,
     GiveUp
<1>6. CASE Rollback
  BY <1>6, SameOperation DEF Rollback, ReplacedAsPlanned, LeftIsPlanned, TypeOK
<1>7. CASE ReplaceOne
  <2>1. PICK p \in todo : state' = [state EXCEPT ![p] = "rhel"] /\ todo' = todo \ {p}
    BY <1>7 DEF ReplaceOne
  <2>2. QED
    BY <1>7, <2>1, SameOperation DEF ReplaceOne, ReplacedAsPlanned, LeftIsPlanned, TypeOK
<1>8. CASE SetUp
  BY <1>1, <1>8 DEF SetUp, BaseIsOpen, GiveUp, LeftIsPlanned
<1>9. CASE Prepare
  <2>1. step' \in {"idle", "solve"}
    BY <1>9, FailureKeeps DEF Prepare, ReposFail, Errors
  <2>2. QED
    BY <2>1 DEF LeftIsPlanned
<1>10. CASE ProcessFails \/ ProcessEnds \/ LoseChild
  <2>1. step' = "idle"
    BY <1>10, FailureKeeps DEF ProcessFails, ProcessEnds, LoseChild, Errors
  <2>2. QED
    BY <1>1, <2>1
<1>11. CASE Join \/ InterruptCall \/ UNCHANGED vars
  <2>1. step' \in {step, "idle"} /\ todo' = todo /\ state' = state
    BY <1>11 DEF Join, InterruptCall, vars, work
  <2>2. QED
    BY <1>1, <1>2, <2>1
<1>12. QED
  BY <1>3, <1>4, <1>5, <1>6, <1>7, <1>8, <1>9, <1>10, <1>11 DEF Next, Tool, Work

(* No package that is to be replaced is missing from the transaction.      *)
LEMMA NoneForgottenStep ==
  ASSUME TransInv, [Next]_vars
  PROVE  NoneForgotten'
<1> USE DEF TransInv
<1>1. ASSUME step' # "process" \/ mode' # "replace"
      PROVE  NoneForgotten'
  BY <1>1 DEF NoneForgotten
<1>2. ASSUME UNCHANGED <<mode, step, todo, state>>
      PROVE  NoneForgotten'
  BY <1>2, SameOperation DEF ReplacedAsPlanned, NoneForgotten, InTransaction
<1>3. CASE ChildRaised \/ ChildDone \/ ChildComplains
  BY <1>1, <1>3, AnsweredIsIdle DEF ChildRaised, ChildDone, ChildComplains, Again, GiveUp
<1>4. CASE BackUp \/ Remove \/ InterruptRemoval \/ CrossPonr
  BY <1>1, <1>4, WorkIsElsewhere DEF BackUp, Remove, InterruptRemoval, CrossPonr, Again,
     GiveUp
<1>5. CASE Solve
  <2>1. CASE Solved
    <3>1. state' = state /\ todo' = InTransaction
      BY <1>5, <2>1 DEF Solve, Solved
    <3>2. QED
      BY <3>1, SameOperation DEF NoneForgotten, InTransaction
  <2>2. CASE ~Solved
    BY <1>1, <1>5, <2>2, SolveOutcome, FailureKeeps
  <2>3. QED
    BY <2>1, <2>2
<1>6. CASE ReplaceOne
  <2>1. PICK p \in todo : state' = [state EXCEPT ![p] = "rhel"] /\ todo' = todo \ {p}
    BY <1>6 DEF ReplaceOne
  <2>2. QED
    BY <1>6, <2>1, SameOperation DEF ReplaceOne, ReplacedAsPlanned, NoneForgotten,
       InTransaction, TypeOK
<1>7. CASE Rollback
  BY <1>1, <1>7 DEF Rollback, StageOfAction
<1>8. CASE SetUp \/ Prepare \/ ProcessFails \/ ProcessEnds \/ LoseChild
  <2>1. step' # "process" \/ UNCHANGED <<mode, step, todo, state>>
    BY <1>8, FailureKeeps DEF SetUp, BaseIsOpen, GiveUp, Prepare, ReposFail,
       ProcessFails, ProcessEnds, LoseChild, Errors
  <2>2. QED
    BY <1>1, <1>2, <2>1
<1>9. CASE Join \/ InterruptCall \/ UNCHANGED vars
  <2>1. step' = "idle" \/ UNCHANGED <<mode, step, todo, state>>
    BY <1>9 DEF Join, InterruptCall, vars, work
  <2>2. QED
    BY <1>1, <1>2, <2>1
<1>10. QED
  BY <1>3, <1>4, <1>5, <1>6, <1>7, <1>8, <1>9 DEF Next, Tool, Work

(* An answer without complaints means that all are replaced.               *)
LEMMA AnswerMeansReplacedStep ==
  ASSUME TransInv, [Next]_vars
  PROVE  AnswerMeansReplaced'
<1> USE DEF TransInv
<1>1. ASSUME UNCHANGED <<mode, offers, state>>, queue' = queue, pc' \in {pc, "over", "rollback"}
      PROVE  AnswerMeansReplaced'
  BY <1>1, SamePlan DEF ReplacedAsPlanned, AnswerMeansReplaced
<1>2. ASSUME pc' # "working" \/ queue' = <<>> \/ queue'[1] # {}
      PROVE  AnswerMeansReplaced'
  BY <1>2 DEF AnswerMeansReplaced
<1>3. CASE SetUp
  <2>1. BaseIsOpen \/ pc' # "working"
    BY <1>3 DEF SetUp, GiveUp, Report
  <2>2. BaseIsOpen => queue' = <<>>
    BY DEF BaseIsOpen, StartChild, childVars, PlaceOfWork, FactsOK
  <2>3. QED
    BY <2>1, <2>2, <1>2
<1>4. CASE Prepare
  <2>1. WorkGoesOn \/ \E id \in Errors : WorkRaises(id)
    BY <1>4 DEF Prepare, ReposFail, Errors
  <2>2. queue' = queue /\ pc' \in {pc, "over", "rollback"}
    BY <2>1, FailureKeeps DEF WorkGoesOn, childVars
  <2>3. QED
    BY <1>1, <1>4, <2>2 DEF Prepare, facts
<1>5. CASE Solve
  <2>1. CASE Solved \/ \E id \in Errors : WorkRaises(id)
    <3>1. queue' = queue /\ pc' \in {pc, "over", "rollback"}
      BY <2>1, FailureKeeps DEF Solved, WorkGoesOn, childVars
    <3>2. QED
      BY <1>1, <1>5, <3>1 DEF Solve, facts
  <2>2. CASE \E m \in Messages, fits \in BOOLEAN :
               ChildReturns(m, fits) /\ step' = "idle" /\ UNCHANGED <<pc, attempts, todo, result>>
    <3>1. PICK m \in Messages, fits \in BOOLEAN : ChildReturns(m, fits)
      BY <2>2
    <3>2. m # {}
      BY DEF Messages
    <3>3. queue' # <<>> => queue'[1] # {}
      BY <3>1, <3>2 DEF ChildReturns
    <3>4. QED
      BY <1>2, <3>3
  <2>3. QED
    BY <1>5, SolveOutcome, <2>1, <2>2
<1>6. CASE ProcessFails
  <2>1. queue' = queue /\ pc' \in {pc, "over", "rollback"}
    BY <1>6, FailureKeeps DEF ProcessFails, Errors
  <2>2. QED
    BY <1>1, <1>6, <2>1 DEF ProcessFails, facts
<1>7. CASE ProcessEnds
  <2>1. CASE mode = "replace"
    <3>1. InTransaction = {}
      BY <1>7, <2>1 DEF ProcessEnds, ReplacedAsPlanned, NoneForgotten
    <3>2. InTransaction' = {}
      BY <1>7, <3>1, SamePlan DEF ProcessEnds, facts
    <3>3. QED
      BY <3>2 DEF AnswerMeansReplaced
  <2>2. CASE mode # "replace"
    BY <1>7, <2>2 DEF ProcessEnds, AnswerMeansReplaced
  <2>3. QED
    BY <2>1, <2>2
<1>8. CASE ReplaceOne
  <2>1. PICK p \in todo : state' = [state EXCEPT ![p] = "rhel"]
    BY <1>8 DEF ReplaceOne
  <2>2. InTransaction' \subseteq InTransaction
    BY <2>1, SameOperation DEF InTransaction, TypeOK
  <2>3. UNCHANGED <<mode, pc, queue>>
    BY <1>8 DEF ReplaceOne, WorkGoesOn, childVars
  <2>4. QED
    BY <2>2, <2>3 DEF ReplacedAsPlanned, AnswerMeansReplaced
<1>9. CASE Join \/ BackUp \/ InterruptCall \/ LoseChild \/ UNCHANGED vars
  <2>1. queue' = queue /\ pc' \in {pc, "over", "rollback", "remove"}
    BY <1>9 DEF Join, JoinChild, BackUp, GiveUp, Report, InterruptCall, Interrupted,
       InterruptParent, LoseChild, ChildVanishes, vars, work, childVars
  <2>2. UNCHANGED <<mode, offers, state>>
    BY <1>9 DEF Join, BackUp, InterruptCall, LoseChild, vars, facts
  <2>3. QED
    BY <1>1, <1>2, <2>1, <2>2
<1>10. CASE ChildRaised \/ ChildDone \/ ChildComplains \/ Remove \/ InterruptRemoval \/ CrossPonr \/ Rollback
  <2>1. pc' # "working"
    BY <1>10 DEF ChildRaised, ChildDone, ChildComplains, Remove, InterruptRemoval,
       CrossPonr, Rollback, Again, GiveUp, Report, Interrupted
  <2>2. QED
    BY <1>2, <2>1
<1>11. QED
  BY <1>3, <1>4, <1>5, <1>6, <1>7, <1>8, <1>9, <1>10 DEF Next, Tool, Work

(* So does the result of CONVERT_SYSTEM_PACKAGES.                          *)
LEMMA ResultMeansReplacedStep ==
  ASSUME TransInv, [Next]_vars
  PROVE  ResultMeansReplaced'
<1> USE DEF TransInv
<1>1. ASSUME UNCHANGED <<mode, offers, state, lost>>,
             result' = result \/ \E id \in Errors : result' = [result EXCEPT ![mode] = id]
      PROVE  ResultMeansReplaced'
  <2>1. result'["replace"] = "SUCCESS" => result["replace"] = "SUCCESS"
    BY <1>1 DEF TypeOK, Errors
  <2>2. QED
    BY <1>1, <2>1, SamePlan DEF ReplacedAsPlanned, ResultMeansReplaced
<1>2. ASSUME UNCHANGED <<mode, offers, state>>, InTransaction = {}
      PROVE  ResultMeansReplaced'
  BY <1>2, SamePlan DEF ResultMeansReplaced
<1>3. CASE Prepare
  <2>1. WorkGoesOn \/ \E id \in Errors : WorkRaises(id)
    BY <1>3 DEF Prepare, ReposFail, Errors
  <2>2. result' = result \/ \E id \in Errors : result' = [result EXCEPT ![mode] = id]
    BY <2>1, FailureKeeps DEF WorkGoesOn
  <2>3. QED
    BY <1>1, <1>3, <2>2 DEF Prepare, facts
<1>4. CASE ProcessEnds
  <2>1. CASE mode = "replace"
    <3>1. InTransaction = {}
      BY <1>4, <2>1 DEF ProcessEnds, ReplacedAsPlanned, NoneForgotten
    <3>2. QED
      BY <1>2, <1>4, <3>1 DEF ProcessEnds, facts
  <2>2. CASE mode = "validate"
    <3>1. result'["replace"] = result["replace"]
      BY <1>4, <2>2 DEF ProcessEnds, Report, TypeOK
    <3>2. InTransaction' = InTransaction /\ lost' = lost
      BY <1>4, SamePlan DEF ProcessEnds, facts
    <3>3. QED
      BY <3>1, <3>2 DEF ResultMeansReplaced, ReplacedAsPlanned
  <2>3. QED
    BY <2>1, <2>2 DEF TypeOK
<1>5. CASE ChildRaised
  <2>1. pipe[1] \in Errors \cup {"UnableToSerialize"}
    BY <1>5, FirstOf DEF ChildRaised, ChannelsOK
  <2>2. \E id \in Errors : result' = [result EXCEPT ![mode] = id]
    BY <1>5, <2>1 DEF ChildRaised, GiveUp, Report, Errors
  <2>3. QED
    BY <1>1, <1>5, <2>2 DEF ChildRaised, facts
<1>6. CASE ChildDone
  <2>1. CASE parent = "nothing"
    <3>1. lost' = lost /\ lost
      BY <1>6, <2>1 DEF ChildDone, ChannelsOK
    <3>2. QED
      BY <3>1 DEF ResultMeansReplaced
  <2>2. CASE mode = "replace" /\ parent = "returned" /\ queue[1] = {}
    <3>1. InTransaction = {}
      BY <1>6, <2>2 DEF ChildDone, Answered, ReplacedAsPlanned, AnswerMeansReplaced,
         ChannelsOK
    <3>2. QED
      BY <1>2, <1>6, <3>1 DEF ChildDone, facts
  <2>3. CASE mode = "validate"
    <3>1. result'["replace"] = result["replace"]
      BY <1>6, <2>3 DEF ChildDone, GiveUp, Report, TypeOK
    <3>2. InTransaction' = InTransaction /\ lost' = lost
      BY <1>6, SamePlan DEF ChildDone, facts
    <3>3. QED
      BY <3>1, <3>2 DEF ResultMeansReplaced, ReplacedAsPlanned
  <2>4. QED
    BY <1>6, <2>1, <2>2, <2>3 DEF ChildDone, NoMessages, TypeOK
<1>7. CASE SetUp
  <2>1. result' = result \/ \E id \in Errors : result' = [result EXCEPT ![mode] = id]
    BY <1>7 DEF SetUp, BaseIsOpen, GiveUp, Report, Errors
  <2>2. QED
    BY <1>1, <1>7, <2>1 DEF SetUp, facts
<1>8. CASE Solve
  <2>1. result' = result \/ \E id \in Errors : result' = [result EXCEPT ![mode] = id]
    BY <1>8, SolveOutcome, FailureKeeps DEF Solved, WorkGoesOn
  <2>2. QED
    BY <1>1, <1>8, <2>1 DEF Solve, facts
<1>9. CASE ProcessFails
  <2>1. result' = result \/ \E id \in Errors : result' = [result EXCEPT ![mode] = id]
    BY <1>9, FailureKeeps DEF ProcessFails, Errors
  <2>2. QED
    BY <1>1, <1>9, <2>1 DEF ProcessFails, facts
<1>10. CASE ReplaceOne
  BY <1>10 DEF ReplaceOne, WorkGoesOn, facts, InTransaction, Operation,
     ReplacedAsPlanned, ResultMeansReplaced, TypeOK
<1>11. CASE Join
  BY <1>11, SamePlan DEF Join, facts, ReplacedAsPlanned, ResultMeansReplaced
<1>12. CASE ChildComplains \/ BackUp
  <2>1. result' = result \/ \E id \in Errors : result' = [result EXCEPT ![mode] = id]
    BY <1>12 DEF ChildComplains, BackUp, Again, GiveUp, Report, Errors
  <2>2. QED
    BY <1>1, <1>12, <2>1 DEF ChildComplains, BackUp, facts
<1>13. CASE InterruptCall
  <2>1. result'["replace"] = "SUCCESS" => result["replace"] = "SUCCESS"
    BY <1>13 DEF InterruptCall, Interrupted, TypeOK
  <2>2. QED
    BY <1>13, <2>1, SamePlan DEF InterruptCall, facts, ReplacedAsPlanned,
       ResultMeansReplaced
<1>14. CASE Remove \/ InterruptRemoval \/ CrossPonr \/ Rollback
  <2>1. pc # "over" /\ result["replace"] = "none"
    BY <1>14 DEF Remove, InterruptRemoval, CrossPonr, Rollback, StageOfAction
  <2>2. result'["replace"] = "none"
    BY <1>14, <2>1 DEF Remove, InterruptRemoval, CrossPonr, Rollback, Again, GiveUp,
       Report, Interrupted, StageOfAction, TypeOK
  <2>3. QED
    BY <2>2 DEF ResultMeansReplaced
<1>15. CASE LoseChild \/ UNCHANGED vars
  BY <1>1, <1>15 DEF LoseChild, vars, facts
<1>16. QED
  BY <1>3, <1>4, <1>5, <1>6, <1>7, <1>8, <1>9, <1>10, <1>11, <1>12, <1>13, <1>14, <1>15
     DEF Next, Tool, Work

(* The rollback owes no package, and later steps take none away.           *)
LEMMA RestoredStep ==
  ASSUME TransInv, [Next]_vars
  PROVE  RestoredCompletely'
<1> USE DEF TransInv
<1>1. CASE Rollback
  BY <1>1 DEF Rollback, RestoredCompletely, RemovedIsCopied, StageOfAction, TypeOK, facts
<1>2. CASE Remove \/ InterruptRemoval \/ CrossPonr
  <2>1. pc' # "restored"
    BY <1>2 DEF Remove, InterruptRemoval, CrossPonr, Again, GiveUp, Report, Interrupted
  <2>2. QED
    BY <2>1 DEF RestoredCompletely
<1>3. CASE ReplaceOne
  <2>1. pc # "restored" /\ pc' = pc
    BY <1>3 DEF ReplaceOne, WorkGoesOn, StageOfAction
  <2>2. QED
    BY <2>1 DEF RestoredCompletely
<1>4. CASE SetUp \/ Join \/ ChildRaised \/ ChildDone \/ ChildComplains \/ BackUp \/ InterruptCall
  <2>1. pc' # "restored" \/ pc' = pc
    BY <1>4 DEF SetUp, BaseIsOpen, Join, work, ChildRaised, ChildDone, ChildComplains,
       BackUp, InterruptCall, Again, GiveUp, Report, Interrupted
  <2>2. state' = state /\ incomplete' = incomplete
    BY <1>4 DEF SetUp, Join, ChildRaised, ChildDone, ChildComplains, BackUp,
       InterruptCall, facts
  <2>3. QED
    BY <2>1, <2>2 DEF RestoredCompletely
<1>5. CASE Prepare \/ Solve \/ ProcessFails \/ ProcessEnds \/ LoseChild \/ UNCHANGED vars
  <2>1. pc' # "restored" \/ pc' = pc
    BY <1>5, SolveOutcome, FailureKeeps DEF Prepare, Solved, ReposFail, ProcessFails,
       ProcessEnds, Report, WorkGoesOn, LoseChild, Errors, vars, work
  <2>2. state' = state /\ incomplete' = incomplete
    BY <1>5 DEF Prepare, Solve, ProcessFails, ProcessEnds, LoseChild, vars, facts
  <2>3. QED
    BY <2>1, <2>2 DEF RestoredCompletely
<1>6. QED
  BY <1>1, <1>2, <1>3, <1>4, <1>5 DEF Next, Tool, Work

-----------------------------------------------------------------------------
(* TransInv holds when VALIDATE_PACKAGE_MANAGER_TRANSACTION starts.        *)
LEMMA TransStart == Init => TransInv
<1> SUFFICES ASSUME Init PROVE TransInv
  OBVIOUS
<1> USE DEF Init, ChildInit
<1>1. TypeOK
  <2>1. attempts \in 0 .. MaxRetries
    <3>1. MaxRetries \in Nat
      BY TransactionAssumption
    <3>2. QED
      BY <3>1
  <2>2. state \in [Packages -> {"orig", "removed", "rhel"}]
    OBVIOUS
  <2>3. result \in [{"validate", "replace"} -> Ids]
    BY DEF Ids
  <2>4. todo \subseteq Packages /\ copied \subseteq Packages /\ tested \subseteq Packages /\ clash \subseteq Packages
    OBVIOUS
  <2>5. incomplete \in BOOLEAN /\ lost \in BOOLEAN
    OBVIOUS
  <2>6. QED
    BY <2>1, <2>2, <2>3, <2>4, <2>5 DEF TypeOK
<1>2. FactsOK /\ ChannelsOK
  BY SeqFacts DEF FactsOK, ChannelsOK
<1>3. PlaceOfWork /\ StageOfAction /\ ChildWorksAlone
  BY DEF PlaceOfWork, StageOfAction, ChildWorksAlone, ChildAlive
<1>4. RemovedIsCopied /\ RestoredCompletely /\ TestedAsInstalled /\ PonrCrossedValidated
  BY DEF RemovedIsCopied, RestoredCompletely, TestedAsInstalled, PonrCrossedValidated
<1>5. ReplacedAsPlanned
  BY DEF ReplacedAsPlanned, ReplacedIsPlanned, LeftIsPlanned, NoneForgotten,
         AnswerMeansReplaced, ResultMeansReplaced
<1>6. QED
  BY <1>1, <1>2, <1>3, <1>4, <1>5 DEF TransInv

(* Each step of either handler, of the Actions and of Ctrl-C keeps it.     *)
LEMMA TransStep == TransInv /\ [Next]_vars => TransInv'
<1> SUFFICES ASSUME TransInv, [Next]_vars PROVE TransInv'
  OBVIOUS
<1>1. TypeOK' /\ FactsOK' /\ ChannelsOK' /\ PlaceOfWork' /\ StageOfAction' /\ ChildWorksAlone'
  BY TypeStep, FactsStep, ChannelsStep, PlaceStep, StageStep, AloneStep
<1>2. RemovedIsCopied' /\ RestoredCompletely' /\ TestedAsInstalled' /\ PonrCrossedValidated'
  BY CopiedStep, RestoredStep, TestedStep, PonrStep
<1>3. ReplacedAsPlanned'
  BY ReplacedIsPlannedStep, LeftIsPlannedStep, NoneForgottenStep, AnswerMeansReplacedStep,
     ResultMeansReplacedStep DEF ReplacedAsPlanned
<1>4. QED
  BY <1>1, <1>2, <1>3 DEF TransInv

(* The inductive invariant holds in every state of the two transactions.   *)
THEOREM TransInvariant == Spec => []TransInv
<1>1. Spec => Init /\ [][Next]_vars
  BY PTL DEF Spec
<1>2. QED
  BY <1>1, TransStart, TransStep, PTL

(* RestorablePackage and remove_pkgs: whatever stops the validation, the   *)
(* rollback puts back every package, unless the user has renounced that.   *)
THEOREM RollbackOwesNothing == Spec => []RestoredCompletely
<1>1. TransInv => RestoredCompletely
  BY DEF TransInv
<1>2. QED
  BY <1>1, TransInvariant, PTL

(* The Actions replace packages only after the very ones that are          *)
(* installed have passed a test transaction, unless a child gave no answer.*)
THEOREM OnlyTestedIsReplaced == Spec => []PonrCrossedValidated
<1>1. TransInv => PonrCrossedValidated
  BY DEF TransInv
<1>2. QED
  BY <1>1, TransInvariant, PTL

(* run_as_child_process: the tool takes no step of its own on packages     *)
(* while the child of the yum handler is alive.                            *)
THEOREM AloneOnPackages == Spec => []ChildWorksAlone
<1>1. TransInv => ChildWorksAlone
  BY DEF TransInv
<1>2. QED
  BY <1>1, TransInvariant, PTL

(* CONVERT_SYSTEM_PACKAGES: a success means that every package RHEL has is *)
(* the one of RHEL and that the others are as they were, unless a child    *)
(* gave no answer.                                                         *)
THEOREM SuccessIsReplacement == Spec => []SuccessMeansReplaced
<1>1. TransInv => SuccessMeansReplaced
  <2>1. SUFFICES ASSUME TransInv, result["replace"] = "SUCCESS", ~lost, NEW p \in Installed
                 PROVE  state[p] = IF offers[p] # {} \/ p \in Swapped THEN "rhel" ELSE "orig"
    BY DEF SuccessMeansReplaced
  <2>2. p \in Packages /\ state[p] \in {"orig", "rhel"}
    BY <2>1 DEF Installed, TransInv, TypeOK
  <2>3. InTransaction = {}
    BY <2>1 DEF TransInv, ReplacedAsPlanned, ResultMeansReplaced
  <2>4. state[p] = "rhel" <=> Operation(p) # "keep"
    BY <2>1, <2>2, <2>3 DEF TransInv, ReplacedAsPlanned, ReplacedIsPlanned, InTransaction
  <2>5. Operation(p) # "keep" <=> offers[p] # {} \/ p \in Swapped
    <3>1. offers[p] \in {{}, {"newer", "same"}, {"same", "older"}, {"older"}}
      BY <2>1, <2>2 DEF TransInv, FactsOK
    <3>2. QED
      BY <3>1 DEF Operation
  <2>6. QED
    BY <2>2, <2>4, <2>5
<1>2. QED
  BY <1>1, TransInvariant, PTL
=============================================================================
