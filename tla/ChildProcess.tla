---------------------------- MODULE ChildProcess ----------------------------
(***************************************************************************)
(* A function decorated with utils.run_as_child_process: the parent starts *)
(* a process, joins it, and only then reads an exception from a pipe and   *)
(* the result from a queue.                                                *)
(*                                                                         *)
(* Both channels hold one message at most.  A message larger than the      *)
(* buffer of the channel stays incomplete until somebody reads it, and the *)
(* process that sends it does not end before: `torn` names the channel     *)
(* that holds such a message.  How large a message is, is not known here.  *)
(*                                                                         *)
(* Returned values are sets (the empty one stands for None), exceptions    *)
(* are strings.                                                            *)
(***************************************************************************)
EXTENDS Sequences

VARIABLES
    parent,  \* where the caller is in wrapper()
    child,   \* the process
    pipe,    \* what the parent finds in process.exception
    queue,   \* what the parent finds in the queue
    torn     \* the channel with an incomplete message, or "no"

childVars == <<parent, child, pipe, queue, torn>>

ChildAlive == child \in {"running", "blocked"}

ChildInit ==
    /\ parent = "idle"
    /\ child = "none"
    /\ pipe = <<>>
    /\ queue = <<>>
    /\ torn = "no"

(* The queue, the process and process.start(). Nothing asks whether a      *)
(* process of an earlier call is still alive.                              *)
StartChild ==
    /\ parent' = "joining"
    /\ child' = "running"
    /\ pipe' = <<>>
    /\ queue' = <<>>
    /\ torn' = "no"

(* inner_wrapper puts the result into the queue. A process that ends waits *)
(* for the thread that feeds the queue, which waits for a reader when the  *)
(* result does not fit.                                                    *)
ChildReturns(result, fits) ==
    /\ child = "running"
    /\ child' = IF fits THEN "dead" ELSE "blocked"
    /\ queue' = IF fits THEN <<result>> ELSE <<>>
    /\ torn' = IF fits THEN "no" ELSE "queue"
    /\ UNCHANGED <<parent, pipe>>

(* Process.run sends the exception, or a stand-in for one that pickle      *)
(* refuses, and blocks when it is too large.                               *)
ChildRaises(error, fits) ==
    /\ child = "running"
    /\ child' = IF fits THEN "dead" ELSE "blocked"
    /\ \E sent \in {error, "UnableToSerialize"} : pipe' = IF fits THEN <<sent>> ELSE <<>>
    /\ torn' = IF fits THEN "no" ELSE "pipe"
    /\ UNCHANGED <<parent, queue>>

(* The process ends and sends nothing more: a signal kills it, the result  *)
(* or the exception fails to be pickled in a way nobody catches.           *)
ChildVanishes ==
    /\ ChildAlive
    /\ child' = "dead"
    /\ UNCHANGED <<parent, pipe, queue, torn>>

(* join() has returned. The exception goes first. The parent has the       *)
(* writing ends of both channels open itself, so that it waits forever for *)
(* the rest of an incomplete message.                                      *)
JoinOutcome ==
    CASE torn = "pipe"   -> "stuck"
      [] pipe # <<>>     -> "raised"
      [] torn = "queue"  -> "stuck"
      [] queue # <<>>    -> "returned"
      [] OTHER           -> "nothing"

(* Mutant: does not wait for the child. *)
JoinChild_NoWait ==
    /\ parent = "joining"
    /\ parent' = JoinOutcome
    /\ UNCHANGED <<child, pipe, queue, torn>>

JoinChild ==
    /\ parent = "joining"
    /\ child = "dead"
    /\ parent' = JoinOutcome
    /\ UNCHANGED <<child, pipe, queue, torn>>

(* Ctrl-C while the parent waits: it asks a live process to terminate and  *)
(* raises KeyboardInterrupt without waiting. Whether the process obeys is  *)
(* up to the process (ChildVanishes, or it goes on).                       *)
InterruptParent ==
    /\ parent \in {"joining", "stuck"}
    /\ parent' = "interrupted"
    /\ UNCHANGED <<child, pipe, queue, torn>>

(* The caller has taken the outcome. *)
TakeOutcome ==
    /\ parent' = "idle"
    /\ UNCHANGED <<child, pipe, queue, torn>>
=============================================================================
