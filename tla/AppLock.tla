------------------------------ MODULE AppLock ------------------------------
(***************************************************************************)
(* The application lock of convert2rhel (applock.py): a PID file in        *)
(* /var/run/lock that keeps two copies of the program from converting the  *)
(* same system at once.  Every process of Procs runs the program once; the *)
(* steps of its try_to_lock() and unlock() interleave with those of the    *)
(* others, and a process may be killed at any point.                       *)
(***************************************************************************)
EXTENDS Naturals

CONSTANTS
  Procs,      \* process ids of the copies of convert2rhel that may be started
  Killable,   \* the ones that may be killed (power button, SIGKILL, a signal
              \* between os.link() and the assignment of _locked)
  NoFile,     \* the PID file does not exist
  Garbage     \* the PID file exists and does not hold a number

ASSUME KillableAssumption == Killable \subseteq Procs
ASSUME FileAssumption == NoFile \notin Procs /\ Garbage \notin Procs /\ NoFile # Garbage

VARIABLES
  pidfile,    \* contents of /var/run/lock/convert2rhel.pid
  exists,     \* process ids for which os.kill(pid, 0) succeeds
  pc,         \* where each process is
  found,      \* the pid each process read from the file
  locked      \* ApplicationLock._locked of each process

vars == <<pidfile, exists, pc, found, locked>>

Idle      == "idle"
Running   == {"create", "read", "probe", "unlink", "recreate", "critical",
              "refused", "failed", "released"}
Gone      == "gone"

TypeOK ==
  /\ pidfile \in Procs \cup {NoFile, Garbage}
  /\ exists \subseteq Procs
  /\ pc \in [Procs -> Running \cup {Idle, Gone}]
  /\ found \in [Procs -> Procs \cup {NoFile}]
  /\ locked \in [Procs -> BOOLEAN]

Init ==
  /\ pidfile \in {NoFile, Garbage}    \* Garbage: somebody meddled with the file
  /\ exists = {}
  /\ pc = [p \in Procs |-> Idle]
  /\ found = [p \in Procs |-> NoFile]
  /\ locked = [p \in Procs |-> FALSE]

GoTo(p, there) == pc' = [pc EXCEPT ![p] = there]

(* main() reaches `with ApplicationLock(...)`. *)
Start(p) ==
  /\ pc[p] = Idle
  /\ p \notin exists
  /\ exists' = exists \cup {p}
  /\ GoTo(p, "create")
  /\ UNCHANGED <<pidfile, found, locked>>

(* _try_create(): os.link() of a complete temporary file is one atomic step, *)
(* it fails with EEXIST when the PID file is there.                          *)
LinkCreates(p) ==
  /\ pc[p] \in {"create", "recreate"}
  /\ pidfile = NoFile
  /\ pidfile' = p
  /\ locked' = [locked EXCEPT ![p] = TRUE]
  /\ GoTo(p, "critical")
  /\ UNCHANGED <<exists, found>>

LinkFindsFile(p) ==
  /\ pidfile # NoFile
  /\ \/ pc[p] = "create"   /\ GoTo(p, "read")
     \/ pc[p] = "recreate" /\ GoTo(p, "refused")    \* "Cannot lock"
  /\ UNCHANGED <<pidfile, exists, found, locked>>

(* Mutants: the contents are not parsed; a file that is corrupt is stale. *)
ReadPid_Unparsed(p) ==
  /\ pc[p] = "read"
  /\ found' = [found EXCEPT ![p] = pidfile]
  /\ GoTo(p, "probe")
  /\ UNCHANGED <<pidfile, exists, locked>>

ReadPid_CorruptIsStale(p) ==
  /\ pc[p] = "read"
  /\ \/ pidfile = NoFile  /\ GoTo(p, "failed") /\ UNCHANGED found
     \/ pidfile = Garbage /\ GoTo(p, "unlink") /\ UNCHANGED found
     \/ /\ pidfile \in Procs
        /\ found' = [found EXCEPT ![p] = pidfile]
        /\ GoTo(p, "probe")
  /\ UNCHANGED <<pidfile, exists, locked>>

(* open() and read(): ENOENT is not handled, a non-number means locked. *)
ReadPid(p) ==
  /\ pc[p] = "read"
  /\ \/ pidfile = NoFile  /\ GoTo(p, "failed")  /\ UNCHANGED found
     \/ pidfile = Garbage /\ GoTo(p, "refused") /\ UNCHANGED found
     \/ /\ pidfile \in Procs
        /\ found' = [found EXCEPT ![p] = pidfile]
        /\ GoTo(p, "probe")
  /\ UNCHANGED <<pidfile, exists, locked>>

(* Mutants: every lock file is taken for stale; none ever is. *)
Probe_Skipped(p) ==
  /\ pc[p] = "probe"
  /\ GoTo(p, "unlink")
  /\ UNCHANGED <<pidfile, exists, found, locked>>

Probe_AlwaysExists(p) ==
  /\ pc[p] = "probe"
  /\ GoTo(p, "refused")
  /\ UNCHANGED <<pidfile, exists, found, locked>>

(* _pid_exists(): is the process that was read still there? *)
Probe(p) ==
  /\ pc[p] = "probe"
  /\ IF found[p] \in exists THEN GoTo(p, "refused") ELSE GoTo(p, "unlink")
  /\ UNCHANGED <<pidfile, exists, found, locked>>

(* os.unlink() removes whatever file is there by now. *)
UnlinkStale(p) ==
  /\ pc[p] = "unlink"
  /\ IF pidfile = NoFile THEN GoTo(p, "failed") ELSE GoTo(p, "recreate")
  /\ pidfile' = NoFile
  /\ UNCHANGED <<exists, found, locked>>

(* unlock(), from __exit__: when the unlink fails the object stays locked. *)
Unlock(p) ==
  /\ pc[p] = "critical"
  /\ IF pidfile = NoFile
     THEN GoTo(p, "failed") /\ UNCHANGED locked
     ELSE GoTo(p, "released") /\ locked' = [locked EXCEPT ![p] = FALSE]
  /\ pidfile' = NoFile
  /\ UNCHANGED <<exists, found>>

(* The process ends, with the PID file as it is. *)
Leave(p) ==
  /\ exists' = exists \ {p}
  /\ GoTo(p, Gone)
  /\ locked' = [locked EXCEPT ![p] = FALSE]
  /\ UNCHANGED <<pidfile, found>>

Exit(p) == pc[p] \in {"refused", "failed", "released"} /\ Leave(p)
Kill(p) == p \in Killable /\ pc[p] \in Running /\ Leave(p)

(* The kernel gives the pid of a process that is gone to an unrelated one. *)
Recycle(p) ==
  /\ pc[p] = Gone
  /\ exists' = IF p \in exists THEN exists \ {p} ELSE exists \cup {p}
  /\ UNCHANGED <<pidfile, pc, found, locked>>

Step(p) ==
  \/ LinkCreates(p) \/ LinkFindsFile(p) \/ ReadPid(p) \/ Probe(p)
  \/ UnlinkStale(p) \/ Unlock(p) \/ Exit(p)

Next == \E p \in Procs : Start(p) \/ Step(p) \/ Kill(p) \/ Recycle(p)

Spec == Init /\ [][Next]_vars

(* Every process that was started keeps running: the lock code never waits. *)
FairSpec == Spec /\ \A p \in Procs : WF_vars(Step(p))

-----------------------------------------------------------------------------

(* Two copies of the program never hold the lock together: the promise of   *)
(* main(), "protected by the application lock".                             *)
MutualExclusion ==
  \A p, q \in Procs : locked[p] /\ locked[q] => p = q

(* An assumption, not a promise: when a process is about to unlink a lock   *)
(* it found stale, the file still is the one it read.                       *)
FreshTakeover ==
  \A p \in Procs : pc[p] = "unlink" => pidfile = found[p]

(* The gap between reading the PID file and unlinking it is the only hole   *)
(* of the lock: while no process is overtaken in that gap, no two processes *)
(* hold the lock, whatever is killed and whichever pids are reused.         *)
ExclusiveUnlessOvertaken == []FreshTakeover => []MutualExclusion

(* A file with unexpected contents is never cleaned up by the program and   *)
(* nobody gets past it ("treated as if the application is locked").         *)
MeddlingBlocks ==
  [][pidfile = Garbage => pidfile' = Garbage /\ \A p \in Procs : ~locked'[p]]_vars

(* The lock of a process that is gone does not lock the program out: a copy *)
(* that starts while the stale file is there gets rid of it, unless the     *)
(* kernel has given the pid to somebody else.                               *)
StaleLockCleared ==
  \A d \in Procs, p \in Procs \ Killable :
    pidfile = d /\ pc[d] = Gone /\ pc[p] = "create"
      ~> pidfile # d \/ d \in exists
-----------------------------------------------------------------------------
(* The invariant behind ExclusiveUnlessOvertaken. *)

(* A copy that runs exists, and the pid in the file, or read from it, was   *)
(* written by a copy that was started.                                      *)
RunningExists == \A p \in Procs : pc[p] \in Running => p \in exists
WriterStarted == pidfile \in Procs => pc[pidfile] # Idle
ReadIsStarted ==
  \A p \in Procs :
    pc[p] \in {"probe", "unlink"} /\ found[p] \in Procs => pc[found[p]] # Idle
(* What a process wants to unlink was written by a copy that is gone. *)
StaleIsGone ==
  \A p \in Procs : pc[p] = "unlink" => found[p] \in Procs /\ pc[found[p]] = Gone
ReadIsPid == \A p \in Procs : pc[p] = "probe" => found[p] \in Procs
(* The process in main_locked() is the one that the file names. *)
HolderOwnsFile ==
  \A p \in Procs :
    /\ locked[p] <=> pc[p] = "critical"
    /\ locked[p] => pidfile = p

LockInv ==
  /\ TypeOK
  /\ RunningExists
  /\ WriterStarted
  /\ ReadIsStarted
  /\ ReadIsPid
  /\ StaleIsGone
  /\ HolderOwnsFile

(* Behind MeddlingBlocks: with a meddled file no copy gets beyond reading it. *)
MeddledStopsAll ==
  pidfile = Garbage =>
    \A p \in Procs :
      ~locked[p] /\ pc[p] \in {Idle, "create", "read", "refused", Gone}
=============================================================================
