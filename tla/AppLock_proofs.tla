--------------------------- MODULE AppLock_proofs ---------------------------
(***************************************************************************)
(* The lock of convert2rhel is exclusive for any number of processes, kills *)
(* and reused pids, as long as no process is overtaken between reading the *)
(* PID file and unlinking it.                                              *)
(***************************************************************************)
EXTENDS AppLock, TLAPS

(* LockInv holds when no process has run yet. *)
LEMMA LockInit == Init => LockInv
  BY FileAssumption DEF Init, LockInv, TypeOK, RunningExists, WriterStarted,
     ReadIsStarted, ReadIsPid, StaleIsGone, HolderOwnsFile, Idle, Gone, Running

(* A step of any process preserves LockInv, provided the process that is    *)
(* about to unlink a stale lock has not been overtaken.                     *)
LEMMA LockStep == LockInv /\ FreshTakeover /\ [Next]_vars => LockInv'
<1> SUFFICES ASSUME LockInv, FreshTakeover, [Next]_vars PROVE LockInv'
  OBVIOUS
<1> USE FileAssumption, KillableAssumption
<1> USE DEF LockInv, TypeOK, RunningExists, WriterStarted, ReadIsStarted,
        ReadIsPid, StaleIsGone, HolderOwnsFile, GoTo, Idle, Gone, Running
<1>1. ASSUME NEW p \in Procs, Start(p) PROVE LockInv'
  BY <1>1 DEF Start
<1>2. ASSUME NEW p \in Procs, LinkCreates(p) PROVE LockInv'
  BY <1>2 DEF LinkCreates
<1>3. ASSUME NEW p \in Procs, LinkFindsFile(p) PROVE LockInv'
  BY <1>3 DEF LinkFindsFile
<1>4. ASSUME NEW p \in Procs, ReadPid(p) PROVE LockInv'
  BY <1>4 DEF ReadPid
<1>5. ASSUME NEW p \in Procs, Probe(p) PROVE LockInv'
  BY <1>5 DEF Probe
<1>6. ASSUME NEW p \in Procs, UnlinkStale(p) PROVE LockInv'
  BY <1>6 DEF UnlinkStale, FreshTakeover
<1>7. ASSUME NEW p \in Procs, Unlock(p) PROVE LockInv'
  <2>1. pc[p] = "critical" /\ locked[p] /\ pidfile = p
    BY <1>7 DEF Unlock
  <2>2. /\ pc' = [pc EXCEPT ![p] = "released"]
        /\ locked' = [locked EXCEPT ![p] = FALSE]
        /\ pidfile' = NoFile
        /\ UNCHANGED <<exists, found>>
    BY <1>7, <2>1 DEF Unlock
  <2>3. \A q \in Procs : locked[q] => q = p
    BY <2>1
  <2>4. TypeOK' /\ RunningExists' /\ WriterStarted' /\ ReadIsStarted' /\ ReadIsPid'
    BY <2>1, <2>2
  <2>5. StaleIsGone' /\ HolderOwnsFile'
    BY <2>1, <2>2, <2>3
  <2>6. QED
    BY <2>4, <2>5
<1>8. ASSUME NEW p \in Procs, Exit(p) \/ Kill(p) PROVE LockInv'
  <2>1. Leave(p) /\ pc[p] \in Running
    BY <1>8 DEF Exit, Kill
  <2>2. TypeOK'
    BY <2>1 DEF Leave
  <2>3. (RunningExists /\ WriterStarted /\ ReadIsStarted /\ ReadIsPid)'
    BY <2>1 DEF Leave
  <2>4. StaleIsGone'
    BY <2>1 DEF Leave
  <2>5. HolderOwnsFile'
    BY <2>1 DEF Leave
  <2>6. QED
    BY <2>2, <2>3, <2>4, <2>5
<1>9. ASSUME NEW p \in Procs, Recycle(p) PROVE LockInv'
  BY <1>9 DEF Recycle
<1>10. CASE UNCHANGED vars
  BY <1>10 DEF vars
<1>11. QED
  BY <1>1, <1>2, <1>3, <1>4, <1>5, <1>6, <1>7, <1>8, <1>9, <1>10 DEF Next, Step

(* The lock excludes: MutualExclusion, at every moment of every behaviour   *)
(* in which no takeover is overtaken.                                       *)
THEOREM LockExcludes == Spec => ExclusiveUnlessOvertaken
<1>1. LockInv => MutualExclusion
  BY DEF LockInv, HolderOwnsFile, MutualExclusion
<1>2. QED
  BY LockInit, LockStep, <1>1, PTL DEF Spec, ExclusiveUnlessOvertaken

(* The states of the lock file and of the processes are well formed,         *)
(* overtaken or not.                                                         *)
THEOREM LockTypes == Spec => []TypeOK
<1>1. Init => TypeOK
  BY FileAssumption DEF Init, TypeOK, Idle
<1>2. ASSUME TypeOK, [Next]_vars PROVE TypeOK'
  <2> USE <1>2, FileAssumption, KillableAssumption
  <2> USE DEF TypeOK, GoTo, Idle, Gone, Running
  <2>1. ASSUME NEW p \in Procs, Start(p) \/ Recycle(p) PROVE TypeOK'
    BY <2>1 DEF Start, Recycle
  <2>2. ASSUME NEW p \in Procs, LinkCreates(p) \/ LinkFindsFile(p) PROVE TypeOK'
    BY <2>2 DEF LinkCreates, LinkFindsFile
  <2>3. ASSUME NEW p \in Procs, ReadPid(p) \/ Probe(p) PROVE TypeOK'
    BY <2>3 DEF ReadPid, Probe
  <2>4. ASSUME NEW p \in Procs, UnlinkStale(p) \/ Unlock(p) PROVE TypeOK'
    <3>1. CASE UnlinkStale(p)
      BY <3>1 DEF UnlinkStale
    <3>2. CASE Unlock(p)
      <4>1. \/ GoTo(p, "failed") /\ UNCHANGED locked
            \/ GoTo(p, "released") /\ locked' = [locked EXCEPT ![p] = FALSE]
        BY <3>2 DEF Unlock
      <4>2. pidfile' = NoFile /\ UNCHANGED <<exists, found>>
        BY <3>2 DEF Unlock
      <4>3. QED
        BY <4>1, <4>2
    <3>3. QED
      BY <2>4, <3>1, <3>2
  <2>5. ASSUME NEW p \in Procs, Exit(p) \/ Kill(p) PROVE TypeOK'
    <3>1. Leave(p)
      BY <2>5 DEF Exit, Kill
    <3>2. QED
      BY <3>1 DEF Leave
  <2>6. CASE UNCHANGED vars
    BY <2>6 DEF vars
  <2>7. QED
    BY <2>1, <2>2, <2>3, <2>4, <2>5, <2>6 DEF Next, Step
<1>3. QED
  BY <1>1, <1>2, PTL DEF Spec

(* A file that is no pid is never removed, and nobody gets past it: for any  *)
(* number of copies, whatever is killed.                                     *)
THEOREM MeddledStays == Spec => MeddlingBlocks
<1> USE FileAssumption, KillableAssumption
<1> DEFINE Meddled == TypeOK /\ MeddledStopsAll
<1>1. Init => MeddledStopsAll
  BY DEF Init, MeddledStopsAll, Idle
<1>2. ASSUME Meddled, [Next]_vars PROVE MeddledStopsAll'
  <2> USE <1>2 DEF TypeOK, MeddledStopsAll, GoTo, Idle, Gone, Running
  <2>1. ASSUME NEW p \in Procs, Start(p) PROVE MeddledStopsAll'
    BY <2>1 DEF Start
  <2>2. ASSUME NEW p \in Procs, LinkCreates(p) \/ UnlinkStale(p) \/ Unlock(p)
        PROVE  MeddledStopsAll'
    BY <2>2 DEF LinkCreates, UnlinkStale, Unlock
  <2>3. ASSUME NEW p \in Procs, LinkFindsFile(p) PROVE MeddledStopsAll'
    BY <2>3 DEF LinkFindsFile
  <2>4. ASSUME NEW p \in Procs, ReadPid(p) PROVE MeddledStopsAll'
    BY <2>4 DEF ReadPid
  <2>5. ASSUME NEW p \in Procs, Probe(p) PROVE MeddledStopsAll'
    BY <2>5 DEF Probe
  <2>6. ASSUME NEW p \in Procs, Exit(p) \/ Kill(p) PROVE MeddledStopsAll'
    BY <2>6 DEF Exit, Kill, Leave
  <2>7. ASSUME NEW p \in Procs, Recycle(p) PROVE MeddledStopsAll'
    BY <2>7 DEF Recycle
  <2>8. CASE UNCHANGED vars
    BY <2>8 DEF vars
  <2>9. QED
    BY <2>1, <2>2, <2>3, <2>4, <2>5, <2>6, <2>7, <2>8 DEF Next, Step
<1>3. ASSUME Meddled, MeddledStopsAll', [Next]_vars, pidfile = Garbage
      PROVE  pidfile' = Garbage /\ \A p \in Procs : ~locked'[p]
  <2>1. \A p \in Procs :
          ~(LinkCreates(p) \/ UnlinkStale(p) \/ Unlock(p))
    BY <1>3 DEF MeddledStopsAll, LinkCreates, UnlinkStale, Unlock, Idle, Gone
  <2>2. pidfile' = pidfile
    BY <1>3, <2>1 DEF Next, Step, Start, LinkFindsFile, ReadPid, Probe, Exit, Kill, Leave,
       Recycle, vars
  <2>3. QED
    BY <1>3, <2>2 DEF MeddledStopsAll
<1>4. QED
  BY LockTypes, <1>1, <1>2, <1>3, PTL DEF Spec, MeddlingBlocks
=============================================================================
