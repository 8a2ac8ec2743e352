---------------------------- MODULE Registration ----------------------------
(***************************************************************************)
(* Registering the system with RHSM (convert2rhel/subscription.py) for     *)
(* RestorableSystemSubscription: up to MaxAttempts requests to the rhsm    *)
(* daemon over D-Bus, each preceded by an unregistration and a stop of the *)
(* daemon.  A request that is not answered in time is abandoned, not       *)
(* withdrawn: the daemon, which is external, may still carry it out, or    *)
(* may have done so when the answer gets lost.                             *)
(***************************************************************************)
EXTENDS Naturals

CONSTANT MaxAttempts      \* MAX_NUM_OF_ATTEMPTS_TO_SUBSCRIBE
ASSUME MaxAttemptsAssumption == MaxAttempts \in Nat \ {0}

Attempts == 1 .. MaxAttempts
(* The registration of the system: none, the one an attempt asked for, or    *)
(* one it had before.                                                        *)
Unregistered == 0
Prior == MaxAttempts + 1

VARIABLES
  pc,           \* where register_system() and its callers are
  attempt,      \* the attempt, counted from 1
  answer,       \* what has come of the call: "ok", "noreply" or "error"
  identity,     \* the registration the system has
  pending,      \* the attempts whose request the daemon has and has not handled
  customServer, \* connection options were given on the command line
  config,       \* the server in rhsm.conf: "found" or "given"
  osRelease,    \* /etc/os-release is there
  notConfigured \* an attempt failed, or was interrupted, before it wrote rhsm.conf (history)

vars == <<pc, attempt, answer, identity, pending, customServer, config, osRelease, notConfigured>>
daemon == <<identity, pending>>
settings == <<config, notConfigured, customServer>>

Ends == {"undone", "failed", "interrupted"}
Running == {"unregister", "stop", "restore", "call", "waiting", "config", "check",
            "shutdown", "attach"}

TypeOK ==
  /\ pc \in Running \cup {"enabled"} \cup Ends
  /\ attempt \in Attempts
  /\ answer \in {"ok", "noreply", "error"}
  /\ identity \in {Unregistered, Prior} \cup Attempts
  /\ pending \subseteq Attempts
  /\ config \in {"found", "given"}
  /\ osRelease \in BOOLEAN /\ notConfigured \in BOOLEAN /\ customServer \in BOOLEAN

(* The release package is removed by now, and /etc/os-release with it. *)
Init ==
  /\ pc = "unregister" /\ attempt = 1 /\ answer = "error"
  /\ identity \in {Unregistered, Prior} /\ pending = {}
  /\ customServer \in BOOLEAN /\ config = "found"
  /\ osRelease = FALSE /\ notConfigured = FALSE

(* The server that knows a registration. *)
Server(i) == IF customServer /\ i # Prior THEN "given" ELSE "found"

-----------------------------------------------------------------------------
(* unregister_system() asks the server in the configuration. *)
MayUnregister ==
  \/ identity' = Unregistered /\ config = Server(identity)
  \/ identity' = identity

(* UnregisterError is only logged. *)
Unregister ==
  /\ pc = "unregister" /\ pc' = "stop"
  /\ MayUnregister
  /\ UNCHANGED <<attempt, answer, pending, osRelease, settings>>

(* _stop_rhsm(): the requests the daemon has are gone, if it does stop. *)
StopRhsm ==
  /\ pc = "stop" /\ pc' = IF attempt = 1 THEN "restore" ELSE "call"
  /\ pending' \in {pending, {}}
  /\ UNCHANGED <<attempt, answer, identity, osRelease, settings>>

(* Only the first attempt restores /etc/os-release.  CriticalError when it   *)
(* cannot, ValueError when the credentials are incomplete.                   *)
RestoreOsRelease ==
  /\ pc = "restore"
  /\ \/ pc' = "call" /\ osRelease' = TRUE
     \/ pc' = "failed" /\ UNCHANGED osRelease
  /\ UNCHANGED <<attempt, answer, daemon, settings>>

(* Mutants: one attempt too many; the attempts are not counted; the file is  *)
(* removed whatever came of the attempt.                                     *)
Retry_OneMore ==
  /\ IF attempt <= MaxAttempts THEN pc' = "unregister" /\ attempt' = attempt + 1
     ELSE pc' = "failed" /\ UNCHANGED attempt
  /\ UNCHANGED osRelease
Retry_NotCounted ==
  /\ pc' = "unregister"
  /\ UNCHANGED <<attempt, osRelease>>
Retry_Removes ==
  /\ IF attempt < MaxAttempts THEN pc' = "unregister" /\ attempt' = attempt + 1
     ELSE pc' = "failed" /\ UNCHANGED attempt
  /\ osRelease' = FALSE

(* except Exception: the next attempt, or CriticalError after the last one. *)
Retry ==
  /\ IF attempt < MaxAttempts THEN pc' = "unregister" /\ attempt' = attempt + 1
     ELSE pc' = "failed" /\ UNCHANGED attempt
  /\ UNCHANGED osRelease

(* RegistrationCommand.__call__(): there may be no bus to call. *)
Call ==
  /\ pc = "call"
  /\ \/ /\ pc' = "waiting" /\ pending' = pending \cup {attempt}
        /\ UNCHANGED <<attempt, osRelease>>
     \/ Retry /\ UNCHANGED pending
  /\ UNCHANGED <<answer, identity, settings>>

(* REGISTRATION_TIMEOUT, or a daemon that died: NoReply. *)
NoReply ==
  /\ pc = "waiting" /\ pc' = "config"
  /\ answer' = "noreply"
  /\ UNCHANGED <<attempt, daemon, osRelease, settings>>

(* Mutant: the configuration is written only when the answer came. *)
SetConnectionOpts_OnlyIfOk ==
  /\ pc = "config"
  /\ pc' = IF answer = "ok" THEN "shutdown" ELSE "check"
  /\ config' = IF customServer /\ answer = "ok" THEN "given" ELSE config
  /\ UNCHANGED <<attempt, answer, daemon, osRelease, notConfigured, customServer>>

(* _set_connection_opts_in_config(): nothing to do without options.          *)
SetConnectionOpts ==
  /\ pc = "config"
  /\ \/ /\ pc' = IF answer = "ok" THEN "shutdown" ELSE "check"
        /\ config' = IF customServer THEN "given" ELSE config
        /\ UNCHANGED <<answer, notConfigured>>
     \/ /\ customServer
        /\ pc' = "shutdown" /\ answer' = "error"
        /\ notConfigured' = TRUE /\ UNCHANGED config
  /\ UNCHANGED <<attempt, daemon, osRelease, customServer>>

(* Mutant: no look whether the registration has succeeded after a NoReply. *)
CheckRegistered_Assumed ==
  /\ pc = "check" /\ pc' = "shutdown"
  /\ answer' = "ok"
  /\ UNCHANGED <<attempt, daemon, osRelease, settings>>

(* is_registered(), after a NoReply: the tool may fail on a registered       *)
(* system as well.                                                           *)
CheckRegistered ==
  /\ pc = "check" /\ pc' = "shutdown"
  /\ answer' \in IF identity # Unregistered THEN {"ok", "error"} ELSE {"error"}
  /\ UNCHANGED <<attempt, daemon, osRelease, settings>>

(* The private bus is shut down in any case, which may fail as well; after a *)
(* success /etc/os-release is removed, and a failure to do so is ignored.    *)
ShutDownBus ==
  /\ pc = "shutdown"
  /\ \/ /\ answer = "ok" /\ pc' = "attach"
        /\ osRelease' \in {FALSE, osRelease} /\ UNCHANGED attempt
     \/ Retry
  /\ UNCHANGED <<answer, daemon, settings>>

(* attach_subscription(): CriticalError when it fails. *)
Attach ==
  /\ pc = "attach" /\ pc' \in {"enabled", "failed"}
  /\ UNCHANGED <<attempt, answer, daemon, osRelease, settings>>

(* RestorableSystemSubscription.restore(), should the conversion fail. *)
Restore ==
  /\ pc = "enabled" /\ pc' = "undone"
  /\ MayUnregister
  /\ UNCHANGED <<attempt, answer, pending, osRelease, settings>>

(* KeyboardInterrupt is not retried, unless the shutdown of the private bus, *)
(* on its way out, raises another exception.                                 *)
Interrupt ==
  /\ pc \in Running
  /\ \/ pc' = "interrupted" /\ UNCHANGED <<attempt, osRelease>>
     \/ pc \in {"waiting", "config", "check"} /\ Retry
  /\ notConfigured' = (notConfigured \/ pc # "check")
  /\ UNCHANGED <<answer, daemon, config, customServer>>

-----------------------------------------------------------------------------
(* The rhsm daemon: it registers a system that is not registered, and the    *)
(* answer may come too late or get lost; otherwise it refuses.               *)
Register(n) ==
  /\ n \in pending /\ identity = Unregistered
  /\ identity' = n /\ pending' = pending \ {n}
  /\ \/ pc = "waiting" /\ n = attempt /\ pc' = "config" /\ answer' = "ok"
     \/ UNCHANGED <<pc, answer>>
  /\ UNCHANGED <<attempt, osRelease, settings>>

Refuse(n) ==
  /\ n \in pending
  /\ pending' = pending \ {n}
  /\ \/ pc = "waiting" /\ n = attempt /\ pc' = "shutdown" /\ answer' = "error"
     \/ UNCHANGED <<pc, answer>>
  /\ UNCHANGED <<attempt, identity, osRelease, settings>>

-----------------------------------------------------------------------------
Step ==
  \/ Unregister \/ StopRhsm \/ RestoreOsRelease \/ Call \/ NoReply
  \/ SetConnectionOpts \/ CheckRegistered \/ ShutDownBus \/ Attach

Next == Step \/ Restore \/ Interrupt \/ \E n \in Attempts : Register(n) \/ Refuse(n)

(* The program runs on: its tools return and its D-Bus call has a timeout.   *)
(* Nothing is assumed of the daemon.                                         *)
Spec == Init /\ [][Next]_vars /\ WF_vars(Step)

-----------------------------------------------------------------------------
(* register_system() returns only with a registered system, and unless that  *)
(* is a registration from before that could not be removed, the tools called *)
(* from then on, the rollback's unregistration included, ask its server.     *)
SuccessMeansRegistered ==
  pc \in {"attach", "enabled"} =>
    /\ identity # Unregistered
    /\ identity \in Attempts => config = Server(identity)

(* A registration an abandoned attempt has left is looked for, and removed   *)
(* by the next attempt, at the server it was made at.                        *)
RightServerIsAsked ==
  pc \in {"check", "unregister"} /\ identity \in Attempts =>
    config = Server(identity) \/ notConfigured

(* Whichever attempt the daemon handles, it finds /etc/os-release as long as *)
(* the answer is waited for, though only the first attempt restores it.      *)
OsReleaseInPlace == pc = "waiting" => osRelease

(* With a daemon that never answers, register_system() still ends. *)
RegistrationEnds == pc \in Running ~> pc \in Ends \cup {"enabled"}
-----------------------------------------------------------------------------
(* The inductive invariant behind the safety properties.                     *)

(* From the first restore on, /etc/os-release stays until an attempt         *)
(* succeeds.                                                                 *)
OsReleaseKept ==
  /\ pc \in {"call", "waiting", "config", "check", "shutdown"} => osRelease
  /\ pc \in {"unregister", "stop"} /\ attempt > 1 => osRelease
  /\ pc = "restore" => attempt = 1

(* Only an attempt that has been made can have registered the system, and    *)
(* only once.                                                                *)
MadeBefore ==
  /\ identity \notin pending
  /\ \A n \in pending \cup {identity} : n \in Attempts =>
       n < attempt \/ (n = attempt /\ pc \notin {"unregister", "stop", "restore", "call"})

(* A request that went out and was not refused has had the server it was     *)
(* made to written to the configuration.                                     *)
Configured ==
  /\ ~customServer => config = "found"
  /\ customServer /\ ~notConfigured =>
       \A n \in pending \cup {identity} :
         n \in Attempts /\ ~(n = attempt /\ pc \in {"waiting", "config"}) => config = "given"

(* What stands behind a good answer. *)
AnswerIsTrue ==
  /\ pc = "config" => answer \in {"ok", "noreply"}
  /\ answer = "ok" /\ pc \in {"config", "shutdown"} => identity # Unregistered
  /\ pc \in {"attach", "enabled"} => identity # Unregistered
  /\ pc \in {"check", "attach", "enabled"} \/ (pc = "shutdown" /\ answer = "ok") =>
       (customServer => config = "given")

RegInv == TypeOK /\ OsReleaseKept /\ MadeBefore /\ Configured /\ AnswerIsTrue
=============================================================================
