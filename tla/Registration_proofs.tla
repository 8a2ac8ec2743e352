------------------------ MODULE Registration_proofs ------------------------
(***************************************************************************)
(* For any number of attempts, and whatever the rhsm daemon does with the  *)
(* requests: what register_system() leaves is what it reports.             *)
(***************************************************************************)
EXTENDS Registration, TLAPS

(* No request has been made when the program starts to register. *)
LEMMA RegistrationInit == Init => RegInv
<1> SUFFICES ASSUME Init PROVE RegInv
  OBVIOUS
<1>1. 1 \in Attempts /\ Unregistered \notin Attempts /\ Prior \notin Attempts
  BY MaxAttemptsAssumption DEF Attempts, Unregistered, Prior
<1>2. TypeOK
  BY <1>1 DEF Init, TypeOK, Running, Ends
<1>3. OsReleaseKept /\ AnswerIsTrue
  BY DEF Init, OsReleaseKept, AnswerIsTrue
<1>4. identity \notin Attempts /\ pending = {}
  BY <1>1 DEF Init
<1>5. Configured /\ MadeBefore
  BY <1>4 DEF Init, Configured, MadeBefore
<1>6. QED
  BY <1>2, <1>3, <1>5 DEF RegInv

(* Giving up an attempt, or all of them: the next one is made after it. *)
LEMMA RetryCounts ==
  ASSUME attempt \in Attempts, Retry
  PROVE  /\ osRelease' = osRelease
         /\ \/ pc' = "unregister" /\ attempt' \in Attempts /\ attempt' = attempt + 1
            \/ pc' = "failed" /\ attempt' = attempt
  BY MaxAttemptsAssumption DEF Retry, Attempts

(* Every step, of the program or of the daemon, preserves RegInv. *)
LEMMA RegistrationStep == RegInv /\ [Next]_vars => RegInv'
<1> SUFFICES ASSUME RegInv, [Next]_vars PROVE RegInv'
  OBVIOUS
<1> USE MaxAttemptsAssumption
<1> USE DEF RegInv, TypeOK, OsReleaseKept, MadeBefore, Configured, AnswerIsTrue, Attempts,
        Unregistered, Prior, Running, Ends, daemon, settings
<1>1. CASE Unregister
  BY <1>1 DEF Unregister, MayUnregister
<1>2. CASE StopRhsm
  BY <1>2 DEF StopRhsm
<1>3. CASE RestoreOsRelease
  BY <1>3 DEF RestoreOsRelease
<1>4. CASE Call
  <2>1. CASE pc' = "waiting" /\ pending' = pending \cup {attempt}
             /\ UNCHANGED <<attempt, osRelease>>
    BY <1>4, <2>1 DEF Call
  <2>2. CASE Retry /\ UNCHANGED pending
    BY <1>4, <2>2, RetryCounts DEF Call
  <2>3. QED
    BY <1>4, <2>1, <2>2 DEF Call
<1>5. CASE NoReply
  BY <1>5 DEF NoReply
<1>6. CASE SetConnectionOpts
  BY <1>6 DEF SetConnectionOpts
<1>7. CASE CheckRegistered
  BY <1>7 DEF CheckRegistered
<1>8. CASE ShutDownBus
  <2>1. CASE Retry
    BY <1>8, <2>1, RetryCounts DEF ShutDownBus
  <2>2. CASE ~Retry
    BY <1>8, <2>2 DEF ShutDownBus
  <2>3. QED
    BY <2>1, <2>2
<1>9. CASE Attach
  BY <1>9 DEF Attach
<1>10. CASE Restore
  BY <1>10 DEF Restore, MayUnregister
<1>11. CASE Interrupt
  <2>1. CASE pc' = "interrupted" /\ UNCHANGED <<attempt, osRelease>>
    BY <1>11, <2>1 DEF Interrupt
  <2>2. CASE pc \in {"waiting", "config", "check"} /\ Retry
    BY <1>11, <2>2, RetryCounts DEF Interrupt
  <2>3. QED
    BY <1>11, <2>1, <2>2 DEF Interrupt
<1>12. ASSUME NEW n \in Attempts, Register(n) PROVE RegInv'
  BY <1>12 DEF Register
<1>13. ASSUME NEW n \in Attempts, Refuse(n) PROVE RegInv'
  BY <1>13 DEF Refuse
<1>14. CASE UNCHANGED vars
  BY <1>14 DEF vars
<1>15. QED
  BY <1>1, <1>2, <1>3, <1>4, <1>5, <1>6, <1>7, <1>8, <1>9, <1>10, <1>11, <1>12, <1>13, <1>14
  DEF Next, Step

(* The loop never makes more attempts than there are delays for. *)
THEOREM RegistrationTypes == Spec => []TypeOK
<1>1. RegInv => TypeOK
  BY DEF RegInv
<1>2. QED
  BY RegistrationInit, RegistrationStep, <1>1, PTL DEF Spec

(* register_system() returns only with a registered system, and the server   *)
(* of its registration is the one that is asked from then on.                *)
THEOREM SuccessIsRegistered == Spec => []SuccessMeansRegistered
<1>1. RegInv => SuccessMeansRegistered
  BY MaxAttemptsAssumption
  DEF RegInv, SuccessMeansRegistered, AnswerIsTrue, Configured, Server, Attempts, Prior
<1>2. QED
  BY RegistrationInit, RegistrationStep, <1>1, PTL DEF Spec

(* A registration left by an abandoned attempt is looked for at its server.  *)
THEOREM AbandonedAttemptsAreFound == Spec => []RightServerIsAsked
<1>1. RegInv => RightServerIsAsked
  BY MaxAttemptsAssumption
  DEF RegInv, RightServerIsAsked, OsReleaseKept, Configured, Server, Attempts, Prior
<1>2. QED
  BY RegistrationInit, RegistrationStep, <1>1, PTL DEF Spec

(* Every attempt that waits for an answer has the /etc/os-release in place   *)
(* that the server looks at, whatever happened to the attempts before.       *)
THEOREM WaitingFindsOsRelease == Spec => []OsReleaseInPlace
<1>1. RegInv => OsReleaseInPlace
  BY DEF RegInv, OsReleaseInPlace, OsReleaseKept
<1>2. QED
  BY RegistrationInit, RegistrationStep, <1>1, PTL DEF Spec
=============================================================================
