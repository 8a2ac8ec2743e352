----------------------- MODULE BackupController_proofs -----------------------
(***************************************************************************)
(* For any set of changes, files and packages, and whatever fails: the     *)
(* copy of a file that the rollback will put back is the original one, and *)
(* what the rollback does not bring back is what a failure stands for.     *)
(***************************************************************************)
EXTENDS BackupController, TLAPS

(* append() *)
LEMMA Pushed ==
  ASSUME NEW s \in Seq(Objects), NEW o \in Objects
  PROVE  Append(s, o) \in Seq(Objects) /\ ToSet(Append(s, o)) = ToSet(s) \cup {o}
<1>1. Append(s, o) \in Seq(Objects) /\ Len(Append(s, o)) = Len(s) + 1
  OBVIOUS
<1>2. \A i \in 1 .. Len(s) + 1 : Append(s, o)[i] = IF i = Len(s) + 1 THEN o ELSE s[i]
  OBVIOUS
<1>3. DOMAIN s = 1 .. Len(s) /\ DOMAIN Append(s, o) = 1 .. Len(s) + 1 /\ Len(s) \in Nat
  BY <1>1
<1>4. QED
  BY <1>1, <1>2, <1>3 DEF ToSet

(* pop() *)
LEMMA Popped ==
  ASSUME NEW s \in Seq(Objects), s # <<>>
  PROVE  /\ Front(s) \in Seq(Objects) /\ ToSet(Front(s)) \subseteq ToSet(s)
         /\ Last(s) \in ToSet(s) /\ Last(s) \in Objects
<1>1. Len(s) \in Nat \ {0} /\ DOMAIN s = 1 .. Len(s)
  OBVIOUS
<1>2. /\ Front(s) \in Seq(Objects) /\ DOMAIN Front(s) = 1 .. Len(s) - 1
      /\ \A i \in 1 .. Len(s) - 1 : Front(s)[i] = s[i]
  BY <1>1 DEF Front
<1>3. QED
  BY <1>1, <1>2 DEF ToSet, Last

(* Nothing is backed up when the program starts. *)
LEMMA UndoInit == Init => UndoInv
<1> SUFFICES ASSUME Init PROVE UndoInv
  OBVIOUS
<1> USE ObjectsAssumption, InitialAssumption
<1>1. OnStack = {}
  BY DEF Init, OnStack, ToSet
<1>2. TypeOK
  BY DEF Init, TypeOK, Slots, Values
<1>3. QED
  BY <1>1, <1>2 DEF Init, UndoInv, BackupIsPristine, OnePerPath, EnabledIsPushed, CopyHasOwner,
     UnsavedIsUntouched, Slots, None, Unavailable

(* The registration changes with what comes with it, but nobody else's.      *)
LEMMA AltersApart ==
  ASSUME NEW o \in Objects, NEW q \in Objects, Target[q] # Target[o],
         Kind[q] \notin {"auto_attach", "repos"}
  PROVE  Target[q] \notin Alters(o)
<1>1. Owner[Target[q]] = Target[o] => Kind[o] = "package"
  BY TargetsAssumption
<1>2. QED
  BY <1>1 DEF Alters, Owned

(* What enable() does, with the append of push(), whatever the class: only a *)
(* file that is there is copied to BACKUP_DIR, and only the target changes.  *)
EnableEffect(o) ==
  /\ sys' \in [Resources -> Values] /\ saved' \in [Slots -> Values \cup {None, Unavailable}]
  /\ \A r \in Resources : saved'[r] # Unavailable \/ saved[r] = Unavailable
  /\ \/ UNCHANGED <<stack, on>>
     \/ stack' = Append(stack, o) /\ on' \in {on, [on EXCEPT ![o] = TRUE]}
  /\ Kind[o] = "file" =>
       /\ UNCHANGED sys
       /\ \/ UNCHANGED <<saved, on>>
          \/ /\ saved' = [saved EXCEPT ![Target[o]] = sys[Target[o]]]
             /\ sys[Target[o]] # "absent"
             /\ stack' = Append(stack, o) /\ on' = [on EXCEPT ![o] = TRUE]
  /\ Kind[o] # "file" =>
       /\ \A r \in Resources : saved'[r] = saved[r]
       /\ \A r \in Resources \ Alters(o) : sys'[r] = sys[r]
  /\ Kind[o] = "installed" => UNCHANGED sys \/ saved[Target[o]] # None
  /\ unnoticed' \subseteq Slots

(* Every class has this effect. *)
LEMMA EnableHasEffect ==
  ASSUME UndoInv, NEW o \in Objects, Enable(o)
  PROVE  EnableEffect(o)
<1>a. /\ sys \in [Resources -> Values] /\ saved \in [Slots -> Values \cup {None, Unavailable}]
      /\ on \in [Objects -> BOOLEAN] /\ unnoticed \subseteq Slots
  BY DEF UndoInv, TypeOK
<1>b. /\ Target[o] \in Resources /\ Target[o] \in Slots /\ o \in Slots /\ o \notin Resources
      /\ Kind[o] \in Kinds /\ sys[Target[o]] \in Values
  BY <1>a, ObjectsAssumption DEF Slots
<1>c. /\ Resources \subseteq Slots /\ Unavailable \notin Values /\ None # Unavailable
      /\ {"absent", "orig", "changed"} \subseteq Values
  BY DEF Slots, Values, None, Unavailable
<1>d. saved[Target[o]] \in Values \cup {None}
  BY <1>a, <1>b DEF UndoInv, CopyHasOwner
<1> USE <1>a, <1>b, <1>c
<1> USE DEF EnableEffect, Alters, Becomes, Remember, Present, Enabled, EnableRaises, Kinds
<1>1. CASE EnableFile(o) /\ UNCHANGED unnoticed
  BY <1>1 DEF EnableFile
<1>2. CASE EnableMissing(o) /\ UNCHANGED unnoticed
  BY <1>2 DEF EnableMissing
<1>3. CASE EnableInstalled(o) /\ UNCHANGED unnoticed
  BY <1>3, <1>d DEF EnableInstalled
<1>4. CASE EnableKeyOrCert(o) /\ UNCHANGED unnoticed
  BY <1>4 DEF EnableKeyOrCert
<1>5. CASE EnableSubscription(o)
  BY <1>5 DEF EnableSubscription, Register, GoesWithAllItOwns
<1>6. CASE EnableAutoAttach(o) /\ UNCHANGED unnoticed
  BY <1>6 DEF EnableAutoAttach
<1>7. CASE EnableRepos(o)
  BY <1>7 DEF EnableRepos
<1>8. CASE EnablePackage(o)
  BY <1>8 DEF EnablePackage, WithoutBackup, NotAsShipped, Owned
<1>9. CASE EnablePackageSet(o) /\ UNCHANGED unnoticed
  BY <1>9 DEF EnablePackageSet
<1>10. QED
  BY <1>1, <1>2, <1>3, <1>4, <1>5, <1>6, <1>7, <1>8, <1>9 DEF Enable

(* push() *)
LEMMA PushStep ==
  ASSUME UndoInv, NEW o \in Objects, Push(o)
  PROVE  UndoInv'
<1> USE ObjectsAssumption
<1>1. /\ mode = "converting" /\ mode' = mode /\ orig' = orig /\ failures' = failures
      /\ \A q \in OnStack : ~Equal(q, o)
      /\ EnableEffect(o)
  BY EnableHasEffect DEF Push, AlreadyBackedUp
<1>2. /\ stack \in Seq(Objects) /\ stack' \in Seq(Objects) /\ OnStack \subseteq Objects
      /\ \/ stack' = stack /\ OnStack' = OnStack
         \/ stack' = Append(stack, o) /\ OnStack' = OnStack \cup {o}
  <2>1. stack \in Seq(Objects)
    BY DEF UndoInv, TypeOK
  <2>2. stack' = stack \/ stack' = Append(stack, o)
    BY <1>1 DEF EnableEffect
  <2>3. OnStack \subseteq Objects
    BY <2>1 DEF OnStack, ToSet
  <2>4. QED
    BY <2>1, <2>2, <2>3, Pushed DEF OnStack
<1>3. TypeOK'
  BY <1>1, <1>2 DEF UndoInv, TypeOK, EnableEffect
<1>4. o \notin OnStack
  BY <1>1 DEF Equal
<1>5. OnePerPath'
  BY <1>1, <1>2 DEF UndoInv, OnePerPath, Equal
<1>6. on[o] = FALSE
  BY <1>1, <1>4 DEF UndoInv, EnabledIsPushed, TypeOK
<1>7. EnabledIsPushed'
  BY <1>1, <1>2, <1>6 DEF UndoInv, TypeOK, EnabledIsPushed, EnableEffect
<1>8. \A q \in Objects : EnabledFile(q) => EnabledFile(q)'
  BY <1>1, <1>2 DEF UndoInv, TypeOK, EnabledFile, EnableEffect
<1>9. \A r \in Resources : HasBackup(r) => HasBackup(r)'
  BY <1>8 DEF HasBackup
<1>10. CASE Kind[o] = "file" /\ on'[o]
  <2>1. /\ saved' = [saved EXCEPT ![Target[o]] = sys[Target[o]]] /\ UNCHANGED sys
        /\ sys[Target[o]] # "absent" /\ OnStack' = OnStack \cup {o}
        /\ on' = [on EXCEPT ![o] = TRUE]
    BY <1>1, <1>2, <1>4, <1>6, <1>10 DEF EnableEffect
  <2>2. \A q \in OnStack : Kind[q] = "file" => Target[q] # Target[o]
    BY <1>1, <1>10 DEF Equal
  <2>3. ~HasBackup(Target[o])
    BY <2>2 DEF HasBackup, EnabledFile
  <2>4. sys[Target[o]] = orig[Target[o]]
    BY <1>1, <1>10, <2>1, <2>3 DEF UndoInv, UnsavedIsUntouched
  <2>5. Target[o] \in Resources /\ Target[o] \in Slots /\ \A q \in Objects : Target[q] \in Slots
    BY DEF Slots
  <2>6. HasBackup(Target[o])'
    BY <1>10, <2>1 DEF HasBackup, EnabledFile
  <2>7. BackupIsPristine'
    BY <1>1, <2>1, <2>2, <2>4, <2>5 DEF UndoInv, TypeOK, BackupIsPristine
  <2>8. CopyHasOwner'
    BY <1>1, <1>9, <2>1, <2>5, <2>6 DEF UndoInv, TypeOK, CopyHasOwner, Values, Unavailable, Slots
  <2>9. UnsavedIsUntouched'
    BY <1>1, <1>9, <2>1 DEF UndoInv, UnsavedIsUntouched
  <2>10. QED
    BY <1>3, <1>5, <1>7, <2>7, <2>8, <2>9 DEF UndoInv
<1>11. CASE Kind[o] = "file" /\ ~on'[o]
  <2>1. UNCHANGED <<sys, saved, on>>
    BY <1>1, <1>11 DEF EnableEffect, UndoInv, TypeOK
  <2>2. BackupIsPristine'
    BY <1>1, <1>2, <1>11, <2>1 DEF UndoInv, BackupIsPristine
  <2>3. CopyHasOwner' /\ UnsavedIsUntouched'
    BY <1>1, <1>9, <2>1 DEF UndoInv, CopyHasOwner, UnsavedIsUntouched
  <2>4. QED
    BY <1>3, <1>5, <1>7, <2>2, <2>3 DEF UndoInv
<1>12. CASE Kind[o] # "file"
  <2>1. \A r \in Resources : saved'[r] = saved[r]
    BY <1>1, <1>12 DEF EnableEffect
  <2>2. \A q \in Objects : q # o => on'[q] = on[q]
    BY <1>1 DEF EnableEffect, UndoInv, TypeOK
  <2>3. BackupIsPristine'
    BY <1>1, <1>2, <1>12, <2>1, <2>2 DEF UndoInv, BackupIsPristine
  <2>4. CopyHasOwner'
    BY <1>1, <1>9, <2>1 DEF UndoInv, CopyHasOwner
  <2>5. ASSUME NEW q \in Objects, Kind[q] = "file", ~HasBackup(Target[q])'
        PROVE  sys'[Target[q]] = sys[Target[q]]
    <3>1. CASE Target[q] # Target[o]
      BY <1>1, <1>12, <2>5, <3>1, AltersApart DEF EnableEffect
    <3>2. CASE Target[q] = Target[o]
      <4>1. Kind[o] = "installed"
        BY <1>12, <2>5, <3>2, TargetsAssumption
      <4>2. saved[Target[o]] = None
        BY <1>1, <1>9, <2>5, <3>2 DEF UndoInv, CopyHasOwner
      <4>3. QED
        BY <1>1, <4>1, <4>2 DEF EnableEffect
    <3>3. QED
      BY <3>1, <3>2
  <2>6. UnsavedIsUntouched'
    BY <1>1, <1>9, <2>5 DEF UndoInv, UnsavedIsUntouched
  <2>7. QED
    BY <1>3, <1>5, <1>7, <2>3, <2>4, <2>6 DEF UndoInv
<1>13. QED
  BY <1>10, <1>11, <1>12

(* What the Actions do once a change is pushed: a file without a backup can  *)
(* only be removed, with its package.                                        *)
LEMMA ConvertingStep ==
  ASSUME UndoInv, NEW o \in Objects,
         RemovePackage(o) \/ ChangeFile(o) \/ RestoreForConversion(o) \/ EnableRhelRepos(o)
  PROVE  UndoInv'
<1> USE ObjectsAssumption
<1>1. UNCHANGED <<orig, saved, on, stack, failures, unnoticed, mode>>
  BY DEF RemovePackage, ChangeFile, RestoreForConversion, EnableRhelRepos, Converting
<1>2. OnStack' = OnStack
  BY <1>1 DEF OnStack
<1>3. sys' \in [Resources -> Values]
  <2>1. /\ sys \in [Resources -> Values] /\ orig \in [Resources -> {"absent", "orig"}]
        /\ Target[o] \in Resources
    BY InitialAssumption DEF UndoInv, TypeOK
  <2>2. CASE RemovePackage(o)
    BY <2>1, <2>2 DEF RemovePackage, GoesWithAllItOwns, Values
  <2>3. CASE ChangeFile(o)
    BY <2>1, <2>3 DEF ChangeFile, Becomes, Values
  <2>4. CASE RestoreForConversion(o)
    <3>1. saved[Target[o]] = orig[Target[o]]
      BY <2>4 DEF RestoreForConversion, UndoInv, BackupIsPristine
    <3>2. QED
      BY <2>1, <2>4, <3>1 DEF RestoreForConversion, Becomes, Values
  <2>5. CASE EnableRhelRepos(o)
    BY <2>1, <2>5 DEF EnableRhelRepos, Becomes, Values
  <2>6. QED
    BY <2>2, <2>3, <2>4, <2>5
<1>4. \A r \in Resources : HasBackup(r)' <=> HasBackup(r)
  BY <1>1, <1>2 DEF HasBackup, EnabledFile
<1>5. ASSUME NEW q \in Objects, Kind[q] = "file", ~HasBackup(Target[q])
      PROVE  sys'[Target[q]] \in {sys[Target[q]], "absent"}
  <2>1. sys \in [Resources -> Values] /\ Target[q] \in Resources /\ Target[o] \in Resources
    BY DEF UndoInv, TypeOK
  <2>2. CASE RemovePackage(o)
    BY <2>1, <2>2 DEF RemovePackage, GoesWithAllItOwns
  <2>3. Kind[o] = "file" /\ o \in OnStack /\ on[o] => Target[q] # Target[o]
    BY <1>5 DEF HasBackup, EnabledFile
  <2>4. Kind[o] \in {"missing", "repos"} => Target[q] # Target[o]
    BY <1>5, TargetsAssumption
  <2>5. CASE ChangeFile(o)
    BY <2>1, <2>3, <2>4, <2>5 DEF ChangeFile, Becomes
  <2>6. CASE RestoreForConversion(o)
    BY <2>1, <2>3, <2>6 DEF RestoreForConversion, Becomes
  <2>7. CASE EnableRhelRepos(o)
    BY <2>1, <2>4, <2>7 DEF EnableRhelRepos, Becomes
  <2>8. QED
    BY <2>2, <2>5, <2>6, <2>7
<1>6. TypeOK'
  BY <1>1, <1>3 DEF UndoInv, TypeOK
<1>7. BackupIsPristine' /\ OnePerPath' /\ EnabledIsPushed'
  BY <1>1, <1>2 DEF UndoInv, BackupIsPristine, OnePerPath, EnabledIsPushed
<1>8. CopyHasOwner'
  BY <1>1, <1>4 DEF UndoInv, CopyHasOwner
<1>9. UnsavedIsUntouched'
  BY <1>1, <1>4, <1>5 DEF UndoInv, UnsavedIsUntouched
<1>10. QED
  BY <1>6, <1>7, <1>8, <1>9 DEF UndoInv

(* What restore() does, whatever the class: a file's copy is used up only    *)
(* with the object that made it.                                             *)
RestoreEffect(o) ==
  /\ sys' \in [Resources -> Values]
  /\ \/ saved' = saved /\ on' \in {on, [on EXCEPT ![o] = FALSE]}
     \/ /\ Kind[o] = "file"
        /\ saved' = [saved EXCEPT ![Target[o]] = None] /\ on' = [on EXCEPT ![o] = FALSE]
  /\ failures' \in {failures, failures \cup {o}}
  /\ unnoticed' \in {unnoticed, unnoticed \cup {o}}

(* Every class has this effect. *)
LEMMA RestoreHasEffect ==
  ASSUME UndoInv, NEW o \in Objects, Restore(o)
  PROVE  RestoreEffect(o)
<1>a. /\ sys \in [Resources -> Values] /\ saved \in [Slots -> Values \cup {None, Unavailable}]
      /\ on \in [Objects -> BOOLEAN]
  BY DEF UndoInv, TypeOK
<1>b. Target[o] \in Resources /\ Target[o] \in Slots
  BY ObjectsAssumption DEF Slots
<1>c. {"absent", "orig", "changed"} \subseteq Values
  BY DEF Values
<1>d. saved[Target[o]] \in Values \cup {None}
  BY <1>a, <1>b DEF UndoInv, CopyHasOwner
<1> USE <1>a, <1>b, <1>c
<1> USE DEF RestoreEffect, Becomes, Remember, Present, Disabled, Survived, RestoreRaises,
            Recorded, OnlyLogged
<1>1. CASE RestoreFile(o)
  BY <1>1, <1>d DEF RestoreFile
<1>2. CASE RestoreNewFile(o)
  BY <1>2 DEF RestoreNewFile
<1>3. CASE RestoreKey(o)
  BY <1>3 DEF RestoreKey
<1>4. CASE RestoreCert(o)
  BY <1>4 DEF RestoreCert
<1>5. CASE RestoreSubscription(o)
  BY <1>5 DEF RestoreSubscription, GoesWithAllItOwns
<1>6. CASE RestoreAutoAttach(o)
  BY <1>6 DEF RestoreAutoAttach
<1>7. CASE RestoreRepos(o)
  BY <1>7 DEF RestoreRepos
<1>8. CASE RestorePackage(o)
  BY <1>8 DEF RestorePackage, Reinstall, AsShipped
<1>9. CASE RestorePackageSet(o)
  BY <1>9 DEF RestorePackageSet
<1>10. QED
  BY <1>1, <1>2, <1>3, <1>4, <1>5, <1>6, <1>7, <1>8, <1>9 DEF Restore

(* One turn of pop_all() *)
LEMMA PopStep == UndoInv /\ PopAndRestore => UndoInv'
<1> SUFFICES ASSUME UndoInv, PopAndRestore PROVE UndoInv'
  OBVIOUS
<1> DEFINE o == Last(stack)
<1> USE ObjectsAssumption
<1>1. /\ stack \in Seq(Objects) /\ stack # <<>> /\ stack' = Front(stack)
      /\ orig' = orig /\ mode' \in {"rollback", "restored"} /\ Restore(o)
  BY DEF PopAndRestore, UndoInv, TypeOK
<1>2. /\ stack' \in Seq(Objects) /\ OnStack' \subseteq OnStack
      /\ o \in Objects /\ o \in OnStack /\ OnStack \subseteq Objects
  <2>1. OnStack \subseteq Objects
    BY <1>1 DEF OnStack, ToSet
  <2>2. QED
    BY <1>1, <2>1, Popped DEF OnStack
<1> HIDE DEF o
<1>3. RestoreEffect(o)
  BY <1>1, <1>2, RestoreHasEffect
<1>4. TypeOK'
  <2>1. failures' \subseteq Objects /\ unnoticed' \subseteq Slots
    BY <1>2, <1>3 DEF UndoInv, TypeOK, RestoreEffect, Slots
  <2>2. saved' \in [Slots -> Values \cup {None, Unavailable}] /\ on' \in [Objects -> BOOLEAN]
    BY <1>2, <1>3 DEF UndoInv, TypeOK, RestoreEffect
  <2>3. QED
    BY <1>1, <1>2, <1>3, <2>1, <2>2 DEF UndoInv, TypeOK, RestoreEffect
<1>5. OnePerPath'
  BY <1>2 DEF UndoInv, OnePerPath, Equal
<1>6. EnabledIsPushed' /\ UnsavedIsUntouched'
  BY <1>1 DEF EnabledIsPushed, UnsavedIsUntouched
<1>7. ASSUME NEW q \in OnStack', Kind[q] = "file", on'[q]
      PROVE  saved'[Target[q]] = orig'[Target[q]]
  <2>1. q \in OnStack /\ q \in Objects /\ on[q]
    BY <1>2, <1>3, <1>7 DEF RestoreEffect, UndoInv, TypeOK
  <2>2. saved[Target[q]] = orig[Target[q]]
    BY <1>7, <2>1 DEF UndoInv, BackupIsPristine
  <2>3. CASE saved' = saved
    BY <1>1, <2>2, <2>3
  <2>4. CASE saved' # saved
    <3>1. /\ Kind[o] = "file" /\ saved' = [saved EXCEPT ![Target[o]] = None]
          /\ on' = [on EXCEPT ![o] = FALSE]
      BY <1>3, <2>4 DEF RestoreEffect
    <3>2. q # o
      BY <1>2, <1>7, <3>1 DEF UndoInv, TypeOK
    <3>3. Target[q] # Target[o]
      BY <1>2, <1>7, <2>1, <3>1, <3>2 DEF UndoInv, OnePerPath, Equal
    <3>4. Target[q] \in Slots /\ Target[o] \in Slots
      BY <1>2, <2>1 DEF Slots
    <3>5. QED
      BY <1>1, <2>2, <3>1, <3>3, <3>4 DEF UndoInv, TypeOK
  <2>5. QED
    BY <2>3, <2>4
<1>8. CopyHasOwner'
  <2>1. \A r \in Resources : saved'[r] \in {saved[r], None}
    BY <1>2, <1>3 DEF RestoreEffect, UndoInv, TypeOK, Slots
  <2>2. QED
    BY <1>1, <2>1 DEF UndoInv, CopyHasOwner, None, Unavailable
<1>9. QED
  BY <1>4, <1>5, <1>6, <1>7, <1>8 DEF UndoInv, BackupIsPristine

(* Every step, of the conversion or of the rollback, preserves UndoInv. *)
LEMMA UndoStep == UndoInv /\ [Next]_vars => UndoInv'
<1> SUFFICES ASSUME UndoInv, [Next]_vars PROVE UndoInv'
  OBVIOUS
<1>1. CASE StartRollback
  <2>1. UNCHANGED <<sys, orig, saved, on, stack, failures, unnoticed>> /\ mode' \in {"restored", "rollback"}
    BY <1>1 DEF StartRollback
  <2>2. OnStack' = OnStack
    BY <2>1 DEF OnStack
  <2>3. QED
    BY <2>1, <2>2 DEF UndoInv, TypeOK, BackupIsPristine, OnePerPath, EnabledIsPushed,
       CopyHasOwner, UnsavedIsUntouched
<1>2. CASE InterruptRollback
  <2>1. /\ UNCHANGED <<sys, orig, saved, on, failures, unnoticed>> /\ mode' = "interrupted"
        /\ stack' = Front(stack) /\ stack # <<>> /\ stack \in Seq(Objects)
    BY <1>2 DEF InterruptRollback, UndoInv, TypeOK
  <2>2. stack' \in Seq(Objects) /\ OnStack' \subseteq OnStack
    BY <2>1, Popped DEF OnStack
  <2>3. QED
    BY <2>1, <2>2 DEF UndoInv, TypeOK, BackupIsPristine, OnePerPath, EnabledIsPushed,
       CopyHasOwner, UnsavedIsUntouched
<1>3. CASE UNCHANGED vars
  <2>1. UNCHANGED <<sys, orig, saved, on, stack, failures, unnoticed, mode>> /\ OnStack' = OnStack
    BY <1>3 DEF vars, OnStack
  <2>2. \A r : HasBackup(r)' <=> HasBackup(r)
    BY <2>1 DEF HasBackup, EnabledFile
  <2>3. QED
    BY <2>1, <2>2 DEF UndoInv, TypeOK, BackupIsPristine, OnePerPath, EnabledIsPushed,
       CopyHasOwner, UnsavedIsUntouched
<1>4. QED
  BY <1>1, <1>2, <1>3, PushStep, ConvertingStep, PopStep DEF Next

(* The undo log never mixes up what it keeps: the states are well formed.   *)
THEOREM BackupTypes == Spec => []TypeOK
<1>1. UndoInv => TypeOK
  BY DEF UndoInv
<1>2. QED
  BY UndoInit, UndoStep, <1>1, PTL DEF Spec

(* From the push of a RestorableFile to its restore, its copy in BACKUP_DIR  *)
(* is the original file, also when its path is pushed again, the file is     *)
(* edited, removed with its package or put back in between.                  *)
THEOREM BackupsArePristine == Spec => []BackupIsPristine
<1>1. UndoInv => BackupIsPristine
  BY DEF UndoInv
<1>2. QED
  BY UndoInit, UndoStep, <1>1, PTL DEF Spec
-----------------------------------------------------------------------------
(* ToSet(), by positions. *)
LEMMA OnStackAt ==
  ASSUME NEW s \in Seq(Objects), NEW x
  PROVE  x \in ToSet(s) <=> \E i \in 1 .. Len(s) : s[i] = x
<1>1. DOMAIN s = 1 .. Len(s)
  OBVIOUS
<1>2. QED
  BY <1>1 DEF ToSet

(* An effect on a resource that an object does not reach, and the failures   *)
(* that are known, stay.                                                     *)
LEMMA SpoiltStays ==
  ASSUME failures \subseteq failures', unnoticed \subseteq unnoticed', NEW r, Spoilt(r)
  PROVE  Spoilt(r)'
BY DEF Spoilt, Touches, Owned

(* A resource that comes with no other is in the reach of its own object.    *)
LEMMA ReachApart ==
  ASSUME NEW o \in Objects, NEW q \in Objects, o # q,
         Kind[q] \notin {"file", "missing", "installed", "auto_attach", "repos"}
  PROVE  Target[q] \notin Reach(o)
<1>1. Target[q] # Target[o]
  BY TargetsAssumption
<1>2. Target[q] \notin Owned(Target[o])
  <2>1. Owner[Target[q]] = NoOwner
    BY TargetsAssumption
  <2>2. QED
    BY <2>1, ObjectsAssumption DEF Owned
<1>3. QED
  BY <1>1, <1>2 DEF Reach, Alters

LEMMA SubMgrApart ==
  ASSUME NEW o \in Objects, Target[o] # SubMgr
  PROVE  SubMgr \notin Reach(o)
BY SubMgrAssumption, ObjectsAssumption DEF Reach, Alters, Owned

(* No package owns a package. *)
LEMMA OwnedApart ==
  ASSUME NEW o \in Objects, Kind[o] = "package"
  PROVE  Target[o] \notin Owned(Target[o])
BY TargetsAssumption, ObjectsAssumption DEF Owned

LEMMA TouchesReach ==
  ASSUME NEW o \in Objects
  PROVE  /\ Reach(o) \subseteq Touches(o) /\ Reach(o) \subseteq Resources
         /\ Target[o] \in Alters(o) /\ Alters(o) \subseteq Reach(o)
BY ObjectsAssumption DEF Reach, Alters, Touches, Owned

LEMMA RestoreInit == Init => RestoreInv
<1> SUFFICES ASSUME Init PROVE RestoreInv
  OBVIOUS
<1>1. UndoInv
  BY UndoInit
<1>2. stack = <<>> /\ sys = orig /\ mode = "converting" /\ Len(stack) = 0
  BY DEF Init
<1>3. OnStack = {}
  BY <1>2 DEF OnStack, ToSet
<1>4. OnlyOnce /\ AllSupported
  BY <1>2 DEF OnlyOnce, AllSupported
<1>5. NothingLost
  BY <1>2 DEF NothingLost
<1>6. AllWellPushed /\ NotEnabled
  BY <1>3 DEF AllWellPushed, NotEnabled
<1>7. QED
  BY <1>1, <1>2, <1>4, <1>5, <1>6 DEF RestoreInv

(* What the Actions do between the pushes stays within the reach of an       *)
(* enabled object, or of one that is known not to be.                        *)
LEMMA ConvertingReach ==
  ASSUME RestoreInv, NEW o \in Objects,
         RemovePackage(o) \/ ChangeFile(o) \/ RestoreForConversion(o) \/ EnableRhelRepos(o)
  PROVE  /\ o \in OnStack /\ Kind[o] \in {"package", "file", "missing", "repos"}
         /\ on[o] \/ o \in unnoticed
         /\ \A r \in Resources : r # Target[o] =>
              sys'[r] = sys[r] \/ (r \in Reach(o) /\ sys'[r] = "absent")
         /\ mode = "converting"
         /\ UNCHANGED <<orig, saved, on, stack, failures, unnoticed, mode>>
<1> USE ObjectsAssumption
<1>1. UNCHANGED <<orig, saved, on, stack, failures, unnoticed, mode>> /\ mode = "converting"
  BY DEF RemovePackage, ChangeFile, RestoreForConversion, EnableRhelRepos, Converting
<1>2. sys \in [Resources -> Values] /\ Target[o] \in Resources
  BY DEF RestoreInv, UndoInv, TypeOK
<1>3. o \in OnStack => WellPushed(o)
  BY <1>1 DEF RestoreInv, AllWellPushed
<1>4. CASE RemovePackage(o)
  <2>1. o \in OnStack /\ (on[o] \/ o \in unnoticed) /\ Kind[o] = "package"
    BY <1>3, <1>4 DEF RemovePackage, WellPushed
  <2>2. QED
    BY <1>1, <1>2, <1>4, <2>1 DEF RemovePackage, GoesWithAllItOwns, Reach
<1>5. CASE ChangeFile(o)
  BY <1>1, <1>2, <1>5 DEF ChangeFile, Becomes
<1>6. CASE RestoreForConversion(o)
  BY <1>1, <1>2, <1>6 DEF RestoreForConversion, Becomes
<1>7. CASE EnableRhelRepos(o)
  <2>1. o \in OnStack /\ on[o] /\ Kind[o] = "repos"
    BY <1>3, <1>7 DEF EnableRhelRepos, WellPushed
  <2>2. QED
    BY <1>1, <1>2, <1>7, <2>1 DEF EnableRhelRepos, Becomes
<1>8. QED
  BY <1>4, <1>5, <1>6, <1>7

(* So they leave the way back as it is. *)
LEMMA ConvertingKeeps ==
  ASSUME RestoreInv, NEW o \in Objects,
         RemovePackage(o) \/ ChangeFile(o) \/ RestoreForConversion(o) \/ EnableRhelRepos(o)
  PROVE  RestoreInv'
<1>1. UndoInv'
  BY ConvertingStep DEF RestoreInv
<1>2. /\ o \in OnStack /\ Kind[o] \in {"package", "file", "missing", "repos"}
      /\ on[o] \/ o \in unnoticed
      /\ \A r \in Resources : r # Target[o] =>
           sys'[r] = sys[r] \/ (r \in Reach(o) /\ sys'[r] = "absent")
      /\ mode = "converting"
      /\ UNCHANGED <<orig, saved, on, stack, failures, unnoticed, mode>>
  BY ConvertingReach
<1>3. /\ OnStack' = OnStack /\ OnStack \subseteq Objects
      /\ \A r : Spoilt(r)' <=> Spoilt(r)
      /\ \A n : EnabledBelow(n)' = EnabledBelow(n)
      /\ Target[o] \in Resources /\ stack \in Seq(Objects)
  <2>1. stack \in Seq(Objects)
    BY DEF RestoreInv, UndoInv, TypeOK
  <2>2. OnStack' = OnStack /\ OnStack \subseteq Objects
    BY <1>2, <2>1, OnStackAt DEF OnStack
  <2>3. QED
    BY <1>2, <2>1, <2>2, ObjectsAssumption DEF Spoilt, EnabledBelow
<1>4. OnlyOnce' /\ NotEnabled'
  BY <1>2, <1>3 DEF RestoreInv, OnlyOnce, NotEnabled
<1>5. NothingLost'
  <2>1. /\ Target[o] \in Alters(o) /\ Alters(o) \subseteq Reach(o)
        /\ Reach(o) \subseteq Touches(o)
    BY TouchesReach
  <2>2. SUFFICES ASSUME NEW r \in Resources, ~Spoilt(r)
        PROVE  /\ sys'[r] = orig[r] \/ \E q \in OnStack : on[q] /\ r \in Reach(q)
               /\ \/ sys'[r] \in {orig[r], "absent"}
                  \/ \E q \in OnStack : on[q] /\ r \in Alters(q)
    BY <1>2, <1>3 DEF NothingLost
  <2>a. r \in Reach(o) => on[o]
    BY <1>2, <2>1, <2>2 DEF Spoilt
  <2>3. CASE r = Target[o]
    BY <1>2, <2>1, <2>3, <2>a
  <2>4. CASE r # Target[o] /\ r \in Reach(o) /\ sys'[r] = "absent"
    BY <1>2, <2>4, <2>a
  <2>5. CASE sys'[r] = sys[r]
    BY <1>2, <2>2, <2>5 DEF RestoreInv, NothingLost
  <2>6. QED
    BY <1>2, <2>3, <2>4, <2>5
<1>6. AllWellPushed'
  <2>1. SUFFICES ASSUME NEW q \in OnStack PROVE WellPushed(q)'
    BY <1>3 DEF AllWellPushed
  <2>2. WellPushed(q) /\ q \in Objects
    BY <1>2, <1>3 DEF RestoreInv, AllWellPushed
  <2>3. Kind[q] \in {"key", "cert"} => sys'[Target[q]] = sys[Target[q]]
    BY <1>2, <2>2, ReachApart, TouchesReach
  <2>4. QED
    BY <1>2, <1>3, <2>2, <2>3 DEF WellPushed
<1>7. AllSupported'
  <2>1. SUFFICES ASSUME NEW i \in 1 .. Len(stack) PROVE Supported(i)'
    BY <1>2 DEF AllSupported
  <2>2. Supported(i)
    BY <1>2 DEF RestoreInv, AllSupported
  <2>3. Target[o] # SubMgr
    BY <1>2, SubMgrAssumption
  <2>4. sys'[SubMgr] = sys[SubMgr]
    BY <1>2, <2>3, SubMgrApart, ObjectsAssumption
  <2>5. QED
    BY <1>2, <1>3, <2>2, <2>4 DEF Supported, BackedUpBelow, Present, Owned, Reach, Alters
<1>8. QED
  BY <1>1, <1>2, <1>4, <1>5, <1>6, <1>7 DEF RestoreInv

(* Front(), by positions. *)
LEMMA FrontAt ==
  ASSUME NEW s \in Seq(Objects), s # <<>>
  PROVE  /\ Len(s) \in Nat \ {0} /\ Len(Front(s)) = Len(s) - 1 /\ Last(s) = s[Len(s)]
         /\ \A i \in 1 .. Len(s) - 1 : Front(s)[i] = s[i]
<1>1. Len(s) \in Nat \ {0}
  OBVIOUS
<1>2. /\ Front(s) \in Seq(Objects) /\ DOMAIN Front(s) = 1 .. Len(s) - 1
      /\ \A i \in 1 .. Len(s) - 1 : Front(s)[i] = s[i]
  BY <1>1 DEF Front
<1>3. Len(Front(s)) = Len(s) - 1
  BY <1>1, <1>2
<1>4. QED
  BY <1>1, <1>2, <1>3 DEF Last

(* The start of the rollback, Ctrl-C and the end of the program. *)
LEMMA OtherKeeps ==
  ASSUME RestoreInv, StartRollback \/ InterruptRollback \/ UNCHANGED vars
  PROVE  RestoreInv'
<1>1. UndoInv'
  BY UndoStep DEF RestoreInv, Next
<1>2. stack \in Seq(Objects) /\ mode \in {"converting", "rollback", "restored", "interrupted"}
  BY DEF RestoreInv, UndoInv, TypeOK
<1>3. CASE InterruptRollback
  <2>1. mode' = "interrupted" /\ stack' = Front(stack) /\ stack # <<>>
    BY <1>3 DEF InterruptRollback
  <2>2. OnlyOnce'
    BY <1>2, <2>1, FrontAt DEF RestoreInv, OnlyOnce
  <2>3. QED
    BY <1>1, <2>1, <2>2 DEF RestoreInv, NothingLost, AllWellPushed, AllSupported, NotEnabled
<1>4. CASE StartRollback \/ UNCHANGED vars
  <2>1. /\ UNCHANGED <<sys, orig, saved, on, stack, failures, unnoticed>>
        /\ mode' = mode \/ (mode = "converting" /\ mode' = IF stack = <<>> THEN "restored" ELSE "rollback")
    BY <1>4 DEF StartRollback, vars
  <2>2. /\ OnStack' = OnStack /\ \A r : Spoilt(r)' <=> Spoilt(r)
        /\ \A n : EnabledBelow(n)' = EnabledBelow(n)
    BY <2>1 DEF OnStack, Spoilt, EnabledBelow
  <2>3. /\ mode' # "interrupted" => mode # "interrupted"
        /\ mode' = "converting" => mode = "converting"
        /\ mode' = "restored" => stack = <<>>
    BY <1>2, <2>1 DEF RestoreInv
  <2>4. \A o \in OnStack : WellPushed(o)' <=> WellPushed(o)
    BY <2>1, <2>2 DEF WellPushed
  <2>5. \A i \in 1 .. Len(stack) : Supported(i)' <=> Supported(i)
    BY <2>1, <2>2 DEF Supported, BackedUpBelow, Present
  <2>6. OnlyOnce' /\ NothingLost' /\ NotEnabled'
    BY <2>1, <2>2, <2>3 DEF RestoreInv, OnlyOnce, NothingLost, NotEnabled
  <2>7. AllWellPushed' /\ AllSupported'
    BY <2>1, <2>2, <2>3, <2>4, <2>5 DEF RestoreInv, AllWellPushed, AllSupported
  <2>8. QED
    BY <1>1, <2>1, <2>3, <2>6, <2>7 DEF RestoreInv
<1>5. QED
  BY <1>3, <1>4

(* What a restore() that is not known to have failed leaves of the resources *)
(* that its object reaches.                                                  *)
Outcome(o) ==
  /\ Kind[o] \in {"file", "missing"} /\ ~on[o] => sys' = sys
  /\ Kind[o] = "file" /\ on[o] => sys'[Target[o]] = orig[Target[o]]
  /\ Kind[o] \in {"missing", "installed"} /\ on[o] => sys'[Target[o]] = "absent"
  /\ Kind[o] \in {"key", "cert", "auto_attach", "package", "package_set"} =>
       Spoilt(Target[o]) \/ sys'[Target[o]] = orig[Target[o]]
  /\ Kind[o] = "repos" /\ saved[o] = "orig" => sys'[Target[o]] = "orig"
  /\ Kind[o] = "subscription" => \A r \in Reach(o) : sys'[r] = orig[r]
  /\ Kind[o] = "package" =>
       \A r \in Owned(Target[o]) : sys'[r] = AsShipped(r) \/ (Present(r) /\ sys'[r] = sys[r])

RestoreOutcome(o) ==
  /\ failures \subseteq failures' /\ unnoticed \subseteq unnoticed'
  /\ \A q \in Objects \ {o} : on'[q] = on[q] /\ saved'[q] = saved[q]
  /\ \A r \in Resources \ Reach(o) : sys'[r] = sys[r]
  /\ o \in failures' \cup unnoticed' \/ Outcome(o)

LEMMA RestoreHasOutcome ==
  ASSUME RestoreInv, mode = "rollback", NEW o \in OnStack, Restore(o),
         Kind[o] \in {"subscription", "auto_attach", "repos"} => Present(SubMgr)
  PROVE  RestoreOutcome(o)
<1>a. /\ sys \in [Resources -> Values] /\ saved \in [Slots -> Values \cup {None, Unavailable}]
      /\ on \in [Objects -> BOOLEAN] /\ orig \in Initial /\ stack \in Seq(Objects)
  BY DEF RestoreInv, UndoInv, TypeOK
<1>b. o \in Objects
  BY <1>a, OnStackAt DEF OnStack
<1>c. /\ Target[o] \in Resources /\ Objects \subseteq Slots /\ Target[o] \in Slots
      /\ \A q \in Objects : q # Target[o]
  BY <1>b, ObjectsAssumption DEF Slots
<1>d. WellPushed(o)
  BY DEF RestoreInv, AllWellPushed
<1>e. /\ Kind[o] = "package" => orig[Target[o]] = "orig"
      /\ Kind[o] = "auto_attach" => orig[Target[o]] = "absent"
      /\ Kind[o] = "subscription" /\ orig[Target[o]] = "absent" =>
           \A r \in Resources : Owner[r] = Target[o] => orig[r] = "absent"
      /\ orig[Target[o]] \in {"absent", "orig"}
  BY <1>a, <1>c, <1>d, MakesAssumption, InitialAssumption DEF WellPushed
<1>f. Target[o] \in Reach(o) /\ Reach(o) \subseteq Resources /\ Alters(o) \subseteq Reach(o)
  BY <1>b, TouchesReach
<1>g. Kind[o] = "file" /\ on[o] => saved[Target[o]] = orig[Target[o]]
  BY DEF RestoreInv, UndoInv, BackupIsPristine
<1> USE <1>a, <1>b, <1>c, <1>d, <1>f
<1> USE DEF RestoreOutcome, Outcome, Becomes, Remember, Disabled, Survived, RestoreRaises,
            Recorded, OnlyLogged
<1>1. CASE RestoreFile(o)
  BY <1>1, <1>g DEF RestoreFile
<1>2. CASE RestoreNewFile(o)
  BY <1>2 DEF RestoreNewFile, Present, WellPushed
<1>3. CASE RestoreKey(o)
  BY <1>3, <1>e DEF RestoreKey, WellPushed
<1>4. CASE RestoreCert(o)
  BY <1>4, <1>e DEF RestoreCert, WellPushed
<1>5. CASE RestoreSubscription(o)
  <2>1. Kind[o] = "subscription" /\ on[o] /\ UNCHANGED saved /\ Disabled(o)
    BY <1>5 DEF RestoreSubscription, WellPushed
  <2>2. Reach(o) = {Target[o]} \cup Owned(Target[o])
    BY <2>1 DEF Reach, Alters
  <2>3. CASE GoesWithAllItOwns(Target[o]) /\ Survived
    <3>1. /\ \A r \in Reach(o) : sys'[r] = "absent"
          /\ \A r \in Resources \ Reach(o) : sys'[r] = sys[r]
      BY <2>2, <2>3 DEF GoesWithAllItOwns
    <3>2. o \in unnoticed \/ \A r \in Reach(o) : orig[r] = "absent"
      BY <1>e, <2>1, <2>2 DEF WellPushed, Owned
    <3>3. QED
      BY <2>1, <2>3, <3>1, <3>2
  <2>4. CASE OnlyLogged(o) /\ UNCHANGED sys
    BY <2>1, <2>4
  <2>5. QED
    BY <1>5, <2>1, <2>3, <2>4 DEF RestoreSubscription
<1>6. CASE RestoreAutoAttach(o)
  BY <1>6, <1>e DEF RestoreAutoAttach, WellPushed
<1>7. CASE RestoreRepos(o)
  BY <1>7, <1>e DEF RestoreRepos, WellPushed
<1>8. CASE RestorePackage(o) /\ on[o]
  <2>1. Kind[o] = "package" /\ on[o] /\ saved[o] \in {"orig", Unavailable} /\ UNCHANGED saved
        /\ "orig" # Unavailable
    BY <1>8 DEF RestorePackage, WellPushed, Unavailable
  <2>2. Reach(o) = {Target[o]} \cup Owned(Target[o]) /\ Target[o] \notin Owned(Target[o])
        /\ Owned(Target[o]) \subseteq Resources
    BY <2>1, OwnedApart, ObjectsAssumption DEF Reach, Alters, Owned
  <2>3. CASE Reinstall(Target[o]) /\ Disabled(o) /\ Survived
    <3>1. PICK kept \in SUBSET {r \in Owned(Target[o]) : Present(r)} :
            sys' = [r \in Resources |->
                      IF r = Target[o] THEN "orig"
                      ELSE IF r \in Owned(Target[o]) \ kept THEN AsShipped(r) ELSE sys[r]]
      BY <2>3 DEF Reinstall
    <3>2. sys'[Target[o]] = "orig" /\ \A r \in Resources \ Reach(o) : sys'[r] = sys[r]
      BY <2>2, <3>1
    <3>3. \A r \in Owned(Target[o]) : sys'[r] = AsShipped(r) \/ (Present(r) /\ sys'[r] = sys[r])
      BY <2>2, <3>1
    <3>4. QED
      BY <1>e, <2>1, <2>3, <3>2, <3>3
  <2>4. CASE Recorded(o) /\ UNCHANGED <<sys, on>>
    BY <2>1, <2>4
  <2>5. QED
    BY <1>8, <2>1, <2>3, <2>4 DEF RestorePackage
<1>9. CASE RestorePackageSet(o)
  BY <1>9 DEF RestorePackageSet, WellPushed
<1>10. CASE RestorePackage(o) /\ ~on[o]
  <2>1. o \in unnoticed /\ Survived /\ UNCHANGED <<sys, on, saved>>
    BY <1>10 DEF RestorePackage, WellPushed
  <2>2. QED
    BY <2>1
<1>11. QED
  BY <1>1, <1>2, <1>3, <1>4, <1>5, <1>6, <1>7, <1>8, <1>9, <1>10 DEF Restore

(* One turn of pop_all() *)
LEMMA PopKeeps ==
  ASSUME RestoreInv, PopAndRestore
  PROVE  RestoreInv'
<1> DEFINE o == Last(stack)
           n == Len(stack)
<1>1. UndoInv'
  BY PopStep DEF RestoreInv
<1>2. /\ stack \in Seq(Objects) /\ stack # <<>> /\ stack' = Front(stack) /\ stack' \in Seq(Objects)
      /\ orig' = orig /\ mode = "rollback" /\ Restore(o)
      /\ mode' = IF stack' = <<>> THEN "restored" ELSE "rollback"
  BY <1>1 DEF PopAndRestore, RestoreInv, UndoInv, TypeOK
<1>3. /\ n \in Nat \ {0} /\ Len(stack') = n - 1 /\ stack[n] = o
      /\ \A i \in 1 .. n - 1 : stack'[i] = stack[i]
      /\ o \in Objects /\ o \in OnStack
  BY <1>2, FrontAt, Popped DEF OnStack
<1>4. OnStack \subseteq Objects /\ OnStack' \subseteq OnStack /\ o \notin OnStack'
      /\ \A q \in OnStack : q = o \/ q \in OnStack'
  <2>1. \A q : q \in OnStack <=> \E i \in 1 .. n : stack[i] = q
    BY <1>2, OnStackAt DEF OnStack
  <2>2. \A q : q \in OnStack' <=> \E i \in 1 .. n - 1 : stack[i] = q
    <3>1. \A q : q \in OnStack' <=> \E i \in 1 .. Len(stack') : stack'[i] = q
      BY <1>2, OnStackAt DEF OnStack
    <3>2. QED
      BY <1>3, <3>1
  <2>3. o \notin OnStack'
    BY <1>3, <2>2 DEF RestoreInv, OnlyOnce
  <2>4. \A i \in 1 .. n : stack[i] \in Objects
    BY <1>2
  <2>5. QED
    BY <1>3, <2>1, <2>2, <2>3, <2>4
<1>5. Supported(n) /\ WellPushed(o)
  BY <1>2, <1>3 DEF RestoreInv, AllSupported, AllWellPushed
<1>6. RestoreOutcome(o)
  <2>1. Kind[o] \in {"subscription", "auto_attach", "repos"} => Present(SubMgr)
    BY <1>3, <1>5 DEF Supported
  <2>2. QED
    BY <1>2, <1>3, <2>1, RestoreHasOutcome
<1> HIDE DEF o, n
<1>7. \A r : Spoilt(r) => Spoilt(r)'
  BY <1>6, SpoiltStays DEF RestoreOutcome
<1>8. \A i \in 1 .. n : EnabledBelow(i - 1)' = EnabledBelow(i - 1)
  <2>1. SUFFICES ASSUME NEW i \in 1 .. n PROVE EnabledBelow(i - 1)' = EnabledBelow(i - 1)
    OBVIOUS
  <2>2. \A j \in 1 .. i - 1 : j \in 1 .. n - 1 /\ stack'[j] = stack[j] /\ stack[j] \in OnStack'
    <3>1. SUFFICES ASSUME NEW j \in 1 .. i - 1
          PROVE  j \in 1 .. n - 1 /\ stack'[j] = stack[j] /\ stack[j] \in OnStack'
      OBVIOUS
    <3>2. j \in 1 .. n - 1 /\ j \in 1 .. Len(stack') /\ stack'[j] = stack[j]
      BY <1>3
    <3>3. QED
      BY <1>2, <3>2, OnStackAt DEF OnStack
  <2>3. \A q \in OnStack' : on'[q] = on[q]
    BY <1>4, <1>6 DEF RestoreOutcome
  <2>4. QED
    BY <2>2, <2>3 DEF EnabledBelow
<1>9. \A q \in EnabledBelow(n - 1) : q \in OnStack' /\ on'[q]
  <2>1. \A q \in EnabledBelow(n - 1) : q \in Objects /\ on[q] /\ q \in OnStack'
    <3>1. SUFFICES ASSUME NEW q \in Objects, NEW j \in 1 .. n - 1, stack[j] = q
          PROVE  q \in OnStack'
      BY DEF EnabledBelow
    <3>2. j \in 1 .. Len(stack') /\ stack'[j] = q
      BY <1>3, <3>1
    <3>3. QED
      BY <1>2, <3>2, OnStackAt DEF OnStack
  <2>2. QED
    BY <1>4, <1>6, <2>1 DEF RestoreOutcome
<1>10. OnlyOnce'
  BY <1>3 DEF RestoreInv, OnlyOnce, n
<1>11. \A q \in OnStack' : on[q] => on'[q]
  BY <1>4, <1>6 DEF RestoreOutcome
<1>12. NothingLost'
  <2>1. SUFFICES ASSUME NEW r \in Resources, ~Spoilt(r)'
        PROVE  /\ sys'[r] = orig[r] \/ \E q \in OnStack' : on'[q] /\ r \in Reach(q)
               /\ \/ sys'[r] \in {orig[r], "absent"}
                  \/ \E q \in OnStack' : on'[q] /\ r \in Alters(q)
    BY <1>2 DEF NothingLost
  <2>2. ~Spoilt(r)
    BY <1>7, <2>1
  <2>3. /\ sys[r] = orig[r] \/ \E q \in OnStack : on[q] /\ r \in Reach(q)
        /\ sys[r] \in {orig[r], "absent"} \/ \E q \in OnStack : on[q] /\ r \in Alters(q)
    BY <1>2, <2>2 DEF RestoreInv, NothingLost
  <2>4. \A q \in OnStack : Target[q] \in Alters(q) /\ Alters(q) \subseteq Reach(q)
    BY <1>4, TouchesReach
  <2>5. CASE r \notin Reach(o)
    BY <1>4, <1>6, <1>11, <2>3, <2>4, <2>5 DEF RestoreOutcome
  <2>6. CASE r \in Reach(o)
    <3>1. r \in Touches(o)
      BY <1>3, <2>6, TouchesReach
    <3>2. Outcome(o)
      BY <1>3, <1>6, <2>1, <3>1 DEF RestoreOutcome, Spoilt, Touches, Owned
    <3>3. CASE r = Target[o]
      <4>1. CASE Kind[o] = "file" /\ on[o]
        BY <3>2, <3>3, <4>1 DEF Outcome
      <4>2. CASE Kind[o] \in {"file", "missing"} /\ ~on[o]
        BY <1>4, <1>11, <2>3, <3>2, <4>2 DEF Outcome
      <4>3. CASE Kind[o] = "missing" /\ on[o]
        <5>1. sys'[r] = "absent"
          BY <3>2, <3>3, <4>3 DEF Outcome
        <5>2. orig[r] = "absent" \/ \E q \in EnabledBelow(n - 1) : r \in Reach(q)
          BY <1>3, <1>5, <2>2, <3>3, <4>3 DEF Supported
        <5>3. QED
          BY <1>9, <5>1, <5>2
      <4>4. CASE Kind[o] = "installed"
        <5>1. \E q \in EnabledBelow(n - 1) : Target[q] = r
          BY <1>3, <1>5, <3>3, <4>4 DEF Supported
        <5>2. QED
          BY <1>4, <1>9, <2>4, <5>1
      <4>5. CASE Kind[o] = "repos"
        <5>1. CASE saved[o] = "orig" /\ orig[r] = "orig"
          BY <3>2, <3>3, <4>5, <5>1 DEF Outcome
        <5>2. CASE \E q \in EnabledBelow(n - 1) : r \in Alters(q)
          BY <1>4, <1>9, <2>4, <5>2
        <5>3. QED
          BY <1>3, <1>5, <2>2, <3>3, <4>5, <5>1, <5>2 DEF Supported
      <4>6. CASE Kind[o] = "subscription"
        BY <2>6, <3>2, <4>6 DEF Outcome
      <4>7. CASE Kind[o] \in {"key", "cert", "auto_attach", "package", "package_set"}
        BY <2>2, <3>2, <3>3, <4>7 DEF Outcome
      <4>8. QED
        BY <1>3, <4>1, <4>2, <4>3, <4>4, <4>5, <4>6, <4>7, ObjectsAssumption DEF Kinds
    <3>4. CASE Kind[o] = "subscription"
      BY <2>6, <3>2, <3>4 DEF Outcome
    <3>5. CASE r # Target[o] /\ Kind[o] # "subscription"
      <4>1. Kind[o] = "package" /\ r \in Owned(Target[o]) /\ r \notin Alters(o)
        BY <2>6, <3>5 DEF Reach, Alters
      <4>2. CASE \E q \in OnStack' : on[q] /\ r \in Alters(q)
        BY <1>4, <1>11, <2>4, <4>2
      <4>3. CASE ~\E q \in OnStack' : on[q] /\ r \in Alters(q)
        <5>1. sys[r] \in {orig[r], "absent"}
          BY <1>4, <2>3, <4>1, <4>3
        <5>2. ~BackedUpBelow(n - 1, r)
          <6>1. \A q \in EnabledBelow(n - 1) : on[q]
            BY DEF EnabledBelow
          <6>2. QED
            BY <1>4, <1>9, <2>4, <4>3, <6>1 DEF BackedUpBelow
        <5>3. orig[r] = "orig" /\ r \notin Modified
          BY <1>3, <1>5, <2>2, <4>1, <5>2 DEF Supported
        <5>4. AsShipped(r) = "orig"
          BY <5>3 DEF AsShipped
        <5>5. QED
          BY <3>2, <4>1, <5>1, <5>3, <5>4 DEF Outcome, Present
      <4>4. QED
        BY <4>2, <4>3
    <3>6. QED
      BY <3>3, <3>4, <3>5
  <2>7. QED
    BY <2>5, <2>6
<1>13. AllWellPushed'
  <2>1. SUFFICES ASSUME NEW q \in OnStack' PROVE WellPushed(q)'
    BY DEF AllWellPushed
  <2>2. WellPushed(q) /\ q \in Objects /\ q # o
    BY <1>2, <1>4 DEF RestoreInv, AllWellPushed
  <2>3. Kind[q] \in {"key", "cert"} => sys'[Target[q]] = sys[Target[q]]
    <3>1. Target[q] \in Resources
      BY <2>2, ObjectsAssumption
    <3>2. QED
      BY <1>3, <1>6, <2>2, <3>1, ReachApart DEF RestoreOutcome
  <2>4. on'[q] = on[q] /\ saved'[q] = saved[q]
    BY <1>6, <2>2 DEF RestoreOutcome
  <2>5. QED
    BY <1>2, <1>6, <1>7, <2>2, <2>3, <2>4 DEF WellPushed, RestoreOutcome
<1>14. AllSupported'
  <2>1. SUFFICES ASSUME NEW i \in 1 .. n - 1 PROVE Supported(i)'
    BY <1>3 DEF AllSupported
  <2>2. Supported(i) /\ i \in 1 .. n
    BY <1>2, <1>3 DEF RestoreInv, AllSupported, n
  <2>3. stack'[i] = stack[i] /\ stack[i] \in OnStack' /\ on'[stack[i]] = on[stack[i]]
    <3>1. stack'[i] = stack[i] /\ i \in 1 .. Len(stack')
      BY <1>3
    <3>2. stack[i] \in OnStack'
      BY <1>2, <3>1, OnStackAt DEF OnStack
    <3>3. QED
      BY <1>4, <1>6, <3>1, <3>2 DEF RestoreOutcome
  <2>4. EnabledBelow(i - 1)' = EnabledBelow(i - 1)
    BY <1>8, <2>2
  <2>5. Kind[stack[i]] \in {"subscription", "auto_attach", "repos"} =>
          Present(SubMgr)' /\ \A j \in i .. n - 1 : Target[stack[j]] # SubMgr
    <3>1. SUFFICES ASSUME Kind[stack[i]] \in {"subscription", "auto_attach", "repos"}
          PROVE  Present(SubMgr)' /\ \A j \in i .. n - 1 : Target[stack[j]] # SubMgr
      OBVIOUS
    <3>2. Present(SubMgr) /\ \A j \in i .. n : Target[stack[j]] # SubMgr
      BY <2>2, <3>1 DEF Supported, n
    <3>3. Target[o] # SubMgr
      BY <1>3, <2>2, <3>2
    <3>4. sys'[SubMgr] = sys[SubMgr]
      BY <1>3, <1>6, <3>3, SubMgrApart, ObjectsAssumption DEF RestoreOutcome
    <3>5. QED
      BY <1>3, <3>2, <3>4 DEF Present
  <2>6. \A j \in i .. n - 1 : stack'[j] = stack[j]
    BY <1>3
  <2>7. Kind[stack[i]] = "installed" =>
          \E q \in EnabledBelow(i - 1) : Kind[q] = "file" /\ Target[q] = Target[stack[i]]
    BY <2>2 DEF Supported
  <2>8. Kind[stack[i]] = "missing" /\ on[stack[i]] /\ orig[Target[stack[i]]] # "absent" =>
          \/ Spoilt(Target[stack[i]])
          \/ \E q \in EnabledBelow(i - 1) : Kind[q] = "package" /\ Target[stack[i]] \in Reach(q)
    BY <2>2 DEF Supported
  <2>9. Kind[stack[i]] = "package" =>
          \A r \in Owned(Target[stack[i]]) :
            (orig[r] = "orig" /\ r \notin Modified) \/ Spoilt(r) \/ BackedUpBelow(i - 1, r)
    BY <2>2 DEF Supported
  <2>10. \A r : BackedUpBelow(i - 1, r)' <=> BackedUpBelow(i - 1, r)
    BY <2>4 DEF BackedUpBelow
  <2>11. \A r : Spoilt(r) => Spoilt(r)'
    BY <1>7
  <2>12. saved'[stack[i]] = saved[stack[i]]
    BY <1>4, <1>6, <2>3 DEF RestoreOutcome
  <2>13. Kind[stack[i]] = "repos" =>
           \/ Spoilt(Target[stack[i]])
           \/ saved[stack[i]] = "orig" /\ orig[Target[stack[i]]] = "orig"
           \/ \E q \in EnabledBelow(i - 1) :
                Kind[q] = "subscription" /\ Target[stack[i]] \in Alters(q)
    BY <2>2 DEF Supported
  <2>14. QED
    BY <1>2, <1>3, <2>12, <2>13, <2>3, <2>4, <2>5, <2>6, <2>7, <2>8, <2>9, <2>10, <2>11 DEF Supported
<1>15. NotEnabled' /\ (mode' = "restored" => stack' = <<>>)
  BY <1>2 DEF NotEnabled
<1>16. QED
  BY <1>1, <1>10, <1>12, <1>13, <1>14, <1>15 DEF RestoreInv

(* What enable() and the append of push() do, by the class of the object.    *)
PushOutcome(o) ==
  /\ \A q \in Objects \ {o} : on'[q] = on[q] /\ saved'[q] = saved[q]
  /\ \A r \in Resources \ Alters(o) : sys'[r] = sys[r]
  /\ unnoticed \subseteq unnoticed'
  /\ Kind[o] = "package_set" => ~Present(Target[o])
  /\ \/ stack' = stack /\ on' = on /\ (sys' = sys \/ (Kind[o] # "package_set" /\ o \in unnoticed'))
     \/ /\ stack' = Append(stack, o)
        /\ on'[o] \/ sys' = sys
        /\ Kind[o] \notin {"file", "missing"} =>
             on'[o] \/ (Kind[o] = "package" /\ o \in unnoticed')
        /\ Kind[o] = "file" /\ ~on'[o] => ~Present(Target[o])
        /\ Kind[o] = "missing" => sys' = sys /\ (on'[o] <=> ~Present(Target[o]))
        /\ Kind[o] = "installed" => saved[Target[o]] # None
        /\ Kind[o] \in {"key", "cert"} =>
             saved'[o] = sys[Target[o]] /\ (Present(Target[o]) => sys' = sys)
        /\ Kind[o] \in {"subscription", "auto_attach", "repos"} => Present(SubMgr)
        /\ Kind[o] = "auto_attach" => saved'[o] # None
        /\ Kind[o] = "repos" =>
             saved'[o] = sys[Target[o]] /\ (Present(Target[o]) \/ o \in unnoticed')
        /\ Kind[o] = "subscription" => orig[Target[o]] = "absent" \/ o \in unnoticed'
        /\ Kind[o] = "package" =>
             /\ WithoutBackup(Target[o]) \subseteq unnoticed'
             /\ on'[o] => saved'[o] \in {"orig", Unavailable}

LEMMA EnableHasOutcome ==
  ASSUME RestoreInv, NEW o \in Objects, ~on[o], Enable(o)
  PROVE  PushOutcome(o)
<1>a. /\ sys \in [Resources -> Values] /\ saved \in [Slots -> Values \cup {None, Unavailable}]
      /\ on \in [Objects -> BOOLEAN]
  BY DEF RestoreInv, UndoInv, TypeOK
<1>d. Target[o] \in Alters(o)
  BY DEF Alters
<1>b. /\ Target[o] \in Resources /\ Objects \subseteq Slots /\ Target[o] \in Slots
      /\ \A q \in Objects : q # Target[o]
  BY ObjectsAssumption DEF Slots
<1>c. None # "changed"
  BY DEF None
<1> USE <1>a, <1>b, <1>d
<1> USE DEF PushOutcome, Becomes, Remember, Enabled, EnableRaises
<1>1. CASE EnableFile(o) /\ UNCHANGED unnoticed
  BY <1>1 DEF EnableFile
<1>2. CASE EnableMissing(o) /\ UNCHANGED unnoticed
  BY <1>2 DEF EnableMissing
<1>3. CASE EnableInstalled(o) /\ UNCHANGED unnoticed
  BY <1>3 DEF EnableInstalled
<1>4. CASE EnableKeyOrCert(o) /\ UNCHANGED unnoticed
  BY <1>4 DEF EnableKeyOrCert
<1>5. CASE EnableSubscription(o)
  BY <1>5 DEF EnableSubscription, Register, GoesWithAllItOwns, Alters
<1>6. CASE EnableAutoAttach(o) /\ UNCHANGED unnoticed
  BY <1>6, <1>c DEF EnableAutoAttach
<1>7. CASE EnableRepos(o)
  BY <1>7 DEF EnableRepos
<1>8. CASE EnablePackage(o)
  BY <1>8 DEF EnablePackage
<1>9. CASE EnablePackageSet(o) /\ UNCHANGED unnoticed
  BY <1>9 DEF EnablePackageSet
<1>10. QED
  BY <1>1, <1>2, <1>3, <1>4, <1>5, <1>6, <1>7, <1>8, <1>9 DEF Enable

(* A change that is pushed finds its resource as it was found by the run,    *)
(* unless that is a file that has gone with its package.                     *)
LEMMA FoundAsItWas ==
  ASSUME RestoreInv, mode = "converting", NEW o \in Objects, ~AlreadyBackedUp(o),
         Kind[o] \notin {"installed", "auto_attach", "repos"},
         ~Spoilt(Target[o]), sys[Target[o]] # orig[Target[o]]
  PROVE  /\ Kind[o] \in {"file", "missing"}
         /\ \E i \in 1 .. Len(stack) : /\ Kind[stack[i]] = "package" /\ on[stack[i]]
                                      /\ Target[o] \in Owned(Target[stack[i]])
<1>1. Target[o] \in Resources
  BY ObjectsAssumption
<1>2. PICK q \in OnStack : on[q] /\ Target[o] \in Reach(q)
  BY <1>1 DEF RestoreInv, NothingLost
<1>3. stack \in Seq(Objects)
  BY DEF RestoreInv, UndoInv, TypeOK
<1>4. PICK i \in 1 .. Len(stack) : stack[i] = q
  BY <1>3, OnStackAt DEF OnStack
<1>5. q \in Objects /\ q # o /\ ~Equal(q, o)
  BY <1>3, <1>4 DEF AlreadyBackedUp, Equal
<1>6. Target[q] # Target[o]
  <2>1. SUFFICES ASSUME Target[q] = Target[o] PROVE FALSE
    OBVIOUS
  <2>2. Kind[o] = "file" /\ Kind[q] = "installed"
    BY <1>5, <2>1, TargetsAssumption DEF Equal
  <2>3. Supported(i)
    BY <1>4 DEF RestoreInv, AllSupported
  <2>4. PICK f \in EnabledBelow(i - 1) : Kind[f] = "file" /\ Target[f] = Target[q]
    BY <1>4, <2>2, <2>3 DEF Supported
  <2>5. PICK j \in 1 .. i - 1 : stack[j] = f
    BY DEF EnabledBelow
  <2>6. j \in 1 .. Len(stack)
    BY <1>3
  <2>7. f \in OnStack
    BY <1>3, <2>5, <2>6, OnStackAt DEF OnStack
  <2>8. QED
    BY <2>1, <2>2, <2>4, <2>7 DEF AlreadyBackedUp, Equal
<1>7. Kind[q] = "package" /\ Target[o] \in Owned(Target[q])
  BY <1>2, <1>5, <1>6, AltersApart DEF Reach
<1>8. Kind[o] \in {"file", "missing"}
  <2>1. Owner[Target[o]] = Target[q] /\ Target[q] \in Resources
    BY <1>5, <1>7, ObjectsAssumption DEF Owned
  <2>2. Owner[Target[o]] # NoOwner
    BY <2>1, ObjectsAssumption
  <2>3. QED
    BY <2>2, TargetsAssumption
<1>9. QED
  BY <1>2, <1>4, <1>7, <1>8

(* The repositories are the original ones, or come with a new registration. *)
LEMMA ReposFound ==
  ASSUME RestoreInv, mode = "converting", NEW o \in Objects, ~AlreadyBackedUp(o),
         Kind[o] = "repos", ~Spoilt(Target[o]), sys[Target[o]] # orig[Target[o]]
  PROVE  \E q \in OnStack : on[q] /\ Kind[q] = "subscription" /\ Target[o] \in Alters(q)
<1>1. Target[o] \in Resources
  BY ObjectsAssumption
<1>2. PICK q \in OnStack : on[q] /\ Target[o] \in Reach(q)
  BY <1>1 DEF RestoreInv, NothingLost
<1>3. stack \in Seq(Objects)
  BY DEF RestoreInv, UndoInv, TypeOK
<1>4. q \in Objects /\ q # o
  BY <1>3, OnStackAt DEF OnStack, AlreadyBackedUp, Equal
<1>5. Target[q] # Target[o]
  BY <1>4, TargetsAssumption
<1>6. Target[o] \in Owned(Target[q])
  BY <1>2, <1>5 DEF Reach, Alters
<1>7. Kind[q] = "subscription"
  BY <1>4, <1>6, TargetsAssumption DEF Owned
<1>8. QED
  BY <1>2, <1>6, <1>7 DEF Alters

(* push() of a change that fails, or whose effect is left behind. *)
LEMMA PushFails ==
  ASSUME RestoreInv, NEW o \in Objects, Push(o), PushOutcome(o), stack' = stack, on' = on
  PROVE  NothingLost' /\ AllWellPushed' /\ AllSupported' /\ NotEnabled' /\ OnlyOnce'
<1>1. /\ stack \in Seq(Objects) /\ orig' = orig /\ mode' = mode /\ mode = "converting"
      /\ failures' = failures /\ o \notin OnStack
  BY DEF RestoreInv, UndoInv, TypeOK, Push, AlreadyBackedUp, Equal
<1>2. OnStack' = OnStack /\ OnStack \subseteq Objects /\ \A n : EnabledBelow(n)' = EnabledBelow(n)
  BY <1>1, OnStackAt DEF OnStack, EnabledBelow
<1>3. \A r : Spoilt(r) => Spoilt(r)'
  BY <1>1, SpoiltStays DEF PushOutcome
<1>4. /\ \A q \in OnStack : saved'[q] = saved[q]
      /\ \A r \in Resources \ Alters(o) : sys'[r] = sys[r]
      /\ sys' = sys \/ (Kind[o] # "package_set" /\ \A r \in Alters(o) : Spoilt(r)')
  <2>1. stack # Append(stack, o)
    BY <1>1
  <2>2. sys' = sys \/ (Kind[o] # "package_set" /\ o \in unnoticed')
    BY <2>1 DEF PushOutcome
  <2>3. o \in unnoticed' => \A r \in Alters(o) : Spoilt(r)'
    BY DEF Spoilt, Touches, Alters, Owned
  <2>4. QED
    BY <1>1, <1>2, <2>2, <2>3 DEF PushOutcome
<1>5. OnlyOnce' /\ NotEnabled'
  BY <1>1, <1>2, <1>3 DEF RestoreInv, OnlyOnce, NotEnabled
<1>6. NothingLost'
  <2>1. SUFFICES ASSUME NEW r \in Resources, ~Spoilt(r)' PROVE sys'[r] = sys[r] /\ ~Spoilt(r)
    BY <1>1, <1>2 DEF RestoreInv, NothingLost
  <2>2. QED
    BY <1>3, <1>4, <2>1
<1>7. AllWellPushed'
  <2>1. SUFFICES ASSUME NEW q \in OnStack PROVE WellPushed(q)'
    BY <1>2 DEF AllWellPushed
  <2>2. WellPushed(q) /\ q \in Objects /\ q # o
    BY <1>1, <1>2 DEF RestoreInv, AllWellPushed
  <2>3. Kind[q] \in {"key", "cert"} => sys'[Target[q]] = sys[Target[q]]
    BY <1>4, <2>2, AltersApart, ObjectsAssumption, TargetsAssumption
  <2>4. QED
    BY <1>1, <1>3, <1>4, <2>2, <2>3 DEF WellPushed, PushOutcome
<1>8. AllSupported'
  <2>1. SUFFICES ASSUME NEW i \in 1 .. Len(stack) PROVE Supported(i)'
    BY <1>1 DEF AllSupported
  <2>2. Supported(i)
    BY <1>1 DEF RestoreInv, AllSupported
  <2>3. sys'[SubMgr] = sys[SubMgr]
    <3>1. Kind[o] # "package_set" => SubMgr \notin Alters(o)
      BY SubMgrAssumption, SubMgrApart, TouchesReach
    <3>2. QED
      BY <1>4, <3>1, ObjectsAssumption
  <2>4. \A r : BackedUpBelow(i - 1, r)' <=> BackedUpBelow(i - 1, r)
    BY <1>2 DEF BackedUpBelow
  <2>5. stack[i] \in OnStack
    BY <1>1, OnStackAt DEF OnStack
  <2>6. QED
    BY <1>1, <1>2, <1>3, <1>4, <2>2, <2>3, <2>4, <2>5 DEF Supported, Present, Owned, Reach, Alters
<1>9. QED
  BY <1>5, <1>6, <1>7, <1>8

(* Append(), by positions. *)
LEMMA AppendAt ==
  ASSUME NEW s \in Seq(Objects), NEW o \in Objects
  PROVE  /\ Len(s) \in Nat /\ Len(Append(s, o)) = Len(s) + 1
         /\ Append(s, o)[Len(s) + 1] = o
         /\ \A i \in 1 .. Len(s) : Append(s, o)[i] = s[i]
OBVIOUS

(* push() of a change that takes effect. *)
LEMMA PushSucceeds ==
  ASSUME RestoreInv, NEW o \in Objects, Push(o), PushOutcome(o), stack' = Append(stack, o)
  PROVE  NothingLost' /\ AllWellPushed' /\ AllSupported' /\ NotEnabled' /\ OnlyOnce'
<1> DEFINE n == Len(stack)
           t == Target[o]
<1>1. /\ stack \in Seq(Objects) /\ orig' = orig /\ mode' = mode /\ mode = "converting"
      /\ failures' = failures /\ o \notin OnStack /\ ~AlreadyBackedUp(o)
      /\ o \in Makes[orig] /\ FilesPushed(o)
      /\ orig \in Initial /\ orig \in [Resources -> {"absent", "orig"}]
  BY InitialAssumption DEF RestoreInv, UndoInv, TypeOK, Push, AlreadyBackedUp, Equal
<1>2. /\ n \in Nat /\ Len(stack') = n + 1 /\ stack'[n + 1] = o
      /\ \A i \in 1 .. n : stack'[i] = stack[i]
  BY <1>1, AppendAt
<1>3. /\ OnStack' = OnStack \cup {o} /\ OnStack \subseteq Objects
      /\ \A q : q \in OnStack <=> \E i \in 1 .. n : stack[i] = q
      /\ t \in Resources
  <2>1. \A q : q \in OnStack <=> \E i \in 1 .. n : stack[i] = q
    BY <1>1, OnStackAt DEF OnStack
  <2>2. \A i \in 1 .. n : stack[i] \in Objects
    BY <1>1
  <2>3. OnStack' = OnStack \cup {o}
    BY <1>1, Pushed DEF OnStack
  <2>4. QED
    BY <2>1, <2>2, <2>3, ObjectsAssumption
<1>4. /\ \A q \in OnStack : on'[q] = on[q] /\ saved'[q] = saved[q]
      /\ \A r \in Resources \ Alters(o) : sys'[r] = sys[r]
      /\ on'[o] \/ sys' = sys
  <2>1. stack # Append(stack, o)
    BY <1>1
  <2>2. QED
    BY <1>1, <1>3, <2>1 DEF PushOutcome
<1>5. /\ Kind[o] \notin {"file", "missing"} =>
           on'[o] \/ (Kind[o] = "package" /\ o \in unnoticed')
      /\ Kind[o] = "file" /\ ~on'[o] => ~Present(t)
      /\ Kind[o] = "missing" => sys' = sys /\ (on'[o] <=> ~Present(t))
      /\ Kind[o] = "installed" => saved[t] # None
      /\ Kind[o] \in {"key", "cert"} => saved'[o] = sys[t] /\ (Present(t) => sys' = sys)
      /\ Kind[o] \in {"subscription", "auto_attach", "repos"} => Present(SubMgr)
      /\ Kind[o] = "auto_attach" => saved'[o] # None
      /\ Kind[o] = "repos" => saved'[o] = sys[t] /\ (Present(t) \/ o \in unnoticed')
      /\ Kind[o] = "subscription" => orig[t] = "absent" \/ o \in unnoticed'
      /\ Kind[o] = "package" => /\ WithoutBackup(t) \subseteq unnoticed'
                                /\ on'[o] => saved'[o] \in {"orig", Unavailable}
      /\ Kind[o] = "package_set" => ~Present(t)
  <2>1. stack # Append(stack, o)
    BY <1>1
  <2>2. QED
    BY <2>1 DEF PushOutcome
<1>6. unnoticed \subseteq unnoticed' /\ \A r : Spoilt(r) => Spoilt(r)'
  BY <1>1, SpoiltStays DEF PushOutcome
<1>7. \A i \in 0 .. n : EnabledBelow(i)' = EnabledBelow(i)
  <2>1. SUFFICES ASSUME NEW i \in 0 .. n PROVE EnabledBelow(i)' = EnabledBelow(i)
    OBVIOUS
  <2>2. \A j \in 1 .. i : stack'[j] = stack[j] /\ stack[j] \in OnStack
    <3>1. SUFFICES ASSUME NEW j \in 1 .. i PROVE stack'[j] = stack[j] /\ stack[j] \in OnStack
      OBVIOUS
    <3>2. j \in 1 .. n
      BY <1>2
    <3>3. QED
      BY <1>2, <1>3, <3>2
  <2>3. QED
    BY <1>4, <2>2 DEF EnabledBelow
<1>8. \A q \in OnStack : on[q] => q \in EnabledBelow(n)
  BY <1>3 DEF EnabledBelow
<1>9. Kind[o] \notin {"installed", "auto_attach", "repos"} /\ ~Spoilt(t) /\ sys[t] # orig[t] =>
        /\ Kind[o] \in {"file", "missing"}
        /\ \E i \in 1 .. n : /\ Kind[stack[i]] = "package" /\ on[stack[i]]
                            /\ t \in Owned(Target[stack[i]])
  BY <1>1, FoundAsItWas
<1> HIDE DEF n, t
<1>10. OnlyOnce'
  <2>1. SUFFICES ASSUME NEW i \in 1 .. n + 1, NEW j \in 1 .. n + 1, stack'[i] = stack'[j]
        PROVE  i = j
    BY <1>2 DEF OnlyOnce
  <2>2. CASE i \in 1 .. n /\ j \in 1 .. n
    BY <1>2, <2>1, <2>2 DEF RestoreInv, OnlyOnce, n
  <2>3. CASE i = n + 1 /\ j = n + 1
    BY <2>3
  <2>4. CASE i = n + 1 /\ j \in 1 .. n
    BY <1>1, <1>2, <1>3, <2>1, <2>4
  <2>5. CASE i \in 1 .. n /\ j = n + 1
    BY <1>1, <1>2, <1>3, <2>1, <2>5
  <2>6. QED
    BY <1>2, <2>2, <2>3, <2>4, <2>5
<1>11. NothingLost'
  <2>1. SUFFICES ASSUME NEW r \in Resources, ~Spoilt(r)
        PROVE  /\ sys'[r] = orig[r] \/ \E q \in OnStack' : on'[q] /\ r \in Reach(q)
               /\ \/ sys'[r] \in {orig[r], "absent"}
                  \/ \E q \in OnStack' : on'[q] /\ r \in Alters(q)
    BY <1>1, <1>6 DEF NothingLost
  <2>2. /\ sys[r] = orig[r] \/ \E q \in OnStack : on[q] /\ r \in Reach(q)
        /\ sys[r] \in {orig[r], "absent"} \/ \E q \in OnStack : on[q] /\ r \in Alters(q)
    BY <1>1, <2>1 DEF RestoreInv, NothingLost
  <2>3. CASE sys'[r] = sys[r]
    BY <1>3, <1>4, <2>2, <2>3
  <2>4. CASE r \in Alters(o) /\ on'[o]
    BY <1>3, <2>4, TouchesReach
  <2>5. QED
    BY <1>4, <2>3, <2>4
<1>12. AllWellPushed'
  <2>1. SUFFICES ASSUME NEW q \in OnStack' PROVE WellPushed(q)'
    BY DEF AllWellPushed
  <2>2. CASE q # o
    <3>1. WellPushed(q) /\ q \in Objects /\ q \in OnStack
      BY <1>1, <1>3, <2>1, <2>2 DEF RestoreInv, AllWellPushed
    <3>2. Kind[q] \in {"key", "cert"} => sys'[Target[q]] = sys[Target[q]]
      BY <1>4, <2>2, <3>1, AltersApart, ObjectsAssumption, TargetsAssumption
    <3>3. QED
      BY <1>1, <1>4, <1>6, <3>1, <3>2 DEF WellPushed
  <2>3. CASE q = o
    <3>1. Kind[o] \in {"key", "cert", "package_set"} => Spoilt(t) \/ sys[t] = orig[t]
      BY <1>9
    <3>3. WellPushed(o)'
      BY <1>1, <1>5, <1>6, <3>1 DEF WellPushed, Present, t
    <3>4. QED
      BY <2>3, <3>3
  <2>4. QED
    BY <2>2, <2>3
<1>13. AllSupported'
  <2>1. SUFFICES ASSUME NEW i \in 1 .. n + 1 PROVE Supported(i)'
    BY <1>2 DEF AllSupported
  <2>2. CASE i \in 1 .. n
    <3>1. Supported(i) /\ stack'[i] = stack[i] /\ stack[i] \in OnStack
      BY <1>1, <1>2, <1>3, <2>2 DEF RestoreInv, AllSupported, n
    <3>2. EnabledBelow(i - 1)' = EnabledBelow(i - 1)
      BY <1>2, <1>7, <2>2
    <3>3. \A r : BackedUpBelow(i - 1, r)' <=> BackedUpBelow(i - 1, r)
      BY <3>2 DEF BackedUpBelow
    <3>4. Kind[stack[i]] \in {"subscription", "auto_attach", "repos"} =>
            Present(SubMgr)' /\ \A j \in i .. n + 1 : Target[stack'[j]] # SubMgr
      <4>1. SUFFICES ASSUME Kind[stack[i]] \in {"subscription", "auto_attach", "repos"}
            PROVE  Present(SubMgr)' /\ \A j \in i .. n + 1 : Target[stack'[j]] # SubMgr
        OBVIOUS
      <4>2. Present(SubMgr) /\ \A j \in i .. n : Target[stack[j]] # SubMgr
        BY <3>1, <4>1 DEF Supported, n
      <4>3. t # SubMgr
        BY <1>5, <4>2, SubMgrAssumption DEF t
      <4>4. sys'[SubMgr] = sys[SubMgr]
        BY <1>4, <4>3, SubMgrApart, TouchesReach, ObjectsAssumption DEF t
      <4>5. ASSUME NEW j \in i .. n + 1 PROVE Target[stack'[j]] # SubMgr
        <5>1. j = n + 1 \/ (j \in i .. n /\ j \in 1 .. n)
          BY <1>2, <2>2
        <5>2. QED
          BY <1>2, <4>2, <4>3, <5>1 DEF t
      <4>6. QED
        BY <4>2, <4>4, <4>5 DEF Present
    <3>5. on'[stack[i]] = on[stack[i]] /\ saved'[stack[i]] = saved[stack[i]]
      BY <1>4, <3>1
    <3>6. QED
      BY <1>1, <1>2, <1>6, <3>1, <3>2, <3>3, <3>4, <3>5 DEF Supported
  <2>3. CASE i = n + 1
    <3>1. stack'[i] = o /\ EnabledBelow(i - 1)' = EnabledBelow(n) /\ i - 1 = n
      <4>1. n \in 0 .. n /\ i - 1 = n
        BY <1>2, <2>3
      <4>2. QED
        BY <1>2, <1>7, <2>3, <4>1
    <3>2. Kind[o] = "installed" => \E q \in EnabledBelow(n) : Kind[q] = "file" /\ Target[q] = t
      <4>1. SUFFICES ASSUME Kind[o] = "installed"
            PROVE  \E q \in EnabledBelow(n) : Kind[q] = "file" /\ Target[q] = t
        OBVIOUS
      <4>2. HasBackup(t)
        BY <1>1, <1>3, <1>5, <4>1 DEF RestoreInv, UndoInv, CopyHasOwner
      <4>3. QED
        BY <1>8, <4>2 DEF HasBackup, EnabledFile
    <3>3. Kind[o] = "missing" /\ on'[o] /\ orig[t] # "absent" =>
            Spoilt(t) \/ \E q \in EnabledBelow(n) : Kind[q] = "package" /\ t \in Reach(q)
      <4>1. SUFFICES ASSUME Kind[o] = "missing", on'[o], orig[t] # "absent", ~Spoilt(t)
            PROVE  \E q \in EnabledBelow(n) : Kind[q] = "package" /\ t \in Reach(q)
        OBVIOUS
      <4>2. PICK j \in 1 .. n : /\ Kind[stack[j]] = "package" /\ on[stack[j]]
                               /\ t \in Owned(Target[stack[j]])
        BY <1>5, <1>9, <4>1 DEF Present
      <4>3. QED
        BY <1>3, <1>8, <4>2 DEF Reach
    <3>4. Kind[o] = "package" =>
            \A r \in Owned(t) :
              (orig[r] = "orig" /\ r \notin Modified) \/ Spoilt(r)' \/ BackedUpBelow(n, r)
      <4>1. SUFFICES ASSUME Kind[o] = "package", NEW r \in Owned(t),
                            ~(orig[r] = "orig" /\ r \notin Modified), ~Spoilt(r)'
            PROVE  BackedUpBelow(n, r)
        OBVIOUS
      <4>2. r \in Resources /\ Owner[r] = t /\ orig[r] \in {"absent", "orig"}
        BY <1>1, <4>1 DEF Owned
      <4>3. PICK q \in OnStack : Target[q] = r /\ Kind[q] = IF orig[r] = "absent" THEN "missing" ELSE "file"
        <5>1. r \in NotAsShipped(t) /\ r \notin WithoutBackup(t)
          BY <1>1, <1>5, <4>1, <4>2 DEF NotAsShipped, Spoilt
        <5>2. QED
          BY <5>1 DEF WithoutBackup, HasBeenPushed
      <4>4. on[q]
        <5>1. SUFFICES ASSUME ~on[q] PROVE FALSE
          OBVIOUS
        <5>2. orig[r] = "orig" /\ \E k \in OnStack : Kind[k] = "package" /\ r \in Reach(k)
          BY <1>1, <1>6, <4>1, <4>2, <4>3, <5>1 DEF RestoreInv, NotEnabled
        <5>3. PICK k \in OnStack : Kind[k] = "package" /\ r \in Reach(k)
          BY <5>2
        <5>4. k \in Objects /\ q \in Objects /\ Kind[q] = "file" /\ k # q
          BY <1>3, <4>3, <5>2, <5>3
        <5>5. r # Target[k]
          BY <4>3, <5>3, <5>4, TargetsAssumption
        <5>6. Target[k] = Target[o]
          BY <4>2, <5>3, <5>5 DEF Reach, Alters, Owned, t
        <5>7. k # o
          BY <1>1
        <5>8. QED
          BY <4>1, <5>4, <5>6, <5>7, TargetsAssumption
      <4>5. QED
        BY <1>8, <4>3, <4>4 DEF BackedUpBelow
    <3>5. Kind[o] \in {"subscription", "auto_attach", "repos"} =>
            Present(SubMgr)' /\ \A j \in i .. n + 1 : Target[stack'[j]] # SubMgr
      <4>1. SUFFICES ASSUME Kind[o] \in {"subscription", "auto_attach", "repos"}
            PROVE  Present(SubMgr)' /\ \A j \in i .. n + 1 : Target[stack'[j]] # SubMgr
        OBVIOUS
      <4>2. t # SubMgr
        BY <4>1, SubMgrAssumption DEF t
      <4>3. sys'[SubMgr] = sys[SubMgr]
        BY <1>4, <4>2, SubMgrApart, TouchesReach, ObjectsAssumption DEF t
      <4>4. \A j \in i .. n + 1 : j = n + 1
        BY <1>2, <2>3
      <4>5. QED
        BY <1>2, <1>5, <4>1, <4>2, <4>3, <4>4 DEF Present, t
    <3>6. \A r : BackedUpBelow(i - 1, r)' <=> BackedUpBelow(n, r)
      BY <3>1 DEF BackedUpBelow
    <3>7. Kind[o] = "repos" =>
            \/ Spoilt(t)'
            \/ saved'[o] = "orig" /\ orig[t] = "orig"
            \/ \E q \in EnabledBelow(n) : Kind[q] = "subscription" /\ t \in Alters(q)
      <4>1. SUFFICES ASSUME Kind[o] = "repos", ~Spoilt(t)'
            PROVE  \/ saved'[o] = "orig" /\ orig[t] = "orig"
                   \/ \E q \in EnabledBelow(n) : Kind[q] = "subscription" /\ t \in Alters(q)
        OBVIOUS
      <4>2. ~Spoilt(t) /\ o \notin unnoticed'
        BY <1>6, <4>1 DEF Spoilt, Touches, t
      <4>3. saved'[o] = sys[t] /\ sys[t] # "absent"
        BY <1>5, <4>1, <4>2 DEF Present
      <4>4. CASE sys[t] = orig[t]
        BY <1>1, <1>3, <4>3, <4>4
      <4>5. CASE sys[t] # orig[t]
        BY <1>1, <1>8, <4>1, <4>2, <4>5, ReposFound DEF t
      <4>6. QED
        BY <4>4, <4>5
    <3>8. QED
      BY <1>1, <1>2, <1>6, <3>1, <3>2, <3>3, <3>4, <3>5, <3>6, <3>7 DEF Supported, t
  <2>4. QED
    BY <1>2, <2>2, <2>3
<1>14. NotEnabled'
  <2>1. SUFFICES ASSUME NEW q \in OnStack', ~on'[q], ~Spoilt(Target[q])'
        PROVE  /\ Kind[q] = "file" => \/ orig[Target[q]] = "absent"
                                     \/ \E k \in OnStack' : Kind[k] = "package" /\ Target[q] \in Reach(k)
               /\ Kind[q] = "missing" => orig[Target[q]] = "orig"
    BY <1>1 DEF NotEnabled
  <2>2. CASE q # o
    <3>1. q \in OnStack /\ ~on[q]
      BY <1>3, <1>4, <2>1, <2>2
    <3>2. /\ Kind[q] = "file" => \/ orig[Target[q]] = "absent"
                                 \/ \E k \in OnStack : Kind[k] = "package" /\ Target[q] \in Reach(k)
          /\ Kind[q] = "missing" => orig[Target[q]] = "orig"
      BY <1>1, <1>6, <2>1, <3>1 DEF RestoreInv, NotEnabled
    <3>3. QED
      BY <1>3, <3>2
  <2>3. CASE q = o
    <3>1. ~on'[o] /\ ~Spoilt(t) /\ orig[t] \in {"absent", "orig"}
      BY <1>1, <1>3, <1>6, <2>1, <2>3 DEF t
    <3>2. CASE Kind[o] = "file" /\ orig[t] # "absent"
      <4>1. PICK j \in 1 .. n : /\ Kind[stack[j]] = "package" /\ on[stack[j]]
                               /\ t \in Owned(Target[stack[j]])
        BY <1>5, <1>9, <3>1, <3>2 DEF Present
      <4>2. stack[j] \in OnStack' /\ t \in Reach(stack[j])
        BY <1>3, <4>1 DEF Reach
      <4>3. QED
        BY <2>3, <3>2, <4>1, <4>2 DEF t
    <3>3. CASE Kind[o] = "missing" /\ orig[t] = "absent"
      <4>1. PICK j \in 1 .. n : /\ Kind[stack[j]] = "package" /\ on[stack[j]]
                               /\ t \in Owned(Target[stack[j]])
        BY <1>5, <1>9, <3>1, <3>3 DEF Present
      <4>2. Supported(j)
        BY <1>1, <4>1 DEF RestoreInv, AllSupported, n
      <4>3. BackedUpBelow(j - 1, t)
        BY <3>1, <3>3, <4>1, <4>2 DEF Supported
      <4>4. PICK k \in EnabledBelow(j - 1) : Kind[k] \in {"file", "missing"} /\ Target[k] = t
        BY <4>3 DEF BackedUpBelow
      <4>5. PICK m \in 1 .. j - 1 : stack[m] = k
        BY <4>4 DEF EnabledBelow
      <4>6. m \in 1 .. n
        BY <1>2
      <4>7. k \in OnStack /\ k \in Objects /\ k # o
        BY <1>1, <1>3, <4>5, <4>6
      <4>8. QED
        BY <3>3, <4>4, <4>7, TargetsAssumption DEF t
    <3>4. QED
      BY <2>3, <3>1, <3>2, <3>3 DEF t
  <2>4. QED
    BY <2>2, <2>3
<1>15. QED
  BY <1>10, <1>11, <1>12, <1>13, <1>14

(* push() *)
LEMMA PushKeeps ==
  ASSUME RestoreInv, NEW o \in Objects, Push(o)
  PROVE  RestoreInv'
<1>1. UndoInv'
  BY PushStep DEF RestoreInv
<1>2. Enable(o) /\ ~on[o] /\ mode = "converting" /\ mode' = mode
  BY DEF RestoreInv, UndoInv, EnabledIsPushed, TypeOK, Push, AlreadyBackedUp, Equal
<1>3. PushOutcome(o)
  BY <1>2, EnableHasOutcome
<1>4. CASE stack' = stack /\ on' = on
  BY <1>1, <1>2, <1>3, <1>4, PushFails DEF RestoreInv
<1>5. CASE stack' = Append(stack, o)
  BY <1>1, <1>2, <1>3, <1>5, PushSucceeds DEF RestoreInv
<1>6. QED
  BY <1>3, <1>4, <1>5 DEF PushOutcome

(* Every step, of the conversion or of the rollback, preserves RestoreInv. *)
LEMMA RestoreStep == RestoreInv /\ [Next]_vars => RestoreInv'
BY PushKeeps, ConvertingKeeps, PopKeeps, OtherKeeps DEF Next

(* When the rollback has ended, every file, package and registration is as   *)
(* it was found, unless a failure of the object that stands for it has been  *)
(* recorded or swallowed: for any system and any set of changes, pushed in   *)
(* any order the program allows, the order of the restores costs nothing.    *)
THEOREM RollbackBringsBack == Spec => []RollbackRestores
<1>1. RestoreInv => RollbackRestores
  <2>1. SUFFICES ASSUME RestoreInv, mode = "restored", NEW r \in Resources, ~Spoilt(r)
        PROVE  sys[r] = orig[r]
    BY DEF RollbackRestores, Spoilt
  <2>2. OnStack = {}
    BY <2>1 DEF RestoreInv, OnStack, ToSet
  <2>3. QED
    BY <2>1, <2>2 DEF RestoreInv, NothingLost
<1>2. QED
  BY RestoreInit, RestoreStep, <1>1, PTL DEF Spec
=============================================================================
