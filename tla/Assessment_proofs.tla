-------------------------- MODULE Assessment_proofs -------------------------
(***************************************************************************)
(* Proofs about the assessment, for any configuration files, options,      *)
(* systems and number of runs.  All of them rest on AssessmentInv, whose   *)
(* parts follow the options from the files to tool_opts, the results from  *)
(* the checks to the reports, and the overrides from one run to the next.  *)
(***************************************************************************)
EXTENDS Assessment, FiniteSetTheorems, WellFoundedInduction, TLAPS

-----------------------------------------------------------------------------
(* Least and greatest elements. *)

(* Every set of naturals has a least element. *)
LEMMA LeastExists ==
  ASSUME NEW S \in SUBSET Nat, S # {}
  PROVE  \E x \in S : \A y \in S : x =< y
<1>1. PICK n \in S : n \in Nat
  OBVIOUS
<1> DEFINE Below(k) == {y \in S : y =< k}
           Cuts == {Below(k) : k \in Below(n)}
<1>2. \A k \in Below(n) : Below(k) \in FiniteSubsetsOf(S)
  <2> SUFFICES ASSUME NEW k \in Below(n) PROVE Below(k) \in FiniteSubsetsOf(S)
    OBVIOUS
  <2>1. Below(k) \in SUBSET Nat /\ k \in Nat /\ \A s \in Below(k) : s =< k
    OBVIOUS
  <2>2. IsFiniteSet(Below(k))
    BY <2>1, FS_BoundedSetOfNaturals
  <2>3. QED
    BY <2>2 DEF FiniteSubsetsOf
<1>3. Cuts \subseteq FiniteSubsetsOf(S) /\ Below(n) \in Cuts
  BY <1>1, <1>2
<1>4. PICK T \in Cuts : \A U \in Cuts : <<U, T>> \notin StrictSubsetOrdering(S)
  <2> HIDE DEF Cuts
  <2>1. QED
    BY <1>3, FS_StrictSubsetOrderingWellFounded, WFMin
<1>5. PICK k \in Below(n) : T = Below(k)
  OBVIOUS
<1>6. ASSUME NEW y \in S, y < k PROVE FALSE
  <2>1. y \in Nat /\ k \in Nat /\ y =< n /\ k =< n /\ n \in Nat
    BY <1>1, <1>6
  <2>2. Below(y) \in Cuts
    BY <1>6, <2>1
  <2>3. Below(y) \subseteq Below(k) /\ k \in Below(k) /\ k \notin Below(y)
    <3>1. \A z \in S : z =< y => z =< k
      BY <1>6, <2>1
    <3>2. k \in S /\ k =< k /\ ~(k =< y)
      BY <1>6, <2>1
    <3> HIDE DEF Cuts
    <3>3. QED
      BY <3>1, <3>2, Zenon
  <2>4. Below(y) \in SUBSET S /\ Below(k) \in SUBSET S
    OBVIOUS
  <2> HIDE DEF Below, Cuts
  <2>5. QED
    BY <1>4, <1>5, <2>2, <2>3, <2>4 DEF StrictSubsetOrdering
<1>7. QED
  BY <1>6

(* Min is that element. *)
LEMMA MinIsLeast ==
  ASSUME NEW S \in SUBSET Nat, S # {}
  PROVE  Min(S) \in S /\ \A y \in S : Min(S) =< y
BY LeastExists DEF Min

(* A bounded set has a greatest element, the one with the least distance to  *)
(* the bound, and Max is that element.                                       *)
LEMMA MaxIsGreatest ==
  ASSUME NEW S \in SUBSET Nat, S # {}, NEW n \in Nat, \A y \in S : y =< n
  PROVE  Max(S) \in S /\ \A y \in S : Max(S) >= y
<1> DEFINE distances == {n - y : y \in S}
<1>1. distances \in SUBSET Nat /\ distances # {}
  <2>1. \A y \in S : y \in Nat /\ n - y \in Nat
    OBVIOUS
  <2>2. \E y \in S : n - y \in distances
    OBVIOUS
  <2>3. QED
    BY <2>1, <2>2
<1>2. PICK d \in distances : \A e \in distances : d =< e
  BY <1>1, LeastExists
<1>3. PICK x \in S : d = n - x
  OBVIOUS
<1>4. \A y \in S : n - x =< n - y
  BY <1>2, <1>3
<1>5. \A y \in S : x >= y
  BY <1>4
<1>6. QED
  BY <1>5 DEF Max

-----------------------------------------------------------------------------
(* The options. *)

(* Reading the file of the lowest priority that is left keeps LastOneFound. *)
LEMMA LastOneFoundRead ==
  ASSUME LastOneFound, ReadFile
  PROVE  LastOneFound'
<1> USE FilesAssumption
<1>0. UNCHANGED contents
  BY DEF ReadFile, optInputs
<1>1. CASE Refuse
  BY <1>0, <1>1 DEF LastOneFound, Refuse, ReadMentions
<1>2. CASE ~Refuse
  <2> DEFINE first == Min(unread)
             file == Files[first]
  <2>1. unread \in SUBSET Nat /\ unread # {} /\ unread \subseteq DOMAIN Files
    BY DEF LastOneFound, ReadFile
  <2>2. first \in unread /\ \A y \in unread : first =< y
    BY <2>1, MinIsLeast
  <2>3. /\ unread' = unread \ {first}
        /\ phase' = phase /\ phase = "files"
        /\ found' = [k \in DOMAIN contents[file] \cup DOMAIN found |->
                            IF k \notin DOMAIN contents[file] THEN found[k]
                            ELSE IF contents[file][k] = "set" THEN file ELSE "none"]
    BY <1>2 DEF ReadFile
  <2> HIDE DEF first
  <2>4. file = Files[first] /\ file \in DOMAIN contents /\ first \in DOMAIN Files /\ first \in Nat
    BY <2>1, <2>2 DEF LastOneFound
  <2> HIDE DEF file
  <2>5. \A i \in unread', j \in DOMAIN Files \ unread' : Files[j] \in DOMAIN contents => j < i
    <3> SUFFICES ASSUME NEW i \in unread', NEW j \in DOMAIN Files \ unread',
                        Files[j] \in DOMAIN contents
                 PROVE  j < i
      OBVIOUS
    <3>1. i \in unread /\ i # first /\ i \in Nat /\ j \in Nat
      BY <2>1, <2>3
    <3>2. CASE j = first
      BY <2>2, <2>4, <3>1, <3>2
    <3>3. CASE j # first
      BY <2>3, <3>1, <3>3 DEF LastOneFound
    <3>4. QED
      BY <3>2, <3>3
  <2>6. ASSUME NEW k \in Credentials \cup Overrides
        PROVE  /\ k \in DOMAIN found' <=> ReadMentions(k)' # {}
               /\ k \in DOMAIN found' =>
                    \E i \in ReadMentions(k)' :
                        /\ \A j \in ReadMentions(k)' : j =< i
                        /\ found'[k] = IF contents[Files[i]][k] = "set" THEN Files[i] ELSE "none"
    <3>1. ReadMentions(k) \subseteq DOMAIN Files \ unread /\ ReadMentions(k) \subseteq Nat
      BY DEF ReadMentions
    <3>2. \A j \in ReadMentions(k) : j < first
      BY <2>2, <2>4, <3>1 DEF LastOneFound, ReadMentions
    <3>3. CASE k \in DOMAIN contents[file]
      <4>1. ReadMentions(k)' = ReadMentions(k) \cup {first}
        BY <1>0, <2>1, <2>2, <2>3, <2>4, <3>3 DEF ReadMentions
      <4>2. \A j \in ReadMentions(k)' : j =< first
        BY <2>4, <3>1, <3>2, <4>1
      <4>3. k \in DOMAIN found' /\ found'[k] = IF contents[file][k] = "set" THEN file ELSE "none"
        BY <2>3, <3>3
      <4>4. QED
        BY <2>4, <4>1, <4>2, <4>3
    <3>4. CASE k \notin DOMAIN contents[file]
      <4>1. ReadMentions(k)' = ReadMentions(k)
        BY <1>0, <2>1, <2>2, <2>3, <2>4, <3>4 DEF ReadMentions
      <4>2. /\ k \in DOMAIN found' <=> k \in DOMAIN found
            /\ k \in DOMAIN found => found'[k] = found[k]
        BY <2>3, <3>4
      <4>3. QED
        BY <4>1, <4>2 DEF LastOneFound
    <3>5. QED
      BY <3>3, <3>4
  <2>7. QED
    BY <1>0, <2>1, <2>3, <2>5, <2>6 DEF LastOneFound
<1>3. QED
  BY <1>1, <1>2

(* At the start no file that exists has been read. *)
LEMMA LastOneFoundAtStart ==
  ASSUME unread = {i \in DOMAIN Files : Files[i] \in DOMAIN contents}, phase = "files",
         DOMAIN found = {}
  PROVE  LastOneFound
<1>1. \A k : ReadMentions(k) = {}
  BY DEF ReadMentions
<1>2. \A i \in unread, j \in DOMAIN Files \ unread : Files[j] \notin DOMAIN contents
  OBVIOUS
<1>3. QED
  BY <1>1, <1>2 DEF LastOneFound

(* No other step touches what was read; to run again is to start anew. *)
LEMMA LastOneFoundStep ==
  ASSUME LastOneFound, [Next]_vars
  PROVE  LastOneFound'
<1>1. CASE RunAgain
  <2>1. /\ unread' = {i \in DOMAIN Files : Files[i] \in DOMAIN contents'}
        /\ phase' = "files" /\ DOMAIN found' = {}
    BY <1>1 DEF RunAgain
  <2>2. \A k : ReadMentions(k)' = {}
    BY <2>1 DEF ReadMentions
  <2>3. \A i \in unread', j \in DOMAIN Files \ unread' : Files[j] \notin DOMAIN contents'
    BY <2>1
  <2>4. QED
    BY <2>1, <2>2, <2>3 DEF LastOneFound
<1>2. CASE ReadFile
  BY <1>2, LastOneFoundRead
<1>3. ASSUME UNCHANGED <<contents, unread, found>>,
             phase' \notin {"files", "refused"} => phase \notin {"files", "refused"} \/ unread = {}
      PROVE  LastOneFound'
  BY <1>3 DEF LastOneFound, ReadMentions
<1>4. QED
  BY <1>1, <1>2, <1>3
  DEF Next, InitializeTool, InitializeOptions, FilesRead, ReadCommandLine, Apply, RhsmParts,
      HandleConfigConflict, HandleMissingOptions, StartChecks, Initialized, RunCheck, EndStage, Refuse,
      vars, optInputs, optVars

(* Only the user changes an input, and writes what a file may hold. *)
LEMMA InputsStep ==
  ASSUME Inputs, [Next]_vars
  PROVE  Inputs'
<1>1. CASE RunAgain
  <2> DEFINE old == IF OverrideFile \in DOMAIN contents THEN contents[OverrideFile]
                    ELSE [k \in {} |-> "set"]
             set == UNION {OverrideOf(a) : a \in Inhibitors}
  <2>1. set \subseteq Overrides
    BY AssessmentAssumption DEF OverrideOf
  <2>2. DOMAIN old \subseteq Credentials \cup Overrides /\ \A k \in DOMAIN old : old[k] \in {"set", "empty"}
    BY DEF Inputs, Range
  <2>3. Overridden = [k \in DOMAIN old \cup set |-> IF k \in set THEN "set" ELSE old[k]]
    BY DEF Overridden
  <2> HIDE DEF old, set
  <2>4. DOMAIN Overridden \subseteq Credentials \cup Overrides /\ Range(Overridden) \subseteq {"set", "empty"}
    BY <2>1, <2>2, <2>3 DEF Range
  <2>5. contents' = [f \in DOMAIN contents \cup {OverrideFile} |->
                        IF f = OverrideFile THEN Overridden ELSE contents[f]]
    BY <1>1 DEF RunAgain
  <2>6. UNCHANGED <<cli, env>>
    BY <1>1 DEF RunAgain, systemFacts
  <2>7. DOMAIN contents' \subseteq Range(Files)
    BY <2>5, AssessmentAssumption DEF Inputs
  <2>8. ASSUME NEW f \in DOMAIN contents'
        PROVE  /\ DOMAIN contents'[f] \subseteq Credentials \cup Overrides
               /\ Range(contents'[f]) \subseteq {"set", "empty"}
    <3>1. CASE f = OverrideFile
      BY <2>4, <2>5, <3>1
    <3>2. CASE f # OverrideFile
      BY <2>5, <3>2 DEF Inputs
    <3>3. QED
      BY <3>1, <3>2
  <2>9. QED
    BY <2>6, <2>7, <2>8 DEF Inputs
<1>2. CASE UNCHANGED <<contents, cli, env>>
  BY <1>2 DEF Inputs
<1>3. QED
  BY <1>1, <1>2
  DEF Next, InitializeTool, InitializeOptions, ReadFile, FilesRead, ReadCommandLine, Apply,
      RhsmParts,
      HandleConfigConflict, HandleMissingOptions, StartChecks, RunCheck, EndStage,
      vars, optInputs, optVars, systemFacts

(* Resolving the conflicts settles every credential at once. *)
LEMMA ResolvedSettles ==
  ASSUME credentials = AppliedCredentials
  PROVE  Resolved = SettledCredentials
<1> DEFINE taken == [k \in Credentials |->
                      IF FromFile(k) /\ k \in cli.credentials THEN "cli" ELSE credentials[k]]
<1>1. \A k \in Credentials : taken[k] = IF k \in cli.credentials THEN "cli"
                                        ELSE IF FromFile(k) THEN found[k] ELSE "none"
  BY DEF AppliedCredentials
<1>2. Resolved = IF KeyDropped THEN [taken EXCEPT !["activation_key"] = "none", !["org"] = "none"]
                 ELSE taken
  BY DEF Resolved, KeyDropped
<1> HIDE DEF taken
<1>3. DOMAIN taken = Credentials /\ taken = [k \in Credentials |-> taken[k]]
  BY DEF taken
<1>4. CASE KeyDropped
  <2>1. Resolved = [k \in Credentials |-> IF k \in {"activation_key", "org"} THEN "none" ELSE taken[k]]
    BY <1>2, <1>3, <1>4 DEF Credentials
  <2>2. QED
    BY <1>1, <1>4, <2>1 DEF SettledCredentials
<1>5. CASE ~KeyDropped
  BY <1>1, <1>2, <1>3, <1>5 DEF SettledCredentials
<1>6. QED
  BY <1>4, <1>5

(* The credentials are those of the files and the command line, before and *)
(* after the conflicts are resolved.                                       *)
LEMMA CredentialsFollowStep ==
  ASSUME CredentialsFollow, StageFollows, [Next]_vars
  PROVE  CredentialsFollow'
<1>1. CASE RunAgain
  BY <1>1 DEF RunAgain, CredentialsFollow, Settled, Stages
<1>2. CASE Apply
  <2>1. phase' = "server" /\ credentials' = AppliedCredentials /\ UNCHANGED <<cli, found>>
    BY <1>2 DEF Apply, optInputs, AppliedCredentials
  <2>2. AppliedCredentials' = AppliedCredentials
    BY <2>1 DEF AppliedCredentials, FromFile
  <2>3. QED
    BY <2>1, <2>2 DEF CredentialsFollow, Settled, Stages
<1>3. CASE HandleConfigConflict
  <2>1. /\ phase = "conflict" /\ phase' \in {"refused", "missing"}
        /\ credentials' = Resolved /\ UNCHANGED <<cli, found>>
    BY <1>3 DEF HandleConfigConflict, optInputs
  <2>2. credentials' = SettledCredentials
    BY <2>1, ResolvedSettles DEF CredentialsFollow
  <2>3. SettledCredentials' = SettledCredentials
    BY <2>1 DEF SettledCredentials, FromFile, KeyDropped
  <2>4. QED
    BY <2>1, <2>2, <2>3 DEF CredentialsFollow, Settled, Stages
<1>4. ASSUME UNCHANGED <<cli, found, credentials>>,
             phase' \in {"server", "conflict"} => phase \in {"server", "conflict"},
             phase' \in Settled => phase \in Settled
      PROVE  CredentialsFollow'
  <2>1. AppliedCredentials' = AppliedCredentials /\ SettledCredentials' = SettledCredentials
    BY <1>4 DEF AppliedCredentials, SettledCredentials, FromFile, KeyDropped
  <2>2. QED
    BY <1>4, <2>1 DEF CredentialsFollow, Settled, Stages
<1>5. CASE ReadFile \/ FilesRead \/ ReadCommandLine
  <2>1. phase' \in {"files", "command line", "apply", "refused"}
    BY <1>5 DEF ReadFile, FilesRead, ReadCommandLine, Refuse
  <2>2. QED
    BY <2>1 DEF CredentialsFollow, Settled, Stages
<1>6. CASE StartChecks \/ RunCheck \/ EndStage
  BY <1>4, <1>6 DEF StartChecks, Initialized, RunCheck, EndStage, optInputs, Settled, Stages
<1>7. CASE RhsmParts \/ HandleMissingOptions \/ UNCHANGED vars
  BY <1>4, <1>7 DEF RhsmParts, HandleMissingOptions, vars, optInputs, optVars, Settled, Stages
<1>8. QED
  BY <1>1, <1>2, <1>3, <1>5, <1>6, <1>7 DEF Next, InitializeTool, InitializeOptions

(* setup_rhsm_parts() looks at the credentials before the conflicts are      *)
(* resolved: whoever is usable afterwards was so then.                       *)
LEMMA ServerFollowsStep ==
  ASSUME ServerFollows, CredentialsFollow, StageFollows, [Next]_vars
  PROVE  ServerFollows'
<1>1. CASE RunAgain
  BY <1>1 DEF RunAgain, ServerFollows, Settled, Stages
<1>2. CASE RhsmParts
  <2>1. credentials = AppliedCredentials /\ UNCHANGED <<cli, found>>
    BY <1>2 DEF RhsmParts, CredentialsFollow, optInputs
  <2>2. AppliedCredentials' = AppliedCredentials
    BY <2>1 DEF AppliedCredentials, FromFile
  <2>3. QED
    BY <1>2, <2>1, <2>2 DEF RhsmParts, ServerFollows, Settled, Stages, Usable
<1>4. ASSUME UNCHANGED <<cli, found, server>>,
             phase' \in {"conflict"} \cup Settled => phase \in {"conflict"} \cup Settled
      PROVE  ServerFollows'
  <2>1. AppliedCredentials' = AppliedCredentials
    BY <1>4 DEF AppliedCredentials, FromFile
  <2>2. QED
    BY <1>4, <2>1 DEF ServerFollows, Settled, Stages, Usable
<1>5. CASE ReadFile \/ FilesRead \/ ReadCommandLine \/ Apply
  <2>1. phase' \in {"files", "command line", "apply", "refused", "server"} /\ UNCHANGED <<server, cli>>
    BY <1>5 DEF ReadFile, FilesRead, ReadCommandLine, Apply, Refuse, optInputs
  <2>2. QED
    BY <2>1 DEF ServerFollows, Settled, Stages
<1>6. CASE StartChecks \/ RunCheck \/ EndStage
  BY <1>4, <1>6 DEF StartChecks, Initialized, RunCheck, EndStage, optInputs, Settled, Stages
<1>7. CASE HandleConfigConflict \/ HandleMissingOptions \/ UNCHANGED vars
  BY <1>4, <1>7 DEF HandleConfigConflict, HandleMissingOptions, vars, optInputs, optVars, Settled, Stages
<1>8. QED
  BY <1>1, <1>2, <1>5, <1>6, <1>7 DEF Next, InitializeTool, InitializeOptions

(* The overrides of the files are there from the start, and none is lost. *)
LEMMA OverridesFollowStep ==
  ASSUME OverridesFollow, Inputs, [Next]_vars
  PROVE  OverridesFollow'
<1>1. CASE RunAgain
  BY <1>1 DEF RunAgain, OverridesFollow, Settled, Stages
<1>2. CASE Apply
  <2>1. overrides' = FromFiles /\ UNCHANGED <<found, cli>>
    BY <1>2 DEF Apply, FromFiles, optInputs
  <2>2. FromFiles' = FromFiles
    BY <2>1 DEF FromFiles, FromFile
  <2>3. QED
    BY <2>1, <2>2 DEF OverridesFollow, FromFiles
<1>4. ASSUME UNCHANGED <<found>>, overrides \subseteq overrides', overrides' \subseteq Overrides,
             phase' \in {"server", "conflict"} \cup Settled => phase \in {"server", "conflict"} \cup Settled
      PROVE  OverridesFollow'
  BY <1>4 DEF OverridesFollow, FromFiles, FromFile
<1>5. CASE ReadFile \/ FilesRead \/ ReadCommandLine
  <2>1. phase' \in {"files", "command line", "apply", "refused"} /\ UNCHANGED <<overrides>>
    BY <1>5 DEF ReadFile, FilesRead, ReadCommandLine, Refuse, optInputs
  <2>2. QED
    BY <2>1 DEF OverridesFollow, Settled, Stages
<1>6. CASE StartChecks \/ EndStage
  BY <1>4, <1>6 DEF StartChecks, Initialized, EndStage, optInputs, Settled, Stages, OverridesFollow
<1>7. CASE RhsmParts \/ HandleConfigConflict \/ HandleMissingOptions \/ UNCHANGED vars
  BY <1>4, <1>7 DEF RhsmParts, HandleConfigConflict, HandleMissingOptions, vars, optInputs, optVars,
                    Settled, Stages, OverridesFollow
<1>9. CASE RunCheck
  BY <1>4, <1>9 DEF RunCheck, OverridesFollow, Inputs
<1>8. QED
  BY <1>1, <1>2, <1>5, <1>6, <1>7, <1>9 DEF Next, InitializeTool, InitializeOptions

-----------------------------------------------------------------------------
(* The tables of the checks. *)

(* The first row that holds decides, and when none does all is good. *)
LEMMA FirstRowDecides ==
  ASSUME NEW rows, DOMAIN rows \subseteq Nat
  PROVE  \/ (\A i \in DOMAIN rows : ~rows[i].holds) /\ Decide(rows) = Good
         \/ \E i \in DOMAIN rows :
               /\ rows[i].holds
               /\ \A j \in DOMAIN rows : j < i => ~rows[j].holds
               /\ Decide(rows) = rows[i].outcome
<1> DEFINE holding == {i \in DOMAIN rows : rows[i].holds}
<1>1. holding \in SUBSET Nat
  OBVIOUS
<1>2. Decide(rows) = IF holding = {} THEN Good ELSE rows[Min(holding)].outcome
  BY DEF Decide
<1>3. CASE holding = {}
  BY <1>2, <1>3
<1>4. CASE holding # {}
  <2>1. Min(holding) \in holding /\ \A y \in holding : Min(holding) =< y
    BY <1>1, <1>4, MinIsLeast
  <2> DEFINE i == Min(holding)
  <2>2. i \in DOMAIN rows /\ rows[i].holds /\ i \in Nat /\ DOMAIN rows \subseteq Nat
    BY <2>1
  <2>3. Decide(rows) = rows[i].outcome
    BY <1>2, <1>4
  <2>4. \A j \in DOMAIN rows : rows[j].holds => i =< j
    BY <2>1
  <2> HIDE DEF i
  <2>5. \A j \in DOMAIN rows : j < i => ~rows[j].holds
    BY <2>2, <2>4
  <2>6. QED
    BY <2>2, <2>3, <2>5
<1>5. QED
  BY <1>3, <1>4

(* A table is a chain of conditions. *)
LEMMA Table1 ==
  ASSUME NEW c1 \in BOOLEAN, NEW o1
  PROVE  Decide(<<Row(c1, o1)>>) =
           IF c1 THEN o1
           ELSE Good
<1> DEFINE rows == <<Row(c1, o1)>>
<1>1. DOMAIN rows = 1 .. 1 /\ DOMAIN rows \subseteq Nat
  OBVIOUS
<1>2. /\ rows[1].holds = c1 /\ rows[1].outcome = o1
  BY DEF Row
<1> HIDE DEF rows
<1>3. QED
  BY <1>1, <1>2, FirstRowDecides DEF rows

(* Three conditions. *)
LEMMA Table3 ==
  ASSUME NEW c1 \in BOOLEAN, NEW o1, NEW c2 \in BOOLEAN, NEW o2, NEW c3 \in BOOLEAN, NEW o3
  PROVE  Decide(<<Row(c1, o1), Row(c2, o2), Row(c3, o3)>>) =
           IF c1 THEN o1
           ELSE IF c2 THEN o2
           ELSE IF c3 THEN o3
           ELSE Good
<1> DEFINE rows == <<Row(c1, o1), Row(c2, o2), Row(c3, o3)>>
<1>1. DOMAIN rows = 1 .. 3 /\ DOMAIN rows \subseteq Nat
  OBVIOUS
<1>2. /\ rows[1].holds = c1 /\ rows[1].outcome = o1
      /\ rows[2].holds = c2 /\ rows[2].outcome = o2
      /\ rows[3].holds = c3 /\ rows[3].outcome = o3
  BY DEF Row
<1> HIDE DEF rows
<1>3. QED
  BY <1>1, <1>2, FirstRowDecides DEF rows

(* Four. *)
LEMMA Table4 ==
  ASSUME NEW c1 \in BOOLEAN, NEW o1, NEW c2 \in BOOLEAN, NEW o2, NEW c3 \in BOOLEAN, NEW o3,
         NEW c4 \in BOOLEAN, NEW o4
  PROVE  Decide(<<Row(c1, o1), Row(c2, o2), Row(c3, o3), Row(c4, o4)>>) =
           IF c1 THEN o1
           ELSE IF c2 THEN o2
           ELSE IF c3 THEN o3
           ELSE IF c4 THEN o4
           ELSE Good
<1> DEFINE rows == <<Row(c1, o1), Row(c2, o2), Row(c3, o3), Row(c4, o4)>>
<1>1. DOMAIN rows = 1 .. 4 /\ DOMAIN rows \subseteq Nat
  OBVIOUS
<1>2. /\ rows[1].holds = c1 /\ rows[1].outcome = o1
      /\ rows[2].holds = c2 /\ rows[2].outcome = o2
      /\ rows[3].holds = c3 /\ rows[3].outcome = o3
      /\ rows[4].holds = c4 /\ rows[4].outcome = o4
  BY DEF Row
<1> HIDE DEF rows
<1>3. QED
  BY <1>1, <1>2, FirstRowDecides DEF rows

(* Five. *)
LEMMA Table5 ==
  ASSUME NEW c1 \in BOOLEAN, NEW o1, NEW c2 \in BOOLEAN, NEW o2, NEW c3 \in BOOLEAN, NEW o3,
         NEW c4 \in BOOLEAN, NEW o4, NEW c5 \in BOOLEAN, NEW o5
  PROVE  Decide(<<Row(c1, o1), Row(c2, o2), Row(c3, o3), Row(c4, o4), Row(c5, o5)>>) =
           IF c1 THEN o1
           ELSE IF c2 THEN o2
           ELSE IF c3 THEN o3
           ELSE IF c4 THEN o4
           ELSE IF c5 THEN o5
           ELSE Good
<1> DEFINE rows == <<Row(c1, o1), Row(c2, o2), Row(c3, o3), Row(c4, o4), Row(c5, o5)>>
<1>1. DOMAIN rows = 1 .. 5 /\ DOMAIN rows \subseteq Nat
  OBVIOUS
<1>2. /\ rows[1].holds = c1 /\ rows[1].outcome = o1
      /\ rows[2].holds = c2 /\ rows[2].outcome = o2
      /\ rows[3].holds = c3 /\ rows[3].outcome = o3
      /\ rows[4].holds = c4 /\ rows[4].outcome = o4
      /\ rows[5].holds = c5 /\ rows[5].outcome = o5
  BY DEF Row
<1> HIDE DEF rows
<1>3. QED
  BY <1>1, <1>2, FirstRowDecides DEF rows

(* Six. *)
LEMMA Table6 ==
  ASSUME NEW c1 \in BOOLEAN, NEW o1, NEW c2 \in BOOLEAN, NEW o2, NEW c3 \in BOOLEAN, NEW o3,
         NEW c4 \in BOOLEAN, NEW o4, NEW c5 \in BOOLEAN, NEW o5,
         NEW c6 \in BOOLEAN, NEW o6
  PROVE  Decide(<<Row(c1, o1), Row(c2, o2), Row(c3, o3),
                 Row(c4, o4), Row(c5, o5), Row(c6, o6)>>) =
           IF c1 THEN o1
           ELSE IF c2 THEN o2
           ELSE IF c3 THEN o3
           ELSE IF c4 THEN o4
           ELSE IF c5 THEN o5
           ELSE IF c6 THEN o6
           ELSE Good
<1> DEFINE rows == <<Row(c1, o1), Row(c2, o2), Row(c3, o3), Row(c4, o4), Row(c5, o5), Row(c6, o6)>>
<1>1. DOMAIN rows = 1 .. 6 /\ DOMAIN rows \subseteq Nat
  OBVIOUS
<1>2. /\ rows[1].holds = c1 /\ rows[1].outcome = o1
      /\ rows[2].holds = c2 /\ rows[2].outcome = o2
      /\ rows[3].holds = c3 /\ rows[3].outcome = o3
      /\ rows[4].holds = c4 /\ rows[4].outcome = o4
      /\ rows[5].holds = c5 /\ rows[5].outcome = o5
      /\ rows[6].holds = c6 /\ rows[6].outcome = o6
  BY DEF Row
<1> HIDE DEF rows
<1>3. QED
  BY <1>1, <1>2, FirstRowDecides DEF rows

-----------------------------------------------------------------------------
(* The stages. *)

(* A check only looks at the system, the command line and the credentials. *)
LEMMA OutcomesStay ==
  ASSUME UNCHANGED <<system, troubles, cli, credentials>>, NEW a, NEW w
  PROVE  Outcome(a, w)' = Outcome(a, w)
<1>1. IsOutdated' = IsOutdated /\ NoPublicRepositories' = NoPublicRepositories
      /\ ShouldSubscribe' = ShouldSubscribe /\ BadKernel' = BadKernel
  BY DEF IsOutdated, NoPublicRepositories, ShouldSubscribe, Usable, BadKernel, Is
<1>2. /\ CheckFirewalldAvailability' = CheckFirewalldAvailability
      /\ Convert2rhelLatest(w)' = Convert2rhelLatest(w)
      /\ DbusIsRunning' = DbusIsRunning
      /\ DuplicatePackages' = DuplicatePackages
      /\ Efi' = Efi
      /\ ElsSystemCheck' = ElsSystemCheck
      /\ EusSystemCheck' = EusSystemCheck
      /\ GrubValidity' = GrubValidity
      /\ IsLoadedKernelLatest(w)' = IsLoadedKernelLatest(w)
      /\ PackageUpdates' = PackageUpdates
      /\ ReadonlyMountMnt' = ReadonlyMountMnt
      /\ ReadonlyMountSys' = ReadonlyMountSys
      /\ RhelCompatibleKernel' = RhelCompatibleKernel
      /\ TaintedKmods(w)' = TaintedKmods(w)
      /\ PreSubscription' = PreSubscription
      /\ SubscribeSystem' = SubscribeSystem
      /\ CustomReposAreValid' = CustomReposAreValid
      /\ EnsureKernelModulesCompatibility(w)' = EnsureKernelModulesCompatibility(w)
  BY <1>1
  DEF CheckFirewalldAvailability, Convert2rhelLatest, DbusIsRunning, DuplicatePackages, Efi,
      ElsSystemCheck, EusSystemCheck, GrubValidity, IsLoadedKernelLatest, PackageUpdates,
      ReadonlyMountMnt, ReadonlyMountSys, RhelCompatibleKernel, TaintedKmods, PreSubscription,
      SubscribeSystem, CustomReposAreValid, EnsureKernelModulesCompatibility, Is
<1>3. QED
  BY <1>2 DEF Outcome

(* The checks of the two stages. *)
LEMMA SystemChecksAre ==
  Range(SystemCheckIds) =
      {"CHECK_FIREWALLD_AVAILABILITY", "CONVERT2RHEL_LATEST_VERSION", "DBUS_IS_RUNNING",
       "DUPLICATE_PACKAGES", "EFI", "ELS_SYSTEM_CHECK", "EUS_SYSTEM_CHECK", "GRUB_VALIDITY",
       "IS_LOADED_KERNEL_LATEST", "PACKAGE_UPDATES", "READ_ONLY_MOUNTS_MNT",
       "READ_ONLY_MOUNTS_SYS", "RHEL_COMPATIBLE_KERNEL", "TAINTED_KMODS"}
BY DEF Range, SystemCheckIds

(* Those before the point of no return. *)
LEMMA PrePonrChecksAre ==
  Range(PrePonrIds) =
      {"PRE_SUBSCRIPTION", "SUBSCRIBE_SYSTEM", "CUSTOM_REPOSITORIES_ARE_VALID",
       "ENSURE_KERNEL_MODULES_COMPATIBILITY"}
BY DEF Range, PrePonrIds

(* Both stages are sequences of checks. *)
LEMMA StagesAreSequences == SystemCheckIds \in Seq(Checks) /\ PrePonrIds \in Seq(Checks)
BY DEF Range, PrePonrIds, SystemCheckIds, Checks

(* The Actions that are left, one by one. *)
LEMMA EmptyRange == Range(<<>>) = {}
<1>1. DOMAIN <<>> = {}
  OBVIOUS
<1>2. QED
  BY <1>1 DEF Range

(* Taking the first one off leaves the others. *)
LEMMA TailOfTodo ==
  ASSUME NEW S, NEW q \in Seq(S), q # <<>>
  PROVE  /\ Head(q) \in Range(q) /\ Tail(q) \in Seq(S)
         /\ Range(q) = {Head(q)} \cup Range(Tail(q))
         /\ Head(q) \in S
<1>1. Len(q) \in Nat /\ Len(q) >= 1 /\ DOMAIN q = 1 .. Len(q) /\ Head(q) = q[1] /\ Tail(q) \in Seq(S)
  OBVIOUS
<1>2. DOMAIN Tail(q) = 1 .. (Len(q) - 1) /\ \A i \in 1 .. (Len(q) - 1) : Tail(q)[i] = q[i + 1]
  OBVIOUS
<1>3. Range(Tail(q)) \subseteq Range(q) /\ Head(q) \in Range(q)
  BY <1>1, <1>2 DEF Range
<1>4. ASSUME NEW x \in Range(q), x # Head(q) PROVE x \in Range(Tail(q))
  <2>1. PICK i \in 1 .. Len(q) : q[i] = x
    BY <1>1 DEF Range
  <2>2. i - 1 \in 1 .. (Len(q) - 1) /\ q[(i - 1) + 1] = x
    BY <1>1, <1>4, <2>1
  <2>3. QED
    BY <1>2, <2>2 DEF Range
<1>5. QED
  BY <1>1, <1>3, <1>4

(* What the check of dbus and the other outcomes come to. *)
LEMMA DbusTable ==
  DbusIsRunning = IF ShouldSubscribe /\ Is("no dbus") THEN Error("DBUS_DAEMON_NOT_RUNNING") ELSE Good
<1>1. PICK a : /\ a = (ShouldSubscribe /\ Is("no dbus"))
               /\ DbusIsRunning = Decide(<<Row(a, Error("DBUS_DAEMON_NOT_RUNNING"))>>)
  BY Zenon DEF DbusIsRunning
<1>2. a \in BOOLEAN
  BY <1>1
<1>3. QED
  BY <1>1, <1>2, Table1

(* The level, the id and the messages of each kind of outcome. *)
LEMMA OutcomeKinds ==
  /\ Good.level = "SUCCESS" /\ Good.id = "SUCCESS" /\ Good.messages = <<>>
  /\ \A id : /\ Error(id).level = "ERROR" /\ Error(id).id = id /\ Error(id).messages = <<>>
             /\ Overridable(id).level = "OVERRIDABLE" /\ Overridable(id).id = id
             /\ Overridable(id).messages = <<>>
             /\ Warns(id).level = "SUCCESS" /\ Warns(id).id = "SUCCESS"
             /\ Warns(id).messages = <<Message("WARNING", id)>>
  /\ Result("SKIP", "SKIP").level = "SKIP" /\ Result("SKIP", "SKIP").id = "SKIP"
  /\ Result("SKIP", "SKIP").messages = <<>>
BY DEF Good, Error, Overridable, Warns, Result

(* The next stage begins only when the check of dbus has succeeded. *)
LEMMA DbusSucceeded ==
  ASSUME Answered, "DBUS_IS_RUNNING" \in DOMAIN results, ~Inhibited(results)
  PROVE  results["DBUS_IS_RUNNING"].level = "SUCCESS"
<1>1. results["DBUS_IS_RUNNING"].level \in {"SUCCESS", "SKIP", "ERROR"}
  <2>1. \A w : Outcome("DBUS_IS_RUNNING", w) = DbusIsRunning
    BY DEF Outcome
  <2>2. DbusIsRunning.level \in {"SUCCESS", "ERROR"} /\ Result("SKIP", "SKIP").level = "SKIP"
    BY DbusTable, OutcomeKinds
  <2>3. results["DBUS_IS_RUNNING"] \in {DbusIsRunning, Result("SKIP", "SKIP")}
    BY <2>1, Zenon DEF Answered
  <2>4. QED
    BY <2>2, <2>3
<1>2. ~(Status(results["DBUS_IS_RUNNING"]) >= StatusCode["SKIP"])
  BY DEF Inhibited
<1>3. StatusCode["SKIP"] = 101 /\ StatusCode["ERROR"] = 202
  BY DEF StatusCode
<1>4. QED
  BY <1>1, <1>2, <1>3 DEF Status

(* The stages follow each other with the checks that belong to them. *)
LEMMA StageFollowsStep ==
  ASSUME StageFollows, Answered, ToldFollows, [Next]_vars
  PROVE  StageFollows'
<1> USE DEF StageFollows, Stages
<1>1. CASE RunAgain
  BY <1>1 DEF RunAgain, NoResults, Reported
<1>2. CASE StartChecks
  <2>1. /\ phase' = "system checks" /\ todo' = SystemCheckIds /\ results' = results
        /\ DOMAIN results = {}
    BY <1>2 DEF StartChecks, Initialized, NoResults
  <2>2. QED
    BY <2>1, StagesAreSequences, SystemChecksAre
<1>3. CASE RunCheck
  <2> DEFINE a == Head(todo)
  <2>1. a \in Range(todo) /\ todo' \in Seq(Checks) /\ Range(todo) = {a} \cup Range(todo')
    BY <1>3, TailOfTodo DEF RunCheck
  <2>2. DOMAIN results' = DOMAIN results \cup {a} /\ phase' = phase /\ phase \in Stages
        /\ \A b \in DOMAIN results : b # a => results'[b] = results[b]
    BY <1>3 DEF RunCheck
  <2>3. a \in Checks
    BY <1>3, TailOfTodo DEF RunCheck
  <2>4. phase = "pre ponr" => a # "DBUS_IS_RUNNING"
    BY <2>1, PrePonrChecksAre
  <2> HIDE DEF a
  <2>5. QED
    BY <2>1, <2>2, <2>3, <2>4
<1>4. CASE EndStage
  <2>1. CASE phase = "system checks" /\ ~Inhibited(results)
    <3>1. /\ phase' = "pre ponr" /\ todo' = PrePonrIds /\ results' = results /\ todo = <<>>
      BY <1>4, <2>1 DEF EndStage
    <3>2. Range(todo) = {}
      BY <3>1, EmptyRange
    <3>3. "DBUS_IS_RUNNING" \in DOMAIN results
      BY <2>1, <3>2
    <3>4. results["DBUS_IS_RUNNING"].level = "SUCCESS"
      BY <2>1, <3>3, DbusSucceeded
    <3>5. QED
      BY <3>1, <3>3, <3>4, StagesAreSequences
  <2>2. CASE ~(phase = "system checks" /\ ~Inhibited(results))
    <3>1. /\ phase' = "reported" /\ phase \in Stages /\ UNCHANGED <<todo, results>> /\ todo = <<>>
      BY <1>4, <2>2 DEF EndStage
    <3>2. Range(todo) = {}
      BY <3>1, EmptyRange
    <3>3. "DBUS_IS_RUNNING" \in DOMAIN results
      BY <3>1, <3>2
    <3>4. QED
      BY <3>1, <3>3, SystemChecksAre
  <2>3. QED
    BY <2>1, <2>2
<1>5. ASSUME UNCHANGED <<todo, results>>, phase \notin Stages \cup {"reported"},
             phase' \notin Stages \cup {"reported"} 
      PROVE  StageFollows'
  BY <1>5
<1>6. CASE InitializeTool
  <2>1. UNCHANGED <<todo, results>>
    BY <1>6 DEF InitializeTool
  <2>2. phase \notin Stages \cup {"reported"} /\ phase' \notin Stages \cup {"reported"}
    BY <1>6 DEF InitializeTool, InitializeOptions, ReadFile, FilesRead, ReadCommandLine, Apply, RhsmParts,
      HandleConfigConflict, HandleMissingOptions, Refuse
  <2>3. QED
    BY <1>5, <2>1, <2>2
<1>7. CASE UNCHANGED vars
  BY <1>7 DEF vars, optVars
<1>8. QED
  BY <1>1, <1>2, <1>3, <1>4, <1>6, <1>7 DEF Next

(* The options stand, and so does what a check concludes from them. *)
LEMMA AnsweredStep ==
  ASSUME Answered, StageFollows, OverridesFollow, Inputs, [Next]_vars
  PROVE  Answered'
<1>1. CASE RunAgain
  BY <1>1 DEF RunAgain, NoResults, Answered
<1>2. CASE DOMAIN results = {} /\ UNCHANGED results
  BY <1>2 DEF Answered
<1>3. ASSUME UNCHANGED <<system, troubles, cli, credentials, found>>
      PROVE  FromFiles' = FromFiles /\ \A a, w : Outcome(a, w)' = Outcome(a, w)
  BY <1>3, OutcomesStay DEF FromFiles, FromFile
<1>4. CASE UNCHANGED <<system, troubles, cli, credentials, found, results>>
  BY <1>3, <1>4 DEF Answered
<1>5. CASE RunCheck
  <2> DEFINE a == Head(todo)
             waived == overrides \cup (env \cap OverrideOf(a))
  <2>1. UNCHANGED <<system, troubles, cli, credentials, found>>
    BY <1>5 DEF RunCheck, optInputs, systemFacts
  <2>2. FromFiles' = FromFiles /\ \A b, w : Outcome(b, w)' = Outcome(b, w)
    BY <1>3, <2>1
  <2>3. waived \in SUBSET Overrides /\ FromFiles \subseteq waived
    BY <1>5 DEF OverridesFollow, StageFollows, RunCheck, Settled, Inputs
  <2>4. results' = [b \in DOMAIN results \cup {a} |->
                      IF b # a THEN results[b]
                      ELSE IF Skipped(a) THEN Result("SKIP", "SKIP") ELSE Outcome(a, waived)]
    BY <1>5 DEF RunCheck
  <2> HIDE DEF waived, a
  <2>5. ASSUME NEW b \in DOMAIN results'
        PROVE  \/ results'[b] = Result("SKIP", "SKIP")
               \/ \E w \in SUBSET Overrides :
                     FromFiles \subseteq w /\ results'[b] = Outcome(b, w)
    <3>1. CASE b = a
      BY <2>3, <2>4, <3>1
    <3>2. CASE b # a
      BY <2>4, <3>2 DEF Answered
    <3>3. QED
      BY <3>1, <3>2
  <2>6. Result("SKIP", "SKIP")' = Result("SKIP", "SKIP")
    BY DEF Result, Good
  <2>7. QED
    BY <2>2, <2>5, <2>6 DEF Answered
<1>6. CASE StartChecks \/ EndStage
  BY <1>4, <1>6 DEF StartChecks, EndStage, optInputs, systemFacts
<1>7. CASE InitializeTool
  <2>1. UNCHANGED results
    BY <1>7 DEF InitializeTool
  <2>2. phase \notin Stages \cup {"reported"}
    BY <1>7 DEF InitializeTool, InitializeOptions, ReadFile, FilesRead, ReadCommandLine, Apply, RhsmParts,
      HandleConfigConflict, HandleMissingOptions, Stages
  <2>3. QED
    BY <1>2, <2>1, <2>2 DEF StageFollows
<1>8. CASE UNCHANGED vars
  BY <1>4, <1>8 DEF vars, optVars, optInputs, systemFacts
<1>9. QED
  BY <1>1, <1>5, <1>6, <1>7, <1>8 DEF Next

(* The reports are written once, of the results there are then. *)
LEMMA ToldFollowsStep ==
  ASSUME ToldFollows, StageFollows, [Next]_vars
  PROVE  ToldFollows'
<1>1. CASE EndStage
  <2>1. CASE phase' = "reported"
    BY <1>1, <2>1 DEF EndStage, ToldFollows, Reported
  <2>2. CASE phase' # "reported"
    BY <2>2 DEF ToldFollows, Reported
  <2>3. QED
    BY <2>1, <2>2
<1>2. CASE phase' # "reported"
  BY <1>2 DEF ToldFollows, Reported
<1>3. CASE UNCHANGED <<phase, told, results>>
  BY <1>3 DEF ToldFollows, Reported
<1>4. CASE StartChecks \/ RunCheck \/ RunAgain
  <2>1. phase' # "reported"
    BY <1>4 DEF StartChecks, RunCheck, RunAgain, StageFollows, Stages
  <2>2. QED
    BY <2>1, <1>2
<1>5. CASE InitializeTool
  <2>1. phase' # "reported"
    BY <1>5 DEF InitializeTool, InitializeOptions, ReadFile, FilesRead, ReadCommandLine, Apply, RhsmParts,
      HandleConfigConflict, HandleMissingOptions, Refuse
  <2>2. QED
    BY <2>1, <1>2
<1>6. CASE UNCHANGED vars
  BY <1>3, <1>6 DEF vars, optVars
<1>7. QED
  BY <1>1, <1>4, <1>5, <1>6 DEF Next

(* Whoever runs the tool again has written the overrides down. *)
LEMMA WrittenDownStep ==
  ASSUME WrittenDown, [Next]_vars
  PROVE  WrittenDown'
<1>1. CASE RunAgain
  <2> DEFINE set == UNION {OverrideOf(a) : a \in Inhibitors}
  <2>1. /\ contents' = [f \in DOMAIN contents \cup {OverrideFile} |->
                           IF f = OverrideFile THEN Overridden ELSE contents[f]]
        /\ previous' = results
    BY <1>1 DEF RunAgain
  <2>2. \A k \in set : k \in DOMAIN Overridden /\ Overridden[k] = "set"
    BY DEF Overridden
  <2>3. \A a \in DOMAIN results : results[a].level = "OVERRIDABLE" => OverrideOf(a) \subseteq set
    BY DEF Inhibitors
  <2> HIDE DEF set
  <2>4. OverrideFile \in DOMAIN contents' /\ contents'[OverrideFile] = Overridden
    BY <2>1
  <2>5. \A a : OverrideOf(a)' = OverrideOf(a)
    BY DEF OverrideOf
  <2>6. QED
    BY <2>1, <2>2, <2>3, <2>4, <2>5 DEF WrittenDown
<1>2. CASE UNCHANGED <<contents, previous>>
  <2>1. \A a : OverrideOf(a)' = OverrideOf(a)
    BY DEF OverrideOf
  <2>2. QED
    BY <1>2, <2>1 DEF WrittenDown
<1>3. QED
  BY <1>1, <1>2
  DEF Next, InitializeTool, InitializeOptions, ReadFile, FilesRead, ReadCommandLine, Apply,
      RhsmParts,
      HandleConfigConflict, HandleMissingOptions, StartChecks, RunCheck, EndStage,
      vars, optInputs, optVars, systemFacts

(* The inductive invariant. *)
LEMMA AssessmentInit ==
  Begin => AssessmentInv
<1> SUFFICES ASSUME Begin PROVE AssessmentInv
  OBVIOUS
<1>1. LastOneFound
  BY LastOneFoundAtStart DEF Begin, Initialize
<1>2. DOMAIN results = {} /\ DOMAIN previous = {} /\ todo = <<>> /\ phase = "files" /\ server = FALSE
      /\ overrides = {} /\ Inputs
  BY DEF Begin, Initialize, NoResults
<1>3. Range(todo) = {}
  BY <1>2, EmptyRange
<1>4. CredentialsFollow /\ ServerFollows /\ OverridesFollow /\ ToldFollows
  BY <1>2 DEF CredentialsFollow, ServerFollows, OverridesFollow, ToldFollows, Settled, Stages,
         Reported
<1>5. StageFollows
  BY <1>2, <1>3 DEF StageFollows, Stages
<1>6. Answered /\ WrittenDown
  BY <1>2 DEF Answered, WrittenDown
<1>7. QED
  BY <1>1, <1>2, <1>4, <1>5, <1>6 DEF AssessmentInv

(* Every step keeps every part of it. *)
LEMMA AssessmentStep ==
  AssessmentInv /\ [Next]_vars => AssessmentInv'
BY InputsStep, LastOneFoundStep, CredentialsFollowStep, ServerFollowsStep, OverridesFollowStep,
   StageFollowsStep, AnsweredStep, WrittenDownStep, ToldFollowsStep
DEF AssessmentInv

(* So it holds throughout. *)
LEMMA AssessmentInvariant == Spec => []AssessmentInv
BY AssessmentInit, AssessmentStep, PTL DEF Spec

-----------------------------------------------------------------------------
(* What an override does. *)

(* The checks that know an override. *)
LEMMA LatestTable ==
  ASSUME NEW w
  PROVE  Convert2rhelLatest(w) =
           IF Is("no repofile") THEN Warns("CONVERT2RHEL_LATEST_CHECK_REPO_DOWNLOAD_FAILED")
           ELSE IF Is("repoquery fails") THEN Warns("CONVERT2RHEL_LATEST_CHECK_SKIP")
           ELSE IF IsOutdated /\ "allow_older_version" \in w THEN Warns("ALLOW_OLDER_VERSION_OPTION")
           ELSE IF IsOutdated THEN Overridable("OUT_OF_DATE")
           ELSE Good
<1> DEFINE c1 == Is("no repofile")
           c2 == Is("repoquery fails")
           c3 == IsOutdated /\ "allow_older_version" \in w
           c4 == IsOutdated
           o1 == Warns("CONVERT2RHEL_LATEST_CHECK_REPO_DOWNLOAD_FAILED")
           o2 == Warns("CONVERT2RHEL_LATEST_CHECK_SKIP")
           o3 == Warns("ALLOW_OLDER_VERSION_OPTION")
           o4 == Overridable("OUT_OF_DATE")
<1>1. c1 \in BOOLEAN /\ c2 \in BOOLEAN /\ c3 \in BOOLEAN /\ c4 \in BOOLEAN
  BY DEF Is, IsOutdated
<1>2. Convert2rhelLatest(w) = Decide(<<Row(c1, o1), Row(c2, o2), Row(c3, o3), Row(c4, o4)>>)
  BY DEF Convert2rhelLatest
<1> HIDE DEF c1, c2, c3, c4, o1, o2, o3, o4
<1>3. Convert2rhelLatest(w) =
         IF c1 THEN o1 ELSE IF c2 THEN o2 ELSE IF c3 THEN o3 ELSE IF c4 THEN o4 ELSE Good
  BY <1>1, <1>2, Table4
<1>4. QED
  BY <1>3 DEF c1, c2, c3, c4, o1, o2, o3, o4

(* The loaded kernel: the override comes before everything but Oracle with EUS. *)
LEMMA LoadedKernelTable ==
  ASSUME NEW w
  PROVE  IsLoadedKernelLatest(w) =
           IF NoPublicRepositories THEN Good
           ELSE IF "skip_kernel_currency_check" \in w 
                THEN Warns("UNSUPPORTED_SKIP_KERNEL_CURRENCY_CHECK_DETECTED")
           ELSE IF Is("repoquery fails") THEN Warns("UNABLE_TO_FETCH_RECENT_KERNELS")
           ELSE IF Is("no kernel in the repositories") THEN Overridable("KERNEL_CURRENCY_CHECK_FAIL")
           ELSE IF Is("unreadable kernel version") THEN Warns("INVALID_KERNEL_PACKAGE")
           ELSE IF Is("another kernel loaded") THEN Overridable("INVALID_KERNEL_VERSION")
           ELSE Good
<1> DEFINE c1 == NoPublicRepositories
           c2 == "skip_kernel_currency_check" \in w
           c3 == Is("repoquery fails")
           c4 == Is("no kernel in the repositories")
           c5 == Is("unreadable kernel version")
           c6 == Is("another kernel loaded")
           o1 == Good
           o2 == Warns("UNSUPPORTED_SKIP_KERNEL_CURRENCY_CHECK_DETECTED")
           o3 == Warns("UNABLE_TO_FETCH_RECENT_KERNELS")
           o4 == Overridable("KERNEL_CURRENCY_CHECK_FAIL")
           o5 == Warns("INVALID_KERNEL_PACKAGE")
           o6 == Overridable("INVALID_KERNEL_VERSION")
<1>1. /\ c1 \in BOOLEAN /\ c2 \in BOOLEAN /\ c3 \in BOOLEAN
      /\ c4 \in BOOLEAN /\ c5 \in BOOLEAN /\ c6 \in BOOLEAN
  BY DEF Is, NoPublicRepositories
<1>2. IsLoadedKernelLatest(w) = Decide(<<Row(c1, o1), Row(c2, o2), Row(c3, o3),
                 Row(c4, o4), Row(c5, o5), Row(c6, o6)>>)
  BY DEF IsLoadedKernelLatest
<1> HIDE DEF c1, c2, c3, c4, c5, c6, o1, o2, o3, o4, o5, o6
<1>3. IsLoadedKernelLatest(w) =
         IF c1 THEN o1 ELSE IF c2 THEN o2 ELSE IF c3 THEN o3
         ELSE IF c4 THEN o4 ELSE IF c5 THEN o5 ELSE IF c6 THEN o6 ELSE Good
  BY <1>1, <1>2, Table6, SMTT(60)
<1>4. QED
  BY <1>3 DEF c1, c2, c3, c4, c5, c6, o1, o2, o3, o4, o5, o6

(* What is told of tainted modules that were accepted. *)
TaintedAccepted ==
    [Good EXCEPT !.messages = <<Message("WARNING", "SKIP_TAINTED_KERNEL_MODULE_CHECK"),
                                Message("WARNING", "TAINTED_KMODS_DETECTED_MESSAGE")>>]

(* The tainted modules. *)
LEMMA TaintedTable ==
  ASSUME NEW w
  PROVE  TaintedKmods(w) =
           IF ~Is("tainted modules") THEN Good
           ELSE IF "tainted_kernel_module_check_skip" \notin w THEN Overridable("TAINTED_KMODS_DETECTED")
           ELSE IF TRUE THEN TaintedAccepted
           ELSE Good
<1> DEFINE c1 == ~Is("tainted modules")
           c2 == "tainted_kernel_module_check_skip" \notin w
           c3 == TRUE
           o1 == Good
           o2 == Overridable("TAINTED_KMODS_DETECTED")
           o3 == TaintedAccepted
<1>1. c1 \in BOOLEAN /\ c2 \in BOOLEAN /\ c3 \in BOOLEAN
  BY DEF Is
<1>2. TaintedKmods(w) = Decide(<<Row(c1, o1), Row(c2, o2), Row(c3, o3)>>)
  BY DEF TaintedKmods, TaintedAccepted
<1> HIDE DEF c1, c2, c3, o1, o2, o3
<1>3. TaintedKmods(w) =
         IF c1 THEN o1 ELSE IF c2 THEN o2 ELSE IF c3 THEN o3 ELSE Good
  BY <1>1, <1>2, Table3
<1>4. QED
  BY <1>3 DEF c1, c2, c3, o1, o2, o3

(* The modules that RHEL lacks: the errors come before the override. *)
LEMMA ModulesTable ==
  ASSUME NEW w
  PROVE  EnsureKernelModulesCompatibility(w) =
           IF Is("no rhel metadata") THEN Error("PROBLEM_WITH_PACKAGE_REPO")
           ELSE IF Is("unreadable module version") THEN Error("CANNOT_COMPARE_PACKAGE_VERSIONS")
           ELSE IF Is("no rhel modules") THEN Error("NO_RHEL_KERNEL_MODULES_FOUND")
           ELSE IF "allow_unavailable_kmods" \in w THEN Warns("ALLOW_UNAVAILABLE_KERNEL_MODULES")
           ELSE IF Is("unsupported modules") THEN Overridable("UNSUPPORTED_KERNEL_MODULES")
           ELSE Good
<1> DEFINE c1 == Is("no rhel metadata")
           c2 == Is("unreadable module version")
           c3 == Is("no rhel modules")
           c4 == "allow_unavailable_kmods" \in w
           c5 == Is("unsupported modules")
           o1 == Error("PROBLEM_WITH_PACKAGE_REPO")
           o2 == Error("CANNOT_COMPARE_PACKAGE_VERSIONS")
           o3 == Error("NO_RHEL_KERNEL_MODULES_FOUND")
           o4 == Warns("ALLOW_UNAVAILABLE_KERNEL_MODULES")
           o5 == Overridable("UNSUPPORTED_KERNEL_MODULES")
<1>1. c1 \in BOOLEAN /\ c2 \in BOOLEAN /\ c3 \in BOOLEAN /\ c4 \in BOOLEAN /\ c5 \in BOOLEAN
  BY DEF Is
<1>2. EnsureKernelModulesCompatibility(w) =
         Decide(<<Row(c1, o1), Row(c2, o2), Row(c3, o3), Row(c4, o4), Row(c5, o5)>>)
  BY DEF EnsureKernelModulesCompatibility
<1> HIDE DEF c1, c2, c3, c4, c5, o1, o2, o3, o4, o5
<1>3. EnsureKernelModulesCompatibility(w) =
         IF c1 THEN o1 ELSE IF c2 THEN o2 ELSE IF c3 THEN o3
         ELSE IF c4 THEN o4 ELSE IF c5 THEN o5 ELSE Good
  BY <1>1, <1>2, Table5
<1>4. QED
  BY <1>3 DEF c1, c2, c3, c4, c5, o1, o2, o3, o4, o5

Overridables ==
    {"CONVERT2RHEL_LATEST_VERSION", "IS_LOADED_KERNEL_LATEST", "TAINTED_KMODS",
     "ENSURE_KERNEL_MODULES_COMPATIBILITY"}

(* The other checks do not look at the overrides. *)
LEMMA OthersIgnoreOverrides ==
  ASSUME NEW a \in Checks \ Overridables, NEW v, NEW w
  PROVE  Outcome(a, v) = Outcome(a, w)
BY SystemChecksAre, PrePonrChecksAre DEF Checks, Overridables, Outcome

(* A check that an override silences still warns. *)
LEMMA WarningsTold ==
  ASSUME NEW id
  PROVE  "WARNING" \in {Warns(id).messages[i].level : i \in DOMAIN Warns(id).messages}
<1>1. Warns(id).messages = <<Message("WARNING", id)>> /\ Message("WARNING", id).level = "WARNING"
  BY OutcomeKinds DEF Message
<1>2. QED
  BY <1>1

(* So does the one for tainted modules, twice. *)
LEMMA TaintedAcceptedTold ==
  /\ TaintedAccepted.level = "SUCCESS" /\ TaintedAccepted.id = "SUCCESS"
  /\ TaintedAccepted.messages = <<Message("WARNING", "SKIP_TAINTED_KERNEL_MODULE_CHECK"),
                                Message("WARNING", "TAINTED_KMODS_DETECTED_MESSAGE")>>
  /\ "WARNING" \in {TaintedAccepted.messages[i].level : i \in DOMAIN TaintedAccepted.messages}
<1>1. /\ TaintedAccepted.level = "SUCCESS" /\ TaintedAccepted.id = "SUCCESS"
      /\ TaintedAccepted.messages = <<Message("WARNING", "SKIP_TAINTED_KERNEL_MODULE_CHECK"),
                                Message("WARNING", "TAINTED_KMODS_DETECTED_MESSAGE")>>
  BY DEF TaintedAccepted, Good
<1>2. Message("WARNING", "SKIP_TAINTED_KERNEL_MODULE_CHECK").level = "WARNING"
  BY DEF Message
<1>3. 1 \in DOMAIN TaintedAccepted.messages 
      /\ TaintedAccepted.messages[1] = Message("WARNING", "SKIP_TAINTED_KERNEL_MODULE_CHECK")
  BY <1>1
<1>4. QED
  BY <1>1, <1>2, <1>3

(* What an override does to a check. *)
LEMMA OverrideEffect ==
  ASSUME NEW a \in Overridables, NEW w
  PROVE  LET without == Outcome(a, {})
             with == Outcome(a, w)
         IN /\ with.level = "OVERRIDABLE" => \E k \in OverrideOf(a) : k \notin w
            /\ without.level = "ERROR" => with.level = "ERROR"
            /\ without.level = "OVERRIDABLE" /\ with.level = "SUCCESS" =>
                 "WARNING" \in {with.messages[i].level : i \in DOMAIN with.messages}
<1>1. ASSUME NEW id 
      PROVE  Warns(id).level = "SUCCESS" /\ Overridable(id).level = "OVERRIDABLE" /\ Error(id).level = "ERROR"
  BY OutcomeKinds
<1>2. Good.level = "SUCCESS"
  BY OutcomeKinds
<1>3. CASE a = "CONVERT2RHEL_LATEST_VERSION"
  <2>1. Outcome(a, {}) = Convert2rhelLatest({}) /\ Outcome(a, w) = Convert2rhelLatest(w)
        /\ OverrideOf(a) = {"allow_older_version"}
    BY <1>3 DEF Outcome, OverrideOf
  <2>2. QED
    BY <1>1, <1>2, <2>1, LatestTable, WarningsTold
<1>4. CASE a = "IS_LOADED_KERNEL_LATEST"
  <2>1. Outcome(a, {}) = IsLoadedKernelLatest({}) /\ Outcome(a, w) = IsLoadedKernelLatest(w)
        /\ OverrideOf(a) = {"skip_kernel_currency_check"}
    BY <1>4 DEF Outcome, OverrideOf
  <2>2. QED
    BY <1>1, <1>2, <2>1, LoadedKernelTable, WarningsTold
<1>5. CASE a = "TAINTED_KMODS"
  <2>1. Outcome(a, {}) = TaintedKmods({}) /\ Outcome(a, w) = TaintedKmods(w)
        /\ OverrideOf(a) = {"tainted_kernel_module_check_skip"}
    BY <1>5 DEF Outcome, OverrideOf
  <2>2. QED
    BY <1>1, <1>2, <2>1, TaintedTable, TaintedAcceptedTold
<1>6. CASE a = "ENSURE_KERNEL_MODULES_COMPATIBILITY"
  <2>1. /\ Outcome(a, {}) = EnsureKernelModulesCompatibility({})
        /\ Outcome(a, w) = EnsureKernelModulesCompatibility(w)
        /\ OverrideOf(a) = {"allow_unavailable_kmods"}
    BY <1>6 DEF Outcome, OverrideOf
  <2>2. QED
    BY <1>1, <1>2, <2>1, ModulesTable, WarningsTold
<1>7. QED
  BY <1>3, <1>4, <1>5, <1>6 DEF Overridables

(* What every outcome of a check looks like. *)
WellFormed(r) ==
    /\ r.level \in ResultLevels
    /\ r.level # "SUCCESS" => r.messages = <<>>
    /\ DOMAIN r.messages \in SUBSET {1, 2}
    /\ \A i \in DOMAIN r.messages : r.messages[i].level \in MessageLevels
    /\ \A i, j \in DOMAIN r.messages : i # j => r.messages[i].id # r.messages[j].id

(* No override is asked for. *)
Plain(r) == WellFormed(r) /\ r.level # "OVERRIDABLE"

(* The outcomes that the tables are made of are such. *)
LEMMA OutcomesPlain ==
  /\ Plain(Good) /\ Plain(Result("SKIP", "SKIP"))
  /\ \A id : Plain(Error(id)) /\ WellFormed(Overridable(id)) /\ Plain(Warns(id))
<1>1. DOMAIN <<>> = {}
  OBVIOUS
<1>2. \A id : DOMAIN <<Message("WARNING", id)>> = {1} /\ <<Message("WARNING", id)>>[1].level = "WARNING"
  BY DEF Message
<1>3. QED
  BY <1>1, <1>2, OutcomeKinds DEF Plain, WellFormed, ResultLevels, MessageLevels

(* The outcome of PackageUpdates without public repositories. *)
InfoOnly ==
    [Good EXCEPT !.messages =
        <<Message("INFO", "PACKAGE_UPDATES_CHECK_SKIP_NO_PUBLIC_REPOSITORIES")>>]

(* The information about missing public repositories. *)
LEMMA InfoPlain == Plain(InfoOnly)
<1> DEFINE m == Message("INFO", "PACKAGE_UPDATES_CHECK_SKIP_NO_PUBLIC_REPOSITORIES")
<1>1. InfoOnly.level = "SUCCESS" /\ InfoOnly.messages = <<m>>
  BY DEF InfoOnly, Good
<1>2. DOMAIN <<m>> = {1} /\ <<m>>[1].level = "INFO"
  BY DEF Message
<1>3. QED
  BY <1>1, <1>2 DEF Plain, WellFormed, ResultLevels, MessageLevels

(* The two warnings about tainted modules. *)
LEMMA TaintedPlain == Plain(TaintedAccepted)
<1> DEFINE m == Message("WARNING", "SKIP_TAINTED_KERNEL_MODULE_CHECK")
           n == Message("WARNING", "TAINTED_KMODS_DETECTED_MESSAGE")
<1>1. TaintedAccepted.level = "SUCCESS" /\ TaintedAccepted.messages = <<m, n>>
  BY TaintedAcceptedTold
<1>2. DOMAIN <<m, n>> = {1, 2} /\ <<m, n>>[1] = m /\ <<m, n>>[2] = n
  OBVIOUS
<1>3. m.level = "WARNING" /\ n.level = "WARNING" /\ m.id # n.id
  BY DEF Message
<1> HIDE DEF m, n
<1>4. QED
  BY <1>1, <1>2, <1>3 DEF Plain, WellFormed, ResultLevels, MessageLevels

(* So is what a table of them decides. *)
LEMMA Rows1 ==
  ASSUME NEW c1, NEW o1,
         Plain(Good), Plain(o1)
  PROVE  Plain(Decide(<<Row(c1, o1)>>))
<1> DEFINE rows == <<Row(c1, o1)>>
<1>1. DOMAIN rows = 1 .. 1 /\ DOMAIN rows \subseteq Nat
  OBVIOUS
<1>2. rows[1].outcome = o1
  BY DEF Row
<1> HIDE DEF rows
<1>3. Decide(rows) \in {o1, Good}
  BY <1>1, <1>2, FirstRowDecides
<1>4. QED
  BY <1>3 DEF rows

(* Of two rows. *)
LEMMA Rows2 ==
  ASSUME NEW c1, NEW o1, NEW c2, NEW o2,
         Plain(Good), Plain(o1), Plain(o2)
  PROVE  Plain(Decide(<<Row(c1, o1), Row(c2, o2)>>))
<1> DEFINE rows == <<Row(c1, o1), Row(c2, o2)>>
<1>1. DOMAIN rows = 1 .. 2 /\ DOMAIN rows \subseteq Nat
  OBVIOUS
<1>2. rows[1].outcome = o1 /\ rows[2].outcome = o2
  BY DEF Row
<1> HIDE DEF rows
<1>3. Decide(rows) \in {o1, o2, Good}
  BY <1>1, <1>2, FirstRowDecides
<1>4. QED
  BY <1>3 DEF rows

(* Of three. *)
LEMMA Rows3 ==
  ASSUME NEW c1, NEW o1, NEW c2, NEW o2, NEW c3, NEW o3,
         Plain(Good), Plain(o1), Plain(o2), Plain(o3)
  PROVE  Plain(Decide(<<Row(c1, o1), Row(c2, o2), Row(c3, o3)>>))
<1> DEFINE rows == <<Row(c1, o1), Row(c2, o2), Row(c3, o3)>>
<1>1. DOMAIN rows = 1 .. 3 /\ DOMAIN rows \subseteq Nat
  OBVIOUS
<1>2. rows[1].outcome = o1 /\ rows[2].outcome = o2 /\ rows[3].outcome = o3
  BY DEF Row
<1> HIDE DEF rows
<1>3. Decide(rows) \in {o1, o2, o3, Good}
  BY <1>1, <1>2, FirstRowDecides
<1>4. QED
  BY <1>3 DEF rows

(* Of four. *)
LEMMA Rows4 ==
  ASSUME NEW c1, NEW o1, NEW c2, NEW o2, NEW c3, NEW o3, NEW c4, NEW o4,
         Plain(Good), Plain(o1), Plain(o2), Plain(o3), Plain(o4)
  PROVE  Plain(Decide(<<Row(c1, o1), Row(c2, o2), Row(c3, o3), Row(c4, o4)>>))
<1> DEFINE rows == <<Row(c1, o1), Row(c2, o2), Row(c3, o3), Row(c4, o4)>>
<1>1. DOMAIN rows = 1 .. 4 /\ DOMAIN rows \subseteq Nat
  OBVIOUS
<1>2. rows[1].outcome = o1 /\ rows[2].outcome = o2 /\ rows[3].outcome = o3 /\ rows[4].outcome = o4
  BY DEF Row
<1> HIDE DEF rows
<1>3. Decide(rows) \in {o1, o2, o3, o4, Good}
  BY <1>1, <1>2, FirstRowDecides
<1>4. QED
  BY <1>3 DEF rows

(* Of six. *)
LEMMA Rows6 ==
  ASSUME NEW c1, NEW o1, NEW c2, NEW o2, NEW c3, NEW o3,
         NEW c4, NEW o4, NEW c5, NEW o5, NEW c6, NEW o6,
         Plain(Good), Plain(o1), Plain(o2), Plain(o3), Plain(o4), Plain(o5), Plain(o6)
  PROVE  Plain(Decide(<<Row(c1, o1), Row(c2, o2), Row(c3, o3),
                 Row(c4, o4), Row(c5, o5), Row(c6, o6)>>))
<1> DEFINE rows == <<Row(c1, o1), Row(c2, o2), Row(c3, o3), Row(c4, o4), Row(c5, o5), Row(c6, o6)>>
<1>1. DOMAIN rows = 1 .. 6 /\ DOMAIN rows \subseteq Nat
  OBVIOUS
<1>2. rows[1].outcome = o1 /\ rows[2].outcome = o2 /\ rows[3].outcome = o3
      /\ rows[4].outcome = o4 /\ rows[5].outcome = o5 /\ rows[6].outcome = o6
  BY DEF Row
<1> HIDE DEF rows
<1>3. Decide(rows) \in {o1, o2, o3, o4, o5, o6, Good}
  BY <1>1, <1>2, FirstRowDecides
<1>4. QED
  BY <1>3 DEF rows

(* The checks without an override never ask for one. *)
LEMMA OthersArePlain ==
  ASSUME NEW a \in Checks \ Overridables, NEW w
  PROVE  Plain(Outcome(a, w))
<1>1. Plain(CheckFirewalldAvailability)
  <2>1. PICK c1, c2 : CheckFirewalldAvailability =
       Decide(<<Row(c1, Good),
                Row(c2, Error("FIREWALLD_MODULES_CLEANUP_ON_EXIT_CONFIG"))>>)
    BY Zenon DEF CheckFirewalldAvailability
  <2>2. QED
    BY <2>1, OutcomesPlain, Rows2
<1>2. Plain(DbusIsRunning)
  <2>1. PICK c1 : DbusIsRunning =
       Decide(<<Row(c1, Error("DBUS_DAEMON_NOT_RUNNING"))>>)
    BY Zenon DEF DbusIsRunning
  <2>2. QED
    BY <2>1, OutcomesPlain, Rows1
<1>3. Plain(DuplicatePackages)
  <2>1. PICK c1, c2 : DuplicatePackages =
       Decide(<<Row(c1, IF system.major = 2 THEN Error("DUPLICATE_PACKAGES_FOUND")
                        ELSE Warns("DUPLICATE_PACKAGES_FAILURE")),
                Row(c2, Error("DUPLICATE_PACKAGES_FOUND"))>>)
    BY Zenon DEF DuplicatePackages
  <2>2. QED
    BY <2>1, OutcomesPlain, Rows2
<1>4. Plain(Efi)
  <2>1. PICK c1, c2, c3, c4, c5, c6 : Efi =
       Decide(<<Row(c1, Good),
                Row(c2, Error("NON_x86_64")),
                Row(c3, Error("EFIBOOTMGR_NOT_FOUND")),
                Row(c4, Error("SECURE_BOOT_DETECTED")),
                Row(c5, Error("BOOTLOADER_ERROR")),
                Row(c6, Warns("UEFI_BOOTLOADER_MISMATCH"))>>)
    BY Zenon DEF Efi
  <2>2. QED
    BY <2>1, OutcomesPlain, Rows6
<1>5. Plain(ElsSystemCheck)
  <2>1. PICK c1 : ElsSystemCheck =
       Decide(<<Row(c1, Warns("ELS_COMMAND_LINE_OPTION_UNUSED"))>>)
    BY Zenon DEF ElsSystemCheck
  <2>2. QED
    BY <2>1, OutcomesPlain, Rows1
<1>6. Plain(EusSystemCheck)
  <2>1. PICK c1 : EusSystemCheck =
       Decide(<<Row(c1, Warns("EUS_COMMAND_LINE_OPTION_UNUSED"))>>)
    BY Zenon DEF EusSystemCheck
  <2>2. QED
    BY <2>1, OutcomesPlain, Rows1
<1>7. Plain(GrubValidity)
  <2>1. PICK c1 : GrubValidity =
       Decide(<<Row(c1, Error("INVALID_GRUB_FILE"))>>)
    BY Zenon DEF GrubValidity
  <2>2. QED
    BY <2>1, OutcomesPlain, Rows1
<1>8. Plain(PackageUpdates)
  <2>1. PICK c1, c2, c3 : PackageUpdates =
       Decide(<<Row(c1, InfoOnly),
                Row(c2, Warns("PACKAGE_UP_TO_DATE_CHECK_MESSAGE")),
                Row(c3, Warns("OUT_OF_DATE_PACKAGES"))>>)
    BY Zenon DEF PackageUpdates, InfoOnly
  <2>2. QED
    BY <2>1, OutcomesPlain, Rows3, InfoPlain
<1>9. Plain(ReadonlyMountMnt)
  <2>1. PICK c1 : ReadonlyMountMnt =
       Decide(<<Row(c1, Error("MNT_DIR_READONLY_MOUNT"))>>)
    BY Zenon DEF ReadonlyMountMnt
  <2>2. QED
    BY <2>1, OutcomesPlain, Rows1
<1>10. Plain(ReadonlyMountSys)
  <2>1. PICK c1 : ReadonlyMountSys =
       Decide(<<Row(c1, Error("SYS_DIR_READONLY_MOUNT"))>>)
    BY Zenon DEF ReadonlyMountSys
  <2>2. QED
    BY <2>1, OutcomesPlain, Rows1
<1>11. Plain(BadKernel)
  <2>1. PICK c1, c2, c3, c4 : BadKernel =
       Decide(<<Row(c1, Error("INCOMPATIBLE_VERSION")),
                Row(c2, Error("UNSIGNED_PACKAGE")),
                Row(c3, Error("INVALID_KERNEL_PACKAGE_SIGNATURE")),
                Row(c4, Error("INVALID_PACKAGE_SUBSTRING"))>>)
    BY Zenon DEF BadKernel
  <2>2. QED
    BY <2>1, OutcomesPlain, Rows4
<1>12. Plain(RhelCompatibleKernel)
  <2>1. PICK c1, c2 : RhelCompatibleKernel =
       Decide(<<Row(c1, Warns("INCOMPATIBLE_KERNEL_ON_AL2")),
                Row(c2, BadKernel)>>)
    BY Zenon DEF RhelCompatibleKernel
  <2>2. QED
    BY <2>1, OutcomesPlain, Rows2, <1>11
<1>13. Plain(PreSubscription)
  <2>1. PICK c1, c2, c3 : PreSubscription =
       Decide(<<Row(c1, Warns("PRE_SUBSCRIPTION_CHECK_SKIP")),
                Row(c2, Error("UNABLE_TO_REGISTER")),
                Row(c3, Error("FAILED_TO_INSTALL_SUBSCRIPTION_MANAGER"))>>)
    BY Zenon DEF PreSubscription
  <2>2. QED
    BY <2>1, OutcomesPlain, Rows3
<1>14. Plain(SubscribeSystem)
  <2>1. PICK c1, c2, c3, c4, c5, c6 : SubscribeSystem =
       Decide(<<Row(c1, Warns("SUBSCRIPTION_CHECK_SKIP")),
                Row(c2, Error("SYSTEM_NOT_REGISTERED")),
                Row(c3, Error("UNEXPECTED_ERROR")),
                Row(c4, Error("NO_ACCESS_TO_RHEL_REPOS")),
                Row(c5, Error("FAILED_TO_SUBSCRIBE_SYSTEM")),
                Row(c6, Error("FAILED_TO_ENABLE_RHSM_REPOSITORIES"))>>)
    BY Zenon DEF SubscribeSystem
  <2>2. QED
    BY <2>1, OutcomesPlain, Rows6
<1>15. Plain(CustomReposAreValid)
  <2>1. PICK c1 : CustomReposAreValid =
       Decide(<<Row(c1, Error("UNABLE_TO_ACCESS_REPOSITORIES"))>>)
    BY Zenon DEF CustomReposAreValid
  <2>2. QED
    BY <2>1, OutcomesPlain, Rows1
<1>16. QED
  BY <1>1, <1>2, <1>3, <1>4, <1>5, <1>6, <1>7, <1>8, <1>9, <1>10, <1>11, <1>12, <1>13, <1>14, <1>15,
     SystemChecksAre, PrePonrChecksAre DEF Outcome, Checks, Overridables

(* Every check concludes with a well-formed outcome. *)
LEMMA ChecksWellFormed ==
  ASSUME NEW a \in Checks, NEW w
  PROVE  WellFormed(Outcome(a, w))
<1>1. CASE a \in Overridables
  <2>1. WellFormed(Convert2rhelLatest(w)) /\ WellFormed(IsLoadedKernelLatest(w))
    BY LatestTable, LoadedKernelTable, OutcomesPlain DEF Plain
  <2>2. WellFormed(TaintedKmods(w)) /\ WellFormed(EnsureKernelModulesCompatibility(w))
    BY TaintedTable, TaintedPlain, ModulesTable, OutcomesPlain DEF Plain
  <2>3. QED
    BY <1>1, <2>1, <2>2 DEF Outcome, Overridables
<1>2. CASE a \notin Overridables
  BY <1>2, OthersArePlain DEF Plain
<1>3. QED
  BY <1>1, <1>2

-----------------------------------------------------------------------------
(* What follows from the invariant. *)

(* No file is called as an option without a value is. *)
LEMMA NoneIsNoFile ==
  \A i \in DOMAIN Files : Files[i] # "none" /\ Files[i] # "cli"
BY FilesAssumption DEF Range

(* Who has usable credentials at the end had them before the conflicts were  *)
(* resolved, so that a named server was taken then.                          *)
LEMMA NamedServer ==
  ASSUME CredentialsFollow, ServerFollows
  PROVE  NamedServerIsAsked
<1> SUFFICES ASSUME phase = "ready", ShouldSubscribe
             PROVE  server <=> cli.serverurl # "none"
  BY DEF NamedServerIsAsked
<1>1. credentials = SettledCredentials
  BY DEF CredentialsFollow, Settled
<1>2. \A k \in Credentials : SettledCredentials[k] # "none" => AppliedCredentials[k] # "none"
  BY DEF SettledCredentials, AppliedCredentials, FromFile
<1>3. Usable(AppliedCredentials)
  BY <1>1, <1>2 DEF ShouldSubscribe, Usable, Credentials
<1>4. QED
  BY <1>3 DEF ShouldSubscribe, ServerFollows, Settled

(* The only way a set breaks up is the key that a password does away with. *)
LEMMA CompleteCredentials ==
  ASSUME CredentialsFollow, LastOneFound
  PROVE  CompleteCredentialsAreUsed
<1> SUFFICES ASSUME phase \in {"missing", "ready"},
                    Complete(cli.credentials) \/ Complete({k \in Credentials : FromFile(k)}),
                    ~("password" \in cli.credentials
                        /\ "username" \notin cli.credentials /\ ~FromFile("username"))
             PROVE  Usable(credentials)
  BY DEF CompleteCredentialsAreUsed
<1>1. credentials = SettledCredentials
  BY DEF CredentialsFollow, Settled
<1>2. \A k \in Credentials : k \in cli.credentials \/ FromFile(k) =>
        SettledCredentials[k] # "none" \/ (KeyDropped /\ k \in {"activation_key", "org"})
  BY DEF SettledCredentials, FromFile
<1>3. QED
  BY <1>1, <1>2 DEF Complete, Usable, Credentials, KeyDropped

(* The option that was found last comes from the file that Max picks. *)
LEMMA Priority ==
  ASSUME CredentialsFollow, LastOneFound
  PROVE  PriorityIsKept
<1> SUFFICES ASSUME phase \in Settled, NEW k \in Credentials
    PROVE
            \/ credentials[k] = "cli" /\ k \in cli.credentials
            \/ /\ k \notin cli.credentials
               /\ LET mentions == {i \in DOMAIN Files : Files[i] \in DOMAIN contents
                                                       /\ k \in DOMAIN contents[Files[i]]}
                      top == Files[Max(mentions)]
                  IN credentials[k] = IF mentions # {} /\ contents[top][k] = "set"
                                      THEN top ELSE "none"
            \/ /\ k \in {"activation_key", "org"}
               /\ "password" \in cli.credentials /\ FromFile("activation_key")
               /\ credentials[k] = "none"
  BY DEF PriorityIsKept, Settled, Stages
<1>1. credentials[k] = IF KeyDropped /\ k \in {"activation_key", "org"} THEN "none"
                       ELSE IF k \in cli.credentials THEN "cli"
                       ELSE IF FromFile(k) THEN found[k] ELSE "none"
  BY DEF CredentialsFollow, SettledCredentials
<1>2. CASE KeyDropped /\ k \in {"activation_key", "org"}
  BY <1>1, <1>2 DEF KeyDropped
<1>3. CASE ~(KeyDropped /\ k \in {"activation_key", "org"}) /\ k \in cli.credentials
  BY <1>1, <1>3
<1>4. CASE ~(KeyDropped /\ k \in {"activation_key", "org"}) /\ k \notin cli.credentials
  <2> DEFINE mentions == {i \in DOMAIN Files : Files[i] \in DOMAIN contents
                                               /\ k \in DOMAIN contents[Files[i]]}
  <2>1. mentions = ReadMentions(k)
    BY DEF LastOneFound, ReadMentions, Settled, Stages
  <2>2. credentials[k] = IF FromFile(k) THEN found[k] ELSE "none"
    BY <1>1, <1>4
  <2>3. mentions \in SUBSET Nat
    BY FilesAssumption
  <2> HIDE DEF mentions
  <2>4. CASE mentions = {}
    BY <2>1, <2>2, <2>4, <1>4 DEF LastOneFound, FromFile, mentions
  <2>5. CASE mentions # {}
    <3>1. PICK i \in mentions :
             /\ \A j \in mentions : j =< i
             /\ found[k] = IF contents[Files[i]][k] = "set" THEN Files[i] ELSE "none"
      BY <2>1, <2>5 DEF LastOneFound
    <3>2. Max(mentions) \in mentions /\ \A j \in mentions : Max(mentions) >= j
      BY <2>3, <2>5, <3>1, MaxIsGreatest
    <3>3. Max(mentions) = i
      <4>1. i \in Nat /\ Max(mentions) \in Nat /\ i =< Max(mentions) /\ Max(mentions) =< i
        BY <2>3, <3>1, <3>2
      <4>2. QED
        BY <4>1
    <3>4. Files[i] # "none" /\ k \in DOMAIN found
      BY <2>1, <2>5, NoneIsNoFile DEF mentions, LastOneFound
    <3>5. credentials[k] = IF contents[Files[i]][k] = "set" THEN Files[i] ELSE "none"
      BY <2>2, <3>1, <3>4 DEF FromFile
    <3>6. QED
      BY <1>4, <2>5, <3>3, <3>5 DEF mentions
  <2>6. QED
    BY <2>4, <2>5
<1>5. QED
  BY <1>2, <1>3, <1>4

(* An override turns inhibitors into warnings and touches nothing else. *)
LEMMA OverridesSilence ==
  ASSUME AssessmentInv
  PROVE  OverridesOnlySilenceInhibitors
<1> SUFFICES ASSUME NEW a \in DOMAIN results, results[a].level # "SKIP"
             PROVE  /\ Outcome(a, {}).level = "ERROR" => results[a].level = "ERROR"
                    /\ Outcome(a, {}).level = "OVERRIDABLE" /\ results[a].level = "SUCCESS" =>
                         "WARNING" \in {results[a].messages[i].level : i \in DOMAIN results[a].messages}
  BY DEF OverridesOnlySilenceInhibitors
<1>1. PICK w : results[a] = Outcome(a, w)
  BY OutcomeKinds DEF AssessmentInv, Answered
<1>2. a \in Checks
  BY DEF AssessmentInv, StageFollows
<1>3. CASE a \in Overridables
  BY <1>1, <1>3, OverrideEffect
<1>4. CASE a \notin Overridables
  <2>1. results[a] = Outcome(a, {})
    BY <1>1, <1>2, <1>4, OthersIgnoreOverrides
  <2>2. QED
    BY <2>1
<1>5. QED
  BY <1>3, <1>4

(* An inhibitor that is back has not seen the override of the file, which a  *)
(* file read later has hidden.                                               *)
LEMMA Honoured ==
  ASSUME AssessmentInv
  PROVE  OverridesAreHonoured
<1> SUFFICES ASSUME NEW a \in DOMAIN previous \cap DOMAIN results,
                    previous[a].level = "OVERRIDABLE", results[a].level = "OVERRIDABLE"
             PROVE  \E k \in OverrideOf(a) : TakenBack(k)
  BY DEF OverridesAreHonoured
<1>1. PICK w : FromFiles \subseteq w /\ results[a] = Outcome(a, w)
  BY OutcomeKinds DEF AssessmentInv, Answered
<1>2. a \in Checks
  BY DEF AssessmentInv, StageFollows
<1>3. PICK k \in OverrideOf(a) : k \notin w
  <2>1. CASE a \in Overridables
    BY <1>1, <2>1, OverrideEffect
  <2>2. CASE a \notin Overridables
    BY <1>1, <1>2, <2>2, OthersArePlain DEF Plain
  <2>3. QED
    BY <2>1, <2>2
<1>4. k \in Overrides /\ k \in Credentials \cup Overrides /\ ~FromFile(k)
  <2>1. OverrideOf(a) \subseteq Overrides
    BY AssessmentAssumption DEF OverrideOf
  <2>2. QED
    BY <1>1, <1>3, <2>1 DEF FromFiles
<1>5. /\ OverrideFile \in DOMAIN contents
      /\ k \in DOMAIN contents[OverrideFile] /\ contents[OverrideFile][k] = "set"
  BY <1>3 DEF AssessmentInv, WrittenDown
<1>6. PICK i \in DOMAIN Files : Files[i] = OverrideFile
  BY AssessmentAssumption DEF Range
<1>7. unread = {}
  BY DEF AssessmentInv, LastOneFound, StageFollows, Stages
<1>8. i \in ReadMentions(k)
  BY <1>5, <1>6, <1>7 DEF ReadMentions
<1>9. PICK j \in ReadMentions(k) :
         /\ \A n \in ReadMentions(k) : n =< j
         /\ found[k] = IF contents[Files[j]][k] = "set" THEN Files[j] ELSE "none"
  BY <1>4, <1>8 DEF AssessmentInv, LastOneFound
<1>10. k \in DOMAIN found /\ found[k] = "none"
  BY <1>4, <1>8 DEF AssessmentInv, LastOneFound, FromFile
<1>11. j \in DOMAIN Files /\ Files[j] \in DOMAIN contents /\ k \in DOMAIN contents[Files[j]]
  BY DEF ReadMentions
<1>12. contents[Files[j]][k] # "set"
  BY <1>9, <1>10, <1>11, NoneIsNoFile
<1>13. contents[Files[j]][k] = "empty"
  BY <1>11, <1>12 DEF AssessmentInv, Inputs, Range
<1>14. i < j
  <2>1. i =< j /\ i # j
    BY <1>5, <1>6, <1>8, <1>9, <1>12
  <2>2. i \in Nat /\ j \in Nat
    BY <1>6, <1>11, FilesAssumption
  <2>3. QED
    BY <2>1, <2>2
<1>15. QED
  BY <1>3, <1>6, <1>11, <1>13, <1>14 DEF TakenBack

(* The codes of the levels. *)
LEMMA Codes ==
  /\ StatusCode["SUCCESS"] = 0 /\ StatusCode["INFO"] = 25 /\ StatusCode["WARNING"] = 51
  /\ StatusCode["SKIP"] = 101 /\ StatusCode["OVERRIDABLE"] = 152 /\ StatusCode["ERROR"] = 202
BY DEF StatusCode

(* The messages of a well-formed result have their own entries, and so has *)
(* a result that is not a success.                                         *)
LEMMA EntriesOf ==
  ASSUME NEW r, WellFormed(r)
  PROVE  /\ Status(r) \in {0, 101, 152, 202} /\ (Status(r) = 0 <=> r.level = "SUCCESS")
         /\ \A i \in DOMAIN r.messages :
               /\ Status(r.messages[i]) \in {25, 51}
               /\ r.messages[i].level = "WARNING" => Status(r.messages[i]) = 51
               /\ CombinedLevel(r, r.messages[i].id) = Status(r.messages[i])
         /\ r.level # "SUCCESS" => CombinedLevel(r, r.id) = Status(r)
         /\ \A id : CombinedLevel(r, id) \in LevelsOf(r)
<1>1. Status(r) \in {0, 101, 152, 202} /\ (Status(r) = 0 <=> r.level = "SUCCESS")
  BY Codes DEF WellFormed, Status, ResultLevels
<1>2. ASSUME NEW i \in DOMAIN r.messages
      PROVE  /\ Status(r.messages[i]) \in {25, 51}
             /\ r.messages[i].level = "WARNING" => Status(r.messages[i]) = 51
             /\ CombinedLevel(r, r.messages[i].id) = Status(r.messages[i])
  <2>1. Status(r.messages[i]) \in {25, 51} /\ (r.messages[i].level = "WARNING" => Status(r.messages[i]) = 51)
    BY Codes DEF WellFormed, Status, MessageLevels
  <2>2. {j \in DOMAIN r.messages : r.messages[j].id = r.messages[i].id} = {i}
    BY DEF WellFormed
  <2>3. i \in Nat
    BY DEF WellFormed
  <2>4. Max({i}) = i
    BY <2>3 DEF Max
  <2>5. CombinedLevel(r, r.messages[i].id) = Status(r.messages[i])
    BY <2>2, <2>4 DEF CombinedLevel
  <2>6. QED
    BY <2>1, <2>5
<1>3. ASSUME r.level # "SUCCESS"
      PROVE  CombinedLevel(r, r.id) = Status(r)
  <2>1. DOMAIN r.messages = {}
    BY <1>3 DEF WellFormed
  <2>2. {j \in DOMAIN r.messages : r.messages[j].id = r.id} = {}
    BY <2>1
  <2>3. QED
    BY <2>2 DEF CombinedLevel
<1>4. ASSUME NEW id PROVE CombinedLevel(r, id) \in LevelsOf(r)
  <2> DEFINE same == {j \in DOMAIN r.messages : r.messages[j].id = id}
  <2>1. CombinedLevel(r, id) = IF same = {} THEN Status(r) ELSE Status(r.messages[Max(same)])
    BY DEF CombinedLevel
  <2>2. same \subseteq DOMAIN r.messages /\ same \in SUBSET Nat /\ same \in SUBSET (1 .. 2)
    BY DEF WellFormed
  <2>3. \A j \in same : j =< 2
    BY <2>2
  <2> HIDE DEF same
  <2>4. CASE same = {}
    BY <2>1, <2>4 DEF LevelsOf
  <2>5. CASE same # {}
    <3>1. Max(same) \in DOMAIN r.messages
      BY <2>2, <2>3, <2>5, MaxIsGreatest
    <3>2. QED
      BY <2>1, <2>5, <3>1 DEF LevelsOf
  <2>6. QED
    BY <2>4, <2>5
<1>5. QED
  BY <1>1, <1>2, <1>3, <1>4

(* Of well-formed results the reports have everything there is to tell. *)
LEMMA ReportsOf ==
  ASSUME NEW R, DOMAIN R # {}, \A a \in DOMAIN R : WellFormed(R[a])
  PROVE  /\ \A a \in DOMAIN R :
              /\ R[a].level # "SUCCESS" =>
                    [action |-> a, id |-> R[a].id, code |-> Status(R[a])] \in ScreenReport(R)
              /\ \A i \in DOMAIN R[a].messages :
                    R[a].messages[i].level = "WARNING" =>
                        [action |-> a, id |-> R[a].messages[i].id, code |-> Status(R[a].messages[i])]
                           \in ScreenReport(R)
         /\ ScreenReport(R) \subseteq TextReport(R)
         /\ HighestReportLevel(R) = Max({e.code : e \in TextReport(R)} \cup {StatusCode["SUCCESS"]})
         /\ HighestReportLevel(R) >= StatusCode["SKIP"] <=> Inhibited(R)
<1> DEFINE levels == UNION {LevelsOf(R[a]) : a \in DOMAIN R}
           codes == {e.code : e \in TextReport(R)} \cup {StatusCode["SUCCESS"]}
<1>1. ASSUME NEW a \in DOMAIN R
      PROVE  /\ R[a].level # "SUCCESS" =>
                  [action |-> a, id |-> R[a].id, code |-> Status(R[a])] \in Combined(R)
             /\ \A i \in DOMAIN R[a].messages :
                  [action |-> a, id |-> R[a].messages[i].id, code |-> Status(R[a].messages[i])]
                     \in Combined(R)
  <2>1. \A id \in Ids(R[a]) : [action |-> a, id |-> id, code |-> CombinedLevel(R[a], id)] \in Combined(R)
    BY DEF Combined
  <2>2. R[a].id \in Ids(R[a]) /\ \A i \in DOMAIN R[a].messages : R[a].messages[i].id \in Ids(R[a])
    BY DEF Ids
  <2>3. QED
    BY <2>1, <2>2, EntriesOf
<1>2. \A e \in Combined(R) : \E a \in DOMAIN R : e.code \in LevelsOf(R[a])
  BY EntriesOf DEF Combined
<1>3. \A a \in DOMAIN R : LevelsOf(R[a]) \subseteq {0, 25, 51, 101, 152, 202}
  BY EntriesOf DEF LevelsOf
<1>4. \A e \in Combined(R) : e.code \in {0, 25, 51, 101, 152, 202}
  BY <1>2, <1>3
<1>5. TextReport(R) = {e \in Combined(R) : e.code >= 25}
      /\ ScreenReport(R) = {e \in Combined(R) : e.code >= 51}
  BY Codes DEF TextReport, ScreenReport, OfSeverity
<1>6. ScreenReport(R) \subseteq TextReport(R)
  BY <1>4, <1>5
<1>7. ASSUME NEW a \in DOMAIN R
      PROVE  /\ R[a].level # "SUCCESS" =>
                    [action |-> a, id |-> R[a].id, code |-> Status(R[a])] \in ScreenReport(R)
             /\ \A i \in DOMAIN R[a].messages :
                    R[a].messages[i].level = "WARNING" =>
                        [action |-> a, id |-> R[a].messages[i].id, code |-> Status(R[a].messages[i])]
                           \in ScreenReport(R)
  BY <1>1, <1>5, EntriesOf
<1>8. levels \subseteq {0, 25, 51, 101, 152, 202} /\ levels # {}
  BY <1>3 DEF LevelsOf
<1>9. codes \subseteq levels \cup {0}
  BY <1>2, <1>5, Codes
<1>10. levels \subseteq codes
  <2> SUFFICES ASSUME NEW a \in DOMAIN R, NEW c \in LevelsOf(R[a]) PROVE c \in codes
    OBVIOUS
  <2>1. CASE c = 0
    BY <2>1, Codes
  <2>2. CASE c # 0 /\ c = Status(R[a])
    <3> DEFINE e == [action |-> a, id |-> R[a].id, code |-> Status(R[a])]
    <3>1. R[a].level # "SUCCESS"
      BY <2>2, EntriesOf
    <3>2. e \in TextReport(R) /\ e.code = c
      BY <1>6, <1>7, <2>2, <3>1
    <3>3. QED
      BY <3>2
  <2>3. ASSUME NEW i \in DOMAIN R[a].messages, c = Status(R[a].messages[i]) PROVE c \in codes
    <3> DEFINE e == [action |-> a, id |-> R[a].messages[i].id, code |-> Status(R[a].messages[i])]
    <3>1. e \in Combined(R) /\ e.code = c
      BY <1>1, <2>3
    <3>2. c >= 25
      BY <2>3, EntriesOf
    <3>3. e \in TextReport(R)
      BY <1>5, <3>1, <3>2
    <3>4. QED
      BY <3>1, <3>3
  <2>4. QED
    BY <2>1, <2>2, <2>3 DEF LevelsOf
<1>11. HighestReportLevel(R) = Max(levels)
  BY DEF HighestReportLevel
<1>12. /\ levels \in SUBSET Nat /\ codes \in SUBSET Nat /\ codes # {} /\ 0 \in codes
       /\ \A c \in levels \cup codes : c =< 202
  <2>1. levels \in SUBSET (0 .. 202) /\ codes \in SUBSET (0 .. 202)
    BY <1>8, <1>9
  <2>2. QED
    BY <2>1, Codes
<1>13. \A c \in levels : c >= 101 => \E a \in DOMAIN R : Status(R[a]) = c
  BY EntriesOf DEF LevelsOf
<1>14. \A a \in DOMAIN R : Status(R[a]) \in levels
  BY DEF LevelsOf
<1> DEFINE top == Max(levels)
<1>15. top \in levels /\ top \in Nat /\ \A c \in levels : top >= c
  <2>1. 202 \in Nat /\ levels # {} /\ \A c \in levels : c =< 202
    BY <1>8, <1>12
  <2> HIDE DEF levels, codes
  <2>2. QED
    BY <1>12, <2>1, MaxIsGreatest
<1>16. Max(codes) \in codes /\ Max(codes) \in Nat /\ \A c \in codes : Max(codes) >= c
  <2>1. 202 \in Nat /\ \A c \in codes : c =< 202
    BY <1>12
  <2> HIDE DEF levels, codes
  <2>2. QED
    BY <1>12, <2>1, MaxIsGreatest
<1> HIDE DEF top, levels, codes
<1>17. top = Max(codes)
  <2>1. top =< Max(codes)
    BY <1>10, <1>15, <1>16
  <2>2. Max(codes) =< top
    BY <1>9, <1>15, <1>16
  <2>3. QED
    BY <1>15, <1>16, <2>1, <2>2
<1>18. top >= 101 <=> \E a \in DOMAIN R : Status(R[a]) >= 101
  <2>1. ASSUME NEW a \in DOMAIN R, Status(R[a]) >= 101 PROVE top >= 101
    <3>1. Status(R[a]) \in Nat /\ top >= Status(R[a])
      BY <1>12, <1>14, <1>15
    <3>2. QED
      BY <1>15, <2>1, <3>1
  <2>2. QED
    BY <1>13, <1>15, <2>1
<1>19. QED
  BY <1>6, <1>7, <1>11, <1>17, <1>18, Codes DEF Inhibited, top, codes

(* What was told is what the reports make of the results. *)
LEMMA Reports ==
  ASSUME AssessmentInv
  PROVE  ReportsAgree
<1> SUFFICES ASSUME Reported PROVE ReportsAgree
  BY DEF ReportsAgree
<1>1. told.screen = ScreenReport(results) /\ told.text = TextReport(results)
      /\ told.json = HighestReportLevel(results)
  BY DEF AssessmentInv, ToldFollows
<1>2. DOMAIN results # {}
  BY DEF AssessmentInv, StageFollows, Reported
<1>3. \A a \in DOMAIN results : WellFormed(results[a])
  BY ChecksWellFormed, OutcomesPlain DEF AssessmentInv, StageFollows, Answered, Plain
<1>4. QED
  BY <1>1, <1>2, <1>3, ReportsOf DEF ReportsAgree

-----------------------------------------------------------------------------
(* Whatever files there are and whatever they mention, a credential comes    *)
(* from the command line or from the file of the highest priority that       *)
(* mentions it, but for the key that a password does away with.              *)
THEOREM PriorityStands == Spec => []PriorityIsKept
<1>1. AssessmentInv => PriorityIsKept
  BY Priority DEF AssessmentInv
<1>2. QED
  BY AssessmentInvariant, <1>1, PTL

(* Whoever gives a complete set of credentials is not taken for somebody     *)
(* without any.                                                              *)
THEOREM CompleteSetIsUsed == Spec => []CompleteCredentialsAreUsed
<1>1. AssessmentInv => CompleteCredentialsAreUsed
  BY CompleteCredentials DEF AssessmentInv
<1>2. QED
  BY AssessmentInvariant, <1>1, PTL

(* Registration asks the server that --serverurl names, or the default one   *)
(* when it names none.                                                       *)
THEOREM NamedServerAsked == Spec => []NamedServerIsAsked
<1>1. AssessmentInv => NamedServerIsAsked
  BY NamedServer DEF AssessmentInv
<1>2. QED
  BY AssessmentInvariant, <1>1, PTL

(* The tool never registers a system after a check of dbus that failed.      *)
THEOREM DbusBeforeRegistration == Spec => []RegistrationHasDbus
<1>1. AssessmentInv => RegistrationHasDbus
  <2> SUFFICES ASSUME AssessmentInv, "SUBSCRIBE_SYSTEM" \in DOMAIN results, ShouldSubscribe
               PROVE  ~Is("no dbus")
    BY DEF RegistrationHasDbus
  <2>1. "DBUS_IS_RUNNING" \in DOMAIN results /\ results["DBUS_IS_RUNNING"].level = "SUCCESS"
    BY SystemChecksAre DEF AssessmentInv, StageFollows, Stages
  <2>2. \A w : Outcome("DBUS_IS_RUNNING", w) = DbusIsRunning
    BY DEF Outcome
  <2>3. results["DBUS_IS_RUNNING"] \in {DbusIsRunning, Result("SKIP", "SKIP")}
    BY <2>1, <2>2, Zenon DEF Answered, AssessmentInv
  <2>4. DbusIsRunning.level = "SUCCESS"
    BY <2>1, <2>3, OutcomeKinds
  <2>5. QED
    BY <2>4, DbusTable, OutcomeKinds
<1>2. QED
  BY AssessmentInvariant, <1>1, PTL

(* The override that the report asks for is enough in the next run, unless a *)
(* file of higher priority takes it back.                                    *)
THEOREM OverridesHold == Spec => []OverridesAreHonoured
<1>1. AssessmentInv => OverridesAreHonoured
  BY Honoured DEF AssessmentInv
<1>2. QED
  BY AssessmentInvariant, <1>1, PTL

(* No override hides an error, and what it silences is still told.           *)
THEOREM OverridesHideNoError == Spec => []OverridesOnlySilenceInhibitors
<1>1. AssessmentInv => OverridesOnlySilenceInhibitors
  BY OverridesSilence DEF AssessmentInv
<1>2. QED
  BY AssessmentInvariant, <1>1, PTL

(* The three reports agree with each other, with the results and with the    *)
(* decision to go on.                                                        *)
THEOREM ReportsStand == Spec => []ReportsAgree
<1>1. AssessmentInv => ReportsAgree
  BY Reports DEF AssessmentInv
<1>2. QED
  BY AssessmentInvariant, <1>1, PTL
=============================================================================
