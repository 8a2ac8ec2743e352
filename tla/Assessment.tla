----------------------------- MODULE Assessment -----------------------------
(***************************************************************************)
(* The assessment of a system: the options are put together, the stages    *)
(* before the point of no return run, and the reports are written. A user  *)
(* who is told of inhibitors that an override silences may set them in the *)
(* configuration file and run the tool again.                              *)
(*                                                                         *)
(* The Actions that change the system are in other modules; here they only *)
(* make the ones after them run or be skipped.                             *)
(***************************************************************************)
EXTENDS SystemChecks, Report

CONSTANTS
    OverrideFile,  \* the file the user writes the overrides to
    MaxRuns        \* how often the user runs the tool

ASSUME AssessmentAssumption ==
    /\ OverrideFile \in Range(Files)
    /\ MaxRuns \in Nat
    /\ {"allow_older_version", "skip_kernel_currency_check", "tainted_kernel_module_check_skip",
        "allow_unavailable_kmods"} \subseteq Overrides

VARIABLES
    todo,      \* Actions of the current stage, in their order
    results,   \* [Actions that ended -> outcome]
    told,      \* what the reports say, once they are written
    previous,  \* the results of the run before
    runs       \* runs that were started

vars == <<optInputs, optVars, systemFacts, todo, results, told, previous, runs>>

(* The order of resolve_action_order: the stage of the system checks has   *)
(* no dependencies, of the next one only the Actions modelled here count.  *)
SystemCheckIds ==
    <<"CHECK_FIREWALLD_AVAILABILITY", "CONVERT2RHEL_LATEST_VERSION", "DBUS_IS_RUNNING",
      "DUPLICATE_PACKAGES", "EFI", "ELS_SYSTEM_CHECK", "EUS_SYSTEM_CHECK", "GRUB_VALIDITY",
      "IS_LOADED_KERNEL_LATEST", "PACKAGE_UPDATES", "READ_ONLY_MOUNTS_MNT",
      "READ_ONLY_MOUNTS_SYS", "RHEL_COMPATIBLE_KERNEL", "TAINTED_KMODS">>

PrePonrIds ==
    <<"PRE_SUBSCRIPTION", "SUBSCRIBE_SYSTEM", "CUSTOM_REPOSITORIES_ARE_VALID",
      "ENSURE_KERNEL_MODULES_COMPATIBILITY">>

Deps(a) ==
    CASE a = "SUBSCRIBE_SYSTEM"  -> {"PRE_SUBSCRIPTION", "EUS_SYSTEM_CHECK", "ELS_SYSTEM_CHECK"}
      [] a \in {"CUSTOM_REPOSITORIES_ARE_VALID", "ENSURE_KERNEL_MODULES_COMPATIBILITY"}
                                 -> {"SUBSCRIBE_SYSTEM"}
      [] OTHER                   -> {}

NoResults == [a \in {} |-> Good]
Silent == [screen |-> {}, text |-> {}, json |-> StatusCode["SUCCESS"]]

Initialized ==
    /\ phase = "ready"
    /\ results = NoResults
    /\ todo = <<>>

StartChecks ==
    /\ Initialized
    /\ phase' = "system checks"
    /\ todo' = SystemCheckIds
    /\ UNCHANGED <<optInputs, unread, found, credentials, overrides, server,
                   systemFacts, results, told, previous, runs>>

Skipped(a) == \E d \in Deps(a) : d \in DOMAIN results /\ results[d].level # "SUCCESS"

(* Stage.run: an Action runs, or is skipped for one it depends on. *)
RunCheck ==
    /\ todo # <<>>
    /\ LET a == Head(todo)
           waived == overrides \cup (env \cap OverrideOf(a))
       IN /\ overrides' = IF Skipped(a) THEN overrides ELSE waived
          /\ results' = [b \in DOMAIN results \cup {a} |->
                            IF b # a THEN results[b]
                            ELSE IF Skipped(a) THEN Result("SKIP", "SKIP")
                            ELSE Outcome(a, waived)]
    /\ todo' = Tail(todo)
    /\ UNCHANGED <<optInputs, phase, unread, found, credentials, server,
                   systemFacts, told, previous, runs>>

(* Mutant: goes on whatever failed. *)
EndStage_GoesOn ==
    /\ phase \in {"system checks", "pre ponr"}
    /\ todo = <<>>
    /\ IF phase = "system checks"
       THEN phase' = "pre ponr" /\ todo' = PrePonrIds /\ UNCHANGED told
       ELSE /\ phase' = "reported"
            /\ told' = [screen |-> ScreenReport(results),
                        text   |-> TextReport(results),
                        json   |-> HighestReportLevel(results)]
            /\ UNCHANGED todo
    /\ UNCHANGED <<optInputs, unread, found, credentials, overrides, server,
                   systemFacts, results, previous, runs>>

(* The next stage follows when nothing in this one failed; then, or when   *)
(* something did, the reports are written.                                 *)
EndStage ==
    /\ phase \in {"system checks", "pre ponr"}
    /\ todo = <<>>
    /\ IF phase = "system checks" /\ ~Inhibited(results)
       THEN phase' = "pre ponr" /\ todo' = PrePonrIds /\ UNCHANGED told
       ELSE /\ phase' = "reported"
            /\ told' = [screen |-> ScreenReport(results),
                        text   |-> TextReport(results),
                        json   |-> HighestReportLevel(results)]
            /\ UNCHANGED todo
    /\ UNCHANGED <<optInputs, unread, found, credentials, overrides, server,
                   systemFacts, results, previous, runs>>

(* The user sets the overrides of the inhibitors and starts again; neither *)
(* the system nor the command line has changed.                            *)
Inhibitors == {a \in DOMAIN results : results[a].level = "OVERRIDABLE"}

Overridden ==
    LET set == UNION {OverrideOf(a) : a \in Inhibitors}
        old == IF OverrideFile \in DOMAIN contents THEN contents[OverrideFile]
               ELSE [k \in {} |-> "set"]
    IN [k \in DOMAIN old \cup set |-> IF k \in set THEN "set" ELSE old[k]]

RunAgain ==
    /\ phase = "reported"
    /\ Inhibitors # {}
    /\ runs < MaxRuns
    /\ contents' = [f \in DOMAIN contents \cup {OverrideFile} |->
                      IF f = OverrideFile THEN Overridden ELSE contents[f]]
    /\ unread' = {i \in DOMAIN Files : Files[i] \in DOMAIN contents \cup {OverrideFile}}
    /\ phase' = "files"
    /\ found' = [k \in {} |-> "none"]
    /\ credentials' = [k \in Credentials |-> "none"]
    /\ overrides' = {}
    /\ server' = FALSE
    /\ results' = NoResults
    /\ previous' = results
    /\ told' = Silent
    /\ runs' = runs + 1
    /\ UNCHANGED <<cli, systemFacts, todo>>

InitializeTool ==
    InitializeOptions /\ UNCHANGED <<systemFacts, todo, results, told, previous, runs>>

(* What the user and the system bring along. *)
Inputs ==
    /\ DOMAIN contents \subseteq Range(Files)
    /\ \A f \in DOMAIN contents :
          /\ DOMAIN contents[f] \subseteq Credentials \cup Overrides
          /\ Range(contents[f]) \subseteq {"set", "empty"}
    /\ cli.credentials \subseteq Credentials
    /\ cli.serverurl \in {"none", "good", "bad"}
    /\ env \subseteq Overrides

Begin ==
    /\ Inputs
    /\ Initialize(contents)
    /\ todo = <<>>
    /\ results = NoResults
    /\ told = Silent
    /\ previous = NoResults
    /\ runs = 1

Next == InitializeTool \/ StartChecks \/ RunCheck \/ EndStage \/ RunAgain

Spec == Begin /\ [][Next]_vars

-----------------------------------------------------------------------------
Reported == phase = "reported"

(* Every variable has a value of its type; in particular a check reports a *)
(* warning as a message and never as its result, which set_result refuses. *)
TypeOK ==
    /\ phase \in {"system checks", "pre ponr", "reported"} \/ OptionTypes
    /\ \A a \in DOMAIN results :
          /\ results[a].level \in ResultLevels
          /\ \A i \in DOMAIN results[a].messages : results[a].messages[i].level \in MessageLevels
    /\ runs \in 1 .. MaxRuns

(* A credential comes from the command line when it was given there, and   *)
(* otherwise from the file of the highest priority that mentions it. The   *)
(* exception is a password on the command line with an activation key in a *)
(* file, which does away with the key and the organization.                *)
PriorityIsKept ==
    phase \in {"missing", "ready", "system checks", "pre ponr", "reported"} =>
        \A k \in Credentials :
            \/ credentials[k] = "cli" /\ k \in cli.credentials
            \/ /\ k \notin cli.credentials
               /\ LET mentions == {i \in DOMAIN Files : Files[i] \in DOMAIN contents
                                                       /\ k \in DOMAIN contents[Files[i]]}
                      top == Files[Max(mentions)]
                  IN credentials[k] = IF mentions # {} /\ contents[top][k] = "set"
                                      THEN top ELSE "none"
            \/ /\ k \in {"activation_key", "org"}
               /\ "password" \in cli.credentials /\ FromFile("activation_key")
               /\ credentials[k] = "none"

Complete(given) == {"username", "password"} \subseteq given \/ {"activation_key", "org"} \subseteq given

(* Who gives a complete set of credentials, in the files or on the command *)
(* line, is not taken for somebody without any, whatever else is given,    *)
(* unless a password on the command line has no username anywhere.         *)
CompleteCredentialsAreUsed ==
    /\ phase \in {"missing", "ready"}
    /\ Complete(cli.credentials) \/ Complete({k \in Credentials : FromFile(k)})
    /\ ~("password" \in cli.credentials
           /\ "username" \notin cli.credentials /\ ~FromFile("username"))
    => Usable(credentials)

(* Credentials are never sent to another server than the one the user has  *)
(* named.                                                                  *)
NamedServerIsAsked ==
    phase = "ready" /\ ShouldSubscribe => (server <=> cli.serverurl # "none")

(* The tool does not register a system without a running dbus: the check   *)
(* of dbus and the registration, a stage later, see the same options.      *)
RegistrationHasDbus ==
    /\ "SUBSCRIBE_SYSTEM" \in DOMAIN results
    /\ results["SUBSCRIBE_SYSTEM"].level # "SKIP"
    /\ ShouldSubscribe
    => ~Is("no dbus")

(* A file of higher priority than the one the user writes the overrides to *)
(* sets k to false.                                                        *)
TakenBack(k) ==
    \E i, j \in DOMAIN Files :
        /\ Files[i] = OverrideFile /\ i < j
        /\ Files[j] \in DOMAIN contents
        /\ k \in DOMAIN contents[Files[j]] /\ contents[Files[j]][k] = "empty"

(* An inhibitor never comes back in the run after the one in which it was  *)
(* overridden, unless a file of higher priority takes its override back.   *)
OverridesAreHonoured ==
    \A a \in DOMAIN previous \cap DOMAIN results :
        /\ previous[a].level = "OVERRIDABLE"
        /\ \A k \in OverrideOf(a) : ~TakenBack(k)
        => results[a].level # "OVERRIDABLE"

(* An override never makes an error of a check disappear, and an inhibitor *)
(* that it silences is told as a warning.                                  *)
OverridesOnlySilenceInhibitors ==
    \A a \in DOMAIN results :
        LET without == Outcome(a, {})
        IN results[a].level # "SKIP" =>
              /\ without.level = "ERROR" => results[a].level = "ERROR"
              /\ without.level = "OVERRIDABLE" /\ results[a].level = "SUCCESS" =>
                     "WARNING" \in {results[a].messages[i].level : i \in DOMAIN results[a].messages}

(* The report on the screen has every problem there is, with its level;    *)
(* the report files agree with it and with the decision to stop.           *)
ReportsAgree ==
    Reported =>
        /\ \A a \in DOMAIN results :
              /\ results[a].level # "SUCCESS" =>
                    [action |-> a, id |-> results[a].id, code |-> Status(results[a])] \in told.screen
              /\ \A i \in DOMAIN results[a].messages :
                    LET m == results[a].messages[i] IN
                    m.level = "WARNING" =>
                        [action |-> a, id |-> m.id, code |-> Status(m)] \in told.screen
        /\ told.screen \subseteq told.text
        /\ told.json = Max({e.code : e \in told.text} \cup {StatusCode["SUCCESS"]})
        /\ told.json >= StatusCode["SKIP"] <=> Inhibited(results)

-----------------------------------------------------------------------------
(* The inductive invariant that the proofs use, by parts. *)

Stages == {"system checks", "pre ponr"}
Settled == {"missing", "ready", "reported"} \cup Stages
Checks == Range(SystemCheckIds) \cup Range(PrePonrIds)

(* Places of the files read so far that mention option k. *)
ReadMentions(k) ==
    {i \in DOMAIN Files \ unread : Files[i] \in DOMAIN contents /\ k \in DOMAIN contents[Files[i]]}

(* The files that were read are those of lower priority; of those that     *)
(* mention an option the last one is the one that was found.               *)
LastOneFound ==
    /\ unread \subseteq {i \in DOMAIN Files : Files[i] \in DOMAIN contents}
    /\ phase \notin {"files", "refused"} => unread = {}
    /\ \A i \in unread, j \in DOMAIN Files \ unread : Files[j] \in DOMAIN contents => j < i
    /\ \A k \in Credentials \cup Overrides :
          /\ k \in DOMAIN found <=> ReadMentions(k) # {}
          /\ k \in DOMAIN found =>
                \E i \in ReadMentions(k) :
                    /\ \A j \in ReadMentions(k) : j =< i
                    /\ found[k] = IF contents[Files[i]][k] = "set" THEN Files[i] ELSE "none"

AppliedCredentials ==
    [k \in Credentials |-> IF FromFile(k) THEN found[k]
                           ELSE IF k \in cli.credentials THEN "cli" ELSE "none"]

KeyDropped == FromFile("activation_key") /\ "password" \in cli.credentials

SettledCredentials ==
    [k \in Credentials |->
        IF KeyDropped /\ k \in {"activation_key", "org"} THEN "none"
        ELSE IF k \in cli.credentials THEN "cli"
        ELSE IF FromFile(k) THEN found[k] ELSE "none"]

CredentialsFollow ==
    /\ phase \in {"server", "conflict"} => credentials = AppliedCredentials
    /\ phase \in Settled => credentials = SettledCredentials

(* Whoever would register and named a server got past setup_rhsm_parts     *)
(* with that server.                                                       *)
ServerFollows ==
    /\ server \in BOOLEAN
    /\ server => cli.serverurl # "none"
    /\ phase \in {"conflict"} \cup Settled =>
          (cli.serverurl # "none" /\ "no_rhsm" \notin cli.flags /\ Usable(AppliedCredentials)
             => server)

FromFiles == {k \in Overrides : FromFile(k)}

OverridesFollow ==
    /\ overrides \subseteq Overrides
    /\ phase \in {"server", "conflict"} \cup Settled => FromFiles \subseteq overrides

(* The checks of one stage are done or ahead, and the next stage only      *)
(* follows a check of dbus that succeeded.                                 *)
StageFollows ==
    /\ todo \in Seq(Checks)
    /\ todo # <<>> => phase \in Stages
    /\ phase \notin Stages \cup {"reported"} => DOMAIN results = {}
    /\ DOMAIN results \subseteq Checks
    /\ phase = "system checks" =>
          /\ DOMAIN results \cup Range(todo) \subseteq Range(SystemCheckIds)
          /\ "DBUS_IS_RUNNING" \in DOMAIN results \cup Range(todo)
    /\ phase = "pre ponr" => Range(todo) \subseteq Range(PrePonrIds)
    /\ phase \in {"pre ponr", "reported"} => "DBUS_IS_RUNNING" \in DOMAIN results
    /\ phase = "pre ponr" \/ (phase = "reported" /\ "SUBSCRIBE_SYSTEM" \in DOMAIN results) =>
          results["DBUS_IS_RUNNING"].level = "SUCCESS"

(* Every result is what its check concludes with the overrides of the      *)
(* files and maybe of the environment, unless the check was skipped.       *)
Answered ==
    \A a \in DOMAIN results :
        \/ results[a] = Result("SKIP", "SKIP")
        \/ \E waived \in SUBSET Overrides :
              FromFiles \subseteq waived /\ results[a] = Outcome(a, waived)

(* The overrides of the inhibitors of the run before are in the file. *)
WrittenDown ==
    \A a \in DOMAIN previous : previous[a].level = "OVERRIDABLE" =>
        \A k \in OverrideOf(a) :
            /\ OverrideFile \in DOMAIN contents
            /\ k \in DOMAIN contents[OverrideFile] /\ contents[OverrideFile][k] = "set"

ToldFollows ==
    Reported => told = [screen |-> ScreenReport(results),
                        text   |-> TextReport(results),
                        json   |-> HighestReportLevel(results)]

AssessmentInv ==
    /\ Inputs
    /\ LastOneFound
    /\ CredentialsFollow
    /\ ServerFollows
    /\ OverridesFollow
    /\ StageFollows
    /\ Answered
    /\ WrittenDown
    /\ ToldFollows
=============================================================================
