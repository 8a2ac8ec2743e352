------------------------------ MODULE ToolOpts ------------------------------
(***************************************************************************)
(* How tool_opts.initialize puts together the options of the command line  *)
(* and of the configuration files.                                         *)
(*                                                                         *)
(* The value of an option is the place it comes from: a file, "cli", or    *)
(* "none" for an option without a value.                                   *)
(***************************************************************************)
EXTENDS Integers, Sequences, SequencesExt, FiniteSets, FiniteSetsExt

CONSTANTS
    Files,      \* paths of the configuration files, the lowest priority first
    Overrides   \* options of the header inhibitor_overrides

ASSUME FilesAssumption == Files \in Seq(STRING) /\ Range(Files) \cap {"cli", "none"} = {}

Credentials == {"username", "password", "org", "activation_key"}

VARIABLES
    contents,   \* [existing files -> [options they mention -> "set" or "empty"]]
    cli,        \* the arguments: credentials, flags, serverurl, analysis
    phase,      \* the next part of initialize(), then "ready" or "refused"
    unread,     \* places in Files of those that exist and are still to be read
    found,      \* what FileConfig has found, per option
    credentials,\* what tool_opts has, per credential
    overrides,  \* those that tool_opts has
    server      \* the --serverurl is the one in rhsm_hostname

optInputs == <<contents, cli>>
optVars == <<phase, unread, found, credentials, overrides, server>>

Refuse ==
    /\ phase' = "refused"
    /\ UNCHANGED <<unread, found, credentials, overrides, server>>

FromFile(k) == k \in DOMAIN found /\ found[k] # "none"

Usable(creds) ==
    \/ creds["username"] # "none" /\ creds["password"] # "none"
    \/ creds["activation_key"] # "none" /\ creds["org"] # "none"

(* The start: an empty ToolOpts, with the files that exist yet to be read. *)
Initialize(written) ==
    /\ phase = "files"
    /\ unread = {i \in DOMAIN Files : Files[i] \in DOMAIN written}
    /\ found = [k \in {} |-> "none"]
    /\ credentials = [k \in Credentials |-> "none"]
    /\ overrides = {}
    /\ server = FALSE

(* Mutant: the file that is read first wins. *)
ReadFile_FirstWins ==
    /\ phase = "files"
    /\ unread # {}
    /\ LET file == Files[Min(unread)]
           options == contents[file]
       IN found' = [k \in DOMAIN options \cup DOMAIN found |->
                      IF k \in DOMAIN found THEN found[k]
                      ELSE IF options[k] = "set" THEN file ELSE "none"]
    /\ unread' = unread \ {Min(unread)}
    /\ UNCHANGED <<optInputs, phase, credentials, overrides, server>>

(* FileConfig: the files are read from the lowest to the highest priority. *)
(* An option that a later file leaves empty hides the one of an earlier    *)
(* file. A file that others may read is refused, as is a run without any.  *)
ReadFile ==
    /\ phase = "files"
    /\ unread # {}
    /\ \/ /\ LET file == Files[Min(unread)]
                 options == contents[file]
             IN found' = [k \in DOMAIN options \cup DOMAIN found |->
                            IF k \notin DOMAIN options THEN found[k]
                            ELSE IF options[k] = "set" THEN file ELSE "none"]
          /\ unread' = unread \ {Min(unread)}
          /\ UNCHANGED <<phase, credentials, overrides, server>>
       \/ Refuse
    /\ UNCHANGED optInputs

FilesRead ==
    /\ phase = "files"
    /\ unread = {}
    /\ IF DOMAIN contents = {} THEN Refuse
       ELSE phase' = "command line" /\ UNCHANGED <<unread, found, credentials, overrides, server>>
    /\ UNCHANGED optInputs

(* CliConfig: --no-rhsm needs --enablerepo. *)
ReadCommandLine ==
    /\ phase = "command line"
    /\ IF "no_rhsm" \in cli.flags /\ "enablerepo" \notin cli.flags THEN Refuse
       ELSE phase' = "apply" /\ UNCHANGED <<unread, found, credentials, overrides, server>>
    /\ UNCHANGED optInputs

(* An analysis runs rpm -Va in any case. *)
NoRpmVa == "no_rpm_va" \in cli.flags /\ ~cli.analysis

(* set_opts keeps a value that is there already: the file comes first. *)
Apply ==
    /\ phase = "apply"
    /\ phase' = "server"
    /\ credentials' = [k \in Credentials |->
                         IF FromFile(k) THEN found[k]
                         ELSE IF k \in cli.credentials THEN "cli" ELSE "none"]
    /\ overrides' = {k \in Overrides : FromFile(k)}
    /\ UNCHANGED <<optInputs, unread, found, server>>

(* Mutant: goes on when the server cannot be parsed. *)
RhsmParts_Lenient ==
    /\ phase = "server"
    /\ phase' = "conflict"
    /\ server' = (cli.serverurl = "good" /\ "no_rhsm" \notin cli.flags /\ Usable(credentials))
    /\ UNCHANGED <<optInputs, unread, found, credentials, overrides>>

(* setup_rhsm_parts looks at the credentials before conflicts between the  *)
(* sources are resolved.                                                   *)
RhsmParts ==
    /\ phase = "server"
    /\ IF cli.serverurl = "none" \/ "no_rhsm" \in cli.flags \/ ~Usable(credentials)
       THEN phase' = "conflict" /\ UNCHANGED server
       ELSE /\ server' = (cli.serverurl = "good")
            /\ phase' = IF cli.serverurl = "good" THEN "conflict" ELSE "refused"
    /\ UNCHANGED <<optInputs, unread, found, credentials, overrides>>

(* Mutant: a username is enough to do away with the activation key. *)
Resolved_Username ==
    LET taken == [k \in Credentials |->
                    IF FromFile(k) /\ k \in cli.credentials THEN "cli" ELSE credentials[k]]
    IN IF FromFile("activation_key") /\ cli.credentials \cap {"username", "password"} # {}
       THEN [taken EXCEPT !["activation_key"] = "none", !["org"] = "none"]
       ELSE taken

(* Where both have a value, the one of the command line is taken. A        *)
(* password of the command line does away with the activation key of a     *)
(* file.                                                                   *)
Resolved ==
    LET taken == [k \in Credentials |->
                    IF FromFile(k) /\ k \in cli.credentials THEN "cli" ELSE credentials[k]]
    IN IF FromFile("activation_key") /\ "password" \in cli.credentials
       THEN [taken EXCEPT !["activation_key"] = "none", !["org"] = "none"]
       ELSE taken

HandleConfigConflict ==
    /\ phase = "conflict"
    /\ credentials' = Resolved
    /\ phase' = IF NoRpmVa /\ ~FromFile("incomplete_rollback") THEN "refused" ELSE "missing"
    /\ UNCHANGED <<optInputs, unread, found, overrides, server>>

HandleMissingOptions ==
    /\ phase = "missing"
    /\ phase' = IF (credentials["org"] = "none") # (credentials["activation_key"] = "none")
                THEN "refused" ELSE "ready"
    /\ UNCHANGED <<optInputs, unread, found, credentials, overrides, server>>

InitializeOptions ==
    \/ ReadFile \/ FilesRead \/ ReadCommandLine \/ Apply
    \/ RhsmParts \/ HandleConfigConflict \/ HandleMissingOptions

(* subscription.should_subscribe *)
ShouldSubscribe == Usable(credentials) /\ "no_rhsm" \notin cli.flags

OptionTypes ==
    /\ phase \in {"files", "command line", "apply", "server", "conflict", "missing",
                  "ready", "refused"}
    /\ unread \subseteq {i \in DOMAIN Files : Files[i] \in DOMAIN contents}
    /\ DOMAIN found \subseteq Credentials \cup Overrides
    /\ credentials \in [Credentials -> Range(Files) \cup {"cli", "none"}]
    /\ overrides \subseteq Overrides
    /\ server \in BOOLEAN
=============================================================================
