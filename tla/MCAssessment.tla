---------------------------- MODULE MCAssessment ----------------------------
(***************************************************************************)
(* Two configuration files and every choice of credentials, with a system  *)
(* without troubles; and for a few usual command lines every system with   *)
(* at most two troubles and at most one override in the environment, in    *)
(* the file with the lower priority, or taken back in the other.           *)
(***************************************************************************)
EXTENDS Assessment

MCFiles == <<"etc", "home">>
MCOverrides == {"incomplete_rollback", "allow_older_version", "skip_kernel_currency_check",
                "tainted_kernel_module_check_skip", "allow_unavailable_kmods"}

Troubles ==
    {"firewalld runs", "it cleans up modules", "no repofile", "repoquery fails", "newer version",
     "newer release", "not from the rpm", "no dbus", "repositories unreachable",
     "duplicate packages", "uefi", "no efibootmgr", "secure boot", "booted from the network",
     "invalid grub file", "no kernel in the repositories", "another kernel loaded",
     "outdated packages", "read-only mnt", "another kernel version", "custom kernel",
     "tainted modules", "not registered", "failed refresh", "failed registration",
     "no rhel repositories", "custom repositories unreachable", "no rhel metadata",
     "no rhel modules", "unsupported modules", "other architecture", "unreadable entries",
     "unreadable kernel version", "read-only sys", "kernel of no package", "realtime kernel",
     "failed unregistration", "no subscription-manager", "failed attachment",
     "unreadable module version"}

System(id, major, minor, eus) == [id |-> id, major |-> major, minor |-> minor, eus |-> eus]

Arguments(given, flags, serverurl, analysis) ==
    [credentials |-> given, flags |-> flags, serverurl |-> serverurl, analysis |-> analysis]

(* What a file says about its credentials; etc comes with the package and  *)
(* is there as a rule.                                                     *)
Options ==
    UNION {[S -> {"set"}] : S \in {{}, {"username"}, {"password"}, {"org"}, {"activation_key"},
                                   {"username", "password"}, {"activation_key", "org"}, Credentials}}
        \cup {[k \in {"username", "password"} |-> IF k = "password" THEN "empty" ELSE "set"],
              [k \in {"activation_key", "org"} |-> IF k = "org" THEN "empty" ELSE "set"]}

EveryCommandLine ==
    /\ system = System("centos", 7, 9, FALSE)
    /\ troubles = {}
    /\ env = {}
    /\ \E etc \in Options, home \in Options \cup {[k \in {"incomplete_rollback"} |-> "set"]} :
          contents \in {[f \in {"etc"} |-> etc], [f \in {"etc", "home"} |-> IF f = "etc" THEN etc ELSE home]}
    /\ \E given \in SUBSET Credentials, url \in {"none", "good", "bad"},
          flags \in {{}, {"no_rhsm", "enablerepo"}, {"no_rhsm"}, {"no_rpm_va"}} :
          /\ url # "none" => flags \in {{}, {"no_rhsm", "enablerepo"}}
          /\ cli = Arguments(given, flags, url, FALSE)

Usual ==
    {<<System("centos", 7, 9, FALSE), Arguments({"username", "password"}, {}, "none", FALSE)>>,
     <<System("oracle", 8, 8, TRUE), Arguments({}, {"eus"}, "none", TRUE)>>,
     <<System("amazon", 2, 0, FALSE), Arguments({}, {"no_rhsm", "enablerepo"}, "none", TRUE)>>}

EverySystem ==
    /\ \E usual \in Usual : system = usual[1] /\ cli = usual[2]
    /\ troubles \in {{t, u} : t \in Troubles, u \in Troubles}
    /\ \E k \in {{}} \cup {{o} : o \in MCOverrides}, in \in {"env", "etc", "home"} :
          /\ env = IF in = "env" THEN k ELSE {}
          /\ contents = [f \in {"etc"} \cup (IF in = "home" THEN {"home"} ELSE {}) |->
                            [o \in (IF in = f THEN k ELSE {}) |->
                                IF in = "home" THEN "empty" ELSE "set"]]

MCInit == (EveryCommandLine \/ EverySystem) /\ Begin
MCSpec == MCInit /\ [][Next]_vars
=============================================================================
