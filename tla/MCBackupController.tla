------------------------- MODULE MCBackupController -------------------------
(***************************************************************************)
(* Small systems for BackupController: one on which a run removes special  *)
(* packages, with the files and the package that are concerned, and those  *)
(* on which it subscribes, registered before or not.                       *)
(***************************************************************************)
EXTENDS BackupController

(* /etc/os-release and a yum variable belong to the release package, as do a *)
(* file the user has deleted and an edited one in /etc/yum.repos.d that is   *)
(* no .repo file, which no Action backs up; os-release is pushed twice.      *)
FileObjects == {"release", "release2", "var", "var_planted", "deleted", "pkg"}
RhsmObjects == {"key", "cert", "pkgs", "sub", "attached", "repos"}
Class(o) ==
  CASE o \in {"release", "release2"} -> <<"file", "os-release">>
    [] o = "var"         -> <<"file", "yum-var">>
    [] o = "var_planted" -> <<"installed", "yum-var">>
    [] o = "deleted"     -> <<"missing", "deleted-file">>
    [] o = "pkg"         -> <<"package", "release-pkg">>
    [] o = "key"         -> <<"key", "gpg-key">>
    [] o = "cert"        -> <<"cert", "ca-cert">>
    [] o = "pkgs"        -> <<"package_set", "subscription-manager">>
    [] o = "sub"         -> <<"subscription", "registration">>
    [] o = "attached"    -> <<"auto_attach", "pool">>
    [] o = "repos"       -> <<"repos", "repositories">>
KindOf == [o \in Objects |-> Class(o)[1]]
TargetOf == [o \in Objects |-> Class(o)[2]]

FileResources == {"os-release", "yum-var", "deleted-file", "yum-extra", "release-pkg"}
RhsmResources == {"gpg-key", "ca-cert", "subscription-manager", "registration",
                  "pool", "repositories"}
AllResources == FileResources \cup RhsmResources
OwnerOf == [r \in AllResources |->
              IF r \in FileResources \ {"release-pkg"} THEN "release-pkg"
              ELSE IF r \in {"pool", "repositories"} THEN "registration" ELSE "nobody"]
ModifiedFiles == {"yum-var", "yum-extra"}
SkippedFiles == {"yum-extra"}

FileSystems ==
  {[r \in AllResources |->
      IF r \in FileResources \ {"deleted-file"} THEN "orig" ELSE "absent"]}
(* A system that is registered has repositories enabled or not.  With a      *)
(* subscription it is registered again, with the credentials of the tool;    *)
(* without one it gets one by auto-attachment.                               *)
RhsmSystems ==
  {s \in [AllResources -> {"absent", "orig"}] :
     /\ \A r \in FileResources : s[r] = "absent"
     /\ s["registration"] = "orig" => s["subscription-manager"] = "orig"
     /\ s["registration"] = "absent" => s["pool"] = "absent" /\ s["repositories"] = "absent"}
AllSystems == FileSystems \cup RhsmSystems
AutoAttaches(s) == s["registration"] = "orig" /\ s["pool"] = "absent"
MakesOn == [s \in Initial |->
              IF s \in FileSystems THEN FileObjects
              ELSE RhsmObjects \ {IF AutoAttaches(s) THEN "sub" ELSE "attached"}]
=============================================================================
