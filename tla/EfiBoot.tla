------------------------------ MODULE EfiBoot ------------------------------
(***************************************************************************)
(* How the firmware finds the boot loader: the entries in its NVRAM with   *)
(* their order, and the files in the EFI system partition (ESP).  On a     *)
(* BIOS system there is only the configuration of grub.                    *)
(*                                                                         *)
(* An operator named after an Action holds for a step that ends with the   *)
(* level r.                                                                *)
(***************************************************************************)
EXTENDS Naturals, Sequences, SequencesExt, FiniteSetsExt

CONSTANTS
    Slots,    \* numbers of boot entries
    Nvrams    \* entries and order the firmware may start with

VARIABLES
    efi,        \* the system was booted with UEFI
    centos,     \* the system is CentOS
    release,    \* major version of the system, 2 for Amazon Linux 2
    terminal,   \* GRUB_TERMINAL in /etc/default/grub
    efibootmgr, \* the tool is installed
    files,      \* [dir, name] of files in the ESP; grub.cfg of BIOS is in "grub2"
    centosDir,  \* the directory EFI/centos is there
    nvram       \* the entries by slot, their order, the one the system was booted with

efiVars == <<efi, centos, release, efibootmgr, terminal, files, centosDir, nvram>>
efiFacts == <<efi, centos, release, efibootmgr>>

File(dir, name) == [dir |-> dir, name |-> name]

(* An entry: its label, the directory of its binary ("pxe" for none), and  *)
(* whether it is about the ESP of this system.                             *)
Entry(label, dir, esp) == [label |-> label, dir |-> dir, esp |-> esp]

Entries(nv) == DOMAIN nv.entries

(* The firmware lists the entry it has started, and every entry of its     *)
(* order once; there is room for one more. Boot0000 is slot 1.             *)
ASSUME NvramsAssumption ==
    /\ Slots \subseteq Nat \ {0}
    /\ \A nv \in Nvrams :
          /\ nv = [entries |-> nv.entries, order |-> nv.order, current |-> nv.current]
          /\ Entries(nv) \subseteq Slots /\ Slots \ Entries(nv) # {}
          /\ nv.entries = [s \in Entries(nv) |-> nv.entries[s]]
          /\ nv.current \in Entries(nv)
          /\ nv.order \in Seq(Entries(nv)) \ {<<>>}
          /\ \A i, j \in DOMAIN nv.order : nv.order[i] = nv.order[j] => i = j

BinaryExists(dir) == File(dir, "shim") \in files

RhelCfg == IF efi /\ release < 9 THEN File("redhat", "grub.cfg") ELSE File("grub2", "grub.cfg")

-----------------------------------------------------------------------------
NewDefaultEfiBin(r) ==
    /\ r = IF efi /\ ~BinaryExists("redhat") THEN "ERROR" ELSE "SUCCESS"
    /\ UNCHANGED efiVars

EfibootmgrUtilityInstalled(r) ==
    /\ r = IF efi /\ ~efibootmgr THEN "ERROR" ELSE "SUCCESS"
    /\ UNCHANGED efiVars

(* One of the files is enough to go on. Those that are in the new          *)
(* directory already stay where they are; a move may fail.                 *)
ToMove == {f \in {"grubenv", "grub.cfg", "user.cfg"} : File("centos", f) \in files}

MoveGrubFiles(r) ==
    /\ IF ~efi \/ ~centos THEN r = "SUCCESS" /\ UNCHANGED files
       ELSE IF ToMove = {} THEN r = "ERROR" /\ UNCHANGED files
       ELSE \E failed \in SUBSET {f \in ToMove : File("redhat", f) \notin files} :
               LET moved == {f \in ToMove : File("redhat", f) \notin files} \ failed
               IN /\ files' = (files \ {File("centos", f) : f \in moved})
                                \cup {File("redhat", f) : f \in moved}
                  /\ r = IF failed = {} THEN "SUCCESS" ELSE "ERROR"
    /\ UNCHANGED <<efiFacts, terminal, centosDir, nvram>>

(* rmdir works on an empty directory only. *)
RemoveEfiCentos(r) ==
    /\ IF ~efi \/ ~centos THEN r = "SUCCESS" /\ UNCHANGED centosDir
       ELSE IF centosDir /\ \A f \in files : f.dir # "centos"
       THEN r = "SUCCESS" /\ centosDir' = FALSE
       ELSE r = "WARNING" /\ UNCHANGED centosDir
    /\ UNCHANGED <<efiFacts, terminal, files, nvram>>

-----------------------------------------------------------------------------
(* grub.replace_efi_boot_entry *)

(* _is_rhel_in_boot_entries compares the label and the path in the ESP,    *)
(* not the partition nor the order.                                        *)
IsRhelInBootEntries(nv) ==
    \E s \in Entries(nv) : nv.entries[s].label = "RHEL" /\ nv.entries[s].dir = "redhat"

(* The disk and the partition of a new entry are those of the ESP. *)
RhelEntry == Entry("RHEL", "redhat", TRUE)

(* efibootmgr --create puts the new entry first. *)
WithRhelEntry(nv) ==
    LET s == Min(Slots \ Entries(nv))
    IN [nv EXCEPT !.entries = [t \in Entries(nv) \cup {s} |->
                                 IF t = s THEN RhelEntry ELSE nv.entries[t]],
                  !.order = <<s>> \o nv.order]

AddRhelBootEntry(nv) == IF IsRhelInBootEntries(nv) THEN nv ELSE WithRhelEntry(nv)

(* Mutant: does not look at the binary. *)
OrigIsUseless_Always(nv) == nv.entries[nv.current].dir # "pxe"

(* _remove_orig_boot_entry: the entry the system was booted with goes when *)
(* its binary is gone, or is the one of the first entry.                   *)
OrigIsUseless(nv) ==
    LET orig == nv.entries[nv.current].dir
    IN /\ orig # "pxe"
       /\ ~BinaryExists(orig) \/ orig = nv.entries[Head(nv.order)].dir

WithoutOrig(nv) ==
    [nv EXCEPT !.entries = [t \in Entries(nv) \ {nv.current} |-> nv.entries[t]],
               !.order = RemoveFirst(nv.order, nv.current)]

(* efibootmgr may fail: not listing or not adding an entry is an ERROR,    *)
(* not removing one is nothing.                                            *)
ReplaceEfiBootEntry(r) ==
    /\ IF ~efi THEN r = "SUCCESS" /\ UNCHANGED nvram
       ELSE LET new == AddRhelBootEntry(nvram) IN
            \/ /\ r = "ERROR"
               /\ nvram' \in {nvram, new}
            \/ /\ r = "SUCCESS"
               /\ nvram' \in IF OrigIsUseless(new) THEN {new, WithoutOrig(new)} ELSE {new}
    /\ UNCHANGED <<efiFacts, terminal, files, centosDir>>

(* Only Amazon Linux 2 has a terminal that grub2-mkconfig refuses. *)
FixGrubSettings(r) ==
    /\ IF release # 2 THEN r = "SUCCESS" /\ UNCHANGED terminal
       ELSE \/ r = "SUCCESS" /\ terminal' = "console"
            \/ r = "ERROR" /\ UNCHANGED terminal
    /\ UNCHANGED <<efiFacts, files, centosDir, nvram>>

(* grub2-mkconfig writes the configuration; on BIOS the image follows. *)
UpdateGrub(r) ==
    /\ \/ r = "WARNING" /\ UNCHANGED files
       \/ /\ terminal = "console"
          /\ files' = files \cup {RhelCfg}
          /\ r \in {"SUCCESS"} \cup IF efi THEN {} ELSE {"WARNING", "ERROR"}
    /\ UNCHANGED <<efiFacts, terminal, centosDir, nvram>>

-----------------------------------------------------------------------------
(* The first entry in the order that finds a binary is the one the         *)
(* firmware starts; 0 when there is none.                                  *)
Started ==
    LET found == {i \in 1 .. Len(nvram.order) :
                    LET e == nvram.entries[nvram.order[i]] IN e.esp /\ BinaryExists(e.dir)}
    IN IF found = {} THEN 0 ELSE nvram.order[Min(found)]

LoaderFindsGrub ==
    IF efi THEN Started # 0 /\ nvram.entries[Started].dir = "redhat" /\ RhelCfg \in files
    ELSE RhelCfg \in files

(* The system after the replacement of the packages: the binaries of RHEL  *)
(* are there as a rule, those of CentOS may be left.                       *)
EfiInit ==
    /\ efi \in BOOLEAN
    /\ centos \in BOOLEAN
    /\ efibootmgr \in BOOLEAN
    /\ release = 2 => ~centos
    /\ terminal \in {"console", "ec2-console"}
    /\ terminal = "ec2-console" => release = 2
    /\ centosDir = (efi /\ centos)
    /\ nvram \in Nvrams
    /\ \A s \in Entries(nvram) : nvram.entries[s].dir = "centos" => centos
    /\ \E own, shim, cfg \in SUBSET {"redhat", "centos"}, extra \in SUBSET {"grubenv", "user.cfg"} :
          /\ own = IF centos THEN {"centos"} ELSE {"redhat"}
          /\ cfg \subseteq own /\ (centos \/ extra = {})
          /\ centos \/ "centos" \notin shim
          /\ files = IF ~efi THEN {File("grub2", "grub.cfg")}
                     ELSE {File(d, "shim") : d \in shim} \cup {File(d, "grub.cfg") : d \in cfg}
                            \cup [dir : own, name : extra]
                            \cup (IF release = 9 THEN {File("grub2", "grub.cfg")} ELSE {})

EfiTypeOK ==
    /\ Entries(nvram) \subseteq Slots
    /\ Range(nvram.order) \subseteq Entries(nvram)
    /\ files \subseteq [dir : {"redhat", "centos", "grub2"},
                        name : {"shim", "grub.cfg", "grubenv", "user.cfg"}]
    /\ terminal \in {"console", "ec2-console"}
    /\ efi \in BOOLEAN /\ centos \in BOOLEAN /\ centosDir \in BOOLEAN
=============================================================================
