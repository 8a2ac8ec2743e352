----------------------------- MODULE MCBootPath -----------------------------
(***************************************************************************)
(* Some versions of the kernel, and firmwares with an entry of the original *)
(* system, one for the network and, where `stale` allows it, one of RHEL   *)
(* that an earlier conversion has left: first, last, or about a partition  *)
(* that is no longer the ESP.                                              *)
(***************************************************************************)
EXTENDS BootPath

Own(label, dir) == [entries |-> 1 :> Entry(label, dir, TRUE) @@ 2 :> Entry("PXE", "pxe", TRUE),
                    order |-> <<1, 2>>, current |-> 1]

Stale(nv, esp, order) ==
    [nv EXCEPT !.entries = @ @@ 3 :> Entry("RHEL", "redhat", esp), !.order = order]

CentosFirmware == Own("CentOS", "centos")
OracleFirmware == Own("Oracle", "redhat")
NetworkFirst   == [CentosFirmware EXCEPT !.order = <<2, 1>>]

MCNvrams ==
    {CentosFirmware, OracleFirmware, NetworkFirst}
        \cup {Stale(CentosFirmware, esp, order) : esp \in BOOLEAN, order \in {<<3, 1, 2>>, <<1, 2, 3>>}}

(* Every set of kernels is checked with one firmware or with a BIOS, and   *)
(* every firmware with one set of kernels: no Action reads both. Of the    *)
(* major versions, the Actions on kernels tell only 7 from 8, and of the   *)
(* values of DEFAULTKERNEL, only "kernel" from the others.                 *)
UsualKernels ==
    /\ major \in {2, 8, 9}
    /\ available = Versions
    /\ kernels = PackagesOf({1}, FALSE) \cup PackagesOf({Max(Versions)}, TRUE)
    /\ bootFiles[Max(Versions)] = "ok" /\ \A e \in entries : e.here
    /\ sysconfig = "kernel"

UsualFirmware ==
    /\ major \in {7, 8}
    /\ sysconfig \in {"uek", "kernel"}
    /\ efibootmgr /\ centos
    /\ efi => files \ {File("grub2", "grub.cfg")} = {File("redhat", "shim"), File("centos", "grub.cfg")}
    /\ nvram = CentosFirmware

MCInit == Init /\ (UsualKernels \/ UsualFirmware)

MCSpec == MCInit /\ [][Next]_bootVars
=============================================================================
