---------------------------- MODULE MCTransaction ----------------------------
(* Two packages, one of which has a counterpart of another name in RHEL. *)
EXTENDS Transaction

CONSTANTS glibc, jemalloc

MCPackages == {glibc, jemalloc}
MCSwapped == {jemalloc}
=============================================================================
