----------------------------- MODULE MCAppLock -----------------------------
(* AppLock with TLC's configurations: the cfg files choose the processes. *)
EXTENDS AppLock
=============================================================================
