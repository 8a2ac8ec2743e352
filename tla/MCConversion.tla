---- MODULE MCConversion ----
(* Small instances of Conversion. *)
EXTENDS Conversion
====
