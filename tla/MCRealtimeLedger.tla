-------------------------- MODULE MCRealtimeLedger --------------------------
(* Small instances of RealtimeLedger: see the configurations. *)
EXTENDS RealtimeLedger
=============================================================================
