----------------------------- MODULE MCMainLoop -----------------------------
(* A small instance of the main loop by itself. *)
EXTENDS MainLoop

CONSTANTS t1, t2

(* A level, and a mute that keeps the level. *)
TwoArgs == {[level |-> 80, mute |-> NoArg], [level |-> NoArg, mute |-> TRUE]}
TwoCallers == {t1, t2}
=============================================================================
