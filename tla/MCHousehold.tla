---------------------------- MODULE MCHousehold ----------------------------
(* Small instances of the components around the voice loop. *)
EXTENDS Household

CONSTANTS t1, t2

(* A level beyond the range, and a mute that keeps the level. *)
TwoArgs == {[level |-> 150, mute |-> NoArg], [level |-> NoArg, mute |-> TRUE]}
(* Nothing, a timer each of seconds and of minutes, and one that is too long. *)
FourLengths == {[minutes |-> 0, seconds |-> 0], [minutes |-> 10, seconds |-> 0],
                [minutes |-> 0, seconds |-> 30], [minutes |-> 800, seconds |-> 0]}
TwoThreads == {t1, t2}
=============================================================================
