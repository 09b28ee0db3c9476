---------------------------- MODULE MCVoiceLoop -----------------------------
(* Small instances of VoiceLoop. *)
EXTENDS VoiceLoop

CONSTANTS u1, u2

TwoTurns == {u1, u2}
=============================================================================
