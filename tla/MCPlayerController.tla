------------------------- MODULE MCPlayerController -------------------------
(* Small instances of PlayerController. *)
EXTENDS PlayerController, TLC

CONSTANTS c1, c2, t1, t2

BothTracks == {t1, t2}
OneCaller == {c1}
TwoCallers == {c1, c2}
TwoPlaylists == {<<t1>>, <<t2, t1>>}
=============================================================================
