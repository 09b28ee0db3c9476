--------------------------- MODULE PlaybackFocus ----------------------------
(***************************************************************************)
(* What the music player promises about the loudspeaker, without its       *)
(* threads, queue or process: requests are numbered, at most one request   *)
(* sounds at a time, and what sounds only ever moves forward to a request  *)
(* that was the newest when it was taken up.                               *)
(***************************************************************************)
EXTENDS Naturals

VARIABLES
  latest,   \* number of the newest request
  owner,    \* request the player process works for
  sounding  \* is there a player process?

vars == <<latest, owner, sounding>>

Init == latest = 0 /\ owner = 0 /\ sounding = FALSE

Request == latest' = latest + 1 /\ UNCHANGED <<owner, sounding>>

(* Work is taken up only for the newest request, and in silence.           *)
TakeUp ==
  /\ owner < latest
  /\ owner' = latest
  /\ ~sounding
  /\ UNCHANGED <<latest, sounding>>

(* At the natural end of a track the player makes the next request itself. *)
Advance ==
  /\ owner = latest /\ ~sounding
  /\ latest' = latest + 1 /\ owner' = latest + 1
  /\ UNCHANGED sounding

Start == owner > 0 /\ ~sounding /\ sounding' = TRUE /\ UNCHANGED <<latest, owner>>

Silence == sounding /\ sounding' = FALSE /\ UNCHANGED <<latest, owner>>

Next == Request \/ TakeUp \/ Advance \/ Start \/ Silence

Spec == Init /\ [][Next]_vars

(* No request sounds before it was made.                                   *)
OwnerWasRequested == owner <= latest
=============================================================================
