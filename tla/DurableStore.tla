---------------------------- MODULE DurableStore ----------------------------
(***************************************************************************)
(* What a store of albums promises (media/user_library.h): one operation   *)
(* at a time, an operation adds one album under a new number or one track  *)
(* to an album, and a crash takes the store back to what it was after one  *)
(* of its operations, never to a part of it.  A write that fails without   *)
(* anybody seeing it is the one thing that may empty the store.            *)
(***************************************************************************)
EXTENDS Naturals

CONSTANTS Names, Tracks

VARIABLES
  live,     (* the albums: number -> name and set of tracks                 *)
  next,     (* the number of the next album                                 *)
  durable,  (* the albums and the number that survive a crash               *)
  write     (* "lost" after a write that failed unseen, "sound" otherwise   *)

storeVars == <<live, next, durable, write>>

Empty == [albums |-> <<>>, next |-> 1]

StoreInit ==
  /\ live = <<>> /\ next = 1
  /\ durable = Empty /\ write = "sound"

NewAlbum ==
  /\ \E name \in Names :
       live' = [i \in DOMAIN live \cup {next} |->
                  IF i = next THEN [name |-> name, tracks |-> {}] ELSE live[i]]
  /\ next' = next + 1
  /\ UNCHANGED <<durable, write>>

NewTrack ==
  /\ \E i \in DOMAIN live : \E t \in Tracks \ live[i].tracks :
       live' = [live EXCEPT ![i].tracks = @ \cup {t}]
  /\ UNCHANGED <<next, durable, write>>

Commit ==
  /\ write = "sound"
  /\ durable' = [albums |-> live, next |-> next]
  /\ UNCHANGED <<live, next, write>>

(* A write is lost, and is then committed for an empty store or given up.  *)
LoseWrite == write' = "lost" /\ UNCHANGED <<live, next, durable>>

EndLostWrite ==
  /\ write = "lost" /\ write' = "sound"
  /\ durable' \in {durable, Empty}
  /\ UNCHANGED <<live, next>>

Recover ==
  /\ live' = durable.albums /\ next' = durable.next /\ write' = "sound"
  /\ UNCHANGED durable

StoreNext == NewAlbum \/ NewTrack \/ Commit \/ LoseWrite \/ EndLostWrite \/ Recover

StoreSpec == StoreInit /\ [][StoreNext]_storeVars
=============================================================================
