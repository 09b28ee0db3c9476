---------------------------- MODULE ArtworkCache ----------------------------
(***************************************************************************)
(* The covers on disk (DownloadArtwork of net/zing_music_client.cc), seen  *)
(* for one address: threads that want the cover look for it, take over the *)
(* file of an older version, or download it under a name of their own and  *)
(* rename it.  The process may die at any step.                            *)
(***************************************************************************)
EXTENDS Integers, FiniteSets

CONSTANTS
  Downloaders,  (* threads that fetch covers                                *)
  MaxFetches,   (* bound: calls                                             *)
  MaxKills      (* bound: deaths of the process                             *)

ASSUME ArtAssumption == MaxFetches \in Nat /\ MaxKills \in Nat

VARIABLES
  cover,        (* the file <hash>.jpg or <hash>.png                        *)
  legacy,       (* the file <hash>.img of an older version                  *)
  parts,        (* per thread: its temporary file                           *)
  fetchAt,      (* where each thread is                                     *)
  given,        (* per thread: what the path it got last leads to           *)
  fetches, kills

artVars == <<cover, legacy, parts, fetchAt, given, fetches, kills>>

(* A file is missing, holds the first bytes of an image, or all of it.     *)
File == {"none", "begun", "whole"}

ArtTypeOK ==
  /\ cover \in File /\ legacy \in File
  /\ parts \in [Downloaders -> File] /\ given \in [Downloaders -> File]
  /\ fetchAt \in [Downloaders -> {"idle", "look", "migrate", "create", "transfer", "publish"}]
  /\ fetches \in 0..MaxFetches /\ kills \in 0..MaxKills

ArtInit ==
  /\ cover = "none" /\ legacy \in {"none", "whole"}
  /\ parts = [d \in Downloaders |-> "none"]
  /\ given = [d \in Downloaders |-> "none"]
  /\ fetchAt = [d \in Downloaders |-> "idle"]
  /\ fetches = 0 /\ kills = 0

Moves(d, at) == fetchAt' = [fetchAt EXCEPT ![d] = at]

Returns(d, content) == Moves(d, "idle") /\ given' = [given EXCEPT ![d] = content]

DownloadArtwork(d) ==
  /\ fetchAt[d] = "idle" /\ fetches < MaxFetches
  /\ fetches' = fetches + 1
  /\ Moves(d, "look")
  /\ UNCHANGED <<cover, legacy, parts, given, kills>>

(* A file of more than 32 bytes that begins like an image is taken as is.  *)
LookInCache(d) ==
  /\ fetchAt[d] = "look"
  /\ IF cover # "none" THEN Returns(d, cover) ELSE Moves(d, "migrate") /\ UNCHANGED given
  /\ UNCHANGED <<cover, legacy, parts, fetches, kills>>

(* link(): the old file gets the new name as well, unless it has one now.  *)
Migrate(d) ==
  /\ fetchAt[d] = "migrate"
  /\ \/ /\ legacy # "none"
        /\ cover' = IF cover = "none" THEN legacy ELSE cover
        /\ Returns(d, cover')
     \/ /\ legacy = "none"
        /\ Moves(d, "create") /\ UNCHANGED <<cover, given>>
  /\ UNCHANGED <<legacy, parts, fetches, kills>>

(* Mutant: the cover is written under its own name.                        *)
CreateCover(d) ==
  /\ fetchAt[d] = "create"
  /\ parts' = [parts EXCEPT ![d] = "begun"]
  /\ cover' = "begun"
  /\ Moves(d, "transfer")
  /\ UNCHANGED <<legacy, given, fetches, kills>>

(* The temporary file is named after the process and the thread.           *)
CreatePart(d) ==
  /\ fetchAt[d] = "create"
  /\ \/ parts' = [parts EXCEPT ![d] = "begun"] /\ Moves(d, "transfer")
     \/ UNCHANGED parts /\ Moves(d, "idle")
  /\ UNCHANGED <<cover, legacy, given, fetches, kills>>

(* The host is not allowed, the transfer fails, is not 2xx or too long, or *)
(* what came is no image: the temporary file is removed.                   *)
TransferFails(d) ==
  /\ fetchAt[d] = "transfer"
  /\ parts' = [parts EXCEPT ![d] = "none"]
  /\ Moves(d, "idle")
  /\ UNCHANGED <<cover, legacy, given, fetches, kills>>

TransferEnds(d) ==
  /\ fetchAt[d] = "transfer"
  /\ parts' = [parts EXCEPT ![d] = "whole"]
  /\ Moves(d, "publish")
  /\ UNCHANGED <<cover, legacy, given, fetches, kills>>

(* rename(): when it fails, only a cover of another thread will do.        *)
Publish(d) ==
  /\ fetchAt[d] = "publish"
  /\ parts' = [parts EXCEPT ![d] = "none"]
  /\ \/ cover' = parts[d] /\ Returns(d, parts[d])
     \/ cover # "none" /\ Returns(d, cover) /\ UNCHANGED cover
     \/ cover = "none" /\ Moves(d, "idle") /\ UNCHANGED <<cover, given>>
  /\ UNCHANGED <<legacy, fetches, kills>>

(* The process dies and is started again, under another process number:    *)
(* its temporary files stay behind, and nobody looks at them again.        *)
Kill ==
  /\ kills < MaxKills
  /\ kills' = kills + 1
  /\ parts' = [d \in Downloaders |-> "none"]
  /\ given' = [d \in Downloaders |-> "none"]
  /\ fetchAt' = [d \in Downloaders |-> "idle"]
  /\ UNCHANGED <<cover, legacy, fetches>>

ArtNext ==
  \/ \E d \in Downloaders :
       \/ DownloadArtwork(d) \/ LookInCache(d) \/ Migrate(d)
       \/ CreatePart(d) \/ TransferFails(d) \/ TransferEnds(d) \/ Publish(d)
  \/ Kill

ArtSpec == ArtInit /\ [][ArtNext]_artVars

-----------------------------------------------------------------------------
(* An old cover is whole, and a temporary file is there exactly while its  *)
(* thread transfers it.                                                    *)
ArtInv ==
  /\ legacy # "begun"
  /\ \A d \in Downloaders :
       /\ (parts[d] # "none") <=> fetchAt[d] \in {"transfer", "publish"}
       /\ fetchAt[d] = "publish" => parts[d] = "whole"

(* What looks like a cached cover is the whole image, whoever else was     *)
(* fetching it and wherever the process died: a torn one would be taken    *)
(* for the cover for ever.                                                 *)
CoversAreWhole == cover # "begun" /\ \A d \in Downloaders : given[d] # "begun"
=============================================================================
