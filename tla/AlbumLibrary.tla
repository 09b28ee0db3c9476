---------------------------- MODULE AlbumLibrary ----------------------------
(***************************************************************************)
(* The user's albums (media/user_library.cc) under the music_album tool    *)
(* (agent/system_tools.cc), which threads call at the same time.  Each     *)
(* operation of the library holds its mutex and saves through a temporary  *)
(* file; the tool makes three of them in a row.  An open, a write or a     *)
(* rename may fail, a write also unseen, and the process may crash at any  *)
(* step.  RemoveTrack and RemoveAlbum have no caller in this build.        *)
(***************************************************************************)
EXTENDS Integers, FiniteSets

CONSTANTS
  Savers,     (* threads that run the tool                                  *)
  Names,      (* names of albums, after Trim and Lower                      *)
  Tracks,     (* ids of tracks that may be current in the player            *)
  MaxAlbums,  (* bound: albums created                                      *)
  MaxFaults   (* bound: crashes and failed writes                           *)

ASSUME LibraryAssumption ==
  Names # {} /\ Tracks # {} /\ MaxAlbums \in Nat /\ MaxFaults \in Nat

VARIABLES
  albums,   (* albums_: number of the album -> name and ids of its tracks   *)
  nextId,   (* next_id_                                                     *)
  disk,     (* what LoadLocked reads from the file: albums and next_id      *)
  tempFile, (* the temporary file: "none", "part" or "whole"                *)
  saving,   (* where the thread that holds the mutex is in SaveLocked       *)
  saveAt,   (* where each call of the tool is                               *)
  want,     (* the name and the track of each call                          *)
  target,   (* the album each call has found or created                     *)
  faults,   (* crashes and failures so far                                  *)
  unsaved   (* history: the last save failed, seen or unseen                *)

libraryVars == <<albums, nextId, disk, tempFile, saving, saveAt, want, target, faults, unsaved>>

Album == [name : Names, tracks : SUBSET Tracks]

LibraryTypeOK ==
  /\ DOMAIN albums \subseteq 1 .. MaxAlbums
  /\ \A i \in DOMAIN albums : albums[i] \in Album
  /\ nextId \in 1 .. MaxAlbums + 1
  /\ DOMAIN disk = {"albums", "next"}
  /\ tempFile \in {"none", "part", "whole"}
  /\ saving \in {"free", "open", "write", "rename"}
  /\ saveAt \in [Savers -> {"idle", "create", "add"}]
  /\ want \in [Savers -> [name : Names, track : Tracks]]
  /\ target \in [Savers -> 0 .. MaxAlbums]
  /\ faults \in 0 .. MaxFaults /\ unsaved \in BOOLEAN

(* What LoadLocked makes of a file that is missing or no JSON.             *)
EmptyStore == [albums |-> <<>>, next |-> 1]

(* The local variables of a thread that is in no call.                     *)
Unset == [name |-> CHOOSE n \in Names : TRUE, track |-> CHOOSE t \in Tracks : TRUE]

LibraryInit ==
  /\ albums = <<>> /\ nextId = 1
  /\ disk = EmptyStore
  /\ tempFile = "none" /\ saving = "free"
  /\ saveAt = [s \in Savers |-> "idle"]
  /\ want = [s \in Savers |-> Unset]
  /\ target = [s \in Savers |-> 0]
  /\ faults = 0 /\ unsaved = FALSE

Named(name) == {i \in DOMAIN albums : albums[i].name = name}

(* The first album of the list: they are kept in the order of creation.    *)
First(ids) == CHOOSE i \in ids : \A j \in ids : i <= j

(* "save": the track that is playing is taken from the player, and the     *)
(* album looked up by its name in a copy of the list.                      *)
SaveCall(s) ==
  /\ saving = "free" /\ saveAt[s] = "idle"
  /\ \E name \in Names, t \in Tracks :
       /\ want' = [want EXCEPT ![s] = [name |-> name, track |-> t]]
       /\ target' = [target EXCEPT ![s] = IF Named(name) = {} THEN 0 ELSE First(Named(name))]
       /\ saveAt' = [saveAt EXCEPT ![s] = IF Named(name) = {} THEN "create" ELSE "add"]
  /\ UNCHANGED <<albums, nextId, disk, tempFile, saving, faults, unsaved>>

(* CreateAlbum, up to its SaveLocked.                                      *)
CreateAlbum(s) ==
  /\ saving = "free" /\ saveAt[s] = "create" /\ nextId <= MaxAlbums
  /\ albums' = [i \in DOMAIN albums \cup {nextId} |->
                  IF i = nextId THEN [name |-> want[s].name, tracks |-> {}] ELSE albums[i]]
  /\ target' = [target EXCEPT ![s] = nextId]
  /\ nextId' = nextId + 1
  /\ saving' = "open"
  /\ saveAt' = [saveAt EXCEPT ![s] = "add"]
  /\ UNCHANGED <<disk, tempFile, want, faults, unsaved>>

(* Contains answers the call when the track is there; AddTrack, which      *)
(* looks once more, adds it otherwise.  The call is over with its save.    *)
AddTrack(s) ==
  /\ saving = "free" /\ saveAt[s] = "add"
  /\ saveAt' = [saveAt EXCEPT ![s] = "idle"]
  /\ want' = [want EXCEPT ![s] = Unset] /\ target' = [target EXCEPT ![s] = 0]
  /\ IF want[s].track \in albums[target[s]].tracks
       THEN UNCHANGED <<albums, saving>>
       ELSE /\ albums' = [albums EXCEPT ![target[s]].tracks = @ \cup {want[s].track}]
            /\ saving' = "open"
  /\ UNCHANGED <<nextId, disk, tempFile, faults, unsaved>>

(* SaveLocked: the temporary file is opened truncated, written, ...        *)
OpenTemp ==
  /\ saving = "open"
  /\ tempFile' = "part" /\ saving' = "write"
  /\ UNCHANGED <<albums, nextId, disk, saveAt, want, target, faults, unsaved>>

WriteTemp ==
  /\ saving = "write"
  /\ tempFile' = "whole" /\ saving' = "rename"
  /\ UNCHANGED <<albums, nextId, disk, saveAt, want, target, faults, unsaved>>

(* The stream is tested before it is flushed and closed, so that what fails*)
(* there, of a list that fits the buffer all of it, goes on to the rename. *)
CloseFails ==
  /\ saving = "write" /\ faults < MaxFaults
  /\ tempFile' = "part" /\ saving' = "rename" /\ faults' = faults + 1
  /\ UNCHANGED <<albums, nextId, disk, saveAt, want, target, unsaved>>

(* Mutant: a crash in the middle of the rename leaves part of the list.    *)
RenameInPlace ==
  /\ saving = "rename"
  /\ disk' \in {EmptyStore, [albums |-> albums, next |-> nextId]}
  /\ tempFile' = "none" /\ saving' = "free" /\ unsaved' = FALSE
  /\ UNCHANGED <<albums, nextId, saveAt, want, target, faults>>

(* ... and the file takes the place of the old one, whole or not.          *)
RenameTemp ==
  /\ saving = "rename"
  /\ disk' = IF tempFile = "part" THEN EmptyStore ELSE [albums |-> albums, next |-> nextId]
  /\ tempFile' = "none" /\ saving' = "free" /\ unsaved' = (tempFile = "part")
  /\ UNCHANGED <<albums, nextId, saveAt, want, target, faults>>

(* An open or a write that is seen to fail leaves what was in the temporary*)
(* file, a rename that fails removes it; the caller is told of neither.    *)
SaveFails ==
  /\ saving # "free" /\ faults < MaxFaults
  /\ tempFile' = IF saving = "rename" THEN "none" ELSE tempFile
  /\ saving' = "free" /\ unsaved' = TRUE /\ faults' = faults + 1
  /\ UNCHANGED <<albums, nextId, disk, saveAt, want, target>>

(* The process dies and is started again: LoadLocked reads the file.       *)
LibraryCrash ==
  /\ faults < MaxFaults
  /\ albums' = disk.albums /\ nextId' = disk.next
  /\ saving' = "free" /\ unsaved' = FALSE /\ faults' = faults + 1
  /\ saveAt' = [s \in Savers |-> "idle"]
  /\ target' = [s \in Savers |-> 0] /\ want' = [s \in Savers |-> Unset]
  /\ UNCHANGED <<disk, tempFile>>

LibraryNext ==
  \/ \E s \in Savers : SaveCall(s) \/ CreateAlbum(s) \/ AddTrack(s)
  \/ OpenTemp \/ WriteTemp \/ CloseFails \/ RenameTemp \/ SaveFails \/ LibraryCrash

LibrarySpec == LibraryInit /\ [][LibraryNext]_libraryVars

-----------------------------------------------------------------------------
(* Every album there is, in memory or in the file, has a number below the  *)
(* next, the album a call works on exists, and memory and file agree when  *)
(* nobody saves and the last save did not fail.                            *)
LibraryInv ==
  /\ \A i \in DOMAIN albums : i < nextId
  /\ \A i \in DOMAIN disk.albums : i < disk.next
  /\ disk.next <= nextId
  /\ \A s \in Savers : saveAt[s] = "add" => target[s] \in DOMAIN albums
  /\ saving = "free" /\ ~unsaved => disk = [albums |-> albums, next |-> nextId]

(* The file is the durable state of a store with atomic operations,        *)
(* "a crash mid-write cannot truncate the store" (user_library.cc:115): it *)
(* becomes the empty store only by the rename that follows a write which   *)
(* failed unseen.                                                          *)
LastWrite == IF saving = "rename" /\ tempFile = "part" THEN "lost" ELSE "sound"
Durable ==
  INSTANCE DurableStore WITH live <- albums, next <- nextId, durable <- disk, write <- LastWrite
AlbumsAreDurable == Durable!StoreSpec
=============================================================================
