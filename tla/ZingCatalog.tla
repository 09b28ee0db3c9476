---------------------------- MODULE ZingCatalog -----------------------------
(***************************************************************************)
(* The music catalogue (net/zing_music_client.cc) as the firmware uses it: *)
(* the music_play tool searches and fills the player's queue, the player   *)
(* asks for the stream of a track.  Both go through RequestApi, which      *)
(* makes up to two attempts, each with one retry at an address that the    *)
(* answer names.  The service is external: it answers with anything.      *)
(***************************************************************************)
EXTENDS Integers, Sequences, FiniteSets

CONSTANTS
  SongIds,       (* ids of tracks                                           *)
  NoId,          (* the id of an entry that is no track                     *)
  MaxEntries,    (* bound: entries of an answer                             *)
  Limit,         (* most tracks a search returns, 10                        *)
  MaxQueue       (* most tracks the tool queues, 5                          *)

ASSUME CatalogAssumption ==
  NoId \notin SongIds /\ MaxEntries \in Nat /\ Limit \in Nat \ {0} /\ MaxQueue \in Nat \ {0}

VARIABLES
  cookies,       (* ZING_COOKIES is set                                     *)
  catalogAt,     (* where the call is                                       *)
  purpose,       (* what the request is for                                 *)
  attempt,       (* attempt of RequestApi                                   *)
  sending,       (* the request that is on its way                          *)
  requests,      (* requests made by this call                              *)
  wandered,      (* history: cookies went to a host that is not Zing's      *)
  answer,        (* history: the entries the last tracks were taken from    *)
  found,         (* out of SearchSongs                                      *)
  queued,        (* what PlayQueue was called with                          *)
  stream         (* the URL FetchStreamingUrl returned                      *)

catalogVars == <<cookies, catalogAt, purpose, attempt, sending, requests, wandered, answer,
                 found, queued, stream>>

(* A URL is told apart by its form and its host: "base" is the host of     *)
(* base_url_, "zing" another one of zingmp3.vn, "cdn" an asset host.       *)
Url == [form : {"https", "http", "schemeless"}, host : {"base", "zing", "cdn", "other"}]
       \cup [form : {"path", "bare"}, host : {"base"}]
NoUrl == [form |-> "empty", host |-> "none"]

(* ResolveUrl: what is relative is taken from the base.                    *)
ResolveUrl(url) ==
  IF url.form = "http" THEN url ELSE [form |-> "https", host |-> url.host]

(* ExtractHttpsHost: only an https address or one without a scheme has one.*)
HttpsHost(url) == IF url.form \in {"https", "schemeless"} THEN url.host ELSE "none"

IsSafeApiRetry(url) == url.form = "path" \/ HttpsHost(url) \in {"base", "zing"}

IsSafeZingAssetUrl(url) == HttpsHost(ResolveUrl(url)) \in {"base", "zing", "cdn"}

(* An entry of an answer: a track, or what is no song or lacks an id or a  *)
(* title.                                                                  *)
Track == [id : SongIds, premium : BOOLEAN]
NoTrackEntry == [id |-> NoId, premium |-> FALSE]
CatalogEntry == Track \cup {NoTrackEntry}
CatalogEntries == UNION {[1..n -> CatalogEntry] : n \in 0..MaxEntries}

(* The entries at the first places of a set, at most so many, in order.    *)
InOrder(places) ==
  [k \in 1 .. Cardinality(places) |->
     CHOOSE i \in places : Cardinality({j \in places : j <= i}) = k]
Taken(entries, places, most) ==
  [k \in 1 .. (IF Cardinality(places) < most THEN Cardinality(places) ELSE most) |->
     entries[InOrder(places)[k]]]

(* Mutant: the tracks of every section are kept, also twice.               *)
HitsTwice(entries) == Taken(entries, {i \in DOMAIN entries : entries[i].id # NoId}, Limit)

(* The loop of SearchSongs: the first track of each id, at most limit of   *)
(* them, in the order of the answer.                                       *)
FirstOfItsId(entries, i) ==
  entries[i].id # NoId /\ \A j \in 1 .. i - 1 : entries[j].id # entries[i].id
Hits(entries) == Taken(entries, {i \in DOMAIN entries : FirstOfItsId(entries, i)}, Limit)

(* MusicPlayTool: whether the best match is premium or not, the first of   *)
(* the others are played.                                                  *)
Playable(tracks) == Taken(tracks, {i \in DOMAIN tracks : ~tracks[i].premium}, MaxQueue)

Request == [host : {"none", "base", "zing", "cdn", "other"}, cookie : BOOLEAN]
NoRequest == [host |-> "none", cookie |-> FALSE]

CatalogTypeOK ==
  /\ cookies \in BOOLEAN /\ wandered \in BOOLEAN
  /\ catalogAt \in {"idle", "sign", "answer", "retry", "play"}
  /\ purpose \in {"multi", "typed", "stream"}
  /\ attempt \in 0..2 /\ requests \in 0..8
  /\ sending \in Request
  /\ answer \in CatalogEntries /\ found \in Seq(Track) /\ queued \in Seq(Track)
  /\ stream \in Url \cup {NoUrl}

CatalogInit ==
  /\ cookies \in BOOLEAN
  /\ catalogAt = "idle" /\ purpose = "multi" /\ attempt = 0 /\ requests = 0
  /\ sending = NoRequest /\ wandered = FALSE
  /\ answer = <<>> /\ found = <<>> /\ queued = <<>> /\ stream = NoUrl

-----------------------------------------------------------------------------
(* MusicPlayTool::Execute and SearchSongs: the multi endpoint first.       *)
MusicPlay ==
  /\ catalogAt = "idle"
  /\ catalogAt' = "sign" /\ purpose' = "multi" /\ attempt' = 0 /\ requests' = 0
  /\ answer' = <<>> /\ queued' = <<>>
  /\ UNCHANGED <<cookies, sending, wandered, found, stream>>

(* FetchStreamingUrl, called by the player's resolver.                     *)
FetchStreamingUrl ==
  /\ catalogAt = "idle"
  /\ catalogAt' = "sign" /\ purpose' = "stream" /\ attempt' = 0 /\ requests' = 0
  /\ stream' = NoUrl
  /\ UNCHANGED <<cookies, sending, wandered, answer, found, queued>>

(* A request gave its call an outcome, or the call has none left to make:  *)
(* a search goes on with the typed endpoint.                               *)
Gives(at, next) == catalogAt' = at /\ purpose' = next /\ attempt' = 0 /\ sending' = NoRequest

GivesUp == IF purpose = "multi" THEN Gives("sign", "typed") ELSE Gives("idle", purpose)

(* HttpGetJson: redirects are not followed, so the answer is of the host   *)
(* that was asked.                                                         *)
Requests(host, at) ==
  LET sent == [host |-> host, cookie |-> cookies /\ attempt = 0]
  IN  /\ catalogAt' = at
      /\ sending' = sent
      /\ requests' = requests + 1
      /\ wandered' = (wandered \/ (sent.cookie /\ host \notin {"base", "zing"}))

(* BuildSignedUrl: without keys, or with a clock that was not set yet,     *)
(* there is no request.                                                    *)
SignFails ==
  /\ catalogAt = "sign"
  /\ GivesUp
  /\ UNCHANGED <<cookies, requests, wandered, answer, found, queued, stream>>

Sign ==
  /\ catalogAt = "sign" /\ attempt < 2
  /\ Requests("base", "answer")
  /\ UNCHANGED <<cookies, purpose, attempt, answer, found, queued, stream>>

(* No answer, a status outside 2xx, or no JSON; or an error code without   *)
(* an address that may be tried; or the retry failed, in any of these ways.*)
AttemptFails ==
  /\ catalogAt \in {"answer", "retry"}
  /\ \/ /\ attempt = 0
        /\ catalogAt' = "sign" /\ attempt' = 1 /\ sending' = NoRequest
        /\ UNCHANGED purpose
     \/ /\ attempt = 1
        /\ GivesUp
  /\ UNCHANGED <<cookies, requests, wandered, answer, found, queued, stream>>

(* ParseEnvelope found an error code and an address to try.                *)
Retry ==
  /\ catalogAt = "answer"
  /\ \E url \in Url : IsSafeApiRetry(url) /\ Requests(ResolveUrl(url).host, "retry")
  /\ UNCHANGED <<cookies, purpose, attempt, answer, found, queued, stream>>

(* A search was answered; without hits the next endpoint is asked.         *)
SearchAnswered ==
  /\ catalogAt \in {"answer", "retry"} /\ purpose \in {"multi", "typed"}
  /\ \E entries \in CatalogEntries :
       /\ answer' = entries
       /\ found' = Hits(entries)
       /\ IF Hits(entries) = <<>> THEN GivesUp ELSE Gives("play", purpose)
  /\ UNCHANGED <<cookies, requests, wandered, queued, stream>>

(* The tool plays what may be played; the cover is fetched by ArtworkCache.*)
PlayFound ==
  /\ catalogAt = "play"
  /\ queued' = Playable(found)
  /\ catalogAt' = "idle" /\ found' = <<>>
  /\ UNCHANGED <<cookies, purpose, attempt, sending, requests, wandered, answer, stream>>

(* FindStreamingUrl takes the first absolute address in the order of       *)
(* preference; what it takes must be of an allowed host.                   *)
StreamAnswered ==
  /\ catalogAt \in {"answer", "retry"} /\ purpose = "stream"
  /\ \E url \in {u \in Url : u.form \in {"https", "http", "schemeless"}} \cup {NoUrl} :
       stream' = IF url # NoUrl /\ IsSafeZingAssetUrl(url) THEN ResolveUrl(url) ELSE NoUrl
  /\ Gives("idle", purpose)
  /\ UNCHANGED <<cookies, requests, wandered, answer, found, queued>>

CatalogNext ==
  \/ MusicPlay \/ FetchStreamingUrl
  \/ SignFails \/ Sign \/ AttemptFails \/ Retry
  \/ SearchAnswered \/ PlayFound \/ StreamAnswered

CatalogSpec == CatalogInit /\ [][CatalogNext]_catalogVars

-----------------------------------------------------------------------------
(* A call makes no more requests than two endpoints, two attempts and one  *)
(* retry allow; configured cookies stay with Zing; a stream is https, of a *)
(* host that may be asked.                                                 *)
CatalogInv ==
  /\ purpose # "typed" => requests <= 4
  /\ ~wandered
  /\ stream # NoUrl => stream.form = "https" /\ stream.host \in {"base", "zing", "cdn"}

(* Where the id of an entry appears for the first time.                    *)
FirstPlace(entries, t) ==
  CHOOSE i \in 1 .. Len(entries) :
    entries[i].id = t.id /\ \A j \in 1 .. i - 1 : entries[j].id # t.id

(* A queue keeps the order of the entries, holds none twice and none that  *)
(* is premium, and passes over none that could be played.                  *)
KeepsOrder(entries, tracks) ==
  LET places == {FirstPlace(entries, tracks[k]) : k \in 1 .. Len(tracks)}
  IN  /\ \A k \in 1 .. Len(tracks) :
           entries[FirstPlace(entries, tracks[k])] = tracks[k] /\ ~tracks[k].premium
      /\ \A k \in 2 .. Len(tracks) :
           FirstPlace(entries, tracks[k - 1]) < FirstPlace(entries, tracks[k])
      /\ \A i \in 1 .. Len(entries) : \A p \in places :
           i < p /\ i \notin places =>
             entries[i].id = NoId \/ FirstPlace(entries, entries[i]) # i \/ entries[i].premium

(* "best match first" (zing_music_client.h:26): what is queued keeps the   *)
(* order of the answer it was found in, through SearchSongs and the tool's *)
(* own choice, and leaves out nothing before its end that could be played. *)
QueueIsPlayable ==
  catalogAt = "idle" /\ queued # <<>> => KeepsOrder(answer, queued)
=============================================================================
