-------------------------------- MODULE Caches --------------------------------
(***************************************************************************)
(* What the program keeps of AniList, TheTVDB and the web: rows, responses *)
(* in memory and files on disk, each with a rule of its own for how long   *)
(* it answers. One thing of one kind, two requests or workers that want    *)
(* it, a remote that changes, and time that passes.                        *)
(*                                                                         *)
(* A version is named after the moment the remote took it on.              *)
(***************************************************************************)
EXTENDS Integers, FiniteSets

CONSTANTS
    Kinds,    \* those that are looked at
    Readers,
    Life,     \* how long a copy answers: six hours, three days, seven days, ...
    MaxFetch, \* bound: how long a fetch takes until its result is stored
    MaxNew,   \* bound: changes of the remote
    MaxTime   \* bound: moments

AllKinds == {"series", "extras", "anime", "response", "image", "asset"}

ASSUME CacheAssumption == Kinds \subseteq AllKinds /\ {Life, MaxFetch, MaxTime} \subseteq Nat

VARIABLES
    kind,
    now,
    origin, \* the moments at which what the remote has changed
    copy,   \* the copy: a version and the time it is judged by
    reader  \* requests and workers: get ... to the answer

cacheVars == <<kind, now, origin, copy, reader>>

NoCopy == [there |-> FALSE, version |-> 0, stamp |-> 0]
At(pc, want, version, since) == [pc |-> pc, want |-> want, version |-> version, since |-> since]
NoReader == At("idle", FALSE, 0, 0)

CacheInit ==
    /\ kind \in Kinds /\ now = 0 /\ origin = {0}
    /\ copy = NoCopy
    /\ reader = [r \in Readers |-> NoReader]

Latest == CHOOSE t \in origin : \A u \in origin : u <= t

Becomes(r, new) == reader' = [reader EXCEPT ![r] = new]

-----------------------------------------------------------------------------
\* get_series and get_series_episodes: any age will do unless one is wanted.
SeriesAnswers(want) == ~want \/ copy.stamp > now - Life

\* get_anime_extras: at most seven days old.
ExtrasAnswer == ~(copy.stamp < now - Life)

\* _get_cached_response: until its expiry.
ResponseAnswers == ~(copy.stamp + Life < now)

\* get_file_path_for_encoded_external_image_url: by the time of modification.
ImageAnswers == ~(now - copy.stamp > Life)

\* _read_cached_file_if_valid: expires_at is still to come.
AssetAnswers == copy.stamp + Life > now

\* get_anime_records: any age.
Answers(want) ==
    CASE kind = "series"   -> SeriesAnswers(want)
      [] kind = "extras"   -> ExtrasAnswer
      [] kind = "anime"    -> TRUE
      [] kind = "response" -> ResponseAnswers
      [] kind = "image"    -> ImageAnswers
      [] kind = "asset"    -> AssetAnswers

\* Only a series is asked for in both ways. An image that answers is touched
\* before it is sent.
Get(r, want) ==
    /\ reader[r].pc = "idle" /\ (kind = "series" \/ want = (kind # "anime"))
    /\ IF copy.there /\ Answers(want)
       THEN Becomes(r, IF kind = "image" THEN At("touch", TRUE, 0, 0)
                       ELSE At("answered", want, copy.version, 0))
       ELSE Becomes(r, At("fetch", want, 0, now))
    /\ UNCHANGED <<kind, now, origin, copy>>

\* force_fetch, force_refresh; refresh_stale_db_data for anime that are old.
GetAfresh(r) ==
    /\ reader[r].pc = "idle" /\ kind # "image"
    /\ Becomes(r, At("fetch", TRUE, 0, now))
    /\ UNCHANGED <<kind, now, origin, copy>>

Receive(r) ==
    /\ reader[r].pc = "fetch"
    /\ Becomes(r, At("store", reader[r].want, Latest, reader[r].since))
    /\ UNCHANGED <<kind, now, origin, copy>>

\* A stale image or asset is better than none; nothing else is.
FetchFails(r) ==
    /\ reader[r].pc = "fetch"
    /\ Becomes(r, IF kind = "image" /\ copy.there
                  THEN At("touch", FALSE, 0, 0) ELSE NoReader)
    /\ UNCHANGED <<kind, now, origin, copy>>

\* upsert_tvdb_series and upsert_anilist_anime_extras leave updated_at to the
\* database, which sets it when the data are others.
Upserted(version) ==
    IF copy.there /\ copy.version = version THEN copy
    ELSE [there |-> TRUE, version |-> version, stamp |-> now]

\* All others note the time whatever they store.
Noted(version) == [there |-> TRUE, version |-> version, stamp |-> now]

Store(r) ==
    /\ reader[r].pc = "store" /\ kind # "asset"
    /\ copy' = IF kind \in {"series", "extras"} THEN Upserted(reader[r].version)
               ELSE Noted(reader[r].version)
    /\ Becomes(r, IF kind = "image" THEN At("touch", TRUE, 0, 0)
                  ELSE At("answered", reader[r].want, reader[r].version, 0))
    /\ UNCHANGED <<kind, now, origin>>

\* _persist_asset writes the file, which an older row may go on judging, and
\* waits for the database to note the time in the row or to create it.
StoreFile(r) ==
    /\ reader[r].pc = "store" /\ kind = "asset"
    /\ copy' = [copy EXCEPT !.version = reader[r].version]
    /\ Becomes(r, [reader[r] EXCEPT !.pc = IF copy.there THEN "update" ELSE "create"])
    /\ UNCHANGED <<kind, now, origin>>

\* A row that a clean-up deleted meanwhile is not updated, and two cannot be created.
StoreRow(r) ==
    /\ reader[r].pc = "update" \/ (reader[r].pc = "create" /\ ~copy.there)
    /\ copy' = IF reader[r].pc = "update" /\ ~copy.there THEN copy
               ELSE [copy EXCEPT !.there = TRUE, !.stamp = now]
    /\ Becomes(r, At("answered", reader[r].want, reader[r].version, 0))
    /\ UNCHANGED <<kind, now, origin>>

\* The file stays.
StoreRowFails(r) ==
    /\ reader[r].pc \in {"update", "create"}
    /\ Becomes(r, NoReader)
    /\ UNCHANGED <<kind, now, origin, copy>>

\* _bump_last_activity: the time of modification is read, and written back
\* together with the time of access.
Touch(r) ==
    /\ reader[r].pc = "touch" /\ copy.there
    /\ Becomes(r, At("touched", reader[r].want, 0, copy.stamp))
    /\ UNCHANGED <<kind, now, origin, copy>>

\* A slip: a touch makes the image new.
SentAnew(r) ==
    /\ reader[r].pc = "touched" /\ copy.there
    /\ copy' = [there |-> TRUE, version |-> copy.version, stamp |-> now]
    /\ Becomes(r, At("answered", reader[r].want, copy.version, 0))
    /\ UNCHANGED <<kind, now, origin>>

\* What is sent is what the file holds then.
Sent(r) ==
    /\ reader[r].pc = "touched" /\ copy.there
    /\ copy' = [there |-> TRUE, version |-> copy.version, stamp |-> reader[r].since]
    /\ Becomes(r, At("answered", reader[r].want, copy.version, 0))
    /\ UNCHANGED <<kind, now, origin>>

\* The image was removed meanwhile.
TouchFails(r) ==
    /\ reader[r].pc \in {"touch", "touched"} /\ ~copy.there
    /\ Becomes(r, NoReader)
    /\ UNCHANGED <<kind, now, origin, copy>>

Done(r) ==
    /\ reader[r].pc = "answered"
    /\ Becomes(r, NoReader)
    /\ UNCHANGED <<kind, now, origin, copy>>

-----------------------------------------------------------------------------
\* cleanup_in_memory_caches, cleanup_db_and_disk_cache, cleanup_expired_images:
\* what expired, or what has not been asked for for long. A row or a file of an
\* asset that is gone is fetched again.
Cleanup ==
    /\ copy.there /\ copy.stamp + Life < now
    /\ copy' = NoCopy
    /\ UNCHANGED <<kind, now, origin, reader>>

\* (A change at the last moment would never be late.)
Change ==
    /\ now < MaxTime /\ Cardinality(origin) <= MaxNew
    /\ origin' = origin \union {now} /\ origin' # origin
    /\ UNCHANGED <<kind, now, copy, reader>>

\* A fetch takes no longer than MaxFetch; the other steps take no time.
Tick ==
    /\ now < MaxTime
    /\ \A r \in Readers :
        /\ reader[r].pc \in {"fetch", "store"} => now < reader[r].since + MaxFetch
        /\ reader[r].pc \notin {"update", "create", "touch", "touched"}
    /\ now' = now + 1
    /\ reader' = [r \in Readers |-> IF reader[r].pc = "answered" THEN NoReader ELSE reader[r]]
    /\ UNCHANGED <<kind, origin, copy>>

CacheNext ==
    \/ \E r \in Readers :
        \/ \E want \in BOOLEAN : Get(r, want)
        \/ GetAfresh(r) \/ Receive(r) \/ FetchFails(r)
        \/ Store(r) \/ StoreFile(r) \/ StoreRow(r) \/ StoreRowFails(r)
        \/ Touch(r) \/ Sent(r) \/ TouchFails(r) \/ Done(r)
    \/ Cleanup \/ Change \/ Tick

CacheSpec == CacheInit /\ [][CacheNext]_cacheVars

-----------------------------------------------------------------------------
CacheTypeOK ==
    /\ now \in 0..MaxTime /\ origin \subseteq 0..now
    /\ copy.there => copy.version \in origin /\ copy.stamp \in 0..now
    /\ \A r \in Readers : reader[r].version \in 0..now /\ reader[r].since \in 0..now

\* How long a version has been replaced.
Behind(version) ==
    IF \E t \in origin : t > version
    THEN now - (CHOOSE t \in origin : t > version /\ \A u \in origin : u > version => t <= u)
    ELSE 0

\* An answer that has to be fresh is not behind the remote by more than its kind
\* allows and one fetch: two fetches may overtake each other, a clean-up or a
\* touch come in between, and the data of a fetch be those that were there.
FreshAnswers ==
    \A r \in Readers :
        reader[r].pc = "answered" /\ reader[r].want => Behind(reader[r].version) <= Life + MaxFetch
=============================================================================
