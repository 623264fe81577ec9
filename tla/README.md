# Saberr in TLA+

Saberr follows an RSS feed of anime releases, picks one release per episode,
sends it to qBittorrent, and copies ("imports") the finished file into the media
library. It is one asyncio process (FastAPI, SQLAlchemy on MariaDB) in which API
handlers, the feed and about fifteen periodic workers interleave at every
`await`. This directory holds TLA+ modules of the parts where those
interleavings, failures and restarts matter or where a pure algorithm decides
something that is hard to test, the TLC instances that check them, and TLAPS
proofs about them. Paths below are relative to the repository.

* `tlc -workers 2 -config X.cfg M` checks one instance, M being the module that X
  is named after (`MCDownload` and `MCSelection` have several `.cfg` files);
  `tlapm M.tla` checks the proofs of `DownloadInvariant`, `DownloadTheorems`,
  `SelectionTheorems`, `MatchingTheorems`, `StorageTheorems`, `BackupTheorems`,
  `SystemTheorems` and `SchedulerTheorems`. `PROJECT.json` lists the runs, what
  every definition models (file and lines), findings, hazards and theorems.

## 1. The system

| component | state | operations | what is hard | what makes it correct |
|---|---|---|---|---|
| Download life cycle: `torrent_download_component.py`, `download_workers.py` | `torrent_download` rows (status, retry count), `_DOWNLOADS_LOCK` | three phases of `post_download_processing`, `stuck_check` | decisions on rows read before an await; updates without a status filter; age as the only sign of a lost import | live imports untouched, bounded retries, an imported row stays imported, a release is only dropped for a newer one that stays |
| Import: `processing_component.py`, `file_name_formatters.py` | the row, the library's files | `initiate_download_processing`, `_finalize_download_processing`, `_replace_existing_files`, `format_file_name` | minutes between claim and commit; rows deleted meanwhile; partial copies; a sweep of files found before the copy | one import per claim, no row PROCESSING for ever, the new video survives, different episodes have different names |
| Requests: `torrent_api_component.py`, `download_api_component.py` | same rows, `torrent.discarded`, `torrent.override` | discard, download ("identify"), override, retry, delete | check-then-act against the workers, which hold a lock the handlers do not take | what a request refuses it also prevents |
| Feed: `rss_component.py`, `rss_workers.py` | `_RAW_TORRENTS`, new rows | `consume_feed` | one long transaction over many torrents; cancellation commits | at most one row per torrent; no pass undoes a decision of a user |
| Candidate selection: `torrent_component.py` | `torrent` rows | `_process_raw_torrents`, `determine_torrents_candidacy`, `get_best_torrent_for_episode` | order of priorities, upgrades, ties, predecessors that left the feed | never a worse release than the one there is |
| Sessions: `common/db.py`, `decorators.py`, `db_session_middleware.py` | a session per context, post-commit and post-rollback actions | commit, rollback, retry | `finally: commit` also on cancellation | no partial commit by an exception |
| Worker manager: `worker_manager.py` | priority queue, a lock and run details per worker | `_run`, `start_worker`, `trigger_worker`, `stop` | requeueing is done by the run itself | every worker is scheduled exactly once, runs never overlap |
| Health checks: `downstream_healthcheck_workers.py` | a status per service | `poll_downstream_status`, `force_check` | several polls in flight over shared objects | what is notified is compared first |
| Notifications: `notification_component.py`, `notification_workers.py` | `notification` rows | produce, read, snooze, retract | what they report moves on | unread means still true, in the end |
| Status and update streams: `api/controllers/__init__.py`, `status_api_component.py`, `dto/global_status.py` | times and a flag in memory, a connection per page | polls, frames of differences, post-commit actions | a flag cleared after an await; differences that add up | an open page shows what is committed |
| Backup and start-up: `backup_component.py`, `on_start.py`, `db_migrations.py` | archives, restore marker, schema version | create, prune, mark, restore, migrate | a crash between two of the steps; another version at the next start | what is served was restored whole, never half |
| Anime relations: `utils/anime_relations.py`, `mapping_api_component.py` | tables in memory, `mapping_override` rows | load, refresh, map an episode in both directions, resolve an absolute number, edit rows | ranges, open ends, steps, redirections in circles | both directions agree, user rows decide |
| Tracked anime: `tracked_anime_component.py`, `tracked_anime_profile_component.py`, `torrent_component.py` | `tracked_anime`, profiles, group preferences | track, archive, update; match a title to an episode | profile ids read before others write; a pass that awaits AniList between four reads | a profile has one owner, a torrent goes to an anime somebody tracks |
| AniList and TVDB: `services/`, `anilist_list_component.py`, `asset_component.py`, `external_image_component.py`, `anilist_airing_schedule_component.py` | rows, responses in memory, files; the copy of the user's list | get, refresh, clean up; login, update of entries | fetches overtake each other; AniList changed but not the copy | answers as fresh as promised; the copy catches up |
| Settings: `settings_component.py`, `settings_api_component.py` | rows and a copy in memory | update, login, logout | memory changes before the commit | memory is what a restart would load |
| API schemas, routes, server, tray | none | HTTP | - | local |

Interaction: the feed and the handlers insert rows and write them in
transactions of their own; `post_download_processing` (every 10 s) moves them
along by what qBittorrent reports and runs the imports; `stuck_check` (every
60 s) fails what is too old. The two workers exclude each other by
`_DOWNLOADS_LOCK`. Handlers and feed are ordered with them by nothing but the
database: READ COMMITTED, row locks to the commit, UNIQUE `torrent_id`.
Notifications read the rows and report those at the retry limit. The feed asks
`AnimeRelations`, AniList's search and the tracked anime which episode a title
is. All of it leaves traces in `GlobalStatus`, from which open pages learn what to
fetch again.

## 2. Modules

| module | content | instance |
|---|---|---|
| `DownloadStatus` | statuses, qBittorrent's answers, the decisions of the three phases as pure operators | `MCDownload` |
| `DownloadLifecycle` | the rows, both workers, the import tasks, six kinds of requests, qBittorrent, stops | `MCDownload` |
| `ImportClaims` | abstract: rows are claimed, imported under the claim, withdrawn by requests | `MCDownload` |
| `DownloadInvariant`, `DownloadTheorems` | the inductive invariant and the theorems that follow from it | |
| `TorrentSelection` | a pass of the feed or of a search: what it reads, writes, ranks and sends, with the requests on the same rows | `MCSelection` |
| `SelectionTheorems` | the ranking is right; the invariant of a pass and the theorems about it | |
| `EpisodeRanges` | how one line of a mapping turns numbers into numbers, and which lines are valid | `MCMatching` |
| `AnimeRelations` | the tables, their two directions, the walk of `resolve_anime` | `MCMatching` |
| `FileNames` | the part of a file's name that tells episodes apart | `MCMatching` |
| `EpisodeMapping` | users' rows beside loads and refreshes of the tables | `MCMatching` |
| `TrackedAnime` | tracked anime, profiles, group preferences; overlapping updates | `MCMatching` |
| `TitleMatching` | one torrent from its title to its row, while everything it reads changes | `MCMatching` |
| `MatchingTheorems` | profiles, the walk, the rows, names, answers and matches: invariants and theorems; `MCMatching` as a whole | |
| `LibraryFiles` | the files of one episode: copy, sweep, removal, failures | `MCSystem`, `MCLibrary` |
| `ServiceHealth` | polls, forced checks, notifications and their retraction | `MCSystem` |
| `BackupRestore` | archives, marker, restoration, migrations, stops | `MCSystem` |
| `Caches` | six caches, each with its own rule of age | `MCSystem` |
| `AiringSchedule` | the months that answer a range | `MCSystem` |
| `BackupTheorems` | the inductive invariant of backups and starts | |
| `StorageTheorems` | those of the library, the caches and the airing schedule | |
| `UserAnimeList` | the list on AniList, its copy, two accounts | `MCSystem` |
| `UserSettings` | rows, memory, overlapping updates, rollback | `MCSystem` |
| `SystemTheorems` | the inductive invariants of the settings, the user's list, checks and notifications; `MCSystem` as a whole | |
| `WorkerScheduler` | the worker manager: queue, loop, locks of the workers, triggers | `MCScheduler` |
| `StatusStream` | transactions with post-commit actions, and the pages that follow | `MCScheduler` |
| `SchedulerTheorems` | the inductive invariants of the scheduler, of pages and of connections; `MCScheduler` as a whole | |

Composition. `TrackedAnime` is extended by `TitleMatching` (the pass reads the
tracked anime it changes), `AnimeRelations` by `EpisodeMapping`,
`DownloadLifecycle` implements `ImportClaims`. `MCSystem` and `MCScheduler` put
components that share no state into one run: a variable `part`, chosen at the
start, says which one moves, and the others rest in one state. Nothing is lost by that,
since no step of one reads or writes the state of another; it is
done to check them under one configuration. `MCMatching` does
the same with the mapping rows, the profiles and the matching of a title. That each
of the three implements the specifications of its components is proved
(`SystemIsItsParts`, `MatchingIsItsParts`, `SchedulerInTheWhole`), so that what is
proved of a component holds of the whole.

### Downloads (`DownloadLifecycle`)

`dl[id]` is the row of `torrent_download` with that id (`"ABSENT"`: no row, also
while it is inserted but not committed); `nextId` the auto increment;
`override`/`discarded` the flags of the parent torrent; `qbit[t]` what
qBittorrent would say of the hash. `lock` is `_DOWNLOADS_LOCK`. `pc`/`phase` is
where `post_download_processing` stands, `list` the rows its phase has read and
not checked yet, `snap` those it has checked and kept, with the answer of
qBittorrent, `sup` the rows it has found superseded,
`tasks`/`cur` the coroutines returned by the last phase. `stuck` is what
`stuck_check` has read and updated until its transaction commits. `req[c]` is a
request in flight with what it read.

Steps:

* A transaction is a step that reads and a step that commits. Its updates become
  visible in the second one; statuses that an UPDATE filters on are looked at
  there. This is READ COMMITTED; what a row lock adds is that the later
  writer commits later, which the order of the commit steps is.
* Each phase is `ReadFirst` - `ReadSecond` (its two SELECTs; the second phase has
  one) - a `Check` for every row - `QueryQbit` -
  `AdvancePreDownloading`/`AdvanceDownloading`/`AdvanceDownloaded`, or
  `AdvanceRaises` (the database or qBittorrent fails in any of them; what was sent
  stays sent). Every query of `_filter_out_and_update_superseded_downloads` is a step
  of its own and sees what is committed by then, while the row it is about, and the
  override of its torrent, are as they were read. A row that a request moves between
  the two SELECTs is in the list twice, as one object (`AsHeld`).
* `CopyFile` begins and ends the copy, `CommitProcessed`/`CommitFailed` are
  `_set_post_processing_status`, `FinalizeRaises` its IndexError on a row deleted
  meanwhile, or a failure of the database, with which the rest of the tasks is lost.
* `stuck_check` is decorated with `require_db_session` around the
  `async with _DOWNLOADS_LOCK`: `StuckRead`, `StuckRelease` (lock free, rows
  locked in the database: `Held`, respected by `Writes`), `StuckCommit`. A check
  that raises is rolled back and changes nothing; it is left out, as is one that
  finds no row.
* `XBegins`/`XCommit` are the handlers. `download_torrent` commits twice
  (`IdentifyCommit`, which deletes the row of a recreated torrent, one inserted
  meanwhile included; then the insertion ends in `SelectCommit`). `RequestFails`
  is a handler or a commit that raises: the rows are rolled back, what qBittorrent
  was told is not.
* `retry_download` counts twice: the first update refreshes the object from which
  the second one computes.
* `Killed` loses memory and open transactions. A shutdown cancels the tasks;
  `CancelledError` passes `except Exception`, and the `finally: commit` of
  `require_db_session` commits what was written: `CancelledInAdvance`,
  `CancelledInStuckCheck`, `CancelledInFeed`. A failed import that the last phase was
  about to initiate again is committed as DOWNLOADED then (`Interrupted`). Handlers commit only in the
  middleware's `else`, so theirs is rolled back.
* A failed send may or may not have added the torrent (the answer is lost).

Ages are a nondeterministic set `old` (any row may be old enough or not). Creation
times are a constant, monotone in the id, so that ties occur. The health gate at
the start of `post_download_processing` is a run that does not start. Only
parent torrents are modelled (a row per hash; the children of a multi-episode
release share their parent's). The two reads of `stuck_check` are one. The
feed's transaction inserts one row (`TorrentSelection` has the whole of it). When
`download_torrent` deletes and recreates the torrent, the recreated one is the
same `t`. Titles, paths, `status_details`, tags and the audit log are left out.

### Selection (`TorrentSelection`)

`torrent[h]` is the committed row of a hash with the status of its download
(`dl`), `auto` the episodes with `auto_discard`, `profile` the anime's release
profile. A pass holds `_RSS_LOCK` in one transaction: `PassBegins` reads `snap`,
the episodes of these torrents included; after the call to AniList, `PassLooksUp`
gets or creates each episode of what is to be processed, TVDB being asked before
each; `PassWrites` writes `work` column by
column from what was read, and ranks; `PassSends` sends one winner; `PassCommits`
or `PassFails`. The session's identity map keeps an episode as it was first read, and
looking it up again refreshes nothing: `marked` are the episodes whose `auto_discard`
the pass has seen, which a known listed torrent's episode shows as it was when the pass
began. `written` and `held` are the torrents and episodes it has updated and so locked:
requests wait for them (`Sets`), but not for a download, whose table the pass does
not update. `discard_torrents` reads and writes in two steps, `download_torrent`
reads and commits twice. `standing` is a history variable for `AutoDiscardStops`. `WorkerMoves` is what the workers of `DownloadLifecycle` do to
`dl`, supersession included. Ranking (`BestTorrent`) sifts a group by one criterion
after the other; `Beats` is the order stated from the documented priorities, and
`BestBeatsAll` proves that the one picks the greatest of the other.

Abstractions: an episode's space is a value (episode and part); one parent torrent per hash;
the release attributes that a user gives with `download_torrent` are those of the title;
a torrent that a pass is about to insert as another episode is not identified at
the same time; a pass that does not download ("search") stands for a search and for
`auto_download` off; the clean-up of old torrents of archived anime is left out.

### Mappings and names (`EpisodeRanges`, `AnimeRelations`, `EpisodeMapping`, `FileNames`)

A line is a record of two ids, a range on each side and a step; `Tables` is
`_load_...` over the four files; `Answer` chooses among rows and tables as
`get_tvdb_episodes`/`get_anilist_episodes` do; `Walk` follows the rules turn by turn,
as a recursive function, for one turn more than there are places it could come
to (`Places`); `ResolveAnime` is the first place it comes to for the second time, which
is where the visited set of `resolve_anime` stops it. In `EpisodeMapping`, `rows` is
`mapping_override`, `table` what is in memory; an update is two steps
(`EditReads`, then AniList and TVDB are asked, `EditWrites`). `FileNames` keeps
the number and the part of a name; titles, season and release are the same for what
is compared, and the user's format is taken to contain the number. The order of
an answer's targets is left out.

One restriction: with two updates of one row in flight at a time, `RowsRoundTrip`
fails, because each writes only the columns that differ from what it read
(the hazard at `mapping_api_component.py:80`). `MaxEdits` is 1 in the run, so that the
property speaks of everything else; the theorem `RowsAgree` allows any number of
updates and assumes exactly that (`OneEditEach`). `NamesTellApart` compares the episodes of one
row, not those of different rows, and parts of an episode that is itself a part
share a name by design (`file_name_formatters.py:127`).

### Tracked anime and matching (`TrackedAnime`, `TitleMatching`)

`tracked` are the rows, `profiles` the profiles by id (1 is the default),
`updates` the requests that have read and not yet written; the profile branch of
`update_tracked_anime` is `ProfileWrites`. `pass` is one torrent of
`populate_raw_torrents_data`: claim of an active anime on the title, search on
AniList, rule of `AnimeRelations`, check that it is tracked, insertion, each reading
what is committed then. `admitted` and `claimant` are history variables for the
properties. Titles are taken as normalised by the search; settings and row ids are
symmetric.

### The rest

* `LibraryFiles`: `row[r]` is what decides where a release's video lies, `disk` a
  place (stem and suffix) to a whole or truncated video, `tasks` the imports of one
  worker run. An import is `Initiate` (reads what older releases have),
  `CopyBegins`, `CopyEnds`/`CopyFails`, `SweepOne` per file, `SweepEnds`,
  `ImportEnds`. A request removes the file (`DeleteFile`) and then the row
  (`DeleteRow`); an override starts over at "downloading". From the update of its row an
  import locks that row and no other (`Free`); a shutdown after that update commits it
  (`Halt`). A copy into a
  file that is unlinked meanwhile stays absent. Directories and related files
  (subtitles) are left out.
* `ServiceHealth`: `checker[c]` is a check in flight with its copy of the old
  statuses, `status` the shared objects. A check asks service by service, then
  compares all and notifies with the live object, one commit each.
  `retract` is what the worker has read and not yet updated.
* `BackupRestore`: `db` is the sequence of what was committed, migrations and
  statements of an archive; every element of `plan` is one commit of a start;
  a stop may come between any two, the next start in any version. A migration file is one
  step although MariaDB commits each DDL statement of it by itself: every file of an
  upgrade writes the version last and is made of statements that can be repeated
  (`INSERT IGNORE`, `UPDATE`, `MODIFY`), so a start that stopped in one does it again from
  its beginning. The first one, 0.1.0, creates the tables; it runs on an empty
  database, or in a restoration, which begins anew after a stop. A very first
  installation that stops within it is not modelled. `release_groups_custom.json` is left out.
* `Caches`: one thing of one kind; `origin` are the moments at which the remote
  changed and a version is named after such a moment. Each kind has its own comparison,
  as the code has (`<` or `<=`, age of the fetch or of the last use). An asset's file is
  written (`StoreFile`) before its row is updated or created (`StoreRow`), and stays
  when that fails; what the row says may be about an older file until then. A file that
  is read while it is written is left out.
* `AiringSchedule`: months that begin at `MonthStart`, in days of `Unit` moments, with eight days of
  margin; which months a range needs and which are taken instead.
* `UserAnimeList`: every transaction holds row locks (`rows`); a call to AniList
  takes effect whatever becomes of the transaction. A login is a transaction that also changes
  memory; one that finds the account in memory already (the transaction of an earlier one
  failed) writes no setting, since `update_settings` skips what is equal.
* `UserSettings`: an update goes through the codes of a form: compare with
  memory, write the row (waiting for its lock), keep in memory; `astray` are the codes
  a failed update has left in memory. A deadlock of two updates is `BreakUpdate`. Forms share
  codes as login, logout and the general form do.
  `update_profile_settings` is `UpdateDefaultProfile` of `TrackedAnime`.
* `WorkerScheduler`: an element of `Items` is a `WorkerItem` object ("free": none),
  `kind` its `requeue`, `place` what has become of it: "queued" and "due" are in
  the queue with a `next_run` in the future or past, "started" has its task,
  "waiting" is in `waiters[w]`, the FIFO of the worker's `asyncio.Lock`, "running"
  holds the lock. `currently_running` is set and cleared where the lock is held,
  so it is derived (`CurrentlyRunning`). The inner loop of `_run` does not
  suspend while the queue has items: `Dispatch` is all of it. `End` is the
  `finally` of `start_worker` with its requeueing, for a run that returned,
  raised or was cancelled. Time is only whether an item is due: frequency,
  `RETRY_DELAY` and the length of a run decide how soon.
* `StatusStream`: `write[w]` is a transaction with what it has left for after its
  commit; `Commits` and `AfterCommit` are two steps, between which others run.
  `Poll` reads the unread notifications if the flag is set, `CountUnread` stores
  the number and clears the flag; a frame (`Sent`) holds what differs from the last one and
  is laid over what the page shows. `watch` is a connection of
  `/downloads/updates/stream`. `missed` and `late` are history variables. One kind of data stands
  for the five times; a page that sees another time fetches the data again.

## 3. What is checked

| run | instance | result |
|---|---|---|
| `lifecycle` | 2 releases of one episode in the same second, 2 clients, all 6 kinds, 2 requests, 1 stop, limit 2; from an empty database, and from a restart with both releases finished | 741,421 states; all six properties hold |
| `progress` | 1 release, 1 client, 3 requests (select, discard, delete, override), 1 stop, limit 1 | 47,808 states; both liveness properties hold |
| `final` | as `lifecycle`, 1 property | violated (finding 1) |
| `discard` | as `lifecycle`, 1 client | violated (finding 2) |
| `giveup` | 1 request, no stop, limit 1, fair | violated (finding 3) |
| `scheduler` | 2 workers, 4 items; 2 pages, 2 transactions, 2 downloads with 3 changes | 114,849 states; one invariant beside the types and three liveness properties hold |
| `selection` | 3 releases, 4 profiles, 2 passes, 1 request of any kind | 901,149 states; all five hold |
| `discardlost` | as `selection`, 1 property | violated (finding 4) |
| `retrycheck` | as `selection`, 1 property | violated (finding 5) |
| `matching` | 2 anime, 4 seasons, 2 rows over 24 tables; 2 updates of 2 profiles; 1 torrent | 103,110 states; all eight hold |
| `system` | see the bounds below | 254,597 states; all eight hold |
| `sweep` | 3 releases, two containers | violated (finding 6) |

Safety. Downloads: `LiveImportsUntouched` (the reason for the lock),
`RetriesBounded`, `WorkersKeepImported` (only requests take an import back),
`SupersessionPicksOne` (a row is dropped for a newer one that is not dropped itself and
stays unless a request withdraws it; the import phase does not claim two rows of one
space), `ImportsAreClaimed` (refinement of `ImportClaims`).
Selection: `NeverDowngrades` (what a pass starts beats all there is),
`ImprovesAlone` (successive downloads are upgrades, which is what the workers
take them for), `KeepsWhatItHas`,
`AutoDiscardStops` (an `auto_discard` that has stood since the pass began is heeded,
whichever way the session came by the episode; one that is set while the pass waits may
go unseen). Matching: `RowsRoundTrip`
(both directions of a row agree), `AnswersStand` (ALWAYS rows decide, IF_MISSING
rows only fill gaps), `NumbersSettle` (resolving twice is resolving once),
`NamesTellApart`, `MatchedIsTracked`, `ClaimDecides`, `ProfilesAreOwned`. System:
`ServesWhole`, `FreshAnswers`, `RangeIsCovered`, `NewVideoStays`,
`MemoryFollowsRows`. Scheduler: `OneSchedule`.

Liveness. `ImportsEnd`, `PendingIsSent`; `RunsAgain` (which the fairness of
`DownloadLifecycle` rests on) and `TriggersRun`; `PagesCatchUp` (open pages end up
with what is committed); `ListCatchesUp` (the copy of the user's list becomes
the list); `OutdatedIsRetracted` (no notification stays unread once it is not true
any more).

Bounds and why they are enough:

* `lifecycle`: two rows are what supersession compares; two requests are one that
  acts between the read and the commit of a worker, and one before or after it.
  One stop reaches every state a stop leaves behind. Two requests are spent when two
  releases have been selected; so that a third one can meet a pass over both rows, the run
  also begins with a process that starts on two finished rows (`Restarted`, one more
  request). Releases and clients are interchangeable: the constants tell neither
  apart. A limit of 2 separates a first
  failure from the last one. The proofs hold for every value of these bounds.
* `progress` needs three requests: one that creates the row, one that disturbs its
  import, one that disturbs the repair; retry and identify end in the
  statuses the others already produce.
* `scheduler`: only the number of items at a time is bounded, not that of
  triggers; two of them on one worker keep its lock contended. Two writes
  (`MaxWrites`) are a change and one that overtakes it, or a snooze after a
  notification; two pages are what shares the count and the flag.
* `selection`: three releases are one that is there, a better one and one a
  profile may refuse; two passes are one that starts a download and one that may
  replace it. Two requests instead of one exceed 8 million states.
* `matching`: two rows may answer the same question; each of the four
  files may be missing (`LoadRelations`); numbers go to 4, beyond every closed
  range but one. Two updates and two passes of anything overlap; a third profile
  is what a wrong creation makes (`MaxProfiles`).
* `system`: 3 edits of the list, 2 accounts; 2 changes of services and 2
  notifications; 3 versions, 2 archives kept by 1, 3 stops (one in the
  restoration, one in the repeated one, one after it); 2 readers and 4 moments with a
  life and a fetch of 1; months of 31 and 28 days; 3 releases, one asked
  for again, one failure, one stop; 3 codes, 2 editors, 3 updates.

Where a run says `CHECK_DEADLOCK FALSE`, its program may stop for good within
the bounds: a stopped manager, spent requests, a page that shows everything.

### Fairness

`worker_manager.py` runs `post_download_processing` again 10 s after it ended, or
600 s after it raised, and it does not stay between two of its steps: weak fairness of
`Select`, `Filter`, `QueryQbit` and `Advance` together. A copy ends, with or without an
error: weak fairness of `Finalize`. `asyncio.Lock` wakes its waiters in order, so
`stuck_check` cannot be overtaken for ever although the lock is never free for
long: strong fairness of `StuckRead(Ids)`, with every row old, as a row nobody
updates becomes; weak fairness of what follows it, since nothing stops it then. In the
first phase, the one a PENDING row depends on, the database and qBittorrent answer again
and again: strong fairness of the second SELECT, of `Check` for each length of the list (a
query after n others is not bound to fail for ever), of `QueryQbit` and of
`AdvancePreDownloading`; each may fail any number of times in between. Nothing is assumed of users, of the feed, of qBittorrent's
downloads, of sends succeeding or of restarts. `RunsAgain` and `TriggersRun` assume that the clock and the event loop go on, that a run ends,
and the order of `asyncio.Lock` (in the model, not as fairness); without that order
two triggers can keep a third one waiting for ever. `ImportsEnd` and `PendingIsSent` need
`stuck_check`: without it a row stays PROCESSING after a stop or after
`FinalizeRaises`.

`PagesCatchUp` assumes that post-commit actions run once a commit has returned (there is
no await between), that an open connection is polled again (the loop of
`minimal_polling_sse`; a poll that fails closes it) and that a page fetches what it learns
is new. Nothing is assumed of transactions: one may stay open for ever.
`ListCatchesUp` assumes the periodic refresh: it begins (weak) and, since each of its
steps may fail and be repeated by the next run, each succeeds some time when it is tried again and
again (strong). `OutdatedIsRetracted` assumes only the worker that retracts
(every 30 s, weak).

### Findings

1. **Final statuses are not final for the workers.** `constants.py:173-178` calls
   PROCESSED, DELETED and DISCARDED final; the workers' updates have no status
   filter (except in the last phase), and PROCESSED is written over anything.
2. **A processed torrent can be discarded.** `discard_torrents` refuses it at the
   read and updates without a filter later; the import may commit in between.
3. **Failing imports are never given up.** The retry count that should reach
   `DOWNLOAD_PROCESSING_RETRY_LIMIT` starts over at each attempt, because the
   first update of the pass has already changed the object the count is computed
   from; "failed permanently to process" is not sent.
4. **A discard is lost.** A pass writes the `discarded` it read before it waited
   for AniList; a discard made meanwhile is undone, and the pass may download
   what the user has discarded.
5. **`check_download_retry` ranks rows of downloads as releases**, with fields they do not
   have, and compares ids of two tables: with a newer download it raises.
6. **The sweep may destroy the new video.** When containers differ, sweeping one
   older file renames its siblings of the same stem, and one of them may be another older
   video that lands on the file just copied.

Four more statements that are not claimed anywhere and do not hold, recorded as
hazards: the unread count stays wrong when its flag is set while it is being
counted or when a snooze ends (`PagesCatchUp` excludes exactly these); after a
rolled back update of settings the same request answers success without writing; a pass
over the downloads queues the imports of both releases of an episode when a request
withdraws the newer one after it was read and before the older one is checked; an
`auto_discard` set while a pass of the feed waits for AniList may not stop it.

## 4. What is proved

Every theorem holds for all values of the constants that satisfy the `ASSUME`s of its
module, which TLC evaluates in the runs: all sets of torrents, clients, releases,
profiles and priority lists, anime, titles, rules, files of relations and ranges; all
retry limits, creation times monotone in the id, lifetimes, calendars and versions;
any number of requests, passes, updates, stops and workers. The sets are assumed
finite where the program iterates over them.

| theorem | statement |
|---|---|
| `Invariance` | `Spec => []IInv` |
| `TypeCorrectness`, `ImportsLeftAlone`, `RetriesStop`, `SupersessionKeepsOne` | the invariants of `lifecycle` |
| `ImportedIsKept` | the action property `WorkersKeepImported` |
| `Implementation`, `NoneImportedTwice` | `Spec` implements `ImportClaims!ClaimsSpec`; what that promises, read back: no row that counts as imported has an import queued or running |
| `BestBeatsAll` | the ranking picks a member that `Beats` all others |
| `SelectionInvariance`, `SelectionTyped` | the inductive invariant of a pass, and the types |
| `PassesNeverDowngrade`, `PassesKeepWhatThereIs`, `AutoDiscardIsHeeded`, `UpgradesImprove` | the other four properties of `selection` |
| `TrackedInvariance`, `ProfilesStayOwned` | the inductive invariant of tracked anime, and `ProfilesAreOwned` |
| `ResolvedNumbersSettle` | `NumbersSettle`, for all rules with chains, repeats and circles |
| `MappingTypes`, `RowsAgree`, `NamesStayApart` | types of the rows; `RowsRoundTrip` and `NamesTellApart` while no two updates of one row overlap |
| `OneAtATime` | both, where `MaxEdits` is 1 as in the run |
| `AnswersStay` | `AnswersStand`, in both directions |
| `PassesLeaveTracked` | `MatchSpec => TrackedSpec`: what is proved of the tracked anime alone holds beside passes |
| `MatchTypes`, `MatchesAreTracked`, `ClaimsDecide` | types of a pass; `MatchedIsTracked`, `ClaimDecides` |
| `MatchingIsItsParts`, `MatchingTypes`, `MatchingKeepsItsPromises` | `MCMatching` implements the rows and the pass; its types; all else that `matching` checks, where `MaxEdits` is 1 |
| `BackupInvariance`, `ServedDataIsWhole` | the inductive invariant of starts, and `ServesWhole` |
| `CacheInvariance`, `AnswersAreFresh` | the inductive invariant of the caches, and `FreshAnswers` |
| `RangesAreAnswered` | `RangeIsCovered`, for every calendar |
| `LibraryInvariance`, `SweptVideoStays` | the inductive invariant of the library, and `NewVideoStays` where releases named alike come in one container |
| `SchedulerInvariance`, `SchedulerTypes`, `OneScheduleKept` | the invariants of `WorkerScheduler` |
| `SchedulerInTheWhole` | the invariants of `scheduler`, while pages are served as well |
| `PolledPagesAreRight` | a page that has polled the present status and fetched shows the committed data and, the two missed cases aside, the right count; connections show downloads as last polled |
| `SettingsInvariance`, `SettingsTypes`, `MemoryStaysWithRows` | the invariants of `UserSettings` |
| `ListInvariance` | the inductive invariant of the user's list |
| `HealthInvariance`, `NotifiedOnce` | the inductive invariant of checks and notifications; a download given up is notified once per status |
| `SystemIsItsParts`, `SystemTypes`, `SystemKeepsItsPromises` | `MCSystem` implements its seven components; its types; the invariants of `system`, where releases named alike come in one container |

None of the safety properties is inductive. The arguments:

**Downloads.** `LiveImportsUntouched` says what
statuses a row with a live import may have, and is kept only because nobody but
requests moves these rows, which needs: `Locking` (the run and `stuck_check`
exclude each other while the lock is held; tasks and snapshot exist only at their
steps), `Reading` (a row in a worker's hands is not PROCESSED; one in the last phase's has only
been moved by requests since; what `stuck_check` has not committed after it released
the lock is neither a task nor in the last phase's snapshot, because it was
DOWNLOADING or PROCESSING when it was read and requests alone have moved it), and
`Inserting` (the id being inserted belongs to one request and is not seen, so that
an insert never hits a row with an import). `Counting` carries the bound on the
counts read with a snapshot or by a request. `SupersessionPicksOne` needs `Superseding`,
since a pass decides row by row while requests commit in between: the rows in hand are
of torrents that do not change; each dropped row has a newer one that is not dropped and stays unless withdrawn (one that
is dropped in its turn has such a row itself, and the order by creation time and id is
transitive, `NewerOrder`); and in the import phase a
row that was kept beside a newer one of its space was checked when a request had already
rewritten that one, which puts it where the filtered update of the phase does not find
it. `IInv` is their conjunction; there is a lemma per action.

**Selection.** `PassOwnsRows` is what the row locks buy: what a pass has written stays as
it was committed, whatever is requested meanwhile, so that its ranking is still about
what is there when it sends. `Heeding` says that the session's episodes carry every
`auto_discard` that has stood since the pass began: those that came with the rows as
much as those looked up later. `BestBeatsAll` ties the ranking to the order: after i rounds
the group is what is as good as anything in the first i criteria (`Sifted`); the round at
which that fails first would be a contradiction, and so no induction over data is needed.
`PassesNeverDowngrade` and `PassesKeepWhatThereIs` follow (`PickBeats`). `UpgradesImprove`
needs an invariant of its own for the time before the first request, `Alone`: rows are
of the episode their title says and undiscarded (`AloneRows`), `order` lists what was started, which
the profile admits (`AloneOrder`), and a later one beats every earlier one of its episode
that is still active (`AloneBeats`).

**Profiles.** An update keeps the profile id it read across its awaits.
`OwnedWhenRead`: that profile was the anime's own or the default, and no other anime ever
comes to have it, since ids are not used again. So what is written later is nobody
else's, however many updates overlap.

**Relations.** A walk has more turns than places, so by the pigeonhole principle it comes to some
place twice; the first such place lies on a circle, and a walk that starts there comes
back to it first. Hence resolving a resolved number changes nothing. The two directions of a row
agree by arithmetic on its ranges (division by its step), given what validation lets
through (`RowsValid`), which is what two overlapping updates of one row can break. In
`AnswersStay` the rows that bind decide alone (`Bindings`): the others change neither whether
there is one nor which is the greatest.

**Names.** Numbers without a gap are shown by their ends, and two names are equal only if the
ends are (`IntervalEnds`), so it suffices to say where a video lies. On a `Plain` line (each
episode has TVDB episodes of its own) episodes have blocks that follow each other in order
(`PlainOrder`), and the numbers of a video are an interval within the blocks of its episodes
(`PlainPlace`): videos without a common episode differ. Parts of one episode take
whole TVDB episodes, which do not meet (`EvenEnds`), or parts of one, told apart by quotient
and remainder (`OddEnds`). On a line that joins k episodes (`Joins`) only whole videos have names;
those that lie within one TVDB episode are told apart by the parts shown, unless all
are there, which leaves nothing for another one (`JoinParts`). Every row that has been let
through is one of the two (`ValidNamesDiffer`); `RowsValid` again is the invariant.
TVDB episodes are counted by `Rank` and not by sorting them into a sequence, so that the proof can speak of them.

**Matching.** `Admitted`: what has been decided was so at some moment of the pass.
`ClaimFollowed`: a claim that has stood since the pass began is the one there is, was read,
and was followed; there is a greatest claim because the anime are finitely many.

**Backup.** The data served are whole at their schema (`HoldsData`: some migrations, a set of data that was
written as one, more migrations). While a restoration is under way, there is
a marker, and what a start has committed together with what it has still to commit is whole
(`Restoring`); where none is, the database is whole already and the plan only migrates it
(`Settled`). A stop anywhere leaves the one or the other.

**Caches, airing schedule, library.** A copy, and what is on its way to one, is never older than the moment
it is dated, less one fetch (`CopyIsOfItsTime`, `ReaderOK`); a file whose row is still to be
written was fetched just now. Months recorded
and months fetched suffice for the range asked for (`AskOK`), since a range of at
most a month meets at most two of them and a window goes eight days beyond its month. `NewVideoStays` does not hold
without `NamesHaveOneSuffix`: that is finding 6, which the run `sweep` shows.

**Scheduler and settings.** `OneSchedule` is kept because moving an item changes neither its worker nor its
kind (`PlaceIsIrrelevant`) and a trigger only takes a free one; the types
of the waiting queues need that no item waits twice (`WaitsOnce`).
`MemoryFollowsRows` needs three facts more (`SettingsInv` of `SystemTheorems`): no two
updates have written the same row (`RowsAreLocked`), so that the commit of one does not
overtake the other; an update has kept in memory what it has written, but for the one
code it is at (`SettingsProgress`); and memory still holds what it has kept (`MemoryIsKept`), which
a rollback turns into `astray`.

**Pages.** A page is told of changes by times, and would miss one if a time were taken twice:
`StampsAreNew` says that no two open transactions take the same time, and that none takes
that of the last commit or one a page has seen. Then a page that has seen the present time
has fetched since it was set, or somebody is about to set another (`PagesHaveData`). The number in memory, and
one that is being counted, is right, or the flag is about to be raised (`CountsAreRight`); the
two cases the code misses are the history variables `missed` and `late`. Frames of differences
add up (`WatchInv`): a connection has been told all it compares with, and what it no longer asks for it was told is finished.

**User's list, checks.** No two transactions have written one row of the list (`RowsApart`),
and what a refresh replaces the copy with was fetched whole (`SessionOK`). A check that waits or notifies has a service left
to do so for (`CheckerOK`). `NotifiedOnce` needs that what is about to be inserted is not there
yet (`Produced`), which holds because one worker alone produces and notifications are never deleted.

**Whole runs.** A step of `MCSystem`, `MCMatching` or `MCScheduler` is a step of one component
and leaves the others' variables alone, so its `Spec` implies each component's; the
theorems about components then give all the safety properties of the runs.

Proving corrected the model in two places. `KeepsWhatItHas` spoke of the episode a
title is matched with, and was imprecise for a row that a user has identified as another
one; it speaks of the row's episode now. `MatchTypeOK` claimed that a matched
episode is positive; there is an episode 0, and an offset may lead there.

Three modules have an operator of their own where a library would have served, because
the prover has to expand it: `Rank` (`FileNames`), `With` (`UserAnimeList`) and `Over` (`StatusStream`).
`ListAssumption` and `HealthAssumption` say what the proofs need of the constants: the account
nobody has is none of the users', lists are complete, the list of services is a sequence, and "download" is no service.

Every safety property that a passing run checks is stated by one of these theorems. Only
model-checked are the liveness properties `ImportsEnd`, `PendingIsSent`, `RunsAgain`, `TriggersRun`,
`PagesCatchUp`, `ListCatchesUp` and `OutdatedIsRetracted` (ENABLED and fairness are out of the prover's
reach; `PolledPagesAreRight` is the safety part of `PagesCatchUp`), and the statements that are violated.
`RowsRoundTrip` and `NamesTellApart` are proved only without two overlapping updates of one row,
which can store a row that validation would refuse and `RowsRoundTrip` does not hold of;
`NewVideoStays` only with one container per name, since it fails otherwise (finding 6).

## 5. Not modelled

* Multi-episode releases (child torrents), related files and directories of an import.
* The pull-status and task streams; the services' status in the status stream.
* Rate limits and retries of the HTTP clients; `with_retry` of the database.
* AniList, TVDB, Discord and qBittorrent HTTP formats, parsing of titles, schemas
  and serialisation, the audit log, the program's own login and JWT, the tray and the
  installers: single steps without shared state, for which unit tests are the better tool.

What could be proved next lies in the model rather than in the proofs: multi-episode releases in
`DownloadLifecycle`, and with them that a child's row follows its parent's; and the rows of a
feed's transaction beside the workers, for which `TorrentSelection` and
`DownloadLifecycle` would have to share their rows.
