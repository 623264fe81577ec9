--------------------------- MODULE TorrentSelection ---------------------------
(***************************************************************************)
(* Which release of an episode the RSS feed downloads: one pass of         *)
(* RSSComponent.consume_feed (or a search, which stops before the          *)
(* downloads), beside the requests that discard, override, identify, retry *)
(* and delete the same torrents.                                           *)
(*                                                                         *)
(* A pass is one database transaction. It reads the rows of the listed     *)
(* torrents with their episodes, waits for AniList, looks the episodes up  *)
(* with a wait for TVDB before each, writes the rows, ranks the releases   *)
(* of the episodes and sends the winners to qBittorrent one after the      *)
(* other. What it has written stays locked, and unseen by the others,      *)
(* until it commits. Its session keeps an episode as it was when first     *)
(* read: looking it up again returns the same object.                      *)
(***************************************************************************)
EXTENDS Integers, Sequences, FiniteSets, Functions

CONSTANTS
    Hashes,      \* magnet hashes, as numbers: the order of the strings
    Spaces,      \* (episode, episode part)
    NoSpace,     \* of a torrent without a row, or of an anime that is not tracked
    Release,     \* hash -> what its title says: a value per criterion, and repack
    Match,       \* hash -> the space its title is resolved to
    Profiles,    \* the profiles users choose from
    MaxRequests, MaxPasses  \* bounds: requests and passes over a behaviour

Criteria == {"VERSION", "RELEASE_GROUP", "ENCODING", "RESOLUTION", "SOURCE", "LANGUAGE_CODE"}

ASSUME SelectionAssumption ==
    /\ Hashes \subseteq Nat /\ IsFiniteSet(Hashes)
    /\ NoSpace \notin Spaces
    /\ Match \in [Hashes -> Spaces \union {NoSpace}]
    /\ \A h \in Hashes : Release[h]["VERSION"] \in Int /\ Release[h].repack \in Int
    /\ \A p \in Profiles :
        /\ p.priorities \in Seq(Criteria) /\ p.upgrades \in BOOLEAN
        /\ \A c \in Criteria \ {"VERSION"} : p.preferred[c] \in Seq(Range(p.preferred[c]))
    /\ MaxRequests \in Nat /\ MaxPasses \in Nat

VARIABLES
    torrent,  \* committed: hash -> its row and the status of its download
    auto,     \* committed: spaces with auto_discard
    profile,  \* the profile of the anime
    order,    \* <<g, h>>: the download row of h was created after that of g
    \* the pass that holds _RSS_LOCK
    pc, mode, \* where it stands; a feed, or a search (or auto_download is off)
    scope,    \* the torrents listed
    snap,     \* their rows as the pass read them
    marked,   \* spaces whose episode it has, until it has written, with auto_discard
    held,     \* spaces whose episode it has looked up, which locks it
    work,     \* the rows it wrote, but for their downloads
    written,  \* the torrents it holds locks on
    todo,     \* winners not sent yet
    mine,     \* downloads it has inserted
    \* requests
    req,      \* discard_torrents between its read and its write, or
              \* download_torrent there or between its two commits
    requests, passes,
    standing  \* history: spaces with auto_discard ever since the pass began,
              \* until it has written

dbVars   == <<torrent, auto, order>>
passVars == <<pc, mode, scope, snap, marked, held, work, written, todo, mine>>
vars     == <<dbVars, profile, passVars, req, requests, passes, standing>>

Download == {"none", "going", "processed", "discarded", "deleted"}

\* id: tells a row from the one that replaced it.
Row == [id: Nat, space: Spaces \union {NoSpace}, discarded: BOOLEAN, override: BOOLEAN,
        dl: Download]

NoRow == [id |-> 0, space |-> NoSpace, discarded |-> FALSE, override |-> FALSE, dl |-> "none"]

Known(row)  == row.id # 0
Active(row) == row.dl \in {"going", "processed"}

\* id, dl, space: of the row when it was read.
NoRequest == [op |-> "none"]
Request   == {NoRequest} \union [op: {"discard", "identify", "download"}, h: Hashes, id: Nat,
                                dl: Download, space: Spaces \union {NoSpace}]

TypeOK ==
    /\ torrent \in [Hashes -> Row] /\ work \in [Hashes -> Row] /\ snap \in [Hashes -> Row]
    /\ \A h \in Hashes : Known(torrent[h]) <=> torrent[h].space # NoSpace
    /\ auto \subseteq Spaces /\ profile \in Profiles /\ order \subseteq Hashes \X Hashes
    /\ pc \in {"idle", "matching", "sending"} /\ mode \in {"feed", "search"}
    /\ scope \subseteq Hashes /\ written \subseteq Hashes
    /\ todo \subseteq Hashes /\ mine \subseteq Hashes
    /\ marked \subseteq Spaces /\ held \subseteq Spaces /\ standing \subseteq auto
    /\ req \in Request
    /\ requests \in 0..MaxRequests /\ passes \in 0..MaxPasses

Init ==
    /\ torrent = [h \in Hashes |-> NoRow] /\ auto = {} /\ order = {}
    /\ profile \in Profiles
    /\ pc = "idle" /\ mode = "feed" /\ scope = {} /\ written = {} /\ todo = {} /\ mine = {}
    /\ work = [h \in Hashes |-> NoRow] /\ snap = [h \in Hashes |-> NoRow]
    /\ marked = {} /\ held = {} /\ standing = {}
    /\ req = NoRequest /\ requests = 0 /\ passes = 0

-----------------------------------------------------------------------------
\* Ranking.

Preferred(p, c) == p.preferred[c]

\* Position in the preferences, behind all of them when not among them.
PreferenceRank(preferences, value) ==
    IF \E i \in DOMAIN preferences : preferences[i] = value
    THEN CHOOSE i \in DOMAIN preferences :
            /\ preferences[i] = value
            /\ \A j \in 1..(i - 1) : preferences[j] # value
    ELSE Len(preferences) + 1

\* A slip: versions rank like positions, the lowest first.
KeepBestOldest(p, candidates, c) ==
    LET rank(h) == IF c = "VERSION" THEN Release[h][c]
                   ELSE PreferenceRank(Preferred(p, c), Release[h][c])
    IN  {h \in candidates : ~\E g \in candidates : rank(g) < rank(h)}

KeepBest(p, candidates, c) ==
    LET better(g, h) == IF c = "VERSION"
                        THEN Release[g][c] > Release[h][c]
                        ELSE PreferenceRank(Preferred(p, c), Release[g][c])
                           < PreferenceRank(Preferred(p, c), Release[h][c])
    IN  {h \in candidates : ~\E g \in candidates : better(g, h)}

\* The candidates that each criterion of the profile leaves in turn.
Rounds(p, group) ==
    LET left[i \in 0..Len(p.priorities)] ==
            IF i = 0 THEN group
            ELSE LET candidates == left[i - 1]
                 IN  IF Cardinality(candidates) <= 1 THEN candidates
                     ELSE KeepBest(p, candidates, p.priorities[i])
    IN  left

\* A repack before the others, then the greatest hash.
TieBreak(g, h) == \/ Release[g].repack > Release[h].repack
                  \/ Release[g].repack = Release[h].repack /\ g > h

\* get_best_torrent_for_episode for a group that is not empty.
BestTorrent(p, group) ==
    LET last == Rounds(p, group)[Len(p.priorities)]
    IN  CHOOSE h \in last : \A g \in last \ {h} : TieBreak(h, g)

\* _validate_torrent_candidacy: the criteria on which the profile refuses h.
Dismissal(p, h) ==
    {c \in Criteria \ {"VERSION"} :
        /\ c \in {"SOURCE", "LANGUAGE_CODE"} => c \in p.restricted
        /\ Preferred(p, c) # <<>>
        /\ ~\E i \in DOMAIN Preferred(p, c) : Preferred(p, c)[i] = Release[h][c]}

-----------------------------------------------------------------------------
\* A pass.

\* What the pass's own statements read: downloads are in a table of their own.
View(h) == IF h \in written THEN [work[h] EXCEPT !.dl = torrent[h].dl] ELSE torrent[h]

\* Torrents with a download row, committed or not; and a row that is new.
Rows == {h \in Hashes : View(h).dl # "none"} \union mine
After(h) == order \union {<<g, h>> : g \in Rows}
Without(S) == {pair \in order : pair[1] \notin S /\ pair[2] \notin S}

PassBegins(m, listed) ==
    /\ pc = "idle" /\ passes < MaxPasses
    /\ pc' = "matching" /\ mode' = m /\ passes' = passes + 1
    /\ scope' = listed
    /\ snap' = [h \in Hashes |-> IF h \in listed THEN torrent[h] ELSE NoRow]
    /\ marked' = {torrent[h].space : h \in listed} \intersect auto
    /\ standing' = auto
    /\ UNCHANGED <<dbVars, profile, held, work, written, todo, mine, req, requests>>

\* populate_raw_torrents_data: torrents without an active download whose title
\* belongs to a tracked episode.
Processed == {h \in scope : ~Active(snap[h]) /\ Match[h] # NoSpace}

\* The episodes of the torrents processed; those that came with the rows.
Episodes == {Match[h] : h \in Processed}
Loaded   == {snap[h].space : h \in scope} \union held

\* get_or_create_tracked_anime_episode: the SELECT refreshes nothing that the
\* session has, the UPDATE of the TVDB columns locks the row.
PassLooksUp(s) ==
    /\ pc = "matching" /\ s \in Episodes \ held
    /\ held' = held \union {s}
    /\ marked' = IF s \in Loaded THEN marked ELSE marked \union ({s} \intersect auto)
    /\ UNCHANGED <<dbVars, profile, pc, mode, scope, snap, work, written, todo, mine, req,
                   requests, passes, standing>>

\* A slip: a row that is new keeps the id of none.
WrittenRowUnnumbered(h) ==
    [torrent[h] EXCEPT !.id = snap[h].id, !.space = Match[h],
                       !.discarded = Match[h] \in marked \/ snap[h].discarded]

\* A slip: auto_discard only marks the torrents that are new.
WrittenRowNew(h) ==
    [torrent[h] EXCEPT !.id = IF Known(snap[h]) THEN snap[h].id ELSE 1,
                       !.space = Match[h],
                       !.discarded = IF Known(snap[h]) THEN snap[h].discarded
                                     ELSE Match[h] \in marked]

NewTorrent(h) ==
    [id |-> 1, space |-> Match[h], discarded |-> Match[h] \in marked, override |-> FALSE,
     dl |-> "none"]

\* The row _process_raw_torrents writes: an update of the row read, or a new one.
WrittenRow(h) ==
    IF Known(snap[h])
    THEN [torrent[h] EXCEPT !.id = snap[h].id, !.space = Match[h],
                            !.discarded = Match[h] \in marked \/ snap[h].discarded]
    ELSE NewTorrent(h)

\* Rows that went away or appeared since they were read: the update matches
\* nothing and the insertion breaks a unique key.
Conflict == \E h \in Processed : torrent[h].id # snap[h].id

\* A slip: a release that was acquired competes only while the feed lists it.
CompetitorsListed(row, s) ==
    {h \in Hashes : /\ row[h].space = s
                    /\ ~row[h].discarded
                    /\ h \in scope
                    /\ Dismissal(profile, h) = {}}

\* determine_torrents_candidacy: who competes for a space.
Competitors(row, s) ==
    {h \in Hashes : /\ row[h].space = s
                    /\ ~row[h].discarded
                    /\ h \in scope \/ Active(row[h])
                    /\ Dismissal(profile, h) = {}}

MinHash(S) == CHOOSE h \in S : \A g \in S : h <= g

\* A slip: the setting is looked at for spaces without a download.
WinnerUpgrading(row, s) ==
    LET group    == Competitors(row, s)
        acquired == {h \in group : Active(row[h])}
    IN  IF ~profile.upgrades /\ acquired = {} THEN MinHash(group)
        ELSE BestTorrent(profile, group)

Winner(row, s) ==
    LET group    == Competitors(row, s)
        acquired == {h \in group : Active(row[h])}
    IN  IF ~profile.upgrades /\ acquired # {} THEN MinHash(acquired)
        ELSE BestTorrent(profile, group)

\* The spaces looked at: those of the torrents written and not discarded.
PassWrites ==
    /\ pc = "matching" /\ Episodes \subseteq held /\ ~Conflict
    /\ LET row    == [h \in Hashes |-> IF h \in Processed THEN WrittenRow(h) ELSE torrent[h]]
           looked == {row[h].space : h \in {g \in Processed : ~row[g].discarded}}
       IN  /\ work' = row
           /\ todo' = {Winner(row, s) : s \in {t \in looked : Competitors(row, t) # {}}} \cap scope
    /\ written' = Processed /\ pc' = "sending" /\ marked' = {} /\ standing' = {}
    /\ UNCHANGED <<dbVars, profile, mode, scope, snap, held, mine, req, requests, passes>>

PassEnds ==
    /\ pc' = "idle" /\ mode' = "feed" /\ scope' = {} /\ written' = {} /\ todo' = {} /\ mine' = {}
    /\ snap' = [h \in Hashes |-> NoRow] /\ work' = [h \in Hashes |-> NoRow]
    /\ marked' = {} /\ held' = {} /\ standing' = {}

\* select_torrent_for_downloading, where qBittorrent is called; the insertion
\* locks the row of the torrent.
PassSends(h) ==
    /\ pc = "sending" /\ mode = "feed" /\ h \in todo
    /\ todo' = todo \ {h}
    /\ IF View(h).dl = "none"
       THEN /\ mine' = mine \union {h} /\ written' = written \union {h}
            /\ work' = [work EXCEPT ![h] = View(h)]
            /\ order' = After(h)
       ELSE UNCHANGED <<mine, written, work, order>>
    /\ UNCHANGED <<torrent, auto, profile, pc, mode, scope, snap, marked, held, req, requests,
                   passes, standing>>

\* With auto_download off a pass stops before its downloads, like a search.
PassCommits ==
    /\ pc = "sending"
    /\ todo = {} \/ mode = "search"
    /\ torrent' = [h \in Hashes |->
                     IF h \in mine THEN [View(h) EXCEPT !.dl = "going"] ELSE View(h)]
    /\ PassEnds
    /\ UNCHANGED <<auto, order, profile, req, requests, passes>>

\* An external call, a conflict or a stop of the process: all is rolled back.
PassFails ==
    /\ pc # "idle"
    /\ order' = Without(mine)
    /\ PassEnds
    /\ UNCHANGED <<torrent, auto, profile, req, requests, passes>>

-----------------------------------------------------------------------------
\* Requests, each a transaction: a torrent or an episode that the pass has
\* written is waited for, a download is not.

Asks == requests < MaxRequests /\ requests' = requests + 1

Sets(h, row) == /\ h \notin written
                /\ torrent' = [torrent EXCEPT ![h] = row]

SetsDownload(h, d) == torrent' = [torrent EXCEPT ![h].dl = d]

SetsFlags(flags) == auto' = flags /\ standing' = standing \intersect flags

Reads(op, h) ==
    /\ Asks /\ req = NoRequest
    /\ req' = [op |-> op, h |-> h, id |-> torrent[h].id, dl |-> torrent[h].dl,
               space |-> torrent[h].space]
    /\ UNCHANGED <<dbVars, profile, passVars, passes, standing>>

DiscardReads(h) ==
    /\ Known(torrent[h]) /\ torrent[h].dl # "processed"
    /\ Reads("discard", h)

\* The torrent by its hash; the download by the id that was read.
DiscardWrites ==
    /\ req.op = "discard"
    /\ LET h == req.h
       IN  IF ~Known(torrent[h]) THEN UNCHANGED torrent
           ELSE Sets(h, [torrent[h] EXCEPT
                          !.discarded = TRUE,
                          !.dl = IF req.dl # "none" /\ torrent[h].id = req.id /\ @ # "none"
                                 THEN "discarded" ELSE @])
    /\ req' = NoRequest
    /\ UNCHANGED <<auto, order, profile, passVars, requests, passes, standing>>

\* override_torrent, which may set auto_discard for the episode.
Override(h, future) ==
    /\ Asks /\ Known(torrent[h])
    /\ Sets(h, [torrent[h] EXCEPT !.dl = "going", !.discarded = FALSE, !.override = TRUE])
    /\ order' = IF torrent[h].dl = "none" THEN After(h) ELSE order
    /\ IF future THEN torrent[h].space \notin held /\ SetsFlags(auto \union {torrent[h].space})
       ELSE UNCHANGED <<auto, standing>>
    /\ UNCHANGED <<profile, passVars, req, passes>>

\* download_torrent reads what there is of the torrent, to begin with.
IdentifyReads(h) == ~Active(torrent[h]) /\ Reads("download", h)

\* An episode that was not the torrent's, or a download that is over, begins anew.
Afresh(s) == req.dl \in {"deleted", "discarded"} \/ req.space # s

\* ... up to its first commit: the torrents read are deleted and one is created,
\* unless they serve; a torrent that a pass has inserted since breaks a unique key.
\* The bound: a torrent that a pass inserts is not identified as another episode.
\* The attributes that a user gives are those of the title.
Identify(s, future) ==
    LET h   == req.h
        old == torrent[h]
    IN  /\ req.op = "download"
        /\ pc = "matching" /\ h \in Processed /\ ~Known(snap[h]) => s = Match[h]
        /\ IF old.id = req.id
           THEN /\ s \notin held
                /\ Sets(h, IF Afresh(s)
                           THEN [id |-> old.id + 1, space |-> s, discarded |-> FALSE,
                                 override |-> future, dl |-> "none"]
                           ELSE [old EXCEPT !.discarded = FALSE, !.override = future])
                /\ order' = IF Afresh(s) THEN Without({h}) ELSE order
                /\ SetsFlags(IF future THEN auto \union {s}
                             ELSE IF Afresh(s) THEN auto \ {s} ELSE auto)
                /\ req' = [req EXCEPT !.op = "identify"]
           ELSE /\ s = old.space
                /\ req' = NoRequest
                /\ UNCHANGED <<dbVars, standing>>
        /\ UNCHANGED <<profile, passVars, requests, passes>>

\* ... and select_torrent_for_downloading after it.
IdentifyDownloads ==
    /\ req.op = "identify"
    /\ req' = NoRequest
    /\ LET h == req.h
       IN  IF Known(torrent[h]) /\ torrent[h].dl = "none"
           THEN /\ Sets(h, [torrent[h] EXCEPT !.dl = "going"])
                /\ order' = After(h)
           ELSE UNCHANGED <<torrent, order>>
    /\ UNCHANGED <<auto, profile, passVars, requests, passes, standing>>

Retry(h) ==
    /\ Asks /\ torrent[h].dl \in {"deleted", "discarded"}
    /\ SetsDownload(h, "going")
    /\ UNCHANGED <<auto, order, profile, passVars, req, passes, standing>>

DeleteDownload(h, discard) ==
    /\ Asks /\ torrent[h].dl # "none"
    /\ IF discard THEN Sets(h, [torrent[h] EXCEPT !.dl = "none", !.discarded = TRUE])
       ELSE SetsDownload(h, "none")
    /\ order' = Without({h})
    /\ UNCHANGED <<auto, profile, passVars, req, passes, standing>>

SetAutoDiscard(s) ==
    /\ Asks /\ s \notin held
    /\ SetsFlags(IF s \in auto THEN auto \ {s} ELSE auto \union {s})
    /\ UNCHANGED <<torrent, order, profile, passVars, req, passes>>

SetProfile(p) ==
    /\ Asks /\ profile' = p
    /\ UNCHANGED <<dbVars, passVars, req, passes, standing>>

\* What the workers of DownloadLifecycle make of a row.
NewerActive(h) == {g \in Hashes : /\ Active(torrent[g]) /\ torrent[g].space = torrent[h].space
                                  /\ <<h, g>> \in order}

WorkerMoves(h) ==
    /\ torrent[h].dl = "going"
    /\ \E to \in IF ~torrent[h].override /\ NewerActive(h) # {} THEN {"discarded"}
                 ELSE {"processed", "deleted"} :
          SetsDownload(h, to)
    /\ UNCHANGED <<auto, order, profile, passVars, req, requests, passes, standing>>

\* check_download_retry hands download rows to the ranking, which reads the
\* attributes of a release: none of them has any.
RetryCheck(h) == IF NewerActive(h) = {} THEN "current" ELSE "raises"

-----------------------------------------------------------------------------

Pass == \/ \E m \in {"feed", "search"} : \E listed \in SUBSET Hashes \ {{}} :
              PassBegins(m, listed)
        \/ PassWrites \/ PassCommits \/ PassFails
        \/ \E s \in Spaces : PassLooksUp(s)
        \/ \E h \in Hashes : PassSends(h)

Users == \/ DiscardWrites \/ IdentifyDownloads
         \/ \E h \in Hashes, b \in BOOLEAN : Override(h, b) \/ DeleteDownload(h, b)
         \/ \E s \in Spaces, b \in BOOLEAN : Identify(s, b)
         \/ \E h \in Hashes : DiscardReads(h) \/ IdentifyReads(h) \/ Retry(h)
         \/ \E s \in Spaces : SetAutoDiscard(s)
         \/ \E p \in Profiles : SetProfile(p)

Next == Pass \/ Users \/ \E h \in Hashes : WorkerMoves(h)

Spec == Init /\ [][Next]_vars

-----------------------------------------------------------------------------
\* Reference: g is preferred to h if it ranks before it on the first criterion
\* on which they differ, or on none and wins the tie.
RankOf(p, c, h) == IF c = "VERSION" THEN 100 - Release[h][c]
                   ELSE LET at == {i \in DOMAIN Preferred(p, c) :
                                      Preferred(p, c)[i] = Release[h][c]}
                        IN  IF at = {} THEN Len(Preferred(p, c)) + 1
                            ELSE CHOOSE i \in at : \A j \in at : i <= j

Beats(p, g, h) ==
    LET differ == {i \in DOMAIN p.priorities :
                     RankOf(p, p.priorities[i], g) # RankOf(p, p.priorities[i], h)}
    IN  IF differ = {} THEN TieBreak(g, h)
        ELSE LET first == CHOOSE i \in differ : \A j \in differ : i <= j
             IN  RankOf(p, p.priorities[first], g) < RankOf(p, p.priorities[first], h)

\* The downloads a pass is going to start.
Picks == {h \in todo : View(h).dl = "none"}

Deciding == pc = "matching" /\ pc' = "sending"

\* What a pass starts is better than whatever the feed lists or the library
\* already has for the same episode, as far as the profile admits it and nobody
\* discarded it: no pass swaps a release for a worse one, however its
\* predecessors and the requests left the rows. (determine_torrents_candidacy)
NeverDowngrades ==
    [][Deciding => \A h \in Picks', g \in Hashes :
          /\ g # h /\ work'[g].space = work'[h].space /\ ~work'[g].discarded
          /\ Dismissal(profile, g) = {}
          /\ g \in scope \/ Active(work'[g])
          => Beats(profile, h, g)]_vars

\* With accept_release_upgrades off a pass starts nothing for an episode that has
\* a download which the profile admits. (determine_torrents_candidacy)
KeepsWhatItHas ==
    [][Deciding /\ ~profile.upgrades => \A h \in Picks', g \in Hashes :
          ~(/\ Active(torrent[g]) /\ work'[g].space = work'[h].space
            /\ ~work'[g].discarded /\ Dismissal(profile, g) = {})]_vars

\* A pass starts nothing in a space whose auto_discard was set when it began and
\* has been since, whether its torrents are new or the feed listed them before and
\* whichever way the session came by the episode. (A flag set while the pass waits
\* may go unseen.)
AutoDiscardStops ==
    [][Deciding => \A h \in Picks' : work'[h].space \notin standing]_vars

\* Left alone by the users, whatever the feed lists and the workers make of the
\* downloads, the downloads that an episode keeps are each better than those
\* started before: they are upgrades, which is what the workers take a newer row
\* of the same episode for. (_filter_out_and_update_superseded_downloads)
ImprovesAlone ==
    requests = 0 => \A g, h \in Hashes :
        /\ <<g, h>> \in order /\ View(g).space = View(h).space
        /\ Active(View(g)) /\ (Active(View(h)) \/ h \in mine)
        => Beats(profile, h, g)

\* Documented: a torrent stays discarded once it "was manually discarded"
\* (nyaa_item.py): a pass does not take the discard back.
DiscardStands ==
    [][pc = "sending" /\ pc' = "idle" =>
          \A h \in Hashes : torrent[h].discarded => torrent'[h].discarded]_vars

\* Documented by the tests of check_download_retry: a download is superseded if a
\* newer one's release is better, and is not if its own is still the best.
RetryCheckRanks ==
    \A h \in Hashes : torrent[h].dl # "none" =>
        RetryCheck(h) = IF BestTorrent(profile, NewerActive(h) \union {h}) = h
                        THEN "current" ELSE "superseded"
=============================================================================
