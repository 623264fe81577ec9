--------------------------- MODULE DownloadStatus ---------------------------
(***************************************************************************)
(* The data of the download pipeline: the statuses of a torrent_download   *)
(* row, what qBittorrent reports of a torrent, and the pure decisions the  *)
(* workers and the API handlers take from the two.                         *)
(***************************************************************************)
EXTENDS Naturals

CONSTANTS
    Torrents,   \* parent torrents, each with a magnet hash of its own
    Episode,    \* Torrents -> tracked_anime_episode_id
    Part,       \* Torrents -> episode_part (0: the whole episode)
    Ceiling,    \* Torrents -> episode_part_ceiling (0: none)
    RetryLimit  \* DOWNLOAD_PROCESSING_RETRY_LIMIT, 5 in the source

ASSUME RetryLimitAssumption == RetryLimit \in Nat \ {0}
ASSUME PartAssumption ==
    /\ Part \in [Torrents -> Nat]
    /\ Ceiling \in [Torrents -> Nat]

-----------------------------------------------------------------------------

\* TorrentDownloadStatus; "ABSENT" stands for an id with no row.
RowStatus == {"PENDING", "DOWNLOADING", "DOWNLOADED", "PROCESSING", "PROCESSED",
              "FAILED_DOWNLOAD_INIT", "FAILED_DOWNLOAD", "FAILED_PROCESSING",
              "DELETED", "DISCARDED"}

Status == RowStatus \union {"ABSENT"}

\* What get_torrents says of a hash: not there, an unfinished state, a
\* finished one, or one of QBITTORRENT_ERROR_STATES.
QbitState == {"absent", "unfinished", "complete", "error"}

\* _resolve_torrent_download_qbit_status
Resolve(q, current) ==
    CASE q = "absent"     -> IF current \in {"FAILED_DOWNLOAD_INIT", "PENDING"}
                                THEN current ELSE "DELETED"
      [] q = "error"      -> "FAILED_DOWNLOAD"
      [] q = "unfinished" -> "DOWNLOADING"
      [] q = "complete"   -> "DOWNLOADED"

\* The statuses get_active_downloads_by_episode_id_and_part leaves out.
Inactive == {"ABSENT", "DELETED", "DISCARDED"}

\* The statuses retry_download accepts.
Retryable == {"FAILED_DOWNLOAD_INIT", "FAILED_DOWNLOAD", "FAILED_PROCESSING",
              "DELETED", "DISCARDED"}

\* The "space" of a torrent: what supersession compares.
SameSpace(t, u) ==
    /\ Episode[t] = Episode[u]
    /\ Part[t] = Part[u]
    /\ Ceiling[t] = Ceiling[u]

\* The worker's decision for a row it read with status s and retry count r.
Outcome(s, r) == [status |-> s, retry |-> r]

\* advance_downloads_in_pre_downloading_status. sent: did send_download_to_qbit
\* succeed (only looked at when the row is to be sent).
NeedsSend(s, q) == /\ s \in {"FAILED_DOWNLOAD_INIT", "PENDING"}
                   /\ Resolve(q, s) = s

AdvancePre(s, r, q, sent) ==
    IF NeedsSend(s, q)
    THEN IF sent THEN Outcome("DOWNLOADING", 0)
                 ELSE Outcome("FAILED_DOWNLOAD_INIT", r + 1)
    ELSE IF s = "FAILED_DOWNLOAD" /\ Resolve(q, s) = s
    THEN Outcome(s, r + 1)
    ELSE Outcome(Resolve(q, s), 0)

\* advance_downloads_in_downloaded_status for a torrent that is not finished:
\* the count is carried on only out of FAILED_PROCESSING, and not to
\* FAILED_DOWNLOAD.
AdvanceUnfinished(s, r, q) ==
    Outcome(Resolve(q, s),
            IF s = "FAILED_PROCESSING" /\ Resolve(q, s) # "FAILED_DOWNLOAD"
            THEN r + 1 ELSE 0)

\* ... and for a finished one. The first update of the pass moves the row, and
\* with it the object the session holds, to DOWNLOADED, so that the count
\* computed after a failed initiation starts from 0 again.
AdvanceFinished(initiated) ==
    IF initiated THEN Outcome("PROCESSING", 0) ELSE Outcome("FAILED_PROCESSING", 0)

=============================================================================
