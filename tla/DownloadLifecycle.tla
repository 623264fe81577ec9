--------------------------- MODULE DownloadLifecycle ---------------------------
(***************************************************************************)
(* The life of the torrent_download rows: the post_download_processing and *)
(* stuck_check workers, the import tasks they run, and the API handlers    *)
(* and the RSS feed that write the same rows without taking the workers'   *)
(* lock.                                                                   *)
(*                                                                         *)
(* A database transaction (READ COMMITTED, row locks held to the commit)   *)
(* is the step that reads and the step that commits; what it waits for in  *)
(* between (qBittorrent, a copy) is where the other actors move. The       *)
(* statuses a statement filters on are looked at in the committing step.   *)
(***************************************************************************)
EXTENDS DownloadStatus, FiniteSets

CONSTANTS
    Clients,      \* requests in flight: API handlers and the RSS worker
    NoTorrent,    \* the torrent of an id without a row
    CreatedAt,    \* id -> created_at of the row inserted with it, in seconds
    Kinds,        \* bound: the kinds of requests that are made
    MaxId,        \* bound: rows created over a behaviour
    MaxRequests,  \* bound: requests begun over a behaviour
    MaxRestarts   \* bound: process stops over a behaviour

ASSUME NoTorrentAssumption == NoTorrent \notin Torrents
ASSUME BoundsAssumption == /\ MaxId \in Nat
                           /\ MaxRequests \in Nat
                           /\ MaxRestarts \in Nat
ASSUME CreatedAtAssumption ==
    /\ CreatedAt \in [1..MaxId -> Nat]
    /\ \A d, e \in 1..MaxId : d <= e => CreatedAt[d] <= CreatedAt[e]

VARIABLES
    \* the database
    dl,         \* Ids -> row of torrent_download
    nextId,     \* the table's auto increment
    override,   \* torrent.override
    discarded,  \* torrent.discarded
    \* outside the process
    qbit,       \* what qBittorrent would answer for each torrent
    \* post_download_processing and stuck_check
    lock,       \* _DOWNLOADS_LOCK: "free", or the worker that holds it
    pc, phase,  \* where post_download_processing stands
    list,       \* rows its transaction read and has not checked, with their SELECT
    snap, sup,  \* rows it checked and kept; rows it found superseded
    tasks, cur, \* import tasks not finished; the one being carried out (0: none)
    stuck,      \* rows stuck_check read, until its transaction is committed
    \* requests
    req,
    requests, restarts  \* how much of the bounds is used

dbVars     == <<dl, nextId, override, discarded>>
txnVars    == <<list, snap, sup>>
taskVars   == <<tasks, cur>>
workerVars == <<lock, pc, phase, list, snap, sup, tasks, cur, stuck>>
boundVars  == <<requests, restarts>>
vars == <<dbVars, qbit, workerVars, req, boundVars>>

Ids   == 1..MaxId

Row == [torrent: Torrents \union {NoTorrent}, status: Status, retry: Nat]

NoRow == [torrent |-> NoTorrent, status |-> "ABSENT", retry |-> 0]

\* A row as a worker's transaction read it, its torrent's override included;
\* q: what qBittorrent then said.
Snapshot == [id: Ids, torrent: Torrents, status: RowStatus, retry: Nat,
             override: BOOLEAN, q: QbitState]

Request == [op: {"none", "select", "identify", "retry", "discard", "delete", "override"},
            by: {"feed", "api", "override"},
            torrent: Torrents \union {NoTorrent},
            id: Nat,        \* the row read, or inserted and not committed (0: none)
            retry: Nat]     \* the retry count read with it

NoRequest == [op |-> "none", by |-> "api", torrent |-> NoTorrent, id |-> 0, retry |-> 0]

TypeOK ==
    /\ dl \in [Ids -> Row]
    /\ \A d \in Ids : dl[d].torrent = NoTorrent <=> dl[d].status = "ABSENT"
    /\ nextId \in Nat
    /\ override \in [Torrents -> BOOLEAN] /\ discarded \in [Torrents -> BOOLEAN]
    /\ qbit \in [Torrents -> QbitState]
    /\ lock \in {"free", "post", "stuck"}
    /\ pc \in {"idle", "select", "more", "filter", "query", "apply", "copy", "copied", "failed"}
    /\ phase \in {"pre", "downloading", "downloaded"}
    /\ list \subseteq {1, 2} \X Snapshot
    /\ snap \subseteq Snapshot /\ sup \subseteq Ids
    /\ tasks \subseteq Ids /\ cur \in Ids \union {0}
    /\ stuck \subseteq [id: Ids, status: {"DOWNLOADING", "PROCESSING"}]
    /\ req \in [Clients -> Request]
    /\ requests \in Nat /\ restarts \in Nat

Init ==
    /\ dl = [d \in Ids |-> NoRow]
    /\ nextId = 1
    /\ override = [t \in Torrents |-> FALSE]
    /\ discarded = [t \in Torrents |-> FALSE]
    /\ qbit = [t \in Torrents |-> "absent"]
    /\ lock = "free" /\ pc = "idle" /\ phase = "pre"
    /\ list = {} /\ snap = {} /\ sup = {} /\ tasks = {} /\ cur = 0 /\ stuck = {}
    /\ req = [c \in Clients |-> NoRequest]
    /\ requests = 0 /\ restarts = 0

-----------------------------------------------------------------------------
\* Rows.

Present(d) == dl[d].status # "ABSENT"
RowsOf(t)  == {d \in Ids : dl[d].torrent = t}

\* update_downloads on one row.
Moved(d, s, r) == [dl[d] EXCEPT !.status = s, !.retry = r]

\* A slip: rows of one second count as newer than each other.
NewerOrAlike(e, d) == CreatedAt[e] >= CreatedAt[d]

\* created_at, then the id.
Newer(e, d) == \/ CreatedAt[e] > CreatedAt[d]
               \/ CreatedAt[e] = CreatedAt[d] /\ e > d

\* The rows get_active_downloads_by_episode_id_and_part finds for the row read as x.
NewerActive(x) == {e \in Ids \ {x.id} : /\ dl[e].status \notin Inactive
                                        /\ SameSpace(dl[e].torrent, x.torrent)
                                        /\ Newer(e, x.id)}

\* The rows stuck_check has updated: locked in the database until it commits.
Held == IF lock = "stuck" THEN {} ELSE {x.id : x \in stuck}

\* Any other transaction that writes one of them waits for that.
Writes(new) == /\ \A d \in Held : new[d] = dl[d]
               /\ dl' = new

\* qBittorrent after it was sent the torrents of S.
Sent(S) == [t \in Torrents |-> IF t \in S /\ qbit[t] = "absent" THEN "unfinished"
                                                                ELSE qbit[t]]

\* ... and after t was removed.
Without(t) == [qbit EXCEPT ![t] = "absent"]

-----------------------------------------------------------------------------
\* post_download_processing. Each phase is a transaction of its own; the lock is
\* taken before the first and held until every import task has ended.

Following == [pre |-> "downloading", downloading |-> "downloaded"]

\* Slips of the first SELECT: no retry limit; imported rows as well.
ListedForEver(old) ==
    {d \in Ids : \/ /\ phase = "pre"
                    /\ dl[d].status \in {"FAILED_DOWNLOAD", "FAILED_DOWNLOAD_INIT"}
                 \/ phase = "downloading" /\ dl[d].status = "DOWNLOADING"
                 \/ phase = "downloaded" /\ dl[d].status = "DOWNLOADED"}
ListedAgain(old) ==
    {d \in Ids : \/ phase = "downloading" /\ dl[d].status = "DOWNLOADING"
                 \/ phase = "downloaded" /\ dl[d].status \in {"DOWNLOADED", "PROCESSED"}}

\* A row whose attempts are counted, and that may be attempted again; old: the
\* rows whose updated_at is far enough in the past.
Due(d, old) == dl[d].retry < RetryLimit /\ d \in old

\* The rows the first SELECT of the phase reads ...
Listed(old) ==
    CASE phase = "pre" ->
            {d \in Ids : /\ dl[d].status \in {"FAILED_DOWNLOAD", "FAILED_DOWNLOAD_INIT"}
                         /\ Due(d, old)}
      [] phase = "downloading" -> {d \in Ids : dl[d].status = "DOWNLOADING"}
      [] phase = "downloaded"  -> {d \in Ids : dl[d].status = "DOWNLOADED"}

\* A slip: no PENDING rows.
AddedFailed(old) == {d \in Ids : /\ phase = "downloaded" /\ dl[d].status = "FAILED_PROCESSING"
                                 /\ Due(d, old)}

\* ... and the second one, where there is one.
Added(old) ==
    {d \in Ids : \/ phase = "pre" /\ dl[d].status = "PENDING"
                 \/ phase = "downloaded" /\ dl[d].status = "FAILED_PROCESSING" /\ Due(d, old)}

AsRead(d) == [id |-> d, torrent |-> dl[d].torrent, status |-> dl[d].status,
              retry |-> dl[d].retry, override |-> override[dl[d].torrent], q |-> "absent"]

\* The session returns a row it holds already as it was first read.
AsHeld(d) == IF \E e \in list : e[2].id = d THEN (CHOOSE e \in list : e[2].id = d)[2]
                                            ELSE AsRead(d)

RunEnds == /\ pc' = "idle" /\ phase' = "pre" /\ lock' = "free"
           /\ list' = {} /\ snap' = {} /\ sup' = {} /\ tasks' = {} /\ cur' = 0

PhaseEnds == /\ pc' = "select" /\ phase' = Following[phase]
             /\ list' = {} /\ snap' = {} /\ sup' = {}
             /\ UNCHANGED <<lock, taskVars>>

\* The lock is acquired on the way into the first phase.
Entering == \/ pc = "idle" /\ lock = "free"
            \/ pc = "select"

\* (A phase that reads nothing is over at once.)
ReadFirst(old) ==
    /\ Entering
    /\ LET read == {<<1, AsRead(d)>> : d \in Listed(old)}
       IN  \/ /\ phase = "downloading" /\ read = {}
              /\ PhaseEnds
           \/ /\ phase = "downloading" => read # {}
              /\ list' = read /\ lock' = "post"
              /\ pc' = IF phase = "downloading" THEN "filter" ELSE "more"
              /\ UNCHANGED <<phase, snap, sup, taskVars>>
    /\ UNCHANGED <<dbVars, qbit, stuck, req, boundVars>>

\* A row that an override moved between the two is in the list twice.
ReadSecond(old) ==
    /\ pc = "more"
    /\ LET read == list \union {<<2, AsHeld(d)>> : d \in Added(old)}
       IN  \/ /\ read = {}
              /\ IF phase = "pre" THEN PhaseEnds ELSE RunEnds
           \/ /\ read # {}
              /\ list' = read /\ pc' = "filter"
              /\ UNCHANGED <<lock, phase, snap, sup, taskVars>>
    /\ UNCHANGED <<dbVars, qbit, stuck, req, boundVars>>

IsSuperseded(x) == ~x.override /\ NewerActive(x) # {}

\* The rows K go on, after the update of those in S. One that is listed twice, and
\* was kept once, does so as the object that update changed. With nothing kept
\* qBittorrent is not asked.
GoesOn(K, S) ==
    /\ snap' = {IF x.id \in S THEN [x EXCEPT !.status = "DISCARDED", !.retry = 0] ELSE x :
                 x \in K}
    /\ pc' = IF K = {} THEN "apply" ELSE "query"

\* _filter_out_and_update_superseded_downloads: one query after the other, in the
\* order of the list; each sees what is committed by then. What was read before
\* says whether the torrent is overridden.
Check(e) ==
    LET x    == e[2]
        drop == IF IsSuperseded(x) THEN sup \union {x.id} ELSE sup
        keep == IF IsSuperseded(x) THEN snap ELSE snap \union {x}
    IN  /\ pc = "filter" /\ e \in list
        /\ \A o \in list : e[1] <= o[1]
        /\ list' = list \ {e} /\ sup' = drop
        /\ IF list = {e} THEN GoesOn(keep, drop) ELSE snap' = keep /\ UNCHANGED pc
        /\ UNCHANGED <<dbVars, qbit, lock, phase, taskVars, stuck, req, boundVars>>

QueryQbit ==
    /\ pc = "query"
    /\ snap' = {[x EXCEPT !.q = qbit[x.torrent]] : x \in snap}
    /\ pc' = "apply"
    /\ UNCHANGED <<dbVars, qbit, lock, phase, list, sup, taskVars, stuck, req, boundVars>>

\* The rows whose send to qBittorrent, or whose initiation, is attempted.
Attempts ==
    CASE phase = "pre"         -> {x \in snap : NeedsSend(x.status, x.q)}
      [] phase = "downloading" -> {}
      [] phase = "downloaded"  -> {x \in snap : x.q = "complete"}

\* What the pass decides for x when the attempts in ok succeed.
Decision(x, ok) ==
    CASE phase = "pre"         -> AdvancePre(x.status, x.retry, x.q, x \in ok)
      [] phase = "downloading" -> Outcome(Resolve(x.q, x.status), 0)
      [] phase = "downloaded"  -> IF x.q = "complete" THEN AdvanceFinished(x \in ok)
                                  ELSE AdvanceUnfinished(x.status, x.retry, x.q)

\* A slip: a row deleted meanwhile is written again.
ReachesDeleted(x) ==
    /\ phase = "downloading" => Resolve(x.q, x.status) # x.status
    /\ phase = "downloaded" => dl[x.id].status \in {"FAILED_PROCESSING", "DOWNLOADED"}

\* Whether the decision reaches the row: only the last phase filters on the
\* status the row has by then, and only an unchanged DOWNLOADING is not written.
Reaches(x) ==
    /\ Present(x.id)
    /\ phase = "downloading" => Resolve(x.q, x.status) # x.status
    /\ phase = "downloaded" => dl[x.id].status \in {"FAILED_PROCESSING", "DOWNLOADED"}

\* The committed transaction that got as far as the rows of done.
Advanced(done, ok) ==
    [d \in Ids |->
        IF \E x \in done : x.id = d /\ Reaches(x)
        THEN LET o == Decision(CHOOSE x \in done : x.id = d, ok)
             IN Moved(d, o.status, o.retry)
        ELSE IF d \in sup /\ Present(d) THEN Moved(d, "DISCARDED", 0)
        ELSE dl[d]]

\* ... and of a failed import it was about to initiate again has made the first
\* update, which moves it back.
Interrupted(done, ok, begun) ==
    [d \in Ids |->
        IF \E x \in begun : x.id = d /\ x.status = "FAILED_PROCESSING" /\ Reaches(x)
        THEN LET x == CHOOSE x \in begun : x.id = d
             IN Moved(d, "DOWNLOADED", x.retry + 1)
        ELSE Advanced(done, ok)[d]]

\* advance_downloads_in_pre_downloading_status. A send whose answer is lost has
\* added the torrent all the same.
AdvancePreDownloading ==
    /\ pc = "apply" /\ phase = "pre"
    /\ \E ok \in SUBSET Attempts : \E lost \in SUBSET (Attempts \ ok) :
          /\ Writes(Advanced(snap, ok))
          /\ qbit' = Sent({x.torrent : x \in ok \union lost})
    /\ PhaseEnds
    /\ UNCHANGED <<nextId, override, discarded, stuck, req, boundVars>>

\* advance_downloads_in_downloading_status
AdvanceDownloading ==
    /\ pc = "apply" /\ phase = "downloading"
    /\ Writes(Advanced(snap, {}))
    /\ PhaseEnds
    /\ UNCHANGED <<nextId, override, discarded, qbit, stuck, req, boundVars>>

\* advance_downloads_in_downloaded_status. An import task is queued for every
\* initiation that succeeds, also when the filtered update found nothing.
AdvanceDownloaded ==
    /\ pc = "apply" /\ phase = "downloaded"
    /\ \E ok \in SUBSET Attempts :
          /\ Writes(Advanced(snap, ok))
          /\ \/ ok = {} /\ RunEnds
             \/ /\ ok # {}
                /\ tasks' = {x.id : x \in ok}
                /\ pc' = "copy" /\ list' = {} /\ snap' = {} /\ sup' = {}
                /\ UNCHANGED <<lock, phase, cur>>
    /\ UNCHANGED <<nextId, override, discarded, qbit, stuck, req, boundVars>>

\* get_torrents or the database raises: the transaction is rolled back and the
\* run is over. What was sent to qBittorrent stays sent.
AdvanceRaises ==
    /\ \/ pc \in {"select", "more", "filter", "query"} /\ UNCHANGED qbit
       \/ /\ pc = "apply"
          /\ \E sent \in SUBSET (IF phase = "pre" THEN Attempts ELSE {}) :
                qbit' = Sent({x.torrent : x \in sent})
    /\ RunEnds
    /\ UNCHANGED <<dbVars, stuck, req, boundVars>>

-----------------------------------------------------------------------------
\* _finalize_download_processing, one task after the other.

TaskEnds ==
    /\ tasks' = tasks \ {cur} /\ cur' = 0
    /\ \/ tasks' = {} /\ pc' = "idle" /\ phase' = "pre" /\ lock' = "free"
       \/ tasks' # {} /\ pc' = "copy" /\ UNCHANGED <<phase, lock>>
    /\ UNCHANGED txnVars

\* _copy_file succeeds or raises.
CopyFile(d) ==
    /\ pc = "copy" /\ d \in tasks
    /\ cur' = d
    /\ pc' \in {"copied", "failed"}
    /\ UNCHANGED <<dbVars, qbit, lock, phase, txnVars, tasks, stuck, req, boundVars>>

\* _set_post_processing_status takes the first of the rows it reads back: with
\* the row deleted the task raises, as it does when the database fails, and the
\* tasks after it are never awaited.
FinalizeRaises ==
    /\ pc \in {"copied", "failed"}
    /\ RunEnds
    /\ UNCHANGED <<dbVars, qbit, stuck, req, boundVars>>

\* The update to PROCESSED has no filter and leaves the retry count alone.
CommitProcessed ==
    /\ pc = "copied" /\ Present(cur)
    /\ Writes([dl EXCEPT ![cur] = Moved(cur, "PROCESSED", dl[cur].retry)])
    /\ TaskEnds
    /\ UNCHANGED <<nextId, override, discarded, qbit, stuck, req, boundVars>>

CommitFailed ==
    /\ pc = "failed" /\ Present(cur)
    /\ Writes(IF dl[cur].status = "PROCESSING"
              THEN [dl EXCEPT ![cur] = Moved(cur, "FAILED_PROCESSING", dl[cur].retry)] ELSE dl)
    /\ TaskEnds
    /\ UNCHANGED <<nextId, override, discarded, qbit, stuck, req, boundVars>>

-----------------------------------------------------------------------------
\* stuck_check: mark_stuck_downloads_as_failed, under the same lock.

\* A slip: only downloads are looked at.
StuckDownloading(old) == {[id |-> d, status |-> dl[d].status] :
                          d \in {e \in old : dl[e].status = "DOWNLOADING"}}

Stuck(old) == {[id |-> d, status |-> dl[d].status] :
               d \in {e \in old : dl[e].status \in {"DOWNLOADING", "PROCESSING"}}}

\* A slip: the check does not wait for the lock.
StuckReadAtOnce(old) ==
    /\ lock # "stuck" /\ stuck = {} /\ Stuck(old) # {}
    /\ lock' = "stuck" /\ stuck' = Stuck(old)
    /\ UNCHANGED <<dbVars, qbit, pc, phase, txnVars, taskVars, req, boundVars>>

\* (A check that finds nothing writes nothing, and is left out.)
StuckRead(old) ==
    /\ lock = "free" /\ stuck = {} /\ Stuck(old) # {}
    /\ lock' = "stuck" /\ stuck' = Stuck(old)
    /\ UNCHANGED <<dbVars, qbit, pc, phase, txnVars, taskVars, req, boundVars>>

\* The updates are made and the lock is released; require_db_session, around all
\* of it, commits only then.
StuckRelease ==
    /\ lock = "stuck" /\ lock' = "free"
    /\ UNCHANGED <<dbVars, qbit, pc, phase, txnVars, taskVars, stuck, req, boundVars>>

FailedFrom(s) == IF s = "DOWNLOADING" THEN "FAILED_DOWNLOAD" ELSE "FAILED_PROCESSING"

\* The rows of S failed.
StuckFailed(S) ==
    [d \in Ids |-> IF Present(d) /\ \E x \in S : x.id = d
                   THEN Moved(d, FailedFrom((CHOOSE x \in S : x.id = d).status), 0)
                   ELSE dl[d]]

StuckCommit ==
    /\ lock # "stuck" /\ stuck # {}
    /\ dl' = StuckFailed(stuck)
    /\ stuck' = {}
    /\ UNCHANGED <<nextId, override, discarded, qbit, lock, pc, phase, txnVars,
                   taskVars, req, boundVars>>

-----------------------------------------------------------------------------
\* Requests. The first step reads, the second one commits; nothing but row
\* locks orders them with the workers.

Begin(c, r) == /\ req[c].op = "none" /\ requests < MaxRequests /\ r.op \in Kinds
               /\ req' = [req EXCEPT ![c] = r]
               /\ requests' = requests + 1

Done(c) == req' = [req EXCEPT ![c] = NoRequest]

\* The insert of create_download: the id and created_at are taken now, the row
\* is seen from the commit on. torrent_id is unique: a second insert would wait
\* for the first and then fail.
CanInsert(t) == /\ RowsOf(t) = {} /\ nextId <= MaxId
                /\ \A c \in Clients : ~(req[c].op = "select" /\ req[c].torrent = t)

Insertion(t, by) == [NoRequest EXCEPT !.op = "select", !.by = by, !.torrent = t,
                                      !.id = nextId]

\* consume_feed picks a torrent, or override_torrent is called for one without
\* a row: select_torrent_for_downloading, create_downloads_for_torrent.
SelectBegins(c, t, by) ==
    /\ by = "feed" => ~discarded[t]
    /\ CanInsert(t)
    /\ Begin(c, Insertion(t, by))
    /\ nextId' = nextId + 1
    /\ UNCHANGED <<dl, override, discarded, qbit, workerVars, restarts>>

Inserted(r, s) == [torrent |-> r.torrent, status |-> s, retry |-> 0]

SelectCommit(c) ==
    /\ req[c].op = "select"
    /\ \/ /\ dl' = [dl EXCEPT ![req[c].id] = Inserted(req[c], "DOWNLOADING")]
          /\ qbit' = Sent({req[c].torrent})
       \/ /\ dl' = [dl EXCEPT ![req[c].id] = Inserted(req[c], "FAILED_DOWNLOAD_INIT")]
          /\ qbit' \in {qbit, Sent({req[c].torrent})}
    /\ IF req[c].by = "override"
       THEN /\ override' = [override EXCEPT ![req[c].torrent] = TRUE]
            /\ discarded' = [discarded EXCEPT ![req[c].torrent] = FALSE]
       ELSE UNCHANGED <<override, discarded>>
    /\ Done(c)
    /\ UNCHANGED <<nextId, workerVars, boundVars>>

\* download_torrent, up to its own commit: a row that is DELETED or DISCARDED
\* goes with its torrent, which is created again ...
IdentifyBegins(c, t) ==
    /\ \A d \in RowsOf(t) : dl[d].status \in Inactive
    /\ Begin(c, [NoRequest EXCEPT !.op = "identify", !.torrent = t,
                    !.id = IF RowsOf(t) = {} THEN 0 ELSE CHOOSE d \in RowsOf(t) : TRUE])
    /\ UNCHANGED <<dbVars, qbit, workerVars, restarts>>

\* ... and so does a torrent whose episodes the request corrects, with the row
\* another request has given it meanwhile. The selection follows, unless the
\* torrent still has a row.
IdentifyCommit(c) ==
    LET t == req[c].torrent
    IN  /\ req[c].op = "identify"
        /\ \A o \in Clients : ~(req[o].op = "select" /\ req[o].torrent = t)
        /\ \E gone \in {{}, RowsOf(t)} :
              /\ req[c].id # 0 => gone = RowsOf(t)
              /\ Writes([d \in Ids |-> IF d \in gone THEN NoRow ELSE dl[d]])
              /\ \/ /\ gone # RowsOf(t)
                    /\ Done(c) /\ UNCHANGED nextId
                 \/ /\ gone = RowsOf(t) /\ nextId <= MaxId
                    /\ req' = [req EXCEPT ![c] = Insertion(t, "api")]
                    /\ nextId' = nextId + 1
        /\ discarded' = [discarded EXCEPT ![t] = FALSE]
        /\ \E ov \in BOOLEAN : override' = [override EXCEPT ![t] = ov]
        /\ UNCHANGED <<qbit, workerVars, boundVars>>

RetryBegins(c, d) ==
    /\ dl[d].status \in Retryable
    /\ Begin(c, [NoRequest EXCEPT !.op = "retry", !.torrent = dl[d].torrent,
                                  !.id = d, !.retry = dl[d].retry])
    /\ UNCHANGED <<dbVars, qbit, workerVars, restarts>>

\* The first of the two updates (to PENDING, one more retry) is never seen; the
\* second counts again from the object it refreshed.
RetryCommit(c) ==
    LET d == req[c].id
        t == req[c].torrent
    IN  /\ req[c].op = "retry"
        /\ \/ /\ Writes(IF Present(d)
                        THEN [dl EXCEPT ![d] = Moved(d, "DOWNLOADING", 0)] ELSE dl)
              /\ qbit' = [qbit EXCEPT ![t] = IF @ \in {"absent", "error"} THEN "unfinished" ELSE @]
           \/ /\ Writes(IF Present(d)
                        THEN [dl EXCEPT ![d] = Moved(d, "FAILED_DOWNLOAD_INIT", req[c].retry + 2)]
                        ELSE dl)
              /\ qbit' \in {qbit, Sent({t})}
        /\ Done(c)
        /\ UNCHANGED <<nextId, override, discarded, workerVars, boundVars>>

\* discard_torrents: an imported torrent is refused when it is read.
DiscardBegins(c, t) ==
    /\ \A d \in RowsOf(t) : dl[d].status # "PROCESSED"
    /\ Begin(c, [NoRequest EXCEPT !.op = "discard", !.torrent = t,
                    !.id = IF RowsOf(t) = {} THEN 0 ELSE CHOOSE d \in RowsOf(t) : TRUE])
    /\ UNCHANGED <<dbVars, qbit, workerVars, restarts>>

DiscardCommit(c) ==
    /\ req[c].op = "discard"
    /\ Writes([d \in Ids |-> IF d = req[c].id /\ Present(d)
                             THEN Moved(d, "DISCARDED", dl[d].retry) ELSE dl[d]])
    /\ discarded' = [discarded EXCEPT ![req[c].torrent] = TRUE]
    /\ Done(c)
    /\ UNCHANGED <<nextId, override, qbit, workerVars, boundVars>>

DeleteBegins(c, d) ==
    /\ Present(d)
    /\ Begin(c, [NoRequest EXCEPT !.op = "delete", !.torrent = dl[d].torrent, !.id = d])
    /\ UNCHANGED <<dbVars, qbit, workerVars, restarts>>

\* The rows of the hash go, whatever their status, and the torrent may be taken
\* out of qBittorrent.
DeleteCommit(c) ==
    LET t == req[c].torrent
    IN  /\ req[c].op = "delete"
        /\ Writes([d \in Ids |-> IF dl[d].torrent = t THEN NoRow ELSE dl[d]])
        /\ discarded' \in {discarded, [discarded EXCEPT ![t] = TRUE]}
        /\ qbit' \in {qbit, Without(t)}
        /\ Done(c)
        /\ UNCHANGED <<nextId, override, workerVars, boundVars>>

\* override_torrent for a torrent that has a row, in whatever status it is.
OverrideBegins(c, t) ==
    /\ RowsOf(t) # {}
    /\ Begin(c, [NoRequest EXCEPT !.op = "override", !.torrent = t,
                    !.id = CHOOSE d \in RowsOf(t) : TRUE])
    /\ UNCHANGED <<dbVars, qbit, workerVars, restarts>>

OverrideCommit(c) ==
    LET d == req[c].id
        t == req[c].torrent
    IN  /\ req[c].op = "override"
        /\ Writes(IF Present(d) THEN [dl EXCEPT ![d] = Moved(d, "PENDING", 0)] ELSE dl)
        /\ override' = [override EXCEPT ![t] = TRUE]
        /\ discarded' = [discarded EXCEPT ![t] = FALSE]
        /\ Done(c)
        /\ UNCHANGED <<nextId, qbit, workerVars, boundVars>>

\* The handler, the commit, or qBittorrent's answer to a delete fails: the
\* transaction is rolled back, what qBittorrent was told is not.
RequestFails(c) ==
    LET t == req[c].torrent
    IN  /\ \/ req[c].op \in {"select", "retry"} /\ qbit' \in {qbit, Sent({t})}
           \/ req[c].op = "delete" /\ qbit' \in {qbit, Without(t)}
           \/ req[c].op \in {"identify", "discard", "override"} /\ UNCHANGED qbit
        /\ Done(c)
        /\ UNCHANGED <<dbVars, workerVars, boundVars>>

-----------------------------------------------------------------------------
\* What happens around the process.

\* A torrent finishes, fails, is rechecked, or is removed in qBittorrent.
QbitMoves(t) ==
    /\ \E q \in QbitState :
          /\ <<qbit[t], q>> \in {<<"unfinished", "complete">>, <<"unfinished", "error">>,
                                 <<"error", "unfinished">>, <<"complete", "error">>,
                                 <<"unfinished", "absent">>, <<"error", "absent">>,
                                 <<"complete", "absent">>}
          /\ qbit' = [qbit EXCEPT ![t] = q]
    /\ UNCHANGED <<dbVars, workerVars, req, boundVars>>

\* The process stops and starts again: its memory is lost, and the
\* transactions of the requests with it.
Stops == /\ restarts < MaxRestarts /\ restarts' = restarts + 1
         /\ RunEnds /\ stuck' = {}
         /\ req' = [c \in Clients |-> NoRequest]
         /\ UNCHANGED requests

\* A kill, anywhere; a shutdown while a file is copied does the same to the rows.
Killed == Stops /\ UNCHANGED <<dbVars, qbit>>

\* A shutdown cancels the tasks. CancelledError passes the "except Exception" of
\* require_db_session, whose "finally" commits what the transaction has written:
\* the superseded rows, the rows the pass got to, and half of the one it was at
\* (begun), whose send may have got through. Import tasks are lost.
CancelledInAdvance ==
    /\ \/ pc = "query" /\ Writes(Advanced({}, {})) /\ UNCHANGED qbit
       \/ /\ pc = "apply"
          /\ \E done \in SUBSET snap : \E ok \in SUBSET (done \cap Attempts) :
             \E begun \in {{}} \union {{x} : x \in Attempts \ done} :
                IF phase = "pre"
                THEN \E lost \in SUBSET (((done \cap Attempts) \ ok) \union begun) :
                        /\ Writes(Advanced(done, ok))
                        /\ qbit' = Sent({x.torrent : x \in ok \union lost})
                ELSE Writes(Interrupted(done, ok, begun)) /\ UNCHANGED qbit
    /\ Stops
    /\ UNCHANGED <<nextId, override, discarded>>

\* ... stuck_check commits one of its two updates, or both ...
CancelledInStuckCheck ==
    /\ lock = "stuck"
    /\ dl' \in {StuckFailed(stuck), StuckFailed({x \in stuck : x.status = "DOWNLOADING"})}
    /\ Stops
    /\ UNCHANGED <<nextId, override, discarded, qbit>>

\* ... and the feed's worker commits the row it inserted, before qBittorrent
\* answered. (A request of the API commits only when it returns.)
CancelledInFeed(c) ==
    /\ req[c].op = "select" /\ req[c].by = "feed"
    /\ dl' = [dl EXCEPT ![req[c].id] = Inserted(req[c], "PENDING")]
    /\ qbit' \in {qbit, Sent({req[c].torrent})}
    /\ Stops
    /\ UNCHANGED <<nextId, override, discarded>>

-----------------------------------------------------------------------------

Advance == AdvancePreDownloading \/ AdvanceDownloading \/ AdvanceDownloaded

Finalize == \/ \E d \in tasks : CopyFile(d)
            \/ FinalizeRaises
            \/ CommitProcessed
            \/ CommitFailed

ReadMore == \E old \in SUBSET Ids : ReadSecond(old)

Select == (\E old \in SUBSET Ids : ReadFirst(old)) \/ ReadMore

Filter == \E e \in list : Check(e)

PostProcessing == Select \/ Filter \/ QueryQbit \/ Advance \/ AdvanceRaises \/ Finalize

StuckCheck == (\E old \in SUBSET Ids : StuckRead(old)) \/ StuckRelease \/ StuckCommit

Requests(c) ==
    \/ \E t \in Torrents :
          \/ \E by \in {"feed", "override"} : SelectBegins(c, t, by)
          \/ IdentifyBegins(c, t)
          \/ DiscardBegins(c, t)
          \/ OverrideBegins(c, t)
    \/ \E d \in Ids : RetryBegins(c, d) \/ DeleteBegins(c, d)
    \/ SelectCommit(c) \/ IdentifyCommit(c) \/ RetryCommit(c) \/ DiscardCommit(c)
    \/ DeleteCommit(c) \/ OverrideCommit(c) \/ RequestFails(c)

Stop == \/ Killed \/ CancelledInAdvance \/ CancelledInStuckCheck
        \/ \E c \in Clients : CancelledInFeed(c)

Next == \/ PostProcessing
        \/ StuckCheck
        \/ \E c \in Clients : Requests(c)
        \/ \E t \in Torrents : QbitMoves(t)
        \/ Stop

Spec == Init /\ [][Next]_vars

\* What the scheduling of the two workers gives: post_download_processing is run
\* for ever and does not stay where it is, a copy ends, and asyncio.Lock serves its
\* waiters in order, so that stuck_check gets its turns, and meets every row that
\* stays as it is when it has grown old. In the first phase the database (for each
\* number of rows left to check) and qBittorrent answer again and again, however
\* often they also fail. Nothing is assumed of users, of the feed, of what
\* qBittorrent downloads or of restarts.
Fairness ==
    /\ WF_vars(Select \/ Filter \/ QueryQbit \/ Advance)
    /\ SF_vars(phase = "pre" /\ ReadMore)
    /\ \A n \in 1..(2 * MaxId) : SF_vars(phase = "pre" /\ Cardinality(list) = n /\ Filter)
    /\ SF_vars(phase = "pre" /\ QueryQbit)
    /\ SF_vars(AdvancePreDownloading)
    /\ WF_vars(Finalize)
    /\ SF_vars(StuckRead(Ids))
    /\ WF_vars(StuckRelease)
    /\ WF_vars(StuckCommit)

FairSpec == Spec /\ Fairness

-----------------------------------------------------------------------------
\* What should hold.

\* An import that is queued or running is the workers' only business with its
\* row: whatever the row says by then, a request said it, or the claim itself.
\* stuck_check in particular does not fail an import that is alive, however long
\* it takes (download_workers.py holds _DOWNLOADS_LOCK over the copies for this).
LiveImportsUntouched ==
    \A d \in tasks : dl[d].status \in {"PROCESSING", "PENDING", "DOWNLOADING",
                                       "FAILED_DOWNLOAD_INIT", "DISCARDED", "ABSENT"}

\* The counted attempts stop at the limit: past it, only requests raise the count of
\* a row (retry_download by two, when the send fails). The bound lets each request
\* made so far have done that, whatever its kind.
RetriesBounded == \A d \in Ids : dl[d].retry <= RetryLimit + 2 * requests

\* No step of the workers, a shutdown in the middle of one included, takes back
\* an import: only a request moves a PROCESSED row.
WorkersKeepImported ==
    [][\A d \in Ids : dl[d].status = "PROCESSED" /\ dl'[d] # dl[d]
                        => UNCHANGED workerVars]_vars

\* A row that was committed, and so does not appear any more once it is gone.
Settled(d) == d < nextId /\ \A c \in Clients : ~(req[c].op = "select" /\ req[c].id = d)

\* What may have become of a row found active during a pass: it is still there, or a
\* request withdrew it.
StillOrWithdrawn(d, t) ==
    /\ Settled(d)
    /\ Present(d) => dl[d].status # "DELETED" /\ SameSpace(dl[d].torrent, t)

\* The rows the pass is about to discard.
Dropped == {d \in sup : Present(d)}

\* _filter_out_and_update_superseded_downloads, whatever commits between its
\* queries: a row is dropped for a newer row of its space only, one that the pass
\* does not drop itself and that stays unless a request withdraws it; and where the
\* import phase keeps a row beside a newer one of its space, without an override, a
\* request has rewritten the newer one since it was read, so that the pass does not
\* claim both. Also when both were created within the same second.
SupersessionPicksOne ==
    /\ \A d \in Dropped :
          \E e \in Ids \ Dropped : Newer(e, d) /\ StillOrWithdrawn(e, dl[d].torrent)
    /\ phase = "downloaded" =>
          \A x, y \in snap : /\ x.id # y.id /\ SameSpace(x.torrent, y.torrent)
                             /\ ~x.override /\ ~y.override
                             => ~(Reaches(x) /\ Reaches(y))

\* The imports as the abstract specification sees them.
Claims == INSTANCE ImportClaims
            WITH Rows <- Ids,
                 imported <- {d \in Ids : dl[d].status = "PROCESSED"},
                 claimed <- tasks

\* Every behaviour of the rows and the workers is one of ImportClaims.
ImportsAreClaimed == Claims!ClaimsSpec

\* An import ends: a row does not stay PROCESSING, also when the process stopped
\* during the copy, or when the run lost its tasks because of another one.
ImportsEnd == \A d \in Ids : dl[d].status = "PROCESSING" ~> dl[d].status # "PROCESSING"

\* A row that an override or a shutdown left PENDING is sent, or dropped.
PendingIsSent == \A d \in Ids : dl[d].status = "PENDING" ~> dl[d].status # "PENDING"

-----------------------------------------------------------------------------
\* What the source says of the rows, and the code does not keep.

\* constants.py calls PROCESSED, DELETED and DISCARDED final: the workers are done
\* with such a row (a request may still revive it).
FinalForWorkers ==
    [][\A d \in Ids : /\ dl[d].status \in {"PROCESSED", "DELETED", "DISCARDED"}
                      /\ dl'[d].status # dl[d].status
                      => UNCHANGED workerVars]_vars

\* discard_torrents: "Cannot discard an already processed torrent".
ProcessedIsNotDiscarded ==
    [][\A d \in Ids : dl[d].status = "PROCESSED" => dl'[d].status # "DISCARDED"]_vars

\* A download whose import keeps failing is given up at the retry limit, the
\* count at which "Torrent failed permanently to process" is sent.
FailedImportsAreGivenUp ==
    \A d \in Ids :
        /\ []<>(dl[d].status = "FAILED_PROCESSING")
        /\ []<>(dl[d].status # "FAILED_PROCESSING")
        => <>(dl[d].status = "FAILED_PROCESSING" /\ dl[d].retry >= RetryLimit)

=============================================================================
