-------------------------- MODULE DownloadInvariant --------------------------
(***************************************************************************)
(* The inductive invariant of DownloadLifecycle, and the proof that every  *)
(* step keeps it, for every set of torrents and clients, every retry limit *)
(* and every bound.                                                        *)
(***************************************************************************)
EXTENDS DownloadLifecycle, TLAPS

-----------------------------------------------------------------------------
\* The inductive invariant.

\* What a request makes of a row.
Requested == {"PENDING", "DOWNLOADING", "FAILED_DOWNLOAD_INIT", "DISCARDED", "ABSENT"}

\* The statuses from which a failed attempt is counted.
Counted == {"PENDING", "FAILED_DOWNLOAD", "FAILED_DOWNLOAD_INIT", "FAILED_PROCESSING"}

\* The lock is the run's while it is under way, and its variables are empty
\* outside the steps that use them.
Locking ==
    /\ pc # "idle" <=> lock = "post"
    /\ pc = "idle" => phase = "pre"
    /\ pc \notin {"more", "filter"} => list = {}
    /\ pc \notin {"filter", "query", "apply"} => snap = {} /\ sup = {}
    /\ pc \notin {"copy", "copied", "failed"} => tasks = {}
    /\ pc \in {"copied", "failed"} => cur \in tasks

\* The rows post_download_processing has read and may yet advance.
InHand == {e[2] : e \in list} \union snap

\* No row a worker has read becomes an imported one before the worker writes it;
\* what the last phase and stuck_check read is moved by requests only, and what
\* stuck_check has not committed is nothing the last phase imports.
Reading ==
    /\ \A x, y \in InHand : x.id = y.id => x = y
    /\ \A x \in InHand : dl[x.id].status # "PROCESSED"
    /\ \A d \in sup : dl[d].status # "PROCESSED"
    /\ \A x \in stuck : dl[x.id].status \in Requested \union {"PROCESSING"}
    /\ \A x \in stuck : x.id \notin tasks
    /\ phase = "downloaded" => \A x \in InHand : \A y \in stuck : x.id # y.id
    /\ phase = "downloaded" =>
          \A x \in InHand : dl[x.id].status \in Requested \union {"DOWNLOADED", "FAILED_PROCESSING"}

\* A row that was read keeps its torrent. What is superseded has a newer row that is
\* not, active or withdrawn by a request; what the last phase keeps beside a newer
\* row of its space has seen that one after a request rewrote it.
Superseding ==
    /\ \A x \in InHand : Settled(x.id) /\ (Present(x.id) => dl[x.id].torrent = x.torrent)
    /\ \A d \in sup : Settled(d)
    /\ \A d \in Dropped :
          \E e \in Ids \ Dropped : Newer(e, d) /\ StillOrWithdrawn(e, dl[d].torrent)
    /\ phase = "downloaded" =>
          \A x \in snap : \A y \in InHand :
             ~x.override /\ SameSpace(x.torrent, y.torrent) /\ Newer(y.id, x.id)
             => dl[y.id].status \in Requested

\* A request names a row and a torrent; an inserted row is not seen, and its id
\* is nobody else's.
Inserting ==
    /\ \A c \in Clients : req[c].op # "none" => req[c].torrent \in Torrents
    /\ \A c \in Clients : req[c].op \in {"select", "retry", "override"} => req[c].id \in Ids
    /\ nextId \in 1..(MaxId + 1)
    /\ \A d \in Ids : d >= nextId => dl[d].status = "ABSENT"
    /\ \A c \in Clients : req[c].op = "select" =>
          /\ req[c].id < nextId
          /\ dl[req[c].id].status = "ABSENT"
    /\ \A b, c \in Clients :
          req[b].op = "select" /\ req[c].op = "select" /\ req[b].id = req[c].id => b = c

\* The counts a worker or a retry raises are below the bound.
Counting ==
    /\ RetriesBounded
    /\ \A d \in Ids : dl[d].status = "PENDING" => dl[d].retry = 0
    /\ \A x \in InHand : x.status \in Counted => x.retry < RetryLimit
    /\ \A c \in Clients : req[c].op = "retry" => req[c].retry + 2 <= RetryLimit + 2 * requests

IInv == /\ TypeOK /\ Locking /\ Reading /\ Superseding /\ Inserting /\ Counting
        /\ LiveImportsUntouched

-----------------------------------------------------------------------------
\* Rows.

LEMMA MovedRow ==
    ASSUME TypeOK, NEW d \in Ids, Present(d), NEW s \in RowStatus, NEW r \in Nat
    PROVE  /\ Moved(d, s, r) \in Row
           /\ Moved(d, s, r).torrent = dl[d].torrent
           /\ Moved(d, s, r).status = s
           /\ Moved(d, s, r).retry = r
           /\ s # "ABSENT"
           /\ dl[d].torrent \in Torrents
BY DEF TypeOK, Row, Moved, Status, RowStatus, Present

LEMMA NoRowIsRow ==
    NoRow \in Row /\ NoRow.torrent = NoTorrent /\ NoRow.status = "ABSENT" /\ NoRow.retry = 0
BY DEF NoRow, Row, Status

\* What waits for stuck_check's commit does not change its rows.
LEMMA HeldKept ==
    ASSUME NEW new, Writes(new), lock # "stuck"
    PROVE  dl' = new /\ \A x \in stuck : dl'[x.id] = dl[x.id]
BY DEF Writes, Held

LEMMA InitIInv == Init => IInv
<1> SUFFICES ASSUME Init PROVE IInv
  OBVIOUS
<1>1. TypeOK
  BY NoRowIsRow, NoTorrentAssumption DEF Init, TypeOK, QbitState, Request, NoRequest
<1>2. Locking
  BY DEF Init, Locking
<1>3. Reading /\ Superseding
  BY DEF Init, Reading, Superseding, InHand, Dropped
<1>4. Inserting
  BY NoRowIsRow, BoundsAssumption DEF Init, Inserting, NoRequest, Ids
<1>5. Counting
  BY NoRowIsRow, BoundsAssumption, RetryLimitAssumption
     DEF Init, Counting, RetriesBounded, NoRequest, InHand
<1>6. LiveImportsUntouched
  BY DEF Init, LiveImportsUntouched
<1> QED
  BY <1>1, <1>2, <1>3, <1>4, <1>5, <1>6 DEF IInv

LEMMA InHandType == TypeOK => \A x \in InHand : x \in Snapshot /\ x.id \in Ids
BY DEF TypeOK, InHand, Snapshot

\* With nothing in hand there is nothing to supersede.
LEMMA NothingInHand ==
    ASSUME list = {}, snap = {}, sup = {}
    PROVE  InHand = {} /\ Superseding
BY DEF InHand, Superseding, Dropped

\* A step of others, while rows are in hand: it inserts no row that was there, gives
\* no row another torrent, moves none to DELETED, and what the last phase has in hand
\* only as a request does.
LEMMA SupersedingKept ==
    ASSUME IInv, UNCHANGED <<list, snap, sup, phase>>,
           \A d \in Ids : Settled(d) => Settled(d)',
           \A d \in Ids : Settled(d) /\ dl'[d].status # "ABSENT" =>
              /\ dl[d].status # "ABSENT" /\ dl'[d].torrent = dl[d].torrent
              /\ dl'[d].status = "DELETED" => dl[d].status = "DELETED",
           phase = "downloaded" => \A x \in InHand : \/ dl'[x.id].status = dl[x.id].status
                                                      \/ dl'[x.id].status \in Requested
    PROVE  Superseding'
<1>1. InHand' = InHand /\ sup \subseteq Ids /\ \A x \in InHand : x.id \in Ids
  BY InHandType DEF InHand, IInv, TypeOK
<1>2. \A x \in InHand : Settled(x.id)' /\ (Present(x.id)' => dl'[x.id].torrent = x.torrent)
  BY <1>1 DEF IInv, Superseding, Present
<1>3. Dropped' \subseteq Dropped
  BY <1>1 DEF IInv, Superseding, Dropped, Present
<1>4. ASSUME NEW d \in Dropped'
      PROVE  \E e \in Ids \ Dropped' : (Newer(e, d) /\ StillOrWithdrawn(e, dl[d].torrent))'
  <2>1. d \in Ids /\ d \in Dropped /\ Present(d)' /\ dl'[d].torrent = dl[d].torrent
    BY <1>1, <1>3, <1>4 DEF IInv, Superseding, Present, Dropped
  <2>2. PICK e \in Ids \ Dropped : Newer(e, d) /\ StillOrWithdrawn(e, dl[d].torrent)
    BY <2>1 DEF IInv, Superseding
  <2>3. StillOrWithdrawn(e, dl[d].torrent)'
    BY <2>1, <2>2 DEF StillOrWithdrawn, Present
  <2>4. e \in Ids \ Dropped' /\ Newer(e, d)'
    BY <1>3, <2>2 DEF Newer
  <2> QED
    BY <2>3, <2>4
<1>5. phase = "downloaded" =>
        \A x \in snap : \A y \in InHand :
           ~x.override /\ SameSpace(x.torrent, y.torrent) /\ Newer(y.id, x.id)
           => dl'[y.id].status \in Requested
  BY DEF IInv, Superseding
<1>6. \A d \in sup : Settled(d)'
  BY <1>1 DEF IInv, Superseding
<1> QED
  BY <1>1, <1>2, <1>3, <1>4, <1>5, <1>6 DEF Superseding

-----------------------------------------------------------------------------
\* Requests.

WellFormed(r) == /\ r \in Row
                 /\ r.torrent = NoTorrent <=> r.status = "ABSENT"

\* What the request of c may write over row d.
Asked(c, d) == /\ WellFormed(dl[d])'
               /\ dl'[d].status \in Requested
               /\ dl'[d].status = "PENDING" => dl'[d].retry = 0
               /\ dl'[d].retry <= RetryLimit + 2 * requests
               /\ dl[d].status = "ABSENT" /\ dl'[d].status # "ABSENT"
                     => req[c].op = "select" /\ req[c].id = d
               /\ dl[d].status # "ABSENT" /\ dl'[d].status # "ABSENT"
                     => dl'[d].torrent = dl[d].torrent

\* A step that writes rows as a request does, and leaves the workers alone.
LEMMA RowsAsked ==
    ASSUME IInv, NEW c \in Clients, req[c].op # "none",
           dl' = [d \in Ids |-> dl'[d]],
           \A d \in Ids : dl'[d] = dl[d] \/ Asked(c, d),
           UNCHANGED <<workerVars, boundVars>>,
           \A b \in Clients : req'[b] = req[b] \/ req'[b].op # "retry",
           nextId' \in {nextId, nextId + 1},
           \A b \in Clients : req'[b].op = "select" => req'[b] = req[b] \/ req'[b].id = nextId
    PROVE  /\ dl' \in [Ids -> Row]
           /\ \A d \in Ids : dl'[d].torrent = NoTorrent <=> dl'[d].status = "ABSENT"
           /\ Locking' /\ Reading' /\ Superseding' /\ Counting' /\ LiveImportsUntouched'
<1> USE DEF IInv, workerVars, boundVars, txnVars, taskVars
<1>0. InHand' = InHand /\ \A x \in InHand : x.id \in Ids
  BY InHandType DEF InHand
<1>1. \A d \in Ids : WellFormed(dl[d])'
  BY DEF TypeOK, WellFormed, Asked
<1>2. dl' \in [Ids -> Row]
  BY <1>1 DEF WellFormed
<1>3. \A d \in Ids : dl'[d].torrent = NoTorrent <=> dl'[d].status = "ABSENT"
  BY <1>1 DEF WellFormed
<1>4. Locking'
  BY DEF Locking
<1>5. Reading'
  <2>1. \A d \in Ids : dl'[d].status = dl[d].status \/ dl'[d].status \in Requested
    BY DEF Asked
  <2>2. \A x \in stuck : x.id \in Ids
    BY DEF TypeOK
  <2>3. sup \subseteq Ids
    BY DEF TypeOK
  <2> QED
    BY <1>0, <2>1, <2>2, <2>3 DEF Reading, Requested
<1>6. Counting'
  BY <1>0 DEF Counting, RetriesBounded, Asked
<1>7. LiveImportsUntouched'
  BY DEF LiveImportsUntouched, Asked, Requested, TypeOK
<1>8. Superseding'
  <2>1. \A d \in Ids : Settled(d) => Settled(d)'
    BY DEF Settled, Inserting, Ids
  <2>2. \A d \in Ids : Settled(d) /\ dl'[d].status # "ABSENT" =>
           /\ dl[d].status # "ABSENT" /\ dl'[d].torrent = dl[d].torrent
           /\ dl'[d].status = "DELETED" => dl[d].status = "DELETED"
    BY DEF Settled, Asked, Requested
  <2>3. \A x \in InHand : dl'[x.id].status = dl[x.id].status \/ dl'[x.id].status \in Requested
    BY <1>0 DEF Asked
  <2> QED
    BY <2>1, <2>2, <2>3, SupersedingKept
<1> QED
  BY <1>2, <1>3, <1>4, <1>5, <1>6, <1>7, <1>8

\* ... and that ends the request of c, if it inserts a row the one it had.
LEMMA RequestEnds ==
    ASSUME IInv, NEW c \in Clients, req[c].op # "none", Done(c),
           dl' = [d \in Ids |-> dl'[d]],
           \A d \in Ids : dl'[d] = dl[d] \/ Asked(c, d),
           UNCHANGED <<workerVars, boundVars, nextId>>,
           override' \in [Torrents -> BOOLEAN],
           discarded' \in [Torrents -> BOOLEAN],
           qbit' \in [Torrents -> QbitState]
    PROVE  IInv'
<1> USE DEF IInv
<1>1. \A b \in Clients : req'[b] = IF b = c THEN NoRequest ELSE req[b]
  BY DEF Done, TypeOK
<1>2. /\ dl' \in [Ids -> Row]
      /\ \A d \in Ids : dl'[d].torrent = NoTorrent <=> dl'[d].status = "ABSENT"
      /\ Locking' /\ Reading' /\ Superseding' /\ Counting' /\ LiveImportsUntouched'
  BY <1>1, RowsAsked DEF NoRequest
<1>3. req' \in [Clients -> Request]
  BY DEF Done, TypeOK, NoRequest, Request
<1>4. TypeOK'
  BY <1>2, <1>3 DEF TypeOK, workerVars, boundVars, txnVars, taskVars
<1>5. Inserting'
  <2>1. \A d \in Ids : dl'[d].status # "ABSENT" /\ dl[d].status = "ABSENT"
                          => req[c].op = "select" /\ req[c].id = d
    BY DEF Asked
  <2>2. \A b \in Clients : req'[b].op # "none" => b # c /\ req'[b] = req[b]
    BY <1>1 DEF NoRequest
  <2>3. nextId' = nextId
    OBVIOUS
  <2>4. \A b \in Clients : req'[b].op = "select" =>
          req'[b].id < nextId' /\ dl'[req'[b].id].status = "ABSENT"
    BY <2>1, <2>2, <2>3 DEF Inserting
  <2>5. \A d \in Ids : d >= nextId' => dl'[d].status = "ABSENT"
    BY <2>1, <2>3 DEF Inserting, Ids
  <2> QED
    BY <2>2, <2>3, <2>4, <2>5 DEF Inserting
<1> QED
  BY <1>2, <1>4, <1>5

LEMMA DiscardCommitKeeps == ASSUME NEW c \in Clients PROVE IInv /\ DiscardCommit(c) => IInv'
<1> SUFFICES ASSUME IInv, DiscardCommit(c) PROVE IInv'
  OBVIOUS
<1>1. \A d \in Ids : dl'[d] = dl[d] \/ Asked(c, d)
  <2> SUFFICES ASSUME NEW d \in Ids, dl'[d] # dl[d] PROVE Asked(c, d)
    OBVIOUS
  <2>1. Present(d) /\ dl'[d] = Moved(d, "DISCARDED", dl[d].retry)
    BY DEF DiscardCommit, Writes
  <2>2. dl[d].retry \in Nat /\ dl[d].retry <= RetryLimit + 2 * requests
    BY DEF IInv, TypeOK, Row, Counting, RetriesBounded
  <2> QED
    BY <2>1, <2>2, MovedRow, NoTorrentAssumption
       DEF IInv, Asked, WellFormed, Requested, RowStatus, Present
<1> QED
  BY <1>1, RequestEnds DEF DiscardCommit, Writes, IInv, TypeOK

\* The read steps leave everything but the request itself alone.
LEMMA RequestBegins ==
    ASSUME IInv, NEW c \in Clients, NEW r \in Request, Begin(c, r),
           r.op \notin {"none", "select"}, r.torrent \in Torrents,
           r.op \in {"retry", "override"} => r.id \in Ids,
           r.op = "retry" => r.retry <= RetryLimit + 2 * requests,
           UNCHANGED <<dbVars, qbit, workerVars, restarts>>
    PROVE  IInv'
<1> USE DEF IInv, dbVars, workerVars, txnVars, taskVars
<1>1. \A b \in Clients : req'[b] = IF b = c THEN r ELSE req[b]
  BY DEF Begin, TypeOK
<1>2. requests' = requests + 1 /\ requests \in Nat
  BY DEF Begin, TypeOK
<1>3. req' \in [Clients -> Request]
  BY DEF Begin, TypeOK
<1>4. TypeOK'
  BY <1>2, <1>3 DEF TypeOK
<1>5. Locking' /\ Reading' /\ LiveImportsUntouched'
  BY DEF Locking, Reading, LiveImportsUntouched, InHand
<1>6. Inserting' /\ Superseding'
  <2>1. \A d \in Ids : Settled(d) => Settled(d)'
    BY <1>1 DEF Settled
  <2> QED
    BY <1>1, <2>1, SupersedingKept DEF Inserting
<1>7. Counting'
  <2>1. \A d \in Ids : dl[d].retry <= RetryLimit + 2 * requests'
    BY <1>2, RetryLimitAssumption DEF TypeOK, Row, Counting, RetriesBounded
  <2>2. \A b \in Clients : req'[b].op = "retry" => req'[b].retry + 2 <= RetryLimit + 2 * requests'
    BY <1>1, <1>2, RetryLimitAssumption DEF TypeOK, Request, Counting
  <2> QED
    BY <2>1, <2>2 DEF Counting, RetriesBounded, InHand
<1> QED
  BY <1>4, <1>5, <1>6, <1>7

LEMMA NamedRow ==
    ASSUME TypeOK, NEW t \in Torrents, RowsOf(t) # {}
    PROVE  (CHOOSE d \in RowsOf(t) : TRUE) \in Ids
<1>1. (CHOOSE d \in RowsOf(t) : TRUE) \in RowsOf(t)
  OBVIOUS
<1> QED
  BY <1>1 DEF RowsOf

LEMMA IdentifyBeginsKeeps ==
    ASSUME NEW c \in Clients, NEW t \in Torrents
    PROVE  IInv /\ IdentifyBegins(c, t) => IInv'
<1> SUFFICES ASSUME IInv, IdentifyBegins(c, t) PROVE IInv'
  OBVIOUS
<1> DEFINE d == IF RowsOf(t) = {} THEN 0 ELSE CHOOSE e \in RowsOf(t) : TRUE
           r == [NoRequest EXCEPT !.op = "identify", !.torrent = t, !.id = d]
<1>1. d \in Nat
  BY NamedRow DEF IInv, Ids
<1>2. r \in Request /\ r.op = "identify" /\ r.torrent = t
  BY <1>1 DEF Request, NoRequest
<1>3. Begin(c, r) /\ UNCHANGED <<dbVars, qbit, workerVars, restarts>>
  BY DEF IdentifyBegins
<1> HIDE DEF r
<1> QED
  BY <1>2, <1>3, RequestBegins

LEMMA DiscardBeginsKeeps ==
    ASSUME NEW c \in Clients, NEW t \in Torrents
    PROVE  IInv /\ DiscardBegins(c, t) => IInv'
<1> SUFFICES ASSUME IInv, DiscardBegins(c, t) PROVE IInv'
  OBVIOUS
<1> DEFINE d == IF RowsOf(t) = {} THEN 0 ELSE CHOOSE e \in RowsOf(t) : TRUE
           r == [NoRequest EXCEPT !.op = "discard", !.torrent = t, !.id = d]
<1>1. d \in Nat
  BY NamedRow DEF IInv, Ids
<1>2. r \in Request /\ r.op = "discard" /\ r.torrent = t
  BY <1>1 DEF Request, NoRequest
<1>3. Begin(c, r) /\ UNCHANGED <<dbVars, qbit, workerVars, restarts>>
  BY DEF DiscardBegins
<1> HIDE DEF r
<1> QED
  BY <1>2, <1>3, RequestBegins

LEMMA OverrideBeginsKeeps ==
    ASSUME NEW c \in Clients, NEW t \in Torrents
    PROVE  IInv /\ OverrideBegins(c, t) => IInv'
<1> SUFFICES ASSUME IInv, OverrideBegins(c, t) PROVE IInv'
  OBVIOUS
<1> DEFINE d == CHOOSE e \in RowsOf(t) : TRUE
           r == [NoRequest EXCEPT !.op = "override", !.torrent = t, !.id = d]
<1>1. d \in Ids /\ d \in Nat
  BY NamedRow DEF IInv, Ids, OverrideBegins
<1>2. r \in Request /\ r.op = "override" /\ r.torrent = t /\ r.id = d
  BY <1>1 DEF Request, NoRequest
<1>3. Begin(c, r) /\ UNCHANGED <<dbVars, qbit, workerVars, restarts>>
  BY DEF OverrideBegins
<1> HIDE DEF r, d
<1> QED
  BY <1>1, <1>2, <1>3, RequestBegins

LEMMA RetryBeginsKeeps ==
    ASSUME NEW c \in Clients, NEW d \in Ids
    PROVE  IInv /\ RetryBegins(c, d) => IInv'
<1> SUFFICES ASSUME IInv, RetryBegins(c, d) PROVE IInv'
  OBVIOUS
<1> DEFINE r == [NoRequest EXCEPT !.op = "retry", !.torrent = dl[d].torrent,
                                  !.id = d, !.retry = dl[d].retry]
<1>1. dl[d].torrent \in Torrents /\ dl[d].retry \in Nat /\ d \in Nat
  BY DEF RetryBegins, Retryable, IInv, TypeOK, Row, Ids
<1>2. /\ r \in Request /\ r.op = "retry" /\ r.torrent \in Torrents
      /\ r.id = d /\ r.retry = dl[d].retry
  BY <1>1 DEF Request, NoRequest
<1>3. dl[d].retry <= RetryLimit + 2 * requests
  BY DEF IInv, Counting, RetriesBounded
<1>4. Begin(c, r) /\ UNCHANGED <<dbVars, qbit, workerVars, restarts>>
  BY DEF RetryBegins
<1> HIDE DEF r
<1> QED
  BY <1>2, <1>3, <1>4, RequestBegins

LEMMA DeleteBeginsKeeps ==
    ASSUME NEW c \in Clients, NEW d \in Ids
    PROVE  IInv /\ DeleteBegins(c, d) => IInv'
<1> SUFFICES ASSUME IInv, DeleteBegins(c, d) PROVE IInv'
  OBVIOUS
<1> DEFINE r == [NoRequest EXCEPT !.op = "delete", !.torrent = dl[d].torrent, !.id = d]
<1>1. dl[d].torrent \in Torrents /\ d \in Nat
  BY DEF DeleteBegins, Present, IInv, TypeOK, Row, Ids
<1>2. r \in Request /\ r.op = "delete" /\ r.torrent \in Torrents
  BY <1>1 DEF Request, NoRequest
<1>3. Begin(c, r) /\ UNCHANGED <<dbVars, qbit, workerVars, restarts>>
  BY DEF DeleteBegins
<1> HIDE DEF r
<1> QED
  BY <1>2, <1>3, RequestBegins

LEMMA SelectBeginsKeeps ==
    ASSUME NEW c \in Clients, NEW t \in Torrents, NEW by \in {"feed", "override"}
    PROVE  IInv /\ SelectBegins(c, t, by) => IInv'
<1> SUFFICES ASSUME IInv, SelectBegins(c, t, by) PROVE IInv'
  OBVIOUS
<1> USE DEF IInv, workerVars, txnVars, taskVars
<1> DEFINE r == Insertion(t, by)
<1>0. UNCHANGED <<dl, override, discarded, qbit, workerVars, restarts>>
  BY DEF SelectBegins
<1>1. /\ nextId \in Ids /\ nextId \in Nat /\ nextId' = nextId + 1
      /\ dl[nextId].status = "ABSENT"
  BY BoundsAssumption DEF SelectBegins, CanInsert, Inserting, Ids
<1>2. /\ r \in Request /\ r.op = "select" /\ r.torrent = t /\ r.id = nextId
  BY <1>1 DEF Insertion, Request, NoRequest
<1> HIDE DEF r
<1>3. \A b \in Clients : req'[b] = IF b = c THEN r ELSE req[b]
  BY DEF SelectBegins, Begin, TypeOK, r
<1>4. requests' = requests + 1 /\ requests \in Nat
  BY DEF SelectBegins, Begin, TypeOK
<1>5. req' \in [Clients -> Request]
  BY <1>2 DEF SelectBegins, Begin, TypeOK, r
<1>6. TypeOK'
  BY <1>0, <1>1, <1>4, <1>5 DEF TypeOK
<1>7. Locking' /\ Reading' /\ LiveImportsUntouched'
  BY <1>0 DEF Locking, Reading, LiveImportsUntouched, InHand
<1>8. Inserting'
  <2>1. nextId' \in 1..(MaxId + 1)
    BY <1>1, BoundsAssumption DEF Ids
  <2>2. \A d \in Ids : d >= nextId' => dl'[d].status = "ABSENT"
    BY <1>0, <1>1 DEF Inserting, Ids
  <2>3. \A b \in Clients : b # c /\ req[b].op = "select" => req[b].id < nextId /\ req[b].id \in Nat
    BY DEF Inserting, TypeOK, Request
  <2>4. \A b \in Clients : req'[b].op = "select" =>
          req'[b].id < nextId' /\ dl'[req'[b].id].status = "ABSENT"
    BY <1>0, <1>1, <1>2, <1>3, <2>3 DEF Inserting
  <2>5. \A a, b \in Clients :
          req'[a].op = "select" /\ req'[b].op = "select" /\ req'[a].id = req'[b].id => a = b
    BY <1>1, <1>2, <1>3, <2>3 DEF Inserting
  <2>6. \A b \in Clients : /\ req'[b].op # "none" => req'[b].torrent \in Torrents
                           /\ req'[b].op \in {"select", "retry", "override"} => req'[b].id \in Ids
    BY <1>1, <1>2, <1>3 DEF Inserting
  <2> QED
    BY <2>1, <2>2, <2>4, <2>5, <2>6 DEF Inserting
<1>9. Counting'
  <2>1. \A d \in Ids : dl[d].retry <= RetryLimit + 2 * requests'
    BY <1>4, RetryLimitAssumption DEF TypeOK, Row, Counting, RetriesBounded
  <2>2. \A b \in Clients : req'[b].op = "retry" => req'[b].retry + 2 <= RetryLimit + 2 * requests'
    BY <1>2, <1>3, <1>4, RetryLimitAssumption DEF TypeOK, Request, Counting
  <2> QED
    BY <1>0, <2>1, <2>2 DEF Counting, RetriesBounded, InHand
<1>10. Superseding'
  <2>1. \A d \in Ids : Settled(d) => Settled(d)'
    BY <1>1, <1>2, <1>3 DEF Settled, Ids
  <2> QED
    BY <1>0, <2>1, SupersedingKept
<1> QED
  BY <1>6, <1>7, <1>8, <1>9, <1>10

LEMMA SentType == TypeOK => \A S : Sent(S) \in [Torrents -> QbitState]
BY DEF TypeOK, Sent, QbitState

LEMMA SelectCommitKeeps == ASSUME NEW c \in Clients PROVE IInv /\ SelectCommit(c) => IInv'
<1> SUFFICES ASSUME IInv, SelectCommit(c) PROVE IInv'
  OBVIOUS
<1>1. /\ req[c].id \in Ids /\ req[c].torrent \in Torrents /\ req[c].op = "select"
      /\ dl[req[c].id].status = "ABSENT"
  BY DEF SelectCommit, IInv, Inserting
<1>2. \A s \in {"DOWNLOADING", "FAILED_DOWNLOAD_INIT"} :
         /\ WellFormed(Inserted(req[c], s))
         /\ Inserted(req[c], s).status = s /\ Inserted(req[c], s).retry = 0
  BY <1>1, NoTorrentAssumption DEF WellFormed, Inserted, Row, Status, RowStatus
<1>3. PICK s \in {"DOWNLOADING", "FAILED_DOWNLOAD_INIT"} :
         dl' = [dl EXCEPT ![req[c].id] = Inserted(req[c], s)]
  BY DEF SelectCommit
<1>4. dl' = [d \in Ids |-> dl'[d]]
  BY <1>3 DEF IInv, TypeOK
<1>5. \A d \in Ids : dl'[d] = IF d = req[c].id THEN Inserted(req[c], s) ELSE dl[d]
  BY <1>3 DEF IInv, TypeOK
<1>6. 0 <= RetryLimit + 2 * requests
  BY RetryLimitAssumption DEF IInv, TypeOK
<1>7. \A d \in Ids : dl'[d] = dl[d] \/ Asked(c, d)
  BY <1>1, <1>2, <1>5, <1>6 DEF Asked, WellFormed, Requested
<1>8. qbit' \in [Torrents -> QbitState]
  BY SentType DEF SelectCommit, IInv, TypeOK
<1>9. override' \in [Torrents -> BOOLEAN] /\ discarded' \in [Torrents -> BOOLEAN]
  BY DEF SelectCommit, IInv, TypeOK
<1> QED
  BY <1>1, <1>4, <1>7, <1>8, <1>9, RequestEnds DEF SelectCommit

LEMMA RetryCommitKeeps == ASSUME NEW c \in Clients PROVE IInv /\ RetryCommit(c) => IInv'
<1> SUFFICES ASSUME IInv, RetryCommit(c) PROVE IInv'
  OBVIOUS
<1> DEFINE d == req[c].id
<1>1. /\ req[c].op = "retry" /\ d \in Ids /\ req[c].torrent \in Torrents
      /\ req[c].retry \in Nat /\ req[c].retry + 2 <= RetryLimit + 2 * requests
  BY DEF RetryCommit, Writes, IInv, TypeOK, Request, Inserting, Counting
<1>2. 0 <= RetryLimit + 2 * requests
  BY RetryLimitAssumption DEF IInv, TypeOK
<1>3. \/ /\ dl' = IF Present(d) THEN [dl EXCEPT ![d] = Moved(d, "DOWNLOADING", 0)] ELSE dl
         /\ qbit' = [qbit EXCEPT ![req[c].torrent] =
                        IF @ \in {"absent", "error"} THEN "unfinished" ELSE @]
      \/ /\ dl' = IF Present(d)
                  THEN [dl EXCEPT ![d] = Moved(d, "FAILED_DOWNLOAD_INIT", req[c].retry + 2)]
                  ELSE dl
         /\ qbit' \in {qbit, Sent({req[c].torrent})}
  BY DEF RetryCommit, Writes
<1>4. qbit' \in [Torrents -> QbitState]
  BY <1>3, SentType DEF IInv, TypeOK, QbitState
<1>5. dl' = [e \in Ids |-> dl'[e]]
  BY <1>3 DEF IInv, TypeOK
<1>6. \A e \in Ids : dl'[e] = dl[e] \/ Asked(c, e)
  <2> SUFFICES ASSUME NEW e \in Ids, dl'[e] # dl[e] PROVE Asked(c, e)
    OBVIOUS
  <2>1. PICK s \in {"DOWNLOADING", "FAILED_DOWNLOAD_INIT"}, r \in {0, req[c].retry + 2} :
           Present(e) /\ dl'[e] = Moved(e, s, r)
    BY <1>3 DEF IInv, TypeOK
  <2>2. s \in RowStatus /\ r \in Nat /\ r <= RetryLimit + 2 * requests
    BY <1>1, <1>2 DEF RowStatus
  <2> QED
    BY <2>1, <2>2, MovedRow, NoTorrentAssumption
       DEF IInv, Asked, WellFormed, Requested, Present
<1> QED
  BY <1>1, <1>4, <1>5, <1>6, RequestEnds DEF RetryCommit, Writes, IInv, TypeOK

LEMMA OverrideCommitKeeps == ASSUME NEW c \in Clients PROVE IInv /\ OverrideCommit(c) => IInv'
<1> SUFFICES ASSUME IInv, OverrideCommit(c) PROVE IInv'
  OBVIOUS
<1> DEFINE d == req[c].id
<1>1. /\ req[c].op = "override" /\ d \in Ids
      /\ dl' = IF Present(d) THEN [dl EXCEPT ![d] = Moved(d, "PENDING", 0)] ELSE dl
  BY DEF OverrideCommit, Writes, IInv, Inserting
<1>2. 0 <= RetryLimit + 2 * requests
  BY RetryLimitAssumption DEF IInv, TypeOK
<1>3. dl' = [e \in Ids |-> dl'[e]]
  BY <1>1 DEF IInv, TypeOK
<1>4. \A e \in Ids : dl'[e] = dl[e] \/ Asked(c, e)
  <2> SUFFICES ASSUME NEW e \in Ids, dl'[e] # dl[e] PROVE Asked(c, e)
    OBVIOUS
  <2>1. Present(e) /\ dl'[e] = Moved(e, "PENDING", 0)
    BY <1>1 DEF IInv, TypeOK
  <2> QED
    BY <1>2, <2>1, MovedRow, NoTorrentAssumption
       DEF IInv, Asked, WellFormed, Requested, Present, RowStatus
<1> QED
  BY <1>1, <1>3, <1>4, RequestEnds DEF OverrideCommit, Writes, IInv, TypeOK

LEMMA DeleteCommitKeeps == ASSUME NEW c \in Clients PROVE IInv /\ DeleteCommit(c) => IInv'
<1> SUFFICES ASSUME IInv, DeleteCommit(c) PROVE IInv'
  OBVIOUS
<1>1. req[c].op = "delete" /\ Done(c) /\ UNCHANGED <<nextId, override, workerVars, boundVars>>
  BY DEF DeleteCommit, Writes
<1>2. 0 <= RetryLimit + 2 * requests
  BY RetryLimitAssumption DEF IInv, TypeOK
<1>3. dl' = [d \in Ids |-> dl'[d]] /\ \A d \in Ids : dl'[d] \in {dl[d], NoRow}
  BY DEF DeleteCommit, Writes, IInv, TypeOK
<1>4. \A d \in Ids : dl'[d] = dl[d] \/ Asked(c, d)
  BY <1>2, <1>3, NoRowIsRow DEF Asked, WellFormed, Requested
<1>5. discarded' \in [Torrents -> BOOLEAN] /\ qbit' \in [Torrents -> QbitState]
  BY DEF DeleteCommit, Without, IInv, TypeOK, QbitState
<1> QED
  BY <1>1, <1>3, <1>4, <1>5, RequestEnds DEF IInv, TypeOK

LEMMA RequestFailsKeeps == ASSUME NEW c \in Clients PROVE IInv /\ RequestFails(c) => IInv'
<1> SUFFICES ASSUME IInv, RequestFails(c) PROVE IInv'
  OBVIOUS
<1>1. /\ req[c].op # "none" /\ Done(c)
      /\ UNCHANGED <<dl, nextId, override, discarded, workerVars, boundVars>>
  BY DEF RequestFails, dbVars
<1>2. dl' = [d \in Ids |-> dl'[d]]
  BY <1>1 DEF IInv, TypeOK
<1>3. qbit' \in [Torrents -> QbitState]
  BY SentType DEF RequestFails, Without, IInv, TypeOK, QbitState
<1> QED
  BY <1>1, <1>2, <1>3, RequestEnds DEF IInv, TypeOK

LEMMA IdentifyCommitKeeps == ASSUME NEW c \in Clients PROVE IInv /\ IdentifyCommit(c) => IInv'
<1> SUFFICES ASSUME IInv, IdentifyCommit(c) PROVE IInv'
  OBVIOUS
<1> DEFINE t == req[c].torrent
<1>1. /\ req[c].op = "identify" /\ t \in Torrents
      /\ UNCHANGED <<qbit, workerVars, boundVars>>
  BY DEF IdentifyCommit, Writes, IInv, Inserting
<1>2. 0 <= RetryLimit + 2 * requests
  BY RetryLimitAssumption DEF IInv, TypeOK
<1>3. dl' = [d \in Ids |-> dl'[d]] /\ \A d \in Ids : dl'[d] \in {dl[d], NoRow}
  BY DEF IdentifyCommit, Writes, IInv, TypeOK
<1>4. \A d \in Ids : dl'[d] = dl[d] \/ Asked(c, d)
  BY <1>2, <1>3, NoRowIsRow DEF Asked, WellFormed, Requested
<1>5. discarded' \in [Torrents -> BOOLEAN] /\ override' \in [Torrents -> BOOLEAN]
  BY DEF IdentifyCommit, Writes, IInv, TypeOK
<1>6. CASE Done(c) /\ UNCHANGED nextId
  BY <1>1, <1>3, <1>4, <1>5, <1>6, RequestEnds DEF IInv, TypeOK
<1>7. CASE /\ nextId <= MaxId
           /\ req' = [req EXCEPT ![c] = Insertion(t, "api")]
           /\ nextId' = nextId + 1
  <2> DEFINE r == Insertion(t, "api")
  <2>1. nextId \in Ids /\ nextId \in Nat /\ dl[nextId].status = "ABSENT"
    BY <1>7, BoundsAssumption DEF IInv, Inserting, Ids
  <2>2. r \in Request /\ r.op = "select" /\ r.torrent = t /\ r.id = nextId
    BY <1>1, <2>1 DEF Insertion, Request, NoRequest
  <2>3. \A b \in Clients : req'[b] = IF b = c THEN r ELSE req[b]
    BY <1>7 DEF IInv, TypeOK
  <2>4. req' \in [Clients -> Request]
    BY <1>7, <2>2 DEF IInv, TypeOK
  <2> HIDE DEF r
  <2>5. /\ dl' \in [Ids -> Row]
        /\ \A d \in Ids : dl'[d].torrent = NoTorrent <=> dl'[d].status = "ABSENT"
        /\ Locking' /\ Reading' /\ Superseding' /\ Counting' /\ LiveImportsUntouched'
    BY <1>1, <1>3, <1>4, <1>7, <2>2, <2>3, RowsAsked
  <2>6. TypeOK'
    BY <1>1, <1>5, <1>7, <2>1, <2>4, <2>5
       DEF IInv, TypeOK, workerVars, boundVars, txnVars, taskVars
  <2>7. Inserting'
    <3>1. \A d \in Ids : dl[d].status = "ABSENT" => dl'[d].status = "ABSENT"
      BY <1>3, NoRowIsRow
    <3>2. nextId' \in 1..(MaxId + 1)
      BY <1>7, <2>1, BoundsAssumption DEF Ids
    <3>3. \A d \in Ids : d >= nextId' => dl'[d].status = "ABSENT"
      BY <1>7, <2>1, <3>1 DEF IInv, Inserting, Ids
    <3>4. \A b \in Clients : b # c /\ req[b].op = "select"
             => /\ req[b].id < nextId /\ req[b].id \in Nat
                /\ req[b].id \in Ids /\ dl'[req[b].id].status = "ABSENT"
      BY <3>1 DEF IInv, Inserting, TypeOK, Request
    <3>5. \A b \in Clients : req'[b].op = "select" =>
            req'[b].id < nextId' /\ dl'[req'[b].id].status = "ABSENT"
      BY <1>7, <2>1, <2>2, <2>3, <3>1, <3>4
    <3>6. \A a, b \in Clients :
            req'[a].op = "select" /\ req'[b].op = "select" /\ req'[a].id = req'[b].id => a = b
      BY <2>1, <2>2, <2>3, <3>4 DEF IInv, Inserting
    <3>7. \A b \in Clients : /\ req'[b].op # "none" => req'[b].torrent \in Torrents
                             /\ req'[b].op \in {"select", "retry", "override"} => req'[b].id \in Ids
      BY <1>1, <2>1, <2>2, <2>3 DEF IInv, Inserting
    <3> QED
      BY <3>2, <3>3, <3>5, <3>6, <3>7 DEF Inserting
  <2> QED
    BY <2>5, <2>6, <2>7 DEF IInv
<1> QED
  BY <1>6, <1>7 DEF IdentifyCommit, Writes

-----------------------------------------------------------------------------
\* The workers.

\* What a worker may write over row d.
Written(d) == /\ Present(d) /\ dl'[d].status # "ABSENT"
              /\ WellFormed(dl[d])'
              /\ dl'[d].status = "PENDING" => dl'[d].retry = 0
              /\ dl'[d].retry <= RetryLimit + 2 * requests

\* A worker's write keeps the table well-formed and its counts bounded, and
\* makes and removes no row.
LEMMA RowsWritten ==
    ASSUME IInv, dl' = [d \in Ids |-> dl'[d]],
           \A d \in Ids : dl'[d] = dl[d] \/ Written(d),
           UNCHANGED <<nextId, req, requests>>
    PROVE  /\ dl' \in [Ids -> Row]
           /\ \A d \in Ids : dl'[d].torrent = NoTorrent <=> dl'[d].status = "ABSENT"
           /\ \A d \in Ids : dl'[d].retry <= RetryLimit + 2 * requests'
           /\ \A d \in Ids : dl'[d].status = "PENDING" => dl'[d].retry = 0
           /\ Inserting'
<1>1. \A d \in Ids : WellFormed(dl[d])'
  BY DEF IInv, TypeOK, WellFormed, Written
<1>2. dl' \in [Ids -> Row]
  BY <1>1 DEF WellFormed
<1>3. \A d \in Ids : dl'[d].torrent = NoTorrent <=> dl'[d].status = "ABSENT"
  BY <1>1 DEF WellFormed
<1>4. \A d \in Ids : dl'[d].retry <= RetryLimit + 2 * requests'
  BY DEF IInv, Counting, RetriesBounded, Written
<1>5. \A d \in Ids : dl'[d].status = "PENDING" => dl'[d].retry = 0
  BY DEF IInv, Counting, Written
<1>6. \A d \in Ids : dl[d].status = "ABSENT" <=> dl'[d].status = "ABSENT"
  BY DEF Written, Present
<1>7. Inserting'
  BY <1>6 DEF IInv, Inserting
<1> QED
  BY <1>2, <1>3, <1>4, <1>5, <1>7

\* A row written with a status and a count a worker chooses.
LEMMA MovedIsWritten ==
    ASSUME IInv, NEW d \in Ids, Present(d), NEW s \in RowStatus, NEW r \in Nat,
           r <= RetryLimit + 2 * requests, s = "PENDING" => r = 0,
           dl'[d] = Moved(d, s, r)
    PROVE  Written(d) /\ dl'[d].status = s
BY MovedRow, NoTorrentAssumption DEF IInv, Written, WellFormed

LEMMA ZeroIsBounded == IInv => 0 <= RetryLimit + 2 * requests
BY RetryLimitAssumption DEF IInv, TypeOK

\* What is known of a row a transaction has read.
Sound(x) ==
    /\ x \in Snapshot /\ Settled(x.id)
    /\ Present(x.id) => dl[x.id].torrent = x.torrent
    /\ dl[x.id].status # "PROCESSED"
    /\ x.status \in Counted => x.retry < RetryLimit
    /\ phase = "downloaded" =>
          /\ dl[x.id].status \in Requested \union {"DOWNLOADED", "FAILED_PROCESSING"}
          /\ \A y \in stuck : x.id # y.id

LEMMA InHandSound ==
    ASSUME IInv PROVE \A x \in InHand : Sound(x) /\ x.id \in Ids
BY InHandType DEF IInv, Reading, Superseding, Counting, Sound

LEMMA PresentIsSettled == IInv => \A d \in Ids : Present(d) => d < nextId /\ Settled(d)
BY DEF IInv, TypeOK, Inserting, Present, Settled, Ids

\* What a phase reads.
LEMMA RowsRead ==
    ASSUME IInv, NEW old \in SUBSET Ids, NEW d \in Listed(old) \union Added(old)
    PROVE  d \in Ids /\ Sound(AsRead(d)) /\ AsRead(d).id = d
<1>1. /\ d \in Ids
      /\ dl[d].status \in {"FAILED_DOWNLOAD", "FAILED_DOWNLOAD_INIT", "PENDING",
                           "DOWNLOADING", "DOWNLOADED", "FAILED_PROCESSING"}
      /\ dl[d].status \in Counted \ {"PENDING"} => dl[d].retry < RetryLimit
      /\ phase = "downloaded" => dl[d].status \in {"DOWNLOADED", "FAILED_PROCESSING"}
  BY DEF Listed, Added, Due, IInv, TypeOK, Counted
<1>2. dl[d].status = "PENDING" => dl[d].retry < RetryLimit
  BY <1>1, RetryLimitAssumption DEF IInv, Counting
<1>3. dl[d] \in Row /\ dl[d].torrent # NoTorrent
  BY <1>1 DEF IInv, TypeOK
<1>4. AsRead(d) \in Snapshot
  BY <1>1, <1>3 DEF AsRead, Snapshot, QbitState, Row, RowStatus, IInv, TypeOK
<1>5. /\ AsRead(d).id = d /\ AsRead(d).torrent = dl[d].torrent
      /\ AsRead(d).status = dl[d].status /\ AsRead(d).retry = dl[d].retry
  BY DEF AsRead
<1>6. Present(d) /\ Settled(d)
  BY <1>1, PresentIsSettled DEF Present
<1>7. phase = "downloaded" => \A y \in stuck : d # y.id
  BY <1>1 DEF IInv, Reading, Requested
<1> QED
  BY <1>1, <1>2, <1>4, <1>5, <1>6, <1>7 DEF Sound, Counted

\* A step that only changes what the transaction has in hand.
LEMMA HandKeeps ==
    ASSUME IInv, tasks = {}, lock' = "post", pc' \in {"more", "filter", "query", "apply"},
           UNCHANGED <<dl, nextId, override, discarded, qbit, phase, tasks, cur, stuck, req,
                       requests, restarts>>,
           list' \subseteq {1, 2} \X Snapshot,
           pc' \notin {"more", "filter"} => list' = {},
           pc' = "more" => snap' = {} /\ sup' = {},
           \A x \in InHand' : Sound(x),
           \A x, y \in InHand' : x.id = y.id => x = y,
           \A d \in sup' : d \in Ids /\ Settled(d) /\ dl[d].status # "PROCESSED",
           \A d \in Dropped' :
              \E e \in Ids \ Dropped' : Newer(e, d) /\ StillOrWithdrawn(e, dl[d].torrent),
           phase = "downloaded" =>
              \A x \in snap' : \A y \in InHand' :
                 ~x.override /\ SameSpace(x.torrent, y.torrent) /\ Newer(y.id, x.id)
                 => dl[y.id].status \in Requested
    PROVE  IInv'
<1> USE DEF IInv
<1>1. snap' \subseteq Snapshot
  BY DEF InHand, Sound
<1>2. TypeOK'
  BY <1>1 DEF TypeOK
<1>3. Locking' /\ LiveImportsUntouched'
  BY DEF Locking, LiveImportsUntouched
<1>4. \A d \in Ids : Settled(d)' <=> Settled(d)
  BY DEF Settled
<1>5. \A x \in InHand' : x.id \in Ids
  BY DEF Sound, Snapshot
<1>6. Reading'
  BY DEF Reading, Sound
<1>7. Superseding'
  <2>1. ASSUME NEW d \in Dropped'
        PROVE  \E e \in Ids \ Dropped' : (Newer(e, d) /\ StillOrWithdrawn(e, dl[d].torrent))'
    <3>1. PICK e \in Ids \ Dropped' : Newer(e, d) /\ StillOrWithdrawn(e, dl[d].torrent)
      OBVIOUS
    <3>2. Newer(e, d)' /\ StillOrWithdrawn(e, dl[d].torrent)'
      BY <1>4, <3>1 DEF Newer, StillOrWithdrawn, Present
    <3> QED
      BY <3>2
  <2>2. \A x \in InHand' : Settled(x.id)' /\ (Present(x.id)' => dl'[x.id].torrent = x.torrent)
    BY <1>4, <1>5 DEF Sound, Present
  <2> QED
    BY <1>4, <2>1, <2>2 DEF Superseding
<1>8. Inserting' /\ Counting'
  BY DEF Inserting, Counting, RetriesBounded, Sound
<1> QED
  BY <1>2, <1>3, <1>6, <1>7, <1>8

\* The end of a run, or of a phase, that writes nothing.
LEMMA RunGone ==
    ASSUME IInv, pc' \in {"idle", "select"}, phase' \in {"pre", "downloading", "downloaded"},
           lock' \in {"free", "post"}, pc' # "idle" <=> lock' = "post",
           pc' = "idle" => phase' = "pre",
           list' = {}, snap' = {}, sup' = {}, tasks' = {}, cur' \in Ids \union {0},
           qbit' \in [Torrents -> QbitState],
           UNCHANGED <<dl, nextId, override, discarded, stuck, req, requests, restarts>>
    PROVE  IInv'
<1>1. TypeOK'
  BY DEF IInv, TypeOK
<1>2. InHand' = {} /\ Superseding'
  BY NothingInHand DEF InHand, Superseding, Dropped
<1>3. Locking' /\ Reading' /\ LiveImportsUntouched'
  BY <1>2 DEF IInv, Locking, Reading, LiveImportsUntouched
<1>4. Inserting' /\ Counting'
  BY <1>2 DEF IInv, Inserting, Counting, RetriesBounded
<1> QED
  BY <1>1, <1>2, <1>3, <1>4 DEF IInv

LEMMA ReadFirstKeeps ==
    ASSUME NEW old \in SUBSET Ids
    PROVE  IInv /\ ReadFirst(old) => IInv'
<1> SUFFICES ASSUME IInv, ReadFirst(old) PROVE IInv'
  OBVIOUS
<1> DEFINE read == {<<1, AsRead(d)>> : d \in Listed(old)}
<1>1. pc \in {"idle", "select"}
  BY DEF ReadFirst, Entering
<1>2. /\ snap = {} /\ sup = {} /\ tasks = {}
      /\ UNCHANGED <<dl, nextId, override, discarded, qbit, stuck, req, requests, restarts>>
  BY <1>1 DEF IInv, Locking, ReadFirst, dbVars, boundVars
<1>3. CASE phase = "downloading" /\ PhaseEnds
  <2>1. pc = "select" /\ lock = "post"
    BY <1>1, <1>3 DEF ReadFirst, Entering, IInv, Locking
  <2> QED
    BY <1>2, <1>3, <2>1, RunGone DEF PhaseEnds, Following, IInv, TypeOK, taskVars
<1>4. CASE /\ list' = read /\ lock' = "post" /\ pc' \in {"filter", "more"}
           /\ UNCHANGED <<phase, snap, sup, taskVars>>
  <2>1. \A x \in InHand' : \E d \in Listed(old) : x = AsRead(d)
    <3>1. \A x \in InHand' : \E e \in read : x = e[2]
      BY <1>2, <1>4 DEF InHand
    <3> QED
      BY <3>1
  <2>2. /\ \A x \in InHand' : Sound(x)
        /\ \A x, y \in InHand' : x.id = y.id => x = y
    BY <2>1, RowsRead
  <2>3. list' \subseteq {1, 2} \X Snapshot
    BY <1>4, RowsRead DEF Sound
  <2>4. snap' = {} /\ sup' = {} /\ Dropped' = {} /\ tasks = {} /\ UNCHANGED <<phase, tasks, cur>>
    BY <1>1, <1>4 DEF IInv, Locking, Dropped, taskVars
  <2> QED
    BY <1>2, <1>4, <2>2, <2>3, <2>4, HandKeeps
<1> QED
  BY <1>3, <1>4 DEF ReadFirst

LEMMA ReadSecondKeeps ==
    ASSUME NEW old \in SUBSET Ids
    PROVE  IInv /\ ReadSecond(old) => IInv'
<1> SUFFICES ASSUME IInv, ReadSecond(old) PROVE IInv'
  OBVIOUS
<1> DEFINE read == list \union {<<2, AsHeld(d)>> : d \in Added(old)}
<1>1. /\ pc = "more" /\ lock = "post" /\ snap = {} /\ sup = {} /\ tasks = {}
      /\ UNCHANGED <<dl, nextId, override, discarded, qbit, stuck, req, requests, restarts>>
  BY DEF ReadSecond, IInv, Locking, dbVars, boundVars
<1>2. CASE (PhaseEnds /\ phase = "pre") \/ RunEnds
  BY <1>1, <1>2, RunGone DEF PhaseEnds, RunEnds, Following, IInv, TypeOK, taskVars
<1>3. CASE /\ list' = read /\ pc' = "filter"
           /\ UNCHANGED <<lock, phase, snap, sup, taskVars>>
  <2>1. InHand = {e[2] : e \in list}
    BY <1>1 DEF InHand
  <2>2. ASSUME NEW d \in Added(old)
        PROVE  AsHeld(d) \in InHand \/ (AsHeld(d) = AsRead(d) /\ \A x \in InHand : x.id # d)
    BY <2>1 DEF AsHeld
  <2>3. \A d \in Added(old) : AsHeld(d).id = d /\ Sound(AsHeld(d))
    <3> SUFFICES ASSUME NEW d \in Added(old) PROVE AsHeld(d).id = d /\ Sound(AsHeld(d))
      OBVIOUS
    <3>1. CASE \E e \in list : e[2].id = d
      <4>1. PICK e \in list : AsHeld(d) = e[2] /\ e[2].id = d
        BY <3>1 DEF AsHeld
      <4> QED
        BY <4>1, InHandSound DEF InHand
    <3>2. CASE ~\E e \in list : e[2].id = d
      BY <3>2, RowsRead DEF AsHeld
    <3> QED
      BY <3>1, <3>2
  <2>4. InHand' = InHand \union {AsHeld(d) : d \in Added(old)}
    <3>1. {e[2] : e \in {<<2, AsHeld(d)>> : d \in Added(old)}} = {AsHeld(d) : d \in Added(old)}
      <4>1. \A d \in Added(old) : <<2, AsHeld(d)>>[2] = AsHeld(d)
        OBVIOUS
      <4> QED
        BY <4>1
    <3>2. InHand' = {e[2] : e \in read}
      BY <1>1, <1>3 DEF InHand
    <3> QED
      BY <2>1, <3>1, <3>2
  <2>5. \A x \in InHand' : Sound(x)
    BY <2>3, <2>4, InHandSound
  <2>6. \A x, y \in InHand' : x.id = y.id => x = y
    BY <2>2, <2>3, <2>4 DEF IInv, Reading
  <2>7. list' \subseteq {1, 2} \X Snapshot
    BY <1>3, <2>3 DEF Sound, IInv, TypeOK
  <2>8. snap' = {} /\ sup' = {} /\ Dropped' = {} /\ UNCHANGED <<phase, tasks, cur>>
    BY <1>1, <1>3 DEF Dropped, taskVars
  <2> QED
    BY <1>1, <1>3, <2>5, <2>6, <2>7, <2>8, HandKeeps
<1> QED
  BY <1>2, <1>3 DEF ReadSecond

LEMMA NewerOrder ==
    /\ \A d, e, f \in Ids : Newer(d, e) /\ Newer(e, f) => Newer(d, f)
    /\ \A d, e \in Ids : d # e => Newer(d, e) \/ Newer(e, d)
    /\ \A d \in Ids : ~Newer(d, d)
<1>1. \A d \in Ids : CreatedAt[d] \in Nat /\ d \in Nat
  BY CreatedAtAssumption DEF Ids
<1> QED
  BY <1>1 DEF Newer

LEMMA SameSpaceOrder ==
    \A t, u, v : /\ SameSpace(t, t)
                 /\ SameSpace(t, u) => SameSpace(u, t)
                 /\ SameSpace(t, u) /\ SameSpace(u, v) => SameSpace(t, v)
BY DEF SameSpace

\* A row one query finds active is a witness for the one that is dropped for it, or
\* has one itself.
LEMMA CheckDrops ==
    ASSUME IInv, NEW x \in InHand, NewerActive(x) # {},
           Present(x.id)
    PROVE  \E f \in Ids \ (Dropped \union {x.id}) :
              Newer(f, x.id) /\ StillOrWithdrawn(f, dl[x.id].torrent)
<1>1. x.id \in Ids /\ Sound(x)
  BY InHandSound
<1>2. PICK e \in Ids \ {x.id} : /\ dl[e].status \notin Inactive
                                /\ SameSpace(dl[e].torrent, x.torrent) /\ Newer(e, x.id)
  BY DEF NewerActive
<1>3. Present(e) /\ Settled(e) /\ dl[e].status # "DELETED"
  BY <1>2, PresentIsSettled DEF Present, Inactive
<1>4. StillOrWithdrawn(e, dl[x.id].torrent)
  BY <1>1, <1>2, <1>3 DEF StillOrWithdrawn, Sound
<1>5. CASE e \notin Dropped
  BY <1>2, <1>4, <1>5
<1>6. CASE e \in Dropped
  <2>1. PICK f \in Ids \ Dropped : Newer(f, e) /\ StillOrWithdrawn(f, dl[e].torrent)
    BY <1>6 DEF IInv, Superseding
  <2>2. Newer(f, x.id) /\ f # x.id
    BY <1>1, <1>2, <2>1, NewerOrder
  <2>3. StillOrWithdrawn(f, dl[x.id].torrent)
    BY <1>1, <1>2, <2>1, SameSpaceOrder DEF StillOrWithdrawn, Sound
  <2> QED
    BY <2>1, <2>2, <2>3
<1> QED
  BY <1>5, <1>6

\* Every row dropped by then has a witness that is not.
LEMMA CheckDropped ==
    ASSUME IInv, NEW x \in InHand,
           NEW D, D = Dropped \/ (D = Dropped \union {x.id} /\ Present(x.id) /\ NewerActive(x) # {})
    PROVE  \A d \in D : \E e \in Ids \ D : Newer(e, d) /\ StillOrWithdrawn(e, dl[d].torrent)
<1>1. CASE D = Dropped
  BY <1>1 DEF IInv, Superseding
<1>2. CASE D = Dropped \union {x.id} /\ Present(x.id) /\ NewerActive(x) # {}
  <2>1. PICK f \in Ids \ D : Newer(f, x.id) /\ StillOrWithdrawn(f, dl[x.id].torrent)
    BY <1>2, CheckDrops
  <2> SUFFICES ASSUME NEW d \in Dropped
               PROVE  \E e \in Ids \ D : Newer(e, d) /\ StillOrWithdrawn(e, dl[d].torrent)
    BY <1>2, <2>1
  <2>2. d \in Ids /\ x.id \in Ids
    BY InHandSound DEF Dropped, IInv, TypeOK
  <2>3. PICK e \in Ids \ Dropped : Newer(e, d) /\ StillOrWithdrawn(e, dl[d].torrent)
    BY DEF IInv, Superseding
  <2>4. CASE e # x.id
    BY <1>2, <2>3, <2>4
  <2>5. CASE e = x.id
    <3>1. Newer(f, d)
      BY <2>1, <2>2, <2>3, <2>5, NewerOrder
    <3>2. StillOrWithdrawn(f, dl[d].torrent)
      BY <1>2, <2>1, <2>3, <2>5, SameSpaceOrder DEF StillOrWithdrawn
    <3> QED
      BY <2>1, <3>1, <3>2
  <2> QED
    BY <2>4, <2>5
<1> QED
  BY <1>1, <1>2

\* A row that is kept without an override has no newer active one; what is in hand
\* and newer was withdrawn.
LEMMA CheckKept ==
    ASSUME IInv, phase = "downloaded", NEW x \in InHand, ~x.override, ~IsSuperseded(x),
           NEW y \in InHand, SameSpace(x.torrent, y.torrent), Newer(y.id, x.id)
    PROVE  dl[y.id].status \in Requested
<1>1. /\ x.id \in Ids /\ y.id \in Ids /\ Sound(y) /\ y.id # x.id
  BY InHandSound, NewerOrder
<1>2. dl[y.id].status \in Inactive \/ ~SameSpace(dl[y.id].torrent, x.torrent)
  BY <1>1 DEF IsSuperseded, NewerActive
<1>3. Present(y.id) => SameSpace(dl[y.id].torrent, x.torrent)
  BY <1>1, SameSpaceOrder DEF Sound
<1> QED
  BY <1>1, <1>2, <1>3 DEF Sound, Inactive, Requested, Present

\* The update changes the status and the count of what goes on only.
AsDiscarded(x, S) ==
    IF x.id \in S THEN [x EXCEPT !.status = "DISCARDED", !.retry = 0] ELSE x

LEMMA AsDiscardedRow ==
    ASSUME NEW x \in Snapshot, NEW S
    PROVE  /\ AsDiscarded(x, S) \in Snapshot
           /\ AsDiscarded(x, S).id = x.id /\ AsDiscarded(x, S).torrent = x.torrent
           /\ AsDiscarded(x, S).override = x.override
           /\ AsDiscarded(x, S).status = "DISCARDED" \/ AsDiscarded(x, S) = x
           /\ Sound(x) => Sound(AsDiscarded(x, S))
<1>1. /\ AsDiscarded(x, S) \in Snapshot
      /\ AsDiscarded(x, S).id = x.id /\ AsDiscarded(x, S).torrent = x.torrent
      /\ AsDiscarded(x, S).override = x.override
      /\ AsDiscarded(x, S).status = "DISCARDED" \/ AsDiscarded(x, S) = x
  BY DEF AsDiscarded, Snapshot, RowStatus
<1> QED
  BY <1>1 DEF Sound, Counted

LEMMA CheckKeeps == ASSUME NEW e \in list PROVE IInv /\ Check(e) => IInv'
<1> SUFFICES ASSUME IInv, Check(e) PROVE IInv'
  OBVIOUS
<1> DEFINE x    == e[2]
           drop == IF IsSuperseded(x) THEN sup \union {x.id} ELSE sup
           keep == IF IsSuperseded(x) THEN snap ELSE snap \union {x}
<1>1. /\ pc = "filter" /\ list' = list \ {e} /\ sup' = drop
      /\ \/ /\ list = {e} /\ GoesOn(keep, drop)
         \/ /\ list # {e} /\ snap' = keep /\ pc' = pc
      /\ UNCHANGED <<dl, nextId, override, discarded, qbit, lock, phase, tasks, cur, stuck, req,
                     requests, restarts>>
  BY DEF Check, dbVars, taskVars, boundVars
<1>2. lock = "post" /\ tasks = {}
  BY <1>1 DEF IInv, Locking
<1>3. /\ x \in InHand /\ keep \subseteq InHand
      /\ {o[2] : o \in list'} \subseteq InHand
  BY <1>1 DEF InHand
<1>4. x.id \in Ids /\ Sound(x)
  BY <1>3, InHandSound
<1> HIDE DEF x
<1>5. \A d \in sup' : d \in Ids /\ Settled(d) /\ dl[d].status # "PROCESSED"
  BY <1>1, <1>4 DEF IInv, TypeOK, Reading, Superseding, Sound
<1>6. \A d \in Dropped' :
         \E f \in Ids \ Dropped' : Newer(f, d) /\ StillOrWithdrawn(f, dl[d].torrent)
  <2>1. \/ Dropped' = Dropped
        \/ Dropped' = Dropped \union {x.id} /\ Present(x.id) /\ NewerActive(x) # {}
    BY <1>1 DEF Dropped, Present, IsSuperseded
  <2> QED
    BY <1>3, <2>1, CheckDropped
<1>7. phase = "downloaded" =>
         \A k \in keep : \A y \in InHand :
            ~k.override /\ SameSpace(k.torrent, y.torrent) /\ Newer(y.id, k.id)
            => dl[y.id].status \in Requested
  BY <1>3, CheckKept DEF IInv, Superseding
<1> HIDE DEF keep, drop
<1>8. CASE list # {e} /\ snap' = keep /\ pc' = pc
  <2>1. InHand' \subseteq InHand
    BY <1>3, <1>8 DEF InHand
  <2>2. list' \subseteq {1, 2} \X Snapshot
    BY <1>1 DEF IInv, TypeOK
  <2> QED
    BY <1>1, <1>2, <1>5, <1>6, <1>7, <1>8, <2>1, <2>2, InHandSound, HandKeeps
       DEF IInv, Reading
<1>9. CASE list = {e} /\ GoesOn(keep, drop)
  <2>1. /\ snap' = {AsDiscarded(k, drop) : k \in keep} /\ list' = {}
        /\ pc' \in {"query", "apply"}
    BY <1>1, <1>9 DEF GoesOn, AsDiscarded
  <2>2. \A y \in InHand' : \E k \in keep : y = AsDiscarded(k, drop)
    BY <2>1 DEF InHand
  <2>3. \A k \in keep : /\ k \in InHand /\ Sound(k) /\ k \in Snapshot
                        /\ Sound(AsDiscarded(k, drop)) /\ AsDiscarded(k, drop).id = k.id
                        /\ AsDiscarded(k, drop).torrent = k.torrent
                        /\ AsDiscarded(k, drop).override = k.override
    <3>1. \A k \in keep : k \in InHand /\ Sound(k) /\ k \in Snapshot
      BY <1>3, InHandSound DEF Sound
    <3> QED
      BY <3>1, AsDiscardedRow
  <2>4. \A y, z \in InHand' : y.id = z.id => y = z
    BY <2>2, <2>3 DEF IInv, Reading
  <2>5. phase = "downloaded" =>
         \A k \in snap' : \A y \in InHand' :
            ~k.override /\ SameSpace(k.torrent, y.torrent) /\ Newer(y.id, k.id)
            => dl[y.id].status \in Requested
    <3>1. \A k \in snap' : k \in InHand'
      BY DEF InHand
    <3> QED
      BY <1>7, <2>2, <2>3, <3>1
  <2>6. \A y \in InHand' : Sound(y)
    BY <2>2, <2>3
  <2> HIDE DEF Sound
  <2> QED
    BY <1>1, <1>2, <1>5, <1>6, <2>1, <2>4, <2>5, <2>6, HandKeeps
<1> QED
  BY <1>1, <1>8, <1>9

LEMMA QueryQbitKeeps == IInv /\ QueryQbit => IInv'
<1> SUFFICES ASSUME IInv, QueryQbit PROVE IInv'
  OBVIOUS
<1> DEFINE Asking(y) == [y EXCEPT !.q = qbit[y.torrent]]
<1>1. /\ pc = "query" /\ pc' = "apply" /\ UNCHANGED <<list, lock, sup>>
      /\ snap' = {Asking(y) : y \in snap}
      /\ UNCHANGED <<dl, nextId, override, discarded, qbit, phase, tasks, cur, stuck, req,
                     requests, restarts>>
  BY DEF QueryQbit, dbVars, taskVars, boundVars
<1>2. list = {} /\ lock = "post" /\ tasks = {} /\ InHand = snap
  BY <1>1 DEF IInv, Locking, InHand
<1>3. \A y \in snap : /\ Asking(y) \in Snapshot /\ Asking(y).id = y.id
                      /\ Asking(y).torrent = y.torrent /\ Asking(y).override = y.override
                      /\ Asking(y).status = y.status /\ Asking(y).retry = y.retry
  BY DEF IInv, TypeOK, Snapshot
<1>4. \A y \in snap : Sound(y) /\ Sound(Asking(y))
  BY <1>2, <1>3, InHandSound DEF Sound
<1> HIDE DEF Asking
<1>5. InHand' = snap' /\ \A z \in InHand' : \E y \in snap : z = Asking(y)
  BY <1>1, <1>2 DEF InHand
<1>6. \A x, y \in InHand' : x.id = y.id => x = y
  BY <1>2, <1>3, <1>5 DEF IInv, Reading
<1>7. Dropped' = Dropped
  BY <1>1 DEF Dropped, Present
<1>8. \A d \in Dropped' :
        \E e \in Ids \ Dropped' : Newer(e, d) /\ StillOrWithdrawn(e, dl[d].torrent)
  BY <1>7 DEF IInv, Superseding
<1>9. \A d \in sup' : d \in Ids /\ Settled(d) /\ dl[d].status # "PROCESSED"
  BY <1>1 DEF IInv, TypeOK, Reading, Superseding
<1>10. phase = "downloaded" =>
          \A x \in snap' : \A y \in InHand' :
             ~x.override /\ SameSpace(x.torrent, y.torrent) /\ Newer(y.id, x.id)
             => dl[y.id].status \in Requested
  BY <1>2, <1>3, <1>5 DEF IInv, Superseding
<1>11. list' \subseteq {1, 2} \X Snapshot
  BY <1>1, <1>2
<1> QED
  BY <1>1, <1>2, <1>4, <1>5, <1>6, <1>8, <1>9, <1>10, <1>11, HandKeeps

\* What a pass decides for a row it read.
LEMMA DecisionMade ==
    ASSUME IInv, NEW x \in snap, NEW ok
    PROVE  /\ Decision(x, ok).status \in RowStatus \ {"PROCESSED"}
           /\ Decision(x, ok).retry \in Nat
           /\ Decision(x, ok).retry <= RetryLimit
           /\ Decision(x, ok).status = "PENDING" => Decision(x, ok).retry = 0
<1>1. /\ x.status \in RowStatus /\ x.q \in QbitState /\ x.retry \in Nat
      /\ x.status \in Counted => x.retry < RetryLimit
  BY InHandSound DEF InHand, Sound, Snapshot
<1>2. /\ Resolve(x.q, x.status) \in {"FAILED_DOWNLOAD_INIT", "PENDING", "DELETED",
                                     "FAILED_DOWNLOAD", "DOWNLOADING", "DOWNLOADED"}
      /\ Resolve(x.q, x.status) = "PENDING" => x.status = "PENDING"
  BY <1>1 DEF Resolve, QbitState
<1>3. CASE phase = "pre"
  BY <1>1, <1>2, <1>3, RetryLimitAssumption
     DEF Decision, AdvancePre, NeedsSend, Outcome, RowStatus, Counted
<1>4. CASE phase = "downloading"
  BY <1>2, <1>4, RetryLimitAssumption DEF Decision, Outcome, RowStatus
<1>5. CASE phase = "downloaded"
  BY <1>1, <1>2, <1>5, RetryLimitAssumption
     DEF Decision, AdvanceFinished, AdvanceUnfinished, Outcome, RowStatus, Counted
<1> QED
  BY <1>3, <1>4, <1>5 DEF IInv, TypeOK

\* A pass writes the rows it read, and no imported one.
LEMMA AdvancedRow ==
    ASSUME IInv, NEW done \in SUBSET snap, NEW ok, NEW d \in Ids,
           dl'[d] = Advanced(done, ok)[d], dl'[d] # dl[d], UNCHANGED requests
    PROVE  Written(d) /\ dl[d].status # "PROCESSED" /\ dl'[d].status # "PROCESSED"
<1>2. CASE ~\E x \in done : x.id = d /\ Reaches(x)
  <2>1. d \in sup /\ Present(d) /\ dl'[d] = Moved(d, "DISCARDED", 0)
    BY <1>2 DEF Advanced
  <2>2. Written(d) /\ dl'[d].status = "DISCARDED"
    BY <2>1, MovedIsWritten, ZeroIsBounded DEF RowStatus
  <2> QED
    BY <2>1, <2>2 DEF IInv, Reading
<1>3. CASE \E x \in done : x.id = d /\ Reaches(x)
  <2> DEFINE y == CHOOSE x \in done : x.id = d
             o == Decision(y, ok)
  <2>2. y \in snap /\ y.id = d
    BY <1>3
  <2>3. Present(d)
    BY <1>3 DEF Reaches
  <2>4. dl'[d] = Moved(d, o.status, o.retry)
    BY <1>3 DEF Advanced
  <2> HIDE DEF y
  <2>5. PICK t \in RowStatus \ {"PROCESSED"}, r \in Nat :
           /\ r <= RetryLimit
           /\ t = "PENDING" => r = 0
           /\ dl'[d] = Moved(d, t, r)
    BY <2>2, <2>4, DecisionMade
  <2>6. r <= RetryLimit + 2 * requests
    BY <2>5, RetryLimitAssumption DEF IInv, TypeOK
  <2>7. Written(d) /\ dl'[d].status = t
    BY <2>3, <2>5, <2>6, MovedIsWritten
  <2>8. dl[d].status # "PROCESSED"
    BY <2>2, InHandSound DEF InHand, Sound
  <2> QED
    BY <2>5, <2>7, <2>8
<1> QED
  BY <1>2, <1>3

LEMMA AdvancedRows ==
    ASSUME IInv, NEW done \in SUBSET snap, NEW ok, dl' = Advanced(done, ok),
           UNCHANGED requests
    PROVE  /\ dl' = [d \in Ids |-> dl'[d]]
           /\ \A d \in Ids : \/ dl'[d] = dl[d]
                             \/ /\ Written(d)
                                /\ dl[d].status # "PROCESSED" /\ dl'[d].status # "PROCESSED"
<1>1. dl' = [d \in Ids |-> dl'[d]]
  BY DEF Advanced
<1> QED
  BY <1>1, AdvancedRow

\* ... also when it was interrupted between the two updates of one.
LEMMA InterruptedRows ==
    ASSUME IInv, NEW done \in SUBSET snap, NEW ok, NEW begun \in SUBSET snap,
           dl' = Interrupted(done, ok, begun), UNCHANGED requests
    PROVE  /\ dl' = [d \in Ids |-> dl'[d]]
           /\ \A d \in Ids : \/ dl'[d] = dl[d]
                             \/ /\ Written(d)
                                /\ dl[d].status # "PROCESSED" /\ dl'[d].status # "PROCESSED"
<1>1. dl' = [d \in Ids |-> dl'[d]]
  BY DEF Interrupted
<1> SUFFICES ASSUME NEW d \in Ids, dl'[d] # dl[d]
             PROVE  Written(d) /\ dl[d].status # "PROCESSED" /\ dl'[d].status # "PROCESSED"
  BY <1>1
<1>2. CASE ~\E x \in begun : x.id = d /\ x.status = "FAILED_PROCESSING" /\ Reaches(x)
  BY <1>2, AdvancedRow DEF Interrupted
<1>3. CASE \E x \in begun : x.id = d /\ x.status = "FAILED_PROCESSING" /\ Reaches(x)
  <2>1. PICK x \in begun : x.id = d /\ x.status = "FAILED_PROCESSING" /\ Reaches(x)
    BY <1>3
  <2>2. \A y \in begun : y.id = d => y = x
    BY <2>1 DEF IInv, Reading, InHand
  <2>3. (CHOOSE y \in begun : y.id = d) = x
    BY <2>1, <2>2
  <2>4. dl'[d] = Moved(d, "DOWNLOADED", x.retry + 1) /\ Present(d)
    BY <1>3, <2>1, <2>3 DEF Interrupted, Reaches
  <2>5. x \in InHand /\ Sound(x) /\ x.retry \in Nat /\ x.retry < RetryLimit
    BY <2>1, InHandSound DEF InHand, Sound, Snapshot, Counted
  <2>6. x.retry + 1 <= RetryLimit + 2 * requests /\ x.retry + 1 \in Nat
    BY <2>5, RetryLimitAssumption DEF IInv, TypeOK
  <2>7. Written(d) /\ dl'[d].status = "DOWNLOADED"
    BY <2>4, <2>6, MovedIsWritten DEF RowStatus
  <2> QED
    BY <2>1, <2>5, <2>7 DEF Sound
<1> QED
  BY <1>2, <1>3

LEMMA AdvancePreDownloadingKeeps == IInv /\ AdvancePreDownloading => IInv'
<1> SUFFICES ASSUME IInv, AdvancePreDownloading PROVE IInv'
  OBVIOUS
<1>0. lock = "post" /\ tasks = {}
  BY DEF AdvancePreDownloading, IInv, Locking
<1>1. PICK ok \in SUBSET Attempts :
         dl' = Advanced(snap, ok) /\ \A x \in stuck : dl'[x.id] = dl[x.id]
  BY <1>0, HeldKept DEF AdvancePreDownloading
<1>2. /\ UNCHANGED <<nextId, override, discarded, stuck, req, requests, restarts>>
      /\ pc = "apply" /\ phase = "pre" /\ PhaseEnds
  BY DEF AdvancePreDownloading, boundVars
<1>3. /\ pc' = "select" /\ phase' = "downloading" /\ list' = {} /\ snap' = {} /\ sup' = {}
      /\ UNCHANGED <<lock, tasks, cur>>
  BY <1>2 DEF PhaseEnds, Following, taskVars
<1>4. qbit' \in [Torrents -> QbitState]
  BY SentType DEF AdvancePreDownloading, IInv
<1>5. /\ dl' = [d \in Ids |-> dl'[d]]
      /\ \A d \in Ids : dl'[d] = dl[d] \/ Written(d)
  BY <1>1, <1>2, AdvancedRows
<1>6. TypeOK'
  BY <1>2, <1>3, <1>4, <1>5, RowsWritten DEF IInv, TypeOK
<1>7. InHand' = {} /\ Superseding'
  BY <1>3, NothingInHand DEF InHand, Superseding, Dropped
<1>8. Locking' /\ Reading' /\ LiveImportsUntouched'
  BY <1>0, <1>1, <1>2, <1>3, <1>7 DEF IInv, Locking, Reading, LiveImportsUntouched
<1>9. Inserting' /\ Counting'
  BY <1>2, <1>3, <1>5, <1>7, RowsWritten DEF IInv, Counting, RetriesBounded
<1> QED
  BY <1>6, <1>7, <1>8, <1>9 DEF IInv

LEMMA AdvanceDownloadingKeeps == IInv /\ AdvanceDownloading => IInv'
<1> SUFFICES ASSUME IInv, AdvanceDownloading PROVE IInv'
  OBVIOUS
<1>0. lock = "post" /\ tasks = {}
  BY DEF AdvanceDownloading, IInv, Locking
<1>1. /\ UNCHANGED <<nextId, override, discarded, qbit, stuck, req, requests, restarts>>
      /\ pc = "apply" /\ phase = "downloading" /\ PhaseEnds
      /\ dl' = Advanced(snap, {}) /\ \A x \in stuck : dl'[x.id] = dl[x.id]
  BY <1>0, HeldKept DEF AdvanceDownloading, boundVars
<1>2. /\ pc' = "select" /\ phase' = "downloaded" /\ list' = {} /\ snap' = {} /\ sup' = {}
      /\ UNCHANGED <<lock, tasks, cur>>
  BY <1>1 DEF PhaseEnds, Following, taskVars
<1>3. /\ dl' = [d \in Ids |-> dl'[d]]
      /\ \A d \in Ids : dl'[d] = dl[d] \/ Written(d)
  BY <1>1, AdvancedRows
<1>4. TypeOK'
  BY <1>1, <1>2, <1>3, RowsWritten DEF IInv, TypeOK
<1>5. InHand' = {} /\ Superseding'
  BY <1>2, NothingInHand DEF InHand, Superseding, Dropped
<1>6. Locking' /\ Reading' /\ LiveImportsUntouched'
  BY <1>0, <1>1, <1>2, <1>5 DEF IInv, Locking, Reading, LiveImportsUntouched
<1>7. Inserting' /\ Counting'
  BY <1>1, <1>2, <1>3, <1>5, RowsWritten DEF IInv, Counting, RetriesBounded
<1> QED
  BY <1>4, <1>5, <1>6, <1>7 DEF IInv

\* The imports queued: rows the pass moved to PROCESSING, or that a request had
\* moved before.
LEMMA QueuedRows ==
    ASSUME IInv, phase = "downloaded", pc = "apply",
           NEW ok \in SUBSET Attempts, dl' = Advanced(snap, ok), NEW x \in ok
    PROVE  /\ x.id \in Ids
           /\ dl'[x.id].status \in Requested \union {"PROCESSING"}
           /\ dl[x.id].status # "PROCESSED"
<1>1. x \in snap /\ x.q = "complete" /\ x.id \in Ids
  <2>1. Attempts = {y \in snap : y.q = "complete"}
    BY DEF Attempts
  <2> QED
    BY <2>1 DEF IInv, TypeOK, Snapshot
<1>2. /\ \A y \in snap : y.id = x.id => y = x
      /\ dl[x.id].status \in Requested \union {"DOWNLOADED", "FAILED_PROCESSING"}
      /\ dl[x.id].status # "PROCESSED"
  BY <1>1, InHandSound DEF IInv, Reading, InHand, Sound
<1>3. CASE Reaches(x)
  <2>1. (CHOOSE y \in snap : y.id = x.id) = x
    BY <1>1, <1>2
  <2>2. Decision(x, ok) = Outcome("PROCESSING", 0)
    BY <1>1 DEF Decision, AdvanceFinished
  <2>3. dl'[x.id] = Moved(x.id, "PROCESSING", 0)
    <3>1. \E y \in snap : y.id = x.id /\ Reaches(y)
      BY <1>1, <1>3
    <3>2. dl'[x.id] = LET o == Decision(x, ok) IN Moved(x.id, o.status, o.retry)
      BY <1>1, <2>1, <3>1 DEF Advanced
    <3> QED
      BY <2>2, <3>2 DEF Outcome
  <2> QED
    BY <1>1, <1>2, <1>3, <2>3, MovedRow DEF IInv, Reaches, RowStatus
<1>4. CASE ~Reaches(x) /\ x.id \in sup /\ Present(x.id)
  <2>1. dl'[x.id] = Moved(x.id, "DISCARDED", 0)
    BY <1>1, <1>2, <1>4 DEF Advanced
  <2> QED
    BY <1>1, <1>2, <1>4, <2>1, MovedRow DEF IInv, Requested, RowStatus
<1>5. CASE ~(x.id \in sup /\ Present(x.id)) /\ ~Reaches(x)
  <2>1. dl'[x.id] = dl[x.id]
    BY <1>1, <1>2, <1>5 DEF Advanced
  <2>2. dl[x.id].status \in Requested
    BY <1>2, <1>5 DEF Reaches, Present
  <2> QED
    BY <1>1, <1>2, <2>1, <2>2
<1> QED
  BY <1>3, <1>4, <1>5

LEMMA AdvanceDownloadedKeeps == IInv /\ AdvanceDownloaded => IInv'
<1> SUFFICES ASSUME IInv, AdvanceDownloaded PROVE IInv'
  OBVIOUS
<1>0. lock = "post"
  BY DEF AdvanceDownloaded, IInv, Locking
<1>1. PICK ok \in SUBSET Attempts :
         /\ dl' = Advanced(snap, ok) /\ \A x \in stuck : dl'[x.id] = dl[x.id]
         /\ \/ ok = {} /\ RunEnds
            \/ /\ ok # {}
               /\ tasks' = {x.id : x \in ok}
               /\ pc' = "copy" /\ list' = {} /\ snap' = {} /\ sup' = {}
               /\ UNCHANGED <<lock, phase, cur>>
  BY <1>0, HeldKept DEF AdvanceDownloaded
<1>2. /\ UNCHANGED <<nextId, override, discarded, qbit, stuck, req, requests, restarts>>
      /\ pc = "apply" /\ phase = "downloaded"
  BY DEF AdvanceDownloaded, boundVars
<1>3. /\ dl' = [d \in Ids |-> dl'[d]]
      /\ \A d \in Ids : dl'[d] = dl[d] \/ Written(d)
  BY <1>1, <1>2, AdvancedRows
<1>4. list' = {} /\ snap' = {} /\ sup' = {} /\ InHand' = {} /\ Superseding'
  <2>1. list' = {} /\ snap' = {} /\ sup' = {}
    BY <1>1 DEF RunEnds
  <2> QED
    BY <2>1, NothingInHand DEF InHand, Superseding, Dropped
<1>5. /\ tasks' \in {{}, {x.id : x \in ok}}
      /\ \/ pc' = "idle" /\ lock' = "free" /\ tasks' = {}
         \/ pc' = "copy" /\ lock' = "post"
      /\ phase' \in {"pre", "downloaded"} /\ cur' \in Ids \union {0}
  BY <1>0, <1>1, <1>2 DEF RunEnds, IInv, TypeOK
<1>6. \A x \in ok : x.id \in Ids /\ dl'[x.id].status \in Requested \union {"PROCESSING"}
  BY <1>1, <1>2, QueuedRows
<1>7. TypeOK'
  BY <1>2, <1>3, <1>4, <1>5, <1>6, RowsWritten DEF IInv, TypeOK
<1>8. Locking' /\ Reading'
  <2>1. \A x \in ok : x \in snap
    BY <1>2 DEF Attempts
  <2>2. \A y \in stuck : y.id \notin tasks'
    <3>1. \A x \in snap : \A y \in stuck : x.id # y.id
      BY <1>2, InHandSound DEF InHand, Sound
    <3> QED
      BY <1>5, <2>1, <3>1
  <2>3. Locking'
    BY <1>1, <1>2, <1>4, <1>5 DEF RunEnds, Locking
  <2> QED
    BY <1>2, <1>3, <1>4, <2>2, <2>3, <1>1 DEF IInv, Reading
<1>9. LiveImportsUntouched'
  BY <1>5, <1>6 DEF LiveImportsUntouched, Requested
<1>10. Inserting' /\ Counting'
  BY <1>2, <1>3, <1>4, RowsWritten DEF IInv, Counting, RetriesBounded
<1> QED
  BY <1>4, <1>7, <1>8, <1>9, <1>10 DEF IInv

LEMMA AdvanceRaisesKeeps == IInv /\ AdvanceRaises => IInv'
<1> SUFFICES ASSUME IInv, AdvanceRaises PROVE IInv'
  OBVIOUS
<1>1. /\ UNCHANGED <<dl, nextId, override, discarded, stuck, req, requests, restarts>>
      /\ RunEnds /\ pc # "idle"
  BY DEF AdvanceRaises, dbVars, boundVars
<1>2. qbit' \in [Torrents -> QbitState]
  BY SentType DEF AdvanceRaises, IInv, TypeOK
<1> QED
  BY <1>1, <1>2, RunGone DEF RunEnds

LEMMA CopyFileKeeps ==
    ASSUME NEW d \in Ids PROVE IInv /\ d \in tasks /\ CopyFile(d) => IInv'
<1> SUFFICES ASSUME IInv, d \in tasks, CopyFile(d) PROVE IInv'
  OBVIOUS
<1>1. /\ UNCHANGED <<dl, nextId, override, discarded, qbit, lock, phase, list, snap, sup, tasks,
                     stuck, req, requests, restarts>>
      /\ pc = "copy" /\ pc' \in {"copied", "failed"} /\ cur' = d
  BY DEF CopyFile, dbVars, txnVars, boundVars
<1>2. TypeOK'
  BY <1>1 DEF IInv, TypeOK
<1>3. list' = {} /\ snap' = {} /\ sup' = {} /\ InHand' = {} /\ Superseding'
  <2>1. list' = {} /\ snap' = {} /\ sup' = {}
    BY <1>1 DEF IInv, Locking
  <2> QED
    BY <2>1, NothingInHand DEF InHand, Superseding, Dropped
<1>4. Locking' /\ Reading' /\ LiveImportsUntouched'
  BY <1>1, <1>3 DEF IInv, Locking, Reading, LiveImportsUntouched
<1>5. Inserting' /\ Counting'
  BY <1>1, <1>3 DEF IInv, Inserting, Counting, RetriesBounded
<1> QED
  BY <1>2, <1>3, <1>4, <1>5 DEF IInv

\* The end of the import being carried out, whatever it wrote to its row.
LEMMA ImportDone ==
    ASSUME IInv, TaskEnds, pc \in {"copied", "failed"},
           dl' = [d \in Ids |-> dl'[d]],
           \A d \in Ids : dl'[d] = dl[d] \/ (d = cur /\ Written(d)),
           UNCHANGED <<nextId, override, discarded, qbit, stuck, req, requests, restarts>>
    PROVE  IInv'
<1>1. /\ tasks' = tasks \ {cur} /\ cur' = 0 /\ list' = {} /\ snap' = {} /\ sup' = {}
      /\ \/ pc' = "idle" /\ phase' = "pre" /\ lock' = "free" /\ tasks' = {}
         \/ pc' = "copy" /\ UNCHANGED <<phase, lock>>
  BY DEF TaskEnds, txnVars, IInv, Locking
<1>2. lock = "post" /\ cur \in tasks /\ InHand' = {} /\ Superseding'
  BY <1>1, NothingInHand DEF IInv, Locking, InHand, Superseding, Dropped
<1>3. TypeOK'
  BY <1>1, RowsWritten DEF IInv, TypeOK
<1>4. Locking' /\ Reading'
  <2>1. \A x \in stuck : x.id # cur /\ x.id \in Ids
    BY <1>2 DEF IInv, Reading, TypeOK
  <2> QED
    BY <1>1, <1>2, <2>1 DEF IInv, Locking, Reading
<1>5. LiveImportsUntouched'
  BY <1>1 DEF IInv, TypeOK, LiveImportsUntouched
<1>6. Inserting' /\ Counting'
  BY <1>1, <1>2, RowsWritten DEF IInv, Counting, RetriesBounded
<1> QED
  BY <1>2, <1>3, <1>4, <1>5, <1>6 DEF IInv

LEMMA CommitsWrite ==
    ASSUME IInv, CommitProcessed \/ CommitFailed
    PROVE  /\ dl' = [d \in Ids |-> dl'[d]]
           /\ \A d \in Ids : dl'[d] = dl[d] \/ (d = cur /\ Written(d))
           /\ TaskEnds /\ pc \in {"copied", "failed"} /\ cur \in Ids
           /\ UNCHANGED <<nextId, override, discarded, qbit, stuck, req, requests, restarts>>
<1>1. /\ TaskEnds /\ pc \in {"copied", "failed"} /\ Present(cur)
      /\ UNCHANGED <<nextId, override, discarded, qbit, stuck, req, requests, restarts>>
      /\ \/ dl' = [dl EXCEPT ![cur] = Moved(cur, "PROCESSED", dl[cur].retry)]
         \/ dl' = [dl EXCEPT ![cur] = Moved(cur, "FAILED_PROCESSING", dl[cur].retry)]
         \/ dl' = dl
  BY DEF CommitProcessed, CommitFailed, Writes, boundVars
<1>2. cur \in Ids
  BY <1>1 DEF IInv, Locking, TypeOK
<1>3. dl' = [d \in Ids |-> dl'[d]]
  BY <1>1 DEF IInv, TypeOK
<1>4. \A d \in Ids : dl'[d] = dl[d] \/ (d = cur /\ Written(d))
  <2> SUFFICES ASSUME NEW d \in Ids, dl'[d] # dl[d] PROVE d = cur /\ Written(d)
    OBVIOUS
  <2>1. /\ d = cur /\ Present(d)
        /\ \/ dl'[d] = Moved(d, "PROCESSED", dl[d].retry)
           \/ dl'[d] = Moved(d, "FAILED_PROCESSING", dl[d].retry)
    BY <1>1, <1>2 DEF IInv, TypeOK
  <2>2. dl[d].retry \in Nat /\ dl[d].retry <= RetryLimit + 2 * requests
    BY DEF IInv, TypeOK, Row, Counting, RetriesBounded
  <2> QED
    BY <2>1, <2>2, MovedIsWritten DEF RowStatus
<1> QED
  BY <1>1, <1>2, <1>3, <1>4

LEMMA FinalizeKeeps == IInv /\ Finalize => IInv'
<1> SUFFICES ASSUME IInv, Finalize PROVE IInv'
  OBVIOUS
<1>1. CASE \E d \in tasks : CopyFile(d)
  BY <1>1, CopyFileKeeps DEF IInv, TypeOK
<1>2. CASE FinalizeRaises
  <2>1. pc # "idle" /\ RunEnds
        /\ UNCHANGED <<dl, nextId, override, discarded, qbit, stuck, req, requests, restarts>>
    BY <1>2 DEF FinalizeRaises, dbVars, boundVars
  <2> QED
    BY <2>1, RunGone DEF RunEnds, IInv, TypeOK
<1>3. CASE CommitProcessed \/ CommitFailed
  BY <1>3, CommitsWrite, ImportDone
<1> QED
  BY <1>1, <1>2, <1>3 DEF Finalize

LEMMA StuckReadKeeps ==
    ASSUME NEW old \in SUBSET Ids PROVE IInv /\ StuckRead(old) => IInv'
<1> SUFFICES ASSUME IInv, StuckRead(old) PROVE IInv'
  OBVIOUS
<1>1. /\ UNCHANGED <<dl, nextId, override, discarded, qbit, pc, phase, list, snap, sup, tasks,
                     cur, req, requests, restarts>>
      /\ lock = "free" /\ lock' = "stuck" /\ stuck' = Stuck(old)
  BY DEF StuckRead, dbVars, txnVars, taskVars, boundVars
<1>2. \A x \in Stuck(old) : x.id \in Ids /\ dl[x.id].status \in {"DOWNLOADING", "PROCESSING"}
  BY DEF Stuck
<1>3. Stuck(old) \subseteq [id: Ids, status: {"DOWNLOADING", "PROCESSING"}]
  BY DEF Stuck
<1>4. TypeOK'
  BY <1>1, <1>3 DEF IInv, TypeOK
<1>5. Locking' /\ LiveImportsUntouched'
  BY <1>1 DEF IInv, Locking, LiveImportsUntouched
<1>6. Reading' /\ Superseding'
  <2>1. /\ pc = "idle" /\ list' = {} /\ snap' = {} /\ sup' = {} /\ tasks = {}
        /\ InHand' = {} /\ InHand = {}
    BY <1>1 DEF IInv, TypeOK, Locking, InHand
  <2>2. Superseding'
    BY <2>1, NothingInHand DEF Superseding, InHand, Dropped
  <2> QED
    BY <1>1, <1>2, <2>1, <2>2 DEF IInv, Reading, Requested
<1>7. Inserting' /\ Counting'
  BY <1>1 DEF IInv, Inserting, Counting, RetriesBounded, InHand
<1> QED
  BY <1>4, <1>5, <1>6, <1>7 DEF IInv

\* What leaves the rows and the transaction alone leaves what they say of each other.
LEMMA OthersKeep ==
    ASSUME IInv, UNCHANGED <<dl, nextId, list, snap, sup, phase, tasks, stuck, req>>
    PROVE  Reading' /\ Superseding'
<1>1. \A d \in Ids : Settled(d) => Settled(d)'
  BY DEF Settled
<1> QED
  BY <1>1, SupersedingKept DEF IInv, Reading, InHand

LEMMA StuckReleaseKeeps == IInv /\ StuckRelease => IInv'
<1> SUFFICES ASSUME IInv, StuckRelease PROVE IInv'
  OBVIOUS
<1>1. /\ UNCHANGED <<dl, nextId, override, discarded, qbit, pc, phase, list, snap, sup, tasks,
                     cur, stuck, req, requests, restarts>>
      /\ lock = "stuck" /\ lock' = "free"
  BY DEF StuckRelease, dbVars, txnVars, taskVars, boundVars
<1>2. TypeOK'
  BY <1>1 DEF IInv, TypeOK
<1>3. Locking' /\ Reading' /\ Superseding' /\ LiveImportsUntouched'
  BY <1>1, OthersKeep DEF IInv, Locking, LiveImportsUntouched
<1>4. Inserting' /\ Counting'
  BY <1>1 DEF IInv, Inserting, Counting, RetriesBounded, InHand
<1> QED
  BY <1>2, <1>3, <1>4 DEF IInv

\* stuck_check writes only what it read.
LEMMA StuckFailedRows ==
    ASSUME IInv, NEW S \in SUBSET stuck, dl' = StuckFailed(S)
    PROVE  /\ dl' = [d \in Ids |-> dl'[d]]
           /\ \A d \in Ids : \/ dl'[d] = dl[d]
                             \/ /\ Written(d) /\ \E x \in stuck : x.id = d
                                /\ dl[d].status # "PROCESSED"
                                /\ dl'[d].status \notin {"PROCESSED", "DELETED"}
                                /\ dl'[d].torrent = dl[d].torrent
<1>1. dl' = [d \in Ids |-> dl'[d]]
  BY DEF StuckFailed
<1>2. ASSUME NEW d \in Ids, dl'[d] # dl[d]
      PROVE  /\ Written(d) /\ \E x \in stuck : x.id = d
             /\ dl[d].status # "PROCESSED"
             /\ dl'[d].status \notin {"PROCESSED", "DELETED"}
             /\ dl'[d].torrent = dl[d].torrent
  <2>1. PICK s \in {"FAILED_DOWNLOAD", "FAILED_PROCESSING"} :
           Present(d) /\ dl'[d] = Moved(d, s, 0) /\ \E x \in stuck : x.id = d
    BY <1>2 DEF StuckFailed, FailedFrom
  <2>2. dl[d].status # "PROCESSED"
    BY <2>1 DEF IInv, Reading, Requested
  <2>3. dl'[d].torrent = dl[d].torrent
    BY <2>1 DEF Moved, IInv, TypeOK, Row
  <2> QED
    BY <2>1, <2>2, <2>3, MovedIsWritten, ZeroIsBounded DEF RowStatus
<1> QED
  BY <1>1, <1>2

LEMMA StuckCommitKeeps == IInv /\ StuckCommit => IInv'
<1> SUFFICES ASSUME IInv, StuckCommit PROVE IInv'
  OBVIOUS
<1>1. /\ UNCHANGED <<nextId, override, discarded, qbit, lock, pc, phase, list, snap, sup, tasks,
                     cur, req, requests, restarts>>
      /\ stuck' = {} /\ dl' = StuckFailed(stuck)
  BY DEF StuckCommit, txnVars, taskVars, boundVars
<1>2. /\ dl' = [d \in Ids |-> dl'[d]]
      /\ \A d \in Ids : \/ dl'[d] = dl[d]
                        \/ /\ Written(d) /\ \E x \in stuck : x.id = d
                           /\ dl'[d].status \notin {"PROCESSED", "DELETED"}
                           /\ dl'[d].torrent = dl[d].torrent
  BY <1>1, StuckFailedRows
<1>3. TypeOK'
  BY <1>1, <1>2, RowsWritten DEF IInv, TypeOK
<1>4. Locking'
  BY <1>1 DEF IInv, Locking
<1>5. Reading' /\ Superseding'
  <2>1. InHand' = InHand /\ \A x \in InHand : x.id \in Ids
    BY <1>1, InHandSound DEF InHand
  <2>2. \A d \in sup : d \in Ids
    BY DEF IInv, TypeOK
  <2>3. phase = "downloaded" => \A x \in InHand : dl'[x.id] = dl[x.id]
    BY <1>2, <2>1, InHandSound DEF Sound
  <2>4. Reading'
    BY <1>1, <1>2, <2>1, <2>2, <2>3 DEF IInv, Reading
  <2>5. \A d \in Ids : Settled(d) => Settled(d)'
    BY <1>1 DEF Settled
  <2>6. \A d \in Ids : dl'[d].status # "ABSENT" =>
           /\ dl[d].status # "ABSENT" /\ dl'[d].torrent = dl[d].torrent
           /\ dl'[d].status = "DELETED" => dl[d].status = "DELETED"
    BY <1>2 DEF Written, Present
  <2>7. Superseding'
    BY <1>1, <2>3, <2>5, <2>6, SupersedingKept
  <2> QED
    BY <2>4, <2>7
<1>6. LiveImportsUntouched'
  <2>1. \A d \in tasks : d \in Ids /\ dl'[d] = dl[d]
    BY <1>2 DEF IInv, TypeOK, Reading
  <2> QED
    BY <1>1, <2>1 DEF IInv, LiveImportsUntouched
<1>7. Inserting' /\ Counting'
  BY <1>1, <1>2, RowsWritten DEF IInv, Counting, RetriesBounded, InHand
<1> QED
  BY <1>3, <1>4, <1>5, <1>6, <1>7 DEF IInv

-----------------------------------------------------------------------------
\* Stops of the process.

LEMMA StopsKeeps ==
    ASSUME IInv, Stops, dl' = [d \in Ids |-> dl'[d]],
           \A d \in Ids : \/ dl'[d] = dl[d]
                          \/ /\ WellFormed(dl[d])' /\ d < nextId
                             /\ dl'[d].status = "PENDING" => dl'[d].retry = 0
                             /\ dl'[d].retry <= RetryLimit + 2 * requests,
           UNCHANGED <<nextId, override, discarded>>,
           qbit' \in [Torrents -> QbitState]
    PROVE  IInv'
<1>1. /\ pc' = "idle" /\ phase' = "pre" /\ lock' = "free"
      /\ list' = {} /\ snap' = {} /\ sup' = {}
      /\ tasks' = {} /\ cur' = 0 /\ stuck' = {}
      /\ req' = [c \in Clients |-> NoRequest]
      /\ requests' = requests /\ restarts' = restarts + 1
  BY DEF Stops, RunEnds
<1>2. \A d \in Ids : WellFormed(dl[d])'
  BY DEF IInv, TypeOK, WellFormed
<1>3. /\ dl' \in [Ids -> Row]
      /\ \A d \in Ids : dl'[d].torrent = NoTorrent <=> dl'[d].status = "ABSENT"
  BY <1>2 DEF WellFormed
<1>4. req' \in [Clients -> Request] /\ \A c \in Clients : req'[c].op = "none"
  BY <1>1 DEF NoRequest, Request
<1>5. TypeOK'
  BY <1>1, <1>3, <1>4 DEF IInv, TypeOK
<1>6. InHand' = {} /\ Superseding'
  BY <1>1, NothingInHand DEF InHand, Superseding, Dropped
<1>9. Locking' /\ Reading' /\ LiveImportsUntouched'
  BY <1>1, <1>6 DEF Locking, Reading, LiveImportsUntouched
<1>7. Inserting'
  <2>1. \A d \in Ids : d >= nextId => dl'[d] = dl[d]
    BY DEF IInv, TypeOK, Ids
  <2> QED
    BY <1>4, <2>1 DEF IInv, Inserting
<1>8. Counting'
  BY <1>1, <1>4, <1>6 DEF IInv, Counting, RetriesBounded
<1> QED
  BY <1>5, <1>6, <1>7, <1>8, <1>9 DEF IInv

LEMMA KilledKeeps == IInv /\ Killed => IInv'
<1> SUFFICES ASSUME IInv, Killed PROVE IInv'
  OBVIOUS
<1>1. Stops /\ UNCHANGED <<dl, nextId, override, discarded, qbit>>
  BY DEF Killed, dbVars
<1> QED
  BY <1>1, StopsKeeps DEF IInv, TypeOK

LEMMA CancelledRows ==
    ASSUME IInv, CancelledInAdvance
    PROVE  /\ dl' = [d \in Ids |-> dl'[d]]
           /\ \A d \in Ids : \/ dl'[d] = dl[d]
                             \/ /\ Written(d)
                                /\ dl[d].status # "PROCESSED" /\ dl'[d].status # "PROCESSED"
           /\ qbit' \in [Torrents -> QbitState]
           /\ Stops /\ UNCHANGED <<nextId, override, discarded>>
<1>1. Stops /\ UNCHANGED <<nextId, override, discarded>> /\ UNCHANGED requests
  BY DEF CancelledInAdvance, Stops
<1>2. PICK done \in SUBSET snap, ok \in SUBSET snap, begun \in SUBSET snap :
         dl' = Advanced(done, ok) \/ dl' = Interrupted(done, ok, begun)
  <2>1. Attempts \subseteq snap
    BY DEF Attempts, IInv, TypeOK
  <2>2. CASE pc = "query"
    BY <2>2 DEF CancelledInAdvance, Writes
  <2>3. CASE pc = "apply"
    BY <2>1, <2>3 DEF CancelledInAdvance, Writes
  <2> QED
    BY <2>2, <2>3 DEF CancelledInAdvance
<1>3. qbit' \in [Torrents -> QbitState]
  BY SentType DEF CancelledInAdvance, IInv, TypeOK
<1> QED
  BY <1>1, <1>2, <1>3, AdvancedRows, InterruptedRows

LEMMA CancelledInAdvanceKeeps == IInv /\ CancelledInAdvance => IInv'
<1> SUFFICES ASSUME IInv, CancelledInAdvance PROVE IInv'
  OBVIOUS
<1>1. \A d \in Ids : \/ dl'[d] = dl[d]
                     \/ /\ WellFormed(dl[d])' /\ d < nextId
                        /\ dl'[d].status = "PENDING" => dl'[d].retry = 0
                        /\ dl'[d].retry <= RetryLimit + 2 * requests
  BY CancelledRows, PresentIsSettled DEF Written
<1> QED
  BY <1>1, CancelledRows, StopsKeeps

LEMMA CancelledStuckRows ==
    ASSUME IInv, CancelledInStuckCheck
    PROVE  /\ dl' = [d \in Ids |-> dl'[d]]
           /\ \A d \in Ids : \/ dl'[d] = dl[d]
                             \/ /\ Written(d)
                                /\ dl[d].status # "PROCESSED" /\ dl'[d].status # "PROCESSED"
           /\ Stops /\ UNCHANGED <<nextId, override, discarded, qbit>>
<1>1. PICK S \in SUBSET stuck : dl' = StuckFailed(S)
  BY DEF CancelledInStuckCheck
<1> QED
  BY <1>1, StuckFailedRows DEF CancelledInStuckCheck

LEMMA CancelledInStuckCheckKeeps == IInv /\ CancelledInStuckCheck => IInv'
<1> SUFFICES ASSUME IInv, CancelledInStuckCheck PROVE IInv'
  OBVIOUS
<1>1. \A d \in Ids : \/ dl'[d] = dl[d]
                     \/ /\ WellFormed(dl[d])' /\ d < nextId
                        /\ dl'[d].status = "PENDING" => dl'[d].retry = 0
                        /\ dl'[d].retry <= RetryLimit + 2 * requests
  BY CancelledStuckRows, PresentIsSettled DEF Written
<1> QED
  BY <1>1, CancelledStuckRows, StopsKeeps DEF IInv, TypeOK

LEMMA CancelledInFeedKeeps ==
    ASSUME NEW c \in Clients PROVE IInv /\ CancelledInFeed(c) => IInv'
<1> SUFFICES ASSUME IInv, CancelledInFeed(c) PROVE IInv'
  OBVIOUS
<1>1. /\ req[c].id \in Ids /\ req[c].id < nextId /\ req[c].torrent \in Torrents
      /\ dl' = [dl EXCEPT ![req[c].id] = Inserted(req[c], "PENDING")]
      /\ Stops /\ UNCHANGED <<nextId, override, discarded>>
  BY DEF CancelledInFeed, IInv, Inserting
<1>2. /\ WellFormed(Inserted(req[c], "PENDING"))
      /\ Inserted(req[c], "PENDING").retry = 0
  BY <1>1, NoTorrentAssumption DEF WellFormed, Inserted, Row, Status, RowStatus
<1>3. dl' = [d \in Ids |-> dl'[d]]
  BY <1>1 DEF IInv, TypeOK
<1>4. \A d \in Ids : dl'[d] = IF d = req[c].id THEN Inserted(req[c], "PENDING") ELSE dl[d]
  BY <1>1 DEF IInv, TypeOK
<1>5. \A d \in Ids : \/ dl'[d] = dl[d]
                     \/ /\ WellFormed(dl[d])' /\ d < nextId
                        /\ dl'[d].status = "PENDING" => dl'[d].retry = 0
                        /\ dl'[d].retry <= RetryLimit + 2 * requests
  BY <1>1, <1>2, <1>4, ZeroIsBounded DEF WellFormed
<1>6. qbit' \in [Torrents -> QbitState]
  BY SentType DEF CancelledInFeed, IInv, TypeOK
<1> QED
  BY <1>1, <1>3, <1>5, <1>6, StopsKeeps

LEMMA QbitMovesKeeps ==
    ASSUME NEW t \in Torrents PROVE IInv /\ QbitMoves(t) => IInv'
<1> SUFFICES ASSUME IInv, QbitMoves(t) PROVE IInv'
  OBVIOUS
<1>1. UNCHANGED <<dl, nextId, override, discarded, lock, pc, phase, list, snap, sup, tasks, cur,
                  stuck, req, requests, restarts>>
  BY DEF QbitMoves, dbVars, workerVars, boundVars
<1>2. qbit' \in [Torrents -> QbitState]
  BY DEF QbitMoves, IInv, TypeOK
<1>3. TypeOK'
  BY <1>1, <1>2 DEF IInv, TypeOK
<1>4. Locking' /\ Reading' /\ Superseding' /\ LiveImportsUntouched'
  BY <1>1, OthersKeep DEF IInv, Locking, LiveImportsUntouched
<1>5. Inserting' /\ Counting'
  BY <1>1 DEF IInv, Inserting, Counting, RetriesBounded, InHand
<1> QED
  BY <1>3, <1>4, <1>5 DEF IInv

-----------------------------------------------------------------------------
\* Every step keeps the invariant.

LEMMA RequestsKeeps ==
    ASSUME NEW c \in Clients PROVE IInv /\ Requests(c) => IInv'
<1> SUFFICES ASSUME IInv, Requests(c) PROVE IInv'
  OBVIOUS
<1>1. ASSUME NEW t \in Torrents,
             \/ \E by \in {"feed", "override"} : SelectBegins(c, t, by)
             \/ IdentifyBegins(c, t)
             \/ DiscardBegins(c, t)
             \/ OverrideBegins(c, t)
      PROVE  IInv'
  BY <1>1, SelectBeginsKeeps, IdentifyBeginsKeeps, DiscardBeginsKeeps, OverrideBeginsKeeps
<1>2. ASSUME NEW d \in Ids, RetryBegins(c, d) \/ DeleteBegins(c, d) PROVE IInv'
  BY <1>2, RetryBeginsKeeps, DeleteBeginsKeeps
<1>3. CASE \/ SelectCommit(c) \/ IdentifyCommit(c) \/ RetryCommit(c)
           \/ DiscardCommit(c) \/ DeleteCommit(c) \/ OverrideCommit(c) \/ RequestFails(c)
  BY <1>3, SelectCommitKeeps, IdentifyCommitKeeps, RetryCommitKeeps, DiscardCommitKeeps,
     DeleteCommitKeeps, OverrideCommitKeeps, RequestFailsKeeps
<1> QED
  BY <1>1, <1>2, <1>3 DEF Requests

LEMMA NextKeeps == IInv /\ [Next]_vars => IInv'
<1> SUFFICES ASSUME IInv, [Next]_vars PROVE IInv'
  OBVIOUS
<1>1. CASE PostProcessing
  <2>1. CASE Select
    BY <2>1, ReadFirstKeeps, ReadSecondKeeps DEF Select, ReadMore
  <2>3. CASE Filter
    BY <2>3, CheckKeeps DEF Filter
  <2>2. CASE Advance
    BY <2>2, AdvancePreDownloadingKeeps, AdvanceDownloadingKeeps, AdvanceDownloadedKeeps
       DEF Advance
  <2> QED
    BY <1>1, <2>1, <2>2, <2>3, QueryQbitKeeps, AdvanceRaisesKeeps, FinalizeKeeps DEF PostProcessing
<1>2. CASE StuckCheck
  BY <1>2, StuckReadKeeps, StuckReleaseKeeps, StuckCommitKeeps DEF StuckCheck
<1>3. CASE \E c \in Clients : Requests(c)
  BY <1>3, RequestsKeeps
<1>4. CASE \E t \in Torrents : QbitMoves(t)
  BY <1>4, QbitMovesKeeps
<1>5. CASE Stop
  BY <1>5, KilledKeeps, CancelledInAdvanceKeeps, CancelledInStuckCheckKeeps,
     CancelledInFeedKeeps DEF Stop
<1>6. CASE UNCHANGED vars
  <2>1. UNCHANGED <<dl, nextId, override, discarded, qbit, lock, pc, phase, list, snap, sup,
                    tasks, cur, stuck, req, requests, restarts>>
    BY <1>6 DEF vars, dbVars, workerVars, boundVars
  <2>2. Reading' /\ Superseding'
    BY <2>1, OthersKeep
  <2>3. InHand' = InHand
    BY <2>1 DEF InHand
  <2> QED
    BY <2>1, <2>2, <2>3 DEF IInv, TypeOK, Locking, Inserting, Counting, RetriesBounded,
                            LiveImportsUntouched
<1> QED
  BY <1>1, <1>2, <1>3, <1>4, <1>5, <1>6 DEF Next

\* The invariant holds of every behaviour: of the rows, the two workers and any
\* number of requests, with the process stopped anywhere.
THEOREM Invariance == Spec => []IInv
BY InitIInv, NextKeeps, PTL DEF Spec

=============================================================================
