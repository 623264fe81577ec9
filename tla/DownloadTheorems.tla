--------------------------- MODULE DownloadTheorems ---------------------------
(***************************************************************************)
(* The properties of DownloadLifecycle that follow from its inductive      *)
(* invariant, for every set of torrents and clients, every retry limit and *)
(* every bound.                                                            *)
(***************************************************************************)
EXTENDS DownloadInvariant

-----------------------------------------------------------------------------
\* What follows.

\* Type correctness of the pipeline's state, for every instance.
THEOREM TypeCorrectness == Spec => []TypeOK
BY Invariance, PTL DEF IInv

\* While an import is queued or running, no worker writes its row: stuck_check
\* waits for the lock that post_download_processing holds over the copies.
THEOREM ImportsLeftAlone == Spec => []LiveImportsUntouched
BY Invariance, PTL DEF IInv

\* The retry count of advance_downloads_in_pre_downloading_status and
\* retry_download, within its bound for every limit and number of requests.
THEOREM RetriesStop == Spec => []RetriesBounded
<1>1. IInv => RetriesBounded
  BY DEF IInv, Counting
<1> QED
  BY <1>1, Invariance, PTL

\* The set of imported rows stays as it is.
ImportsKept == \A d \in Ids : \/ dl'[d] = dl[d]
                              \/ dl[d].status # "PROCESSED" /\ dl'[d].status # "PROCESSED"

LEMMA ReadingKeepsImports ==
    ASSUME IInv, Select \/ Filter PROVE ImportsKept /\ tasks' = tasks
<1>1. CASE \E old \in SUBSET Ids : ReadFirst(old)
  BY <1>1 DEF ReadFirst, PhaseEnds, ImportsKept, dbVars, taskVars
<1>2. CASE ReadMore
  BY <1>2 DEF ReadMore, ReadSecond, PhaseEnds, RunEnds, IInv, Locking, ImportsKept, dbVars, taskVars
<1>3. CASE Filter
  BY <1>3 DEF Filter, Check, ImportsKept, dbVars, taskVars
<1> QED
  BY <1>1, <1>2, <1>3 DEF Select

LEMMA AdvanceKeepsImports == ASSUME IInv, Advance PROVE ImportsKept
<1>1. PICK ok : dl' = Advanced(snap, ok)
  BY DEF Advance, AdvancePreDownloading, AdvanceDownloading, AdvanceDownloaded, Writes
<1>2. UNCHANGED requests
  BY DEF Advance, AdvancePreDownloading, AdvanceDownloading, AdvanceDownloaded, boundVars
<1> QED
  BY <1>1, <1>2, AdvancedRows DEF ImportsKept

LEMMA StopKeepsImports ==
    ASSUME IInv, Stop PROVE ImportsKept /\ tasks' = {}
<1>1. tasks' = {}
  BY DEF Stop, Killed, CancelledInAdvance, CancelledInStuckCheck, CancelledInFeed, Stops, RunEnds
<1>2. CASE Killed
  BY <1>1, <1>2 DEF Killed, ImportsKept, dbVars
<1>3. CASE CancelledInAdvance \/ CancelledInStuckCheck
  BY <1>1, <1>3, CancelledRows, CancelledStuckRows DEF ImportsKept
<1>4. ASSUME NEW c \in Clients, CancelledInFeed(c) PROVE ImportsKept
  <2>1. /\ req[c].id \in Ids /\ dl[req[c].id].status = "ABSENT"
        /\ dl' = [dl EXCEPT ![req[c].id] = Inserted(req[c], "PENDING")]
    BY <1>4 DEF CancelledInFeed, IInv, Inserting
  <2>2. \A d \in Ids : dl'[d] = IF d = req[c].id THEN Inserted(req[c], "PENDING") ELSE dl[d]
    BY <2>1 DEF IInv, TypeOK
  <2> QED
    BY <2>1, <2>2 DEF ImportsKept, Inserted
<1> QED
  BY <1>1, <1>2, <1>3, <1>4 DEF Stop

\* A request imports nothing and touches no worker.
LEMMA RequestsImportNothing ==
    ASSUME IInv, NEW c \in Clients, Requests(c)
    PROVE  /\ UNCHANGED workerVars
           /\ \A d \in Ids : dl'[d].status = "PROCESSED" => dl[d].status = "PROCESSED"
<1>1. CASE \/ \E t \in Torrents : \/ \E by \in {"feed", "override"} : SelectBegins(c, t, by)
                                  \/ IdentifyBegins(c, t)
                                  \/ DiscardBegins(c, t)
                                  \/ OverrideBegins(c, t)
           \/ \E d \in Ids : RetryBegins(c, d) \/ DeleteBegins(c, d)
  BY <1>1 DEF SelectBegins, IdentifyBegins, DiscardBegins, OverrideBegins, RetryBegins,
              DeleteBegins, dbVars
<1>2. CASE SelectCommit(c)
  BY <1>2 DEF SelectCommit, Inserted, IInv, TypeOK
<1>3. CASE IdentifyCommit(c)
  BY <1>3, NoRowIsRow DEF IdentifyCommit, Writes
<1>4. CASE RetryCommit(c)
  <2>1. PICK s \in {"DOWNLOADING", "FAILED_DOWNLOAD_INIT"}, r \in Nat :
           dl' = [dl EXCEPT ![req[c].id] = Moved(req[c].id, s, r)] \/ dl' = dl
    BY <1>4 DEF RetryCommit, Writes, IInv, TypeOK, Request
  <2>2. \A d \in Ids : dl'[d] = dl[d] \/ dl'[d] = Moved(d, s, r)
    BY <2>1 DEF IInv, TypeOK
  <2>3. \A d \in Ids : Moved(d, s, r).status = s
    BY DEF Moved, IInv, TypeOK, Row
  <2> QED
    BY <1>4, <2>2, <2>3 DEF RetryCommit
<1>5. CASE DiscardCommit(c)
  BY <1>5 DEF DiscardCommit, Writes, Moved, IInv, TypeOK, Row
<1>6. CASE DeleteCommit(c)
  BY <1>6, NoRowIsRow DEF DeleteCommit, Writes
<1>7. CASE OverrideCommit(c)
  BY <1>7 DEF OverrideCommit, Writes, Moved, IInv, TypeOK, Row
<1>8. CASE RequestFails(c)
  BY <1>8 DEF RequestFails, dbVars
<1> QED
  BY <1>1, <1>2, <1>3, <1>4, <1>5, <1>6, <1>7, <1>8 DEF Requests

\* What one import commits.
LEMMA ImportStep ==
    ASSUME IInv, CommitProcessed \/ CommitFailed
    PROVE  /\ cur \in tasks /\ cur \in Ids /\ tasks' = tasks \ {cur}
           /\ dl[cur].status # "PROCESSED"
           /\ \A d \in Ids \ {cur} : dl'[d] = dl[d]
           /\ CommitProcessed => dl'[cur].status = "PROCESSED"
           /\ CommitFailed => dl'[cur].status # "PROCESSED"
<1>1. cur \in tasks /\ cur \in Ids
  BY DEF CommitProcessed, CommitFailed, IInv, Locking, TypeOK
<1>2. dl[cur].status # "PROCESSED"
  BY <1>1 DEF IInv, LiveImportsUntouched
<1>3. tasks' = tasks \ {cur}
  BY DEF CommitProcessed, CommitFailed, TaskEnds
<1>4. \A d \in Ids \ {cur} : dl'[d] = dl[d]
  BY DEF CommitProcessed, CommitFailed, Writes, IInv, TypeOK
<1>5. CommitProcessed => dl'[cur].status = "PROCESSED"
  BY <1>1 DEF CommitProcessed, Writes, Moved, IInv, TypeOK, Row
<1>6. CommitFailed => dl'[cur].status # "PROCESSED"
  BY <1>1, <1>2 DEF CommitFailed, Writes, Moved, IInv, TypeOK, Row
<1> QED
  BY <1>1, <1>2, <1>3, <1>4, <1>5, <1>6

LEMMA StuckKeepsImports ==
    ASSUME IInv, StuckCheck PROVE ImportsKept /\ tasks' = tasks
<1>1. CASE (\E old \in SUBSET Ids : StuckRead(old)) \/ StuckRelease
  BY <1>1 DEF StuckRead, StuckRelease, ImportsKept, dbVars, taskVars
<1>2. CASE StuckCommit
  BY <1>2, StuckFailedRows DEF StuckCommit, ImportsKept, taskVars
<1> QED
  BY <1>1, <1>2 DEF StuckCheck

LEMMA KeepImportedStep ==
    ASSUME IInv, Next, NEW d \in Ids, dl[d].status = "PROCESSED", dl'[d] # dl[d]
    PROVE  UNCHANGED workerVars
<1>1. CASE PostProcessing
  <2>1. ~ImportsKept
    BY DEF ImportsKept
  <2>2. ~Advance /\ ~QueryQbit /\ ~AdvanceRaises /\ ~Select /\ ~Filter
    BY <2>1, AdvanceKeepsImports, ReadingKeepsImports DEF QueryQbit, AdvanceRaises, dbVars
  <2>3. Finalize
    BY <1>1, <2>2 DEF PostProcessing
  <2>4. CommitProcessed \/ CommitFailed
    BY <2>3 DEF Finalize, CopyFile, FinalizeRaises, dbVars
  <2> QED
    BY <2>4, ImportStep
<1>2. CASE StuckCheck
  BY <1>2, StuckKeepsImports DEF ImportsKept
<1>3. CASE \E c \in Clients : Requests(c)
  BY <1>3, RequestsImportNothing
<1>4. CASE \E t \in Torrents : QbitMoves(t)
  BY <1>4 DEF QbitMoves, dbVars
<1>5. CASE Stop
  BY <1>5, StopKeepsImports DEF ImportsKept
<1> QED
  BY <1>1, <1>2, <1>3, <1>4, <1>5 DEF Next

\* No pass, import or stuck_check moves a row that is PROCESSED, although none of
\* their updates but one looks at the status the row has when it is written.
THEOREM ImportedIsKept == Spec => WorkersKeepImported
<1>1. IInv /\ [Next]_vars =>
        [\A d \in Ids : dl[d].status = "PROCESSED" /\ dl'[d] # dl[d] => UNCHANGED workerVars]_vars
  BY KeepImportedStep
<1> QED
  BY <1>1, Invariance, PTL DEF Spec, WorkersKeepImported

Imported == {d \in Ids : dl[d].status = "PROCESSED"}

LEMMA ClaimsStep == IInv /\ [Next]_vars => [Claims!ClaimsNext]_(Claims!claimVars)
<1> SUFFICES ASSUME IInv, [Next]_vars, ~UNCHANGED <<Imported, tasks>>
             PROVE  Claims!ClaimsNext
  BY DEF Claims!claimVars, Imported
<1> USE DEF Claims!ClaimsNext, Claims!Claim, Claims!Import, Claims!GiveUp, Claims!Withdraw
<1>0. /\ Imported \in SUBSET Ids /\ tasks \in SUBSET Ids
      /\ ImportsKept => Imported' = Imported
  BY DEF Imported, ImportsKept, IInv, TypeOK
<1>1. CASE AdvanceDownloaded
  <2>1. PICK ok \in SUBSET Attempts :
           /\ dl' = Advanced(snap, ok)
           /\ (ok = {} /\ RunEnds) \/ tasks' = {x.id : x \in ok}
    BY <1>1 DEF AdvanceDownloaded, Writes
  <2>2. phase = "downloaded" /\ pc = "apply" /\ tasks = {}
    BY <1>1 DEF AdvanceDownloaded, IInv, Locking
  <2>3. Imported' = Imported
    BY <1>0, <1>1, AdvanceKeepsImports DEF Advance
  <2>4. tasks' = {x.id : x \in ok}
    BY <2>1 DEF RunEnds
  <2>5. tasks' \in SUBSET Ids /\ tasks' \cap Imported = {}
    BY <2>1, <2>2, <2>4, QueuedRows DEF Imported
  <2> QED
    BY <2>2, <2>3, <2>5 DEF Imported
<1>2. CASE CommitProcessed
  <2>1. cur \in Ids /\ cur \in tasks /\ tasks' = tasks \ {cur} /\ Imported' = Imported \union {cur}
    BY <1>2, ImportStep DEF Imported
  <2> QED
    BY <2>1 DEF Imported
<1>3. CASE CommitFailed
  <2>1. cur \in Ids /\ tasks' = tasks \ {cur} /\ Imported' = Imported
    BY <1>3, ImportStep DEF Imported
  <2> QED
    BY <2>1 DEF Imported
<1>4. CASE FinalizeRaises \/ AdvanceRaises \/ Stop
  <2>1. tasks' = {} /\ Imported' = Imported
    BY <1>0, <1>4, StopKeepsImports DEF FinalizeRaises, AdvanceRaises, RunEnds, dbVars, Imported
  <2>2. tasks' = tasks \ tasks
    BY <2>1
  <2> QED
    BY <1>0, <2>1, <2>2 DEF Imported
<1>5. CASE \E c \in Clients : Requests(c)
  <2>1. tasks' = tasks /\ Imported' \subseteq Imported
    BY <1>5, RequestsImportNothing DEF workerVars, taskVars, Imported
  <2>2. Imported' = Imported \ (Imported \ Imported') /\ Imported \ Imported' \in SUBSET Ids
    BY <1>0, <2>1
  <2> QED
    BY <2>1, <2>2 DEF Imported
<1>6. CASE StuckCheck
  <2>1. ImportsKept /\ tasks' = tasks
    BY <1>6, StuckKeepsImports
  <2> QED
    BY <1>0, <2>1
<1>7. CASE Select \/ Filter \/ AdvancePreDownloading \/ AdvanceDownloading
  <2>1. ImportsKept /\ tasks' = tasks
    BY <1>7, ReadingKeepsImports, AdvanceKeepsImports
       DEF Advance, AdvancePreDownloading, AdvanceDownloading, PhaseEnds, taskVars
  <2> QED
    BY <1>0, <2>1
<1>8. CASE QueryQbit \/ (\E d \in tasks : CopyFile(d)) \/ (\E t \in Torrents : QbitMoves(t))
           \/ UNCHANGED vars
  <2>1. dl' = dl /\ tasks' = tasks
    BY <1>8 DEF QueryQbit, CopyFile, QbitMoves, vars, dbVars, workerVars, taskVars
  <2> QED
    BY <2>1 DEF Imported
<1> QED
  BY <1>1, <1>2, <1>3, <1>4, <1>5, <1>6, <1>7, <1>8
     DEF Next, PostProcessing, Advance, Finalize

\* The workers and the requests, with everything the code reads, waits for and
\* writes, implement ImportClaims: its Claim is the queueing of the import tasks,
\* its Import the update to PROCESSED, its Withdraw a request's commit.
THEOREM Implementation == Spec => ImportsAreClaimed
<1>1. Init => Claims!ClaimsInit
  BY DEF Init, Claims!ClaimsInit, NoRow
<1> QED
  BY <1>1, ClaimsStep, Invariance, PTL DEF Spec, ImportsAreClaimed, Claims!ClaimsSpec

\* What ImportClaims promises, read back: no row that counts as imported has an
\* import queued or running, so that none is imported twice without a request in
\* between (initiate_download_processing, _finalize_download_processing).
THEOREM NoneImportedTwice == Spec => [](Claims!ClaimsTypeOK /\ Claims!ClaimsDisjoint)
<1> DEFINE Promised == Claims!ClaimsTypeOK /\ Claims!ClaimsDisjoint
<1>1. Claims!ClaimsInit => Promised
  BY DEF Claims!ClaimsInit, Claims!ClaimsTypeOK, Claims!ClaimsDisjoint
<1>2. Promised /\ [Claims!ClaimsNext]_(Claims!claimVars) => Promised'
  BY DEF Claims!ClaimsTypeOK, Claims!ClaimsDisjoint, Claims!claimVars, Claims!ClaimsNext,
         Claims!Claim, Claims!Import, Claims!GiveUp, Claims!Withdraw
<1> QED
  BY <1>1, <1>2, Implementation, PTL DEF ImportsAreClaimed, Claims!ClaimsSpec

-----------------------------------------------------------------------------
\* Supersession.

\* _filter_out_and_update_superseded_downloads keeps the latest of a space, whatever
\* commits between its queries: what is dropped has a newer row that is not and that
\* only a request withdraws, and of two rows of one space, neither overridden, the
\* import phase reaches at most one.
THEOREM SupersessionKeepsOne == Spec => []SupersessionPicksOne
<1>1. ASSUME IInv, phase = "downloaded",
             NEW x \in snap, NEW y \in snap, Newer(y.id, x.id),
             SameSpace(x.torrent, y.torrent), ~x.override
      PROVE  ~Reaches(y)
  <2>1. dl[y.id].status \in Requested
    BY <1>1 DEF IInv, Superseding, InHand
  <2> QED
    BY <1>1, <2>1 DEF Reaches, Requested
<1>2. ASSUME IInv, phase = "downloaded",
             NEW x \in snap, NEW y \in snap, x.id # y.id,
             SameSpace(x.torrent, y.torrent), ~x.override, ~y.override
      PROVE  ~(Reaches(x) /\ Reaches(y))
  <2>1. Newer(x.id, y.id) \/ Newer(y.id, x.id)
    BY <1>2, InHandSound, NewerOrder DEF InHand
  <2> QED
    BY <1>1, <1>2, <2>1, SameSpaceOrder
<1>3. IInv => SupersessionPicksOne
  BY <1>2 DEF IInv, Superseding, SupersessionPicksOne
<1> QED
  BY <1>3, Invariance, PTL

=============================================================================
