---------------------------- MODULE LibraryFiles ----------------------------
(***************************************************************************)
(* The files of one episode in the library: what the imports of its        *)
(* releases copy, remove and rename there, one import after the other,     *)
(* while requests delete a release or ask for it again. DownloadLifecycle  *)
(* has the rows and says nothing of files; here a row has only what        *)
(* decides where its video lies.                                           *)
(*                                                                         *)
(* A release is named after its place in the order of creation. It has     *)
(* always the same name in the library: the stem that the settings form of *)
(* it, and the suffix of its container.                                    *)
(***************************************************************************)
EXTENDS Integers, FiniteSets, SequencesExt

CONSTANTS
    Releases,    \* 1..n, in the order in which their rows were created
    Name(_),     \* the place in the library: <<stem, suffix>>
    MaxAsked,    \* bound: requests
    MaxFailures, \* bound: imports that fail
    MaxHalts     \* bound: stops of the program

ASSUME LibraryAssumption ==
    /\ IsFiniteSet(Releases) /\ Releases = 1..Cardinality(Releases)
    /\ \A r \in Releases : Name(r) = <<Name(r)[1], Name(r)[2]>>

VARIABLES
    row,    \* what the table of downloads holds of a release
    disk,   \* what lies at a place: a video of a release, whole or cut short
    tasks,  \* the imports of one run of the worker that are left, the current one first
    step,   \* where the current import is
    left,   \* the files it has still to sweep
    intact, \* no request removed its file
    asked, failures, halts

libraryVars == <<row, disk, tasks, step, left, intact, asked, failures, halts>>

Stems  == {Name(r)[1] : r \in Releases}
Places == Stems \X {Name(r)[2] : r \in Releases}
NoVideo == [of |-> 0, whole |-> FALSE]
Whole(r) == [of |-> r, whole |-> TRUE]
CutShort(r) == [of |-> r, whole |-> FALSE]

LibraryStatus == {"absent", "downloading", "downloaded", "processing", "processed", "failed", "discarded", "gone"}

LibraryInit ==
    /\ row = [r \in Releases |-> [status |-> "absent", placed |-> FALSE, override |-> FALSE]]
    /\ disk = [p \in Places |-> NoVideo]
    /\ tasks = <<>> /\ step = "rest" /\ left = {} /\ intact = TRUE
    /\ asked = 0 /\ failures = 0 /\ halts = 0

Current == Head(tasks).of
Target  == Name(Current)

\* An import holds its own row from the update of it to its end.
Free(r) == step \in {"sweep", "swept"} => r # Current

SetStatus(S, status) == row' = [r \in Releases |->
    IF r \in S THEN [row[r] EXCEPT !.status = status] ELSE row[r]]

\* The row counts as imported whatever became of it meanwhile.
Imported == SetStatus({Current} \intersect {r \in Releases : row[r].status # "gone"}, "processed")

Counting == UNCHANGED <<asked, failures, halts>>

-----------------------------------------------------------------------------
\* The rows are created in their order, and the downloads finish in any order.
Create(r) ==
    /\ row[r].status = "absent"
    /\ \A o \in 1..(r - 1) : row[o].status # "absent"
    /\ SetStatus({r}, "downloading")
    /\ UNCHANGED <<disk, tasks, step, left, intact>> /\ Counting

Arrive(r) ==
    /\ row[r].status = "downloading" /\ Free(r)
    /\ SetStatus({r}, "downloaded")
    /\ UNCHANGED <<disk, tasks, step, left, intact>> /\ Counting

\* _filter_out_and_update_superseded_downloads
Superseded(r) == ~row[r].override /\ \E n \in Releases :
    n > r /\ row[n].status \notin {"absent", "discarded", "gone"}

\* _get_existing_processed_file_paths
Existing == {Name(r) : r \in {p \in Releases : row[p].status = "processed" /\ row[p].placed}}

\* initiate_download_processing: what the task of an import takes along.
Prepared(r) == [of |-> r, existing |-> Existing]

\* advance_downloads_in_downloaded_status: every import learns here what it
\* will sweep, before the first of them copies. One that cannot be prepared (no
\* video, no data of TVDB) has failed.
Initiate ==
    LET due     == {r \in Releases : row[r].status \in {"downloaded", "failed"}}
        dropped == {r \in due : Superseded(r)}
    IN  /\ tasks = <<>> /\ step = "rest" /\ due # {}
        /\ \E begun \in SUBSET (due \ dropped) :
            LET broken == (due \ dropped) \ begun
            IN  /\ failures' = failures + Cardinality(broken) /\ failures' <= MaxFailures
                /\ row' = [r \in Releases |->
                    CASE r \in dropped -> [row[r] EXCEPT !.status = "discarded"]
                      [] r \in broken  -> [row[r] EXCEPT !.status = "failed"]
                      [] r \in begun   -> [row[r] EXCEPT !.status = "processing", !.placed = TRUE]
                      [] OTHER         -> row[r]]
                /\ \E order \in SetToSeqs(begun) :
                    tasks' = [i \in DOMAIN order |-> Prepared(order[i])]
        /\ UNCHANGED <<disk, step, left, intact, asked, halts>>

\* _copy_file opens the target, which loses what it held.
CopyBegins ==
    /\ tasks # <<>> /\ step = "rest"
    /\ disk' = [disk EXCEPT ![Target] = CutShort(Current)]
    /\ step' = "copy" /\ intact' = TRUE
    /\ UNCHANGED <<row, tasks, left>> /\ Counting

\* The copy breaks off, or does not begin: the row takes the failure only if it
\* is still being processed.
CopyFails ==
    /\ tasks # <<>> /\ step \in {"rest", "copy"} /\ failures < MaxFailures
    /\ SetStatus({Current} \intersect {r \in Releases : row[r].status = "processing"}, "failed")
    /\ tasks' = Tail(tasks) /\ step' = "rest" /\ failures' = failures + 1
    /\ UNCHANGED <<disk, left, intact, asked, halts>>

\* A file that was removed while it was written does not come back.
CopyEnds ==
    /\ step = "copy"
    /\ disk' = IF intact THEN [disk EXCEPT ![Target] = Whole(Current)] ELSE disk
    /\ step' = "sweep" /\ left' = Head(tasks).existing
    /\ UNCHANGED <<row, tasks, intact>> /\ Counting

\* A slip: the new video is not spared.
SweptAll(old, new) == [p \in Places |-> IF p = old THEN NoVideo ELSE disk[p]]

\* _replace_existing_files for one file: whatever has its stem goes, or takes
\* the new stem and keeps its suffix.
Swept(old, new) == [p \in Places |->
    LET named == <<old[1], p[2]>>
    IN  IF p[1] = old[1] /\ p # new /\ (p = old \/ old[1] # new[1]) THEN NoVideo
        ELSE IF p[1] = new[1] /\ old[1] # new[1] /\ named # old /\ disk[named] # NoVideo
        THEN disk[named]
        ELSE disk[p]]

SweepOne ==
    /\ step = "sweep"
    /\ \E old \in left :
        /\ disk' = Swept(old, Target)
        /\ left' = left \ {old}
    /\ UNCHANGED <<row, tasks, step, intact>> /\ Counting

SweepEnds ==
    /\ step = "sweep" /\ left = {}
    /\ step' = "swept"
    /\ UNCHANGED <<row, disk, tasks, left, intact>> /\ Counting

ImportEnds ==
    /\ step = "swept" /\ Imported
    /\ tasks' = Tail(tasks) /\ step' = "rest"
    /\ UNCHANGED <<disk, left, intact>> /\ Counting

-----------------------------------------------------------------------------
\* delete_download: it unlinks the file, if it is to, before it waits for the
\* database, and then deletes the row.
DeleteFile(r) ==
    /\ row[r].status # "gone" /\ row[r].placed /\ asked < MaxAsked
    /\ disk' = [disk EXCEPT ![Name(r)] = NoVideo]
    /\ intact' = (intact /\ (tasks # <<>> => Target # Name(r)))
    /\ asked' = asked + 1
    /\ UNCHANGED <<row, tasks, step, left, failures, halts>>

DeleteRow(r) ==
    /\ row[r].status \notin {"absent", "gone"} /\ Free(r) /\ asked < MaxAsked
    /\ SetStatus({r}, "gone")
    /\ asked' = asked + 1
    /\ UNCHANGED <<disk, tasks, step, left, intact, failures, halts>>

\* override_torrent: the row goes through everything once more, PENDING first.
AskAgain(r) ==
    /\ row[r].status \notin {"absent", "gone"} /\ Free(r) /\ asked < MaxAsked
    /\ row' = [row EXCEPT ![r] = [status |-> "downloading", placed |-> FALSE, override |-> TRUE]]
    /\ asked' = asked + 1
    /\ UNCHANGED <<disk, tasks, step, left, intact, failures, halts>>

\* The imports of the run are forgotten, and what the current one did to its
\* row, unless it is cancelled after the update: require_db_session commits.
Halt ==
    /\ tasks # <<>> /\ halts < MaxHalts
    /\ \/ UNCHANGED row
       \/ step \in {"sweep", "swept"} /\ Imported
    /\ tasks' = <<>> /\ step' = "rest" /\ left' = {} /\ halts' = halts + 1
    /\ UNCHANGED <<disk, intact, asked, failures>>

\* mark_stuck_downloads_as_failed cannot run beside the imports.
FreeStuck ==
    LET stuck == {r \in Releases : row[r].status = "processing"}
    IN  /\ tasks = <<>> /\ stuck # {}
        /\ SetStatus(stuck, "failed")
        /\ UNCHANGED <<disk, tasks, step, left, intact>> /\ Counting

LibraryNext ==
    \/ \E r \in Releases :
        Create(r) \/ Arrive(r) \/ DeleteFile(r) \/ DeleteRow(r) \/ AskAgain(r)
    \/ Initiate \/ CopyBegins \/ CopyFails \/ CopyEnds \/ SweepOne \/ SweepEnds \/ ImportEnds
    \/ Halt \/ FreeStuck

LibrarySpec == LibraryInit /\ [][LibraryNext]_libraryVars

-----------------------------------------------------------------------------
LibraryTypeOK ==
    /\ row \in [Releases -> [status : LibraryStatus, placed : BOOLEAN, override : BOOLEAN]]
    /\ disk \in [Places -> [of : Releases \union {0}, whole : BOOLEAN]]
    /\ step \in {"rest", "copy", "sweep", "swept"} /\ left \subseteq Places

\* Once an import has swept what it replaces, its own video lies whole at its
\* place, unless a request removed it: no order of imports, of failed and
\* repeated ones and of stops in between makes the sweep destroy the file the
\* import has just copied.
NewVideoStays == step = "swept" /\ intact => disk[Target] = Whole(Current)

=============================================================================
