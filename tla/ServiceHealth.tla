----------------------------- MODULE ServiceHealth -----------------------------
(***************************************************************************)
(* What the program knows about the services it depends on, and the        *)
(* notifications it makes of it. The periodic poll and the checks that     *)
(* requests start change the same status objects; notifications of outages *)
(* and of downloads given up are produced, read by users, and retracted    *)
(* by a worker once they no longer hold.                                   *)
(***************************************************************************)
EXTENDS Naturals, Sequences, FiniteSets

CONSTANTS
    Services,   \* the services, in the order they are checked: a sequence
    AskedUnset, \* those that are asked even when not configured
    Faults,     \* what a failing service answers
    FaultLevel(_), \* error_level of an answer
    Failures,   \* the statuses in which a download is given up
    MaxNotes,   \* bound: notifications
    MaxChanges  \* bound: changes of services, settings and downloads, and checks on request

Service == {Services[i] : i \in DOMAIN Services}
Checkers == {"poll", "request"}

ASSUME HealthAssumption ==
    Services \in Seq(Service) /\ "download" \notin Service /\ MaxNotes \in Nat

VARIABLES
    answer,   \* what each service would answer
    isset,    \* the services that are configured
    status,   \* the ServiceStatus objects
    checker,  \* the checks in flight
    download, \* the status of a download whose retries are spent
    notes,    \* the rows of notification
    retract,  \* what retract_stale_notifications has read
    produce,  \* what produce_download_error_notifications is about to insert
    changes

healthVars == <<answer, isset, status, checker, download, notes, retract, produce, changes>>

NotChecking == [pc |-> "idle", left |-> <<>>, old |-> <<>>, pending |-> <<>>]

HealthInit ==
    /\ answer = [s \in Service |-> "ok"] /\ isset = Service
    /\ status = [s \in Service |-> "ok"]
    /\ checker = [c \in Checkers |-> NotChecking]
    /\ download = "fine"
    /\ notes = <<>> /\ retract = {} /\ produce = <<>>
    /\ changes = 0

\* (healthy, error_level) of a status.
Level(x) == IF x \in Faults THEN FaultLevel(x) ELSE x

Note(about, reason) == [about |-> about, reason |-> reason, status |-> "UNREAD"]

Go(c, new) == checker' = [checker EXCEPT ![c] = new]

-----------------------------------------------------------------------------
\* poll_downstream_status keeps a copy of every status, then checks all services
\* or the one a request names (force_check).
Begin(c, list) ==
    /\ checker[c].pc = "idle"
    /\ Go(c, [NotChecking EXCEPT !.pc = "check", !.left = list, !.old = status])
    /\ UNCHANGED <<answer, isset, status, download, notes, retract, produce>>

Poll == Begin("poll", Services) /\ UNCHANGED changes

ForceCheck(s) ==
    /\ changes < MaxChanges /\ changes' = changes + 1
    /\ Begin("request", <<s>>)

\* What is not configured is not asked, or asked all the same (AniList).
Ask(c) ==
    /\ checker[c].pc = "check" /\ checker[c].left # <<>>
    /\ LET s == Head(checker[c].left)
       IN  /\ status' = IF s \in isset THEN status ELSE [status EXCEPT ![s] = "unset"]
           /\ Go(c, IF s \in isset \union AskedUnset THEN [checker[c] EXCEPT !.pc = "wait"]
                    ELSE [checker[c] EXCEPT !.left = Tail(@)])
    /\ UNCHANGED <<answer, isset, download, notes, retract, produce, changes>>

\* A good answer of a service that was asked without being configured changes nothing.
Answered(c) ==
    /\ checker[c].pc = "wait"
    /\ LET s == Head(checker[c].left)
       IN  status' = IF answer[s] = "ok" /\ s \in AskedUnset \ isset THEN status
                     ELSE [status EXCEPT ![s] = answer[s]]
    /\ Go(c, [checker[c] EXCEPT !.pc = "check", !.left = Tail(@)])
    /\ UNCHANGED <<answer, isset, download, notes, retract, produce, changes>>

Checked(c) ==
    /\ checker[c].pc = "check" /\ checker[c].left = <<>>
    /\ Go(c, [checker[c] EXCEPT !.pc = "compare", !.left = Services])
    /\ UNCHANGED <<answer, isset, status, download, notes, retract, produce, changes>>

IsUnread(about, reason) ==
    \E i \in DOMAIN notes : notes[i] = Note(about, reason)

\* _handle_status_change_notifications compares each copy with the live object.
\* Only the poll notifies, and not what an unread notification says already.
Compare(c) ==
    /\ checker[c].pc = "compare" /\ checker[c].left # <<>>
    /\ LET s   == Head(checker[c].left)
           now == status[s]
       IN  Go(c, IF /\ c = "poll" /\ now \notin {"ok", "unset"}
                    /\ Level(now) # Level(checker[c].old[s]) /\ ~IsUnread(s, now)
                 THEN [checker[c] EXCEPT !.pc = "notify"]
                 ELSE [checker[c] EXCEPT !.left = Tail(@)])
    /\ UNCHANGED <<answer, isset, status, download, notes, retract, produce, changes>>

\* send_notification, after the query: what the object says now.
Notify(c) ==
    /\ checker[c].pc = "notify"
    /\ LET s == Head(checker[c].left)
       IN  Go(c, [checker[c] EXCEPT !.pc = "compare", !.left = Tail(@),
                                    !.pending = Append(@, Note(s, status[s]))])
    /\ UNCHANGED <<answer, isset, status, download, notes, retract, produce, changes>>

Committed(c) ==
    /\ checker[c].pc = "compare" /\ checker[c].left = <<>>
    /\ Len(notes \o checker[c].pending) <= MaxNotes
    /\ notes' = notes \o checker[c].pending
    /\ Go(c, NotChecking)
    /\ UNCHANGED <<answer, isset, status, download, retract, produce, changes>>

-----------------------------------------------------------------------------
\* produce_download_error_notifications: once for a download and a status.
FindGivenUp ==
    /\ produce = <<>> /\ download \in Failures
    /\ \A i \in DOMAIN notes : notes[i].about # "download" \/ notes[i].reason # download
    /\ produce' = <<Note("download", download)>>
    /\ UNCHANGED <<answer, isset, status, checker, download, notes, retract, changes>>

NotifyGivenUp ==
    /\ produce # <<>> /\ Len(notes \o produce) <= MaxNotes
    /\ notes' = notes \o produce /\ produce' = <<>>
    /\ UNCHANGED <<answer, isset, status, checker, download, retract, changes>>

-----------------------------------------------------------------------------
Now(about) == IF about = "download" THEN download ELSE status[about]

\* A slip: an outage ends only with the service healthy again.
OutdatedWhenHealthy(n) ==
    IF n.about = "download" THEN download # n.reason ELSE status[n.about] = "ok"

\* The service is healthy or fails for another reason; the download is gone or
\* has another status.
Outdated(n) == Now(n.about) # n.reason \/ Now(n.about) = "ok"

\* evaluate_notifications_staleness: the unread ones are read, then each is
\* judged by what holds then and written by its id.
ReadUnread ==
    /\ retract = {}
    /\ retract' = {i \in DOMAIN notes : notes[i].status = "UNREAD"} /\ retract' # {}
    /\ UNCHANGED <<answer, isset, status, checker, download, notes, produce, changes>>

Retract ==
    /\ retract # {}
    /\ notes' = [i \in DOMAIN notes |-> IF i \in retract /\ Outdated(notes[i])
                                        THEN [notes[i] EXCEPT !.status = "STALE"] ELSE notes[i]]
    /\ retract' = {}
    /\ UNCHANGED <<answer, isset, status, checker, download, produce, changes>>

\* mark_notification_as_read, _as_unread; mark_notifications_as_read.
Mark(i, new) ==
    /\ i \in DOMAIN notes
    /\ notes' = [notes EXCEPT ![i].status = new]
    /\ UNCHANGED <<answer, isset, status, checker, download, retract, produce, changes>>

MarkAllRead ==
    /\ notes' = [i \in DOMAIN notes |-> IF notes[i].status = "UNREAD"
                                        THEN [notes[i] EXCEPT !.status = "READ"] ELSE notes[i]]
    /\ UNCHANGED <<answer, isset, status, checker, download, retract, produce, changes>>

\* What happens elsewhere: services, settings, the life cycle of downloads.
Elsewhere ==
    /\ changes < MaxChanges /\ changes' = changes + 1
    /\ \/ \E s \in Service, x \in Faults \union {"ok"} :
            answer' = [answer EXCEPT ![s] = x] /\ UNCHANGED <<isset, download>>
       \/ \E s \in Service :
            isset' = (isset \union {s}) \ (isset \intersect {s}) /\ UNCHANGED <<answer, download>>
       \/ download' \in Failures \union {"fine"} /\ UNCHANGED <<answer, isset>>
    /\ UNCHANGED <<status, checker, notes, retract, produce>>

CheckStep(c) ==
    Ask(c) \/ Answered(c) \/ Checked(c) \/ Compare(c) \/ Notify(c) \/ Committed(c)

HealthNext ==
    \/ Poll \/ \E s \in Service : ForceCheck(s)
    \/ \E c \in Checkers : CheckStep(c)
    \/ FindGivenUp \/ NotifyGivenUp \/ ReadUnread \/ Retract
    \/ \E i \in DOMAIN notes, new \in {"READ", "UNREAD"} : Mark(i, new)
    \/ MarkAllRead \/ Elsewhere

\* The worker runs every thirty seconds.
HealthFairness == WF_healthVars(ReadUnread) /\ WF_healthVars(Retract)

-----------------------------------------------------------------------------
\* What is compared and notified is about services that exist, in this order.
HealthTypeOK ==
    /\ status \in [Service -> Faults \union {"ok", "unset"}]
    /\ \A c \in Checkers : Len(checker[c].left) <= Len(Services)
    /\ \A i \in DOMAIN notes : notes[i].about \in Service \union {"download"}
    /\ retract \subseteq DOMAIN notes
    /\ Len(notes) <= MaxNotes

StandsUnread(i) == i \in DOMAIN notes /\ notes[i].status = "UNREAD"

\* What a notification says is so.
Holds(n) == n.reason # "ok" /\ n.reason = Now(n.about)

\* No unread notification outlives what it says: once the service is up or fails
\* for another reason, or the download has moved on, the notification is
\* retracted or read, whatever checks were in flight and whoever marked it unread
\* again; also one that was made from a status changed since it was compared.
OutdatedIsRetracted ==
    \A i \in 1..MaxNotes : StandsUnread(i) ~> (StandsUnread(i) => Holds(notes[i]))
=============================================================================
