----------------------------- MODULE StatusStream -----------------------------
(***************************************************************************)
(* What open pages learn of the program. A page keeps a connection to a    *)
(* stream, whose server polls and sends only what differs from the poll    *)
(* before; the page lays it over what it has. Of large data a stream sends *)
(* when they last changed, and the page fetches them again. Unread         *)
(* notifications are counted when a flag says that the number in memory is *)
(* out of date. Flag and time are set by what a transaction does after its *)
(* commit.                                                                 *)
(*                                                                         *)
(* Two streams are looked at: /status/stream, with one kind of data for    *)
(* all, and /downloads/updates/stream. Left out: the number of a frame     *)
(* (ref) and the limit of 100 notifications.                               *)
(***************************************************************************)
EXTENDS Naturals, FiniteSets

CONSTANTS
    Pages,     \* connections to /status/stream
    Writers,   \* transactions that can be open at one time
    Watched,   \* the downloads a page asks to be told about
    MaxWrites, \* bound: transactions and connections
    MaxMoves   \* bound: changes of downloads

VARIABLES
    data, unread, snoozed,  \* committed: versions of the data; notifications in force, and to come
    stamp, count, stale,    \* GlobalStatus: ..._last_updated, unread_notification_count, ..._stale
    write,                  \* the transactions
    page,                   \* connections to /status/stream
    missed,                 \* for the property only, like page[p].late: counted too early
    status, watch,          \* downloads, and the connection that follows them
    writes, moves

statusVars == <<data, unread, snoozed, stamp, count, stale, write, page, missed, writes>>
watchVars  == <<status, watch, moves>>
streamVars == <<statusVars, watchVars>>

NoFrame == <<>>
NoWrite == [pc |-> "none", kind |-> "none", stamp |-> 0]
Closed  == [pc |-> "closed", value |-> 0, late |-> FALSE,
            previous |-> NoFrame, shown |-> NoFrame, have |-> 0, due |-> FALSE]

Finished == {"processed", "deleted"}

StatusInit ==
    /\ data = 0 /\ unread = 0 /\ snoozed = 0
    /\ stamp = 0 /\ count = 0 /\ stale = TRUE
    /\ write = [w \in Writers |-> NoWrite]
    /\ page \in [Pages -> {Closed, [Closed EXCEPT !.pc = "poll"]}] /\ missed = FALSE
    /\ writes = 0

WatchInit ==
    /\ status = [d \in Watched |-> "downloading"]
    /\ watch = [pc |-> "poll", asked |-> Watched, previous |-> NoFrame, shown |-> NoFrame]
    /\ moves = 0

-----------------------------------------------------------------------------
\* Transactions.

\* settings_updated, anime_list_refreshed, ... take the time when they are
\* called, and leave it to be set after the commit; notifications_updated the flag.
Write(w, kind) ==
    /\ write[w].pc = "none" /\ writes < MaxWrites /\ writes' = writes + 1
    /\ write' = [write EXCEPT ![w] = [pc |-> "open", kind |-> kind, stamp |-> writes + 1]]
    /\ UNCHANGED <<data, unread, snoozed, stamp, count, stale, page, missed, watchVars>>

Commits(w) ==
    /\ write[w].pc = "open"
    /\ data' = IF write[w].kind = "data" THEN data + 1 ELSE data
    /\ unread' = CASE write[w].kind = "notify" -> unread + 1
                   [] write[w].kind = "snooze" /\ unread > 0 -> unread - 1
                   [] write[w].kind = "read" -> 0
                   [] OTHER -> unread
    /\ snoozed' = IF write[w].kind = "snooze" /\ unread > 0 THEN snoozed + 1 ELSE snoozed
    /\ write' = [write EXCEPT ![w].pc = "committed"]
    /\ UNCHANGED <<stamp, count, stale, page, missed, writes, watchVars>>

RollsBack(w) ==
    /\ write[w].pc = "open"
    /\ write' = [write EXCEPT ![w] = NoWrite]
    /\ UNCHANGED <<data, unread, snoozed, stamp, count, stale, page, missed, writes, watchVars>>

\* Whoever is counting has read the notifications before.
Overtaken == [p \in Pages |-> [page[p] EXCEPT !.late = (page[p].pc = "count")]]

\* execute_post_commit_actions
AfterCommit(w) ==
    /\ write[w].pc = "committed"
    /\ stamp' = IF write[w].kind = "data" THEN write[w].stamp ELSE stamp
    /\ stale' = (stale \/ write[w].kind # "data")
    /\ page' = IF write[w].kind = "data" THEN page ELSE Overtaken
    /\ write' = [write EXCEPT ![w] = NoWrite]
    /\ UNCHANGED <<data, unread, snoozed, count, missed, writes, watchVars>>

\* The time of a snoozed notification comes, and nobody sets the flag.
SnoozeEnds ==
    /\ snoozed > 0 /\ snoozed' = snoozed - 1 /\ unread' = unread + 1
    /\ missed' = TRUE /\ page' = Overtaken
    /\ UNCHANGED <<data, stamp, count, stale, write, writes, watchVars>>

-----------------------------------------------------------------------------
\* A connection to /status/stream.

Connect(p) ==
    /\ page[p].pc = "closed" /\ writes < MaxWrites /\ writes' = writes + 1
    /\ page' = [page EXCEPT ![p] = [Closed EXCEPT !.pc = "poll"]]
    /\ UNCHANGED <<data, unread, snoozed, stamp, count, stale, write, missed, watchVars>>

\* The page is left, or a poll fails.
Disconnect(p) ==
    /\ page[p].pc # "closed"
    /\ page' = [page EXCEPT ![p] = Closed]
    /\ UNCHANGED <<data, unread, snoozed, stamp, count, stale, write, missed, writes, watchVars>>

\* A slip: what is zero is left out like what has no value.
UnchangedOrZero(previous, current) ==
    {f \in DOMAIN current : \/ f \in DOMAIN previous /\ previous[f] = current[f]
                            \/ f \in {"notif", "updated"} /\ current[f] = 0}

\* _nullify_unchanged: the fields that are not sent.
Unchanged(previous, current) ==
    {f \in DOMAIN current : f \in DOMAIN previous /\ previous[f] = current[f]}

Changed(previous, current) ==
    [f \in DOMAIN current \ Unchanged(previous, current) |-> current[f]]

\* A page lays what it is sent over what it has.
Over(sent, shown) ==
    [f \in DOMAIN sent \union DOMAIN shown |-> IF f \in DOMAIN sent THEN sent[f] ELSE shown[f]]

\* get_status_stream_data
Frame(number) == [notif |-> number, updated |-> stamp]

\* minimal_polling_sse, at a page that fetches what has another time than it knew.
Sent(c, number) ==
    LET current == Frame(number)
        sent    == Changed(c.previous, current)
    IN  [c EXCEPT !.pc = "poll", !.value = 0, !.late = FALSE,
                  !.previous = current, !.shown = Over(sent, @),
                  !.due = @ \/ "updated" \in DOMAIN sent]

\* get_status: the notifications are read if the flag is set.
Poll(p) ==
    /\ page[p].pc = "poll"
    /\ page' = [page EXCEPT ![p] = IF stale
                                   THEN [@ EXCEPT !.pc = "count", !.value = unread]
                                   ELSE Sent(@, count)]
    /\ UNCHANGED <<data, unread, snoozed, stamp, count, stale, write, missed, writes, watchVars>>

\* ... and counted, and the flag is taken down.
CountUnread(p) ==
    /\ page[p].pc = "count"
    /\ count' = page[p].value /\ stale' = FALSE /\ missed' = page[p].late
    /\ page' = [page EXCEPT ![p] = Sent(@, page[p].value)]
    /\ UNCHANGED <<data, unread, snoozed, stamp, write, writes, watchVars>>

\* Any request that reads the data.
Fetch(p) ==
    /\ page[p].due
    /\ page' = [page EXCEPT ![p].have = data, ![p].due = FALSE]
    /\ UNCHANGED <<data, unread, snoozed, stamp, count, stale, write, missed, writes, watchVars>>

-----------------------------------------------------------------------------
\* The connection to /downloads/updates/stream.

\* Workers and requests; a row that is deleted does not come back.
MoveDownload(d) ==
    /\ status[d] # "deleted" /\ moves < MaxMoves /\ moves' = moves + 1
    /\ \E new \in {"downloading", "failed", "processed", "deleted"} \ {status[d]} :
            status' = [status EXCEPT ![d] = new]
    /\ UNCHANGED <<watch, statusVars>>

\* get_download_updates_stream: what is imported or gone is told once more, and
\* not asked for again. The stream ends when nothing is left to ask for.
SendDownloads ==
    /\ watch.pc = "poll"
    /\ LET current == [d \in watch.asked |-> status[d]]
           left    == {d \in watch.asked : status[d] \notin Finished}
       IN  watch' = [pc |-> IF left = {} THEN "closed" ELSE "poll", asked |-> left,
                     previous |-> current,
                     shown |-> Over(Changed(watch.previous, current), watch.shown)]
    /\ UNCHANGED <<status, moves, statusVars>>

StatusNext ==
    \/ \E w \in Writers :
        \/ \E kind \in {"data", "notify", "snooze", "read"} : Write(w, kind)
        \/ Commits(w) \/ RollsBack(w) \/ AfterCommit(w)
    \/ SnoozeEnds
    \/ \E p \in Pages : Connect(p) \/ Disconnect(p) \/ Poll(p) \/ CountUnread(p) \/ Fetch(p)

WatchNext == SendDownloads \/ \E d \in Watched : MoveDownload(d)

\* What a transaction leaves for after its commit is done; a connection that is
\* open polls every few seconds; a page fetches what it shows.
StreamFairness ==
    /\ \A w \in Writers : WF_streamVars(AfterCommit(w))
    /\ \A p \in Pages : WF_streamVars(Poll(p) \/ CountUnread(p))
                        /\ WF_streamVars(Fetch(p))
    /\ WF_streamVars(SendDownloads)

-----------------------------------------------------------------------------
IsUpToDate(p) ==
    /\ page[p].have = data
    /\ missed \/ ("notif" \in DOMAIN page[p].shown /\ page[p].shown.notif = unread)

IsFollowed(d) ==
    /\ d \in DOMAIN watch.shown
    /\ watch.shown[d] = status[d] \/ (d \notin watch.asked /\ watch.shown[d] \in Finished)

\* In the end every open page shows the data that are committed, and every
\* download it follows as it is, or as it was when it was imported or deleted,
\* whatever transactions, polls and fetches overlapped. It also shows the number
\* of unread notifications, unless a change set the flag while somebody was
\* counting, or a snooze has ended since.
PagesCatchUp ==
    <>[](/\ \A p \in Pages : page[p].pc # "closed" => IsUpToDate(p)
         /\ \A d \in Watched : IsFollowed(d))
=============================================================================
