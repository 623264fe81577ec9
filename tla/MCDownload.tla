----------------------------- MODULE MCDownload -----------------------------
(***************************************************************************)
(* Instances of DownloadLifecycle for TLC.                                 *)
(***************************************************************************)
EXTENDS DownloadLifecycle, TLC

CONSTANTS t1, t2, c1, c2

AllKinds == {"select", "identify", "retry", "discard", "delete", "override"}

\* Two releases of one episode, inserted within the same second.
TwoReleases  == {t1, t2}
OneEpisode   == [t \in Torrents |-> 1]
WholeEpisode == [t \in Torrents |-> 0]
OneRelease   == {t1}
SameSecond   == [d \in 1..MaxId |-> 1]

\* The two releases and the two requests are told apart by nothing else.
Interchangeable == Permutations(Torrents) \union Permutations(Clients)

\* ... or in different seconds.
TwoSeconds   == [d \in 1..MaxId |-> d]

\* The process has stopped and starts on what is left: two finished releases of the
\* episode, the older one of which may have failed to be imported; one more request
\* is made. (The other rows that this start could find come about in the run.)
Restarted ==
    /\ \E t, u \in Torrents : \E s \in {"DOWNLOADED", "FAILED_PROCESSING"} :
          /\ t # u
          /\ dl = <<[torrent |-> t, status |-> s, retry |-> 0],
                    [torrent |-> u, status |-> "DOWNLOADED", retry |-> 0]>>
    /\ nextId = 3
    /\ override = [t \in Torrents |-> FALSE]
    /\ discarded = [t \in Torrents |-> FALSE]
    /\ qbit = [t \in Torrents |-> "complete"]
    /\ lock = "free" /\ pc = "idle" /\ phase = "pre"
    /\ list = {} /\ snap = {} /\ sup = {} /\ tasks = {} /\ cur = 0 /\ stuck = {}
    /\ req = [c \in Clients |-> NoRequest]
    /\ requests = MaxRequests - 1 /\ restarts = MaxRestarts

Starts == (Init \/ Restarted) /\ [][Next]_vars

=============================================================================
