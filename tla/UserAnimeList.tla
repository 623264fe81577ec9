----------------------------- MODULE UserAnimeList -----------------------------
(***************************************************************************)
(* The user's list on AniList and its copy in anilist_list_item: the       *)
(* worker that refreshes the copy, and the requests that change the list,  *)
(* log in and log out. Every request and every refresh is one transaction; *)
(* a request to AniList takes effect when AniList handles it, whatever     *)
(* becomes of the transaction around it.                                   *)
(***************************************************************************)
EXTENDS Naturals, FiniteSets

CONSTANTS
    Users,    \* accounts on AniList
    NoUser,   \* logged out
    Shows,    \* anime
    Starting, \* the lists the accounts start with
    Wanted,   \* the statuses users set
    MaxEdits  \* bound: changes of the list, logins, logouts, requested refreshes and stops

Entries == {"absent", "planning", "current", "completed", "repeating"}

ASSUME ListAssumption ==
    /\ NoUser \notin Users /\ Starting \in [Users -> [Shows -> Entries]]
    /\ Wanted \subseteq Entries /\ MaxEdits \in Nat

Sessions == {"worker", "request"}

VARIABLES
    account,  \* anilist_user_token and anilist_username in memory
    saved,    \* their rows in settings
    remote,   \* the list of every account on AniList
    cached,   \* anilist_list_item
    session,  \* the transactions in flight
    edits

listVars == <<account, saved, remote, cached, session, edits>>

NoList == [a \in {} |-> "absent"]
Idle == [op |-> "none", pc |-> "idle", list |-> NoList, rows |-> {}, calls |-> {}]

ListInit ==
    /\ account \in Users \union {NoUser} /\ saved = account
    /\ remote = Starting
    /\ cached = [a \in Shows |-> IF account = NoUser THEN "absent" ELSE remote[account][a]]
    /\ session = [s \in Sessions |-> Idle]
    /\ edits = 0

\* The entries of the one, and the other's where the one has none.
With(new, old) ==
    [a \in DOMAIN new \union DOMAIN old |-> IF a \in DOMAIN new THEN new[a] ELSE old[a]]

Edit == edits < MaxEdits /\ edits' = edits + 1

Move(s, new) == session' = [session EXCEPT ![s] = new]

\* A slip: a transaction waits for the rows it reads only.
LockedNever(rows, s) == rows = {}

\* A transaction has written these rows and not committed yet.
Locked(rows, s) == \E t \in Sessions \ {s} : session[t].rows \intersect rows # {}

\* The row of ANILIST_USER_DATA, written by a login or logout that is not committed.
SettingsLocked(s) == \E t \in Sessions \ {s} : session[t].op \in {"login", "logout"}

\* A failed call, a lock timeout or a deadlock: the rows are as before, the
\* account in memory is not.
Rollback(s) ==
    /\ session[s].pc # "idle"
    /\ Move(s, Idle)
    /\ UNCHANGED <<account, saved, remote, cached, edits>>

-----------------------------------------------------------------------------
\* AniList answers with the list as it is now, and refuses to delete what it
\* does not hold.
ListOnAniList == remote[account]
RefusesToDelete(shows) == \E a \in shows : ListOnAniList[a] = "absent"

\* fetch_user_anime_list
Fetch(s) ==
    /\ session[s].pc = "fetch" \/ (s = "worker" /\ session[s].pc = "idle")
    /\ account # NoUser
    /\ Move(s, [session[s] EXCEPT !.pc = "fetched", !.list = ListOnAniList,
                                  !.op = IF @ = "none" THEN "refresh" ELSE @])
    /\ UNCHANGED <<account, saved, remote, cached, edits>>

\* A slip: an answer without entries deletes nothing.
TouchedKeepingAll(list) ==
    IF \A a \in Shows : list[a] = "absent" THEN {}
    ELSE {a \in Shows : list[a] # "absent" \/ cached[a] # "absent"}

\* The rows that delete_all (all but those in the list) and the upsert write; the
\* deletion scans the table and waits for every row another one has written.
Touched(list) == {a \in Shows : list[a] # "absent" \/ cached[a] # "absent"}

Replace(s) ==
    /\ session[s].pc = "fetched"
    /\ LET rows == Touched(session[s].list)
       IN  ~Locked(Shows, s) /\ Move(s, [session[s] EXCEPT !.pc = "replaced", !.rows = rows])
    /\ UNCHANGED <<account, saved, remote, cached, edits>>

\* get_user_data; whether it differs from what is in memory is left open.
UserData(s) ==
    /\ session[s].pc = "replaced" /\ account # NoUser
    /\ \E pc \in {"differs", "same"} : Move(s, [session[s] EXCEPT !.pc = pc])
    /\ UNCHANGED <<account, saved, remote, cached, edits>>

\* ANILIST_USER_DATA is written, and the transaction commits.
StoreList(s) ==
    /\ session[s].pc \in {"differs", "same"}
    /\ session[s].pc = "differs" => ~SettingsLocked(s)
    /\ cached' = [a \in Shows |-> IF a \in session[s].rows THEN session[s].list[a] ELSE cached[a]]
    /\ saved' = IF session[s].op = "login" THEN account ELSE saved
    /\ Move(s, Idle)
    /\ UNCHANGED <<account, remote, edits>>

-----------------------------------------------------------------------------
\* get_user_anime_list with force_fetch.
RequestRefresh ==
    /\ Edit /\ session["request"].pc = "idle" /\ account # NoUser
    /\ Move("request", [Idle EXCEPT !.op = "refresh", !.pc = "fetch"])
    /\ UNCHANGED <<account, saved, remote, cached>>

\* authenticate_anilist: memory changes at once, the rows with the commit; what
\* memory holds already is not written.
Login(u) ==
    /\ Edit /\ session["request"].pc = "idle"
    /\ account' = u
    /\ Move("request", [Idle EXCEPT !.op = IF u = account THEN "refresh" ELSE "login",
                                    !.pc = "fetch"])
    /\ UNCHANGED <<saved, remote, cached>>

Logout ==
    /\ Edit /\ session["request"].pc = "idle" /\ account # NoUser
    /\ account' = NoUser
    /\ Move("request", [Idle EXCEPT !.op = "logout", !.pc = "clear"])
    /\ UNCHANGED <<saved, remote, cached>>

Clear ==
    /\ session["request"].pc = "clear"
    /\ ~Locked(Shows, "request")
    /\ cached' = [a \in Shows |-> "absent"]
    /\ saved' = NoUser
    /\ Move("request", Idle)
    /\ UNCHANGED <<account, remote, edits>>

-----------------------------------------------------------------------------
\* The four kinds of calls a batch is split into, by the copy: a start date, a
\* date of completion, one more repetition, or the status alone.
Kind(old, new) ==
    CASE new = "current" /\ old = "planning" -> 1
      [] new = "completed" /\ old \in {"planning", "current"} -> 2
      [] new = "completed" /\ old = "repeating" -> 4
      [] OTHER -> 3

\* update_user_list_entry is one call; update_user_list_entries one for each
\* kind, all decided on before the first.
UpdateEntries(shows, new) ==
    /\ Edit /\ session["request"].pc = "idle" /\ account # NoUser
    /\ Move("request", [Idle EXCEPT !.op = new, !.pc = "call",
            !.calls = {{a \in shows : Kind(cached[a], new) = k} : k \in 1..4} \ {{}}])
    /\ UNCHANGED <<account, saved, remote, cached>>

\* One call: AniList changes the entries, and the answer may get lost.
Call(shows, lost) ==
    /\ session["request"].pc = "call" /\ shows \in session["request"].calls /\ account # NoUser
    /\ LET now == [a \in shows |-> session["request"].op]
       IN  /\ remote' = [remote EXCEPT ![account] = With(now, @)]
           /\ Move("request", IF lost THEN Idle
                ELSE [session["request"] EXCEPT !.list = With(now, @), !.calls = @ \ {shows}])
    /\ UNCHANGED <<account, saved, cached, edits>>

\* delete_user_list_entry, delete_user_list_entries: what the copy does not
\* hold cannot be deleted.
DeleteEntries(shows, lost) ==
    /\ Edit /\ session["request"].pc = "idle" /\ account # NoUser
    /\ \A a \in shows : cached[a] # "absent"
    /\ LET gone == [a \in shows |-> "absent"]
       IN  /\ remote' = [remote EXCEPT ![account] = With(gone, @)]
           /\ Move("request",
                IF lost \/ RefusesToDelete(shows) THEN Idle
                ELSE [Idle EXCEPT !.op = "delete", !.pc = "call", !.list = gone])
    /\ UNCHANGED <<account, saved, cached>>

\* The copy follows once every call was answered.
SaveEntries ==
    /\ session["request"].pc = "call" /\ session["request"].calls = {}
    /\ ~Locked(DOMAIN session["request"].list, "request")
    /\ cached' = With(session["request"].list, cached)
    /\ Move("request", Idle)
    /\ UNCHANGED <<account, saved, remote, edits>>

-----------------------------------------------------------------------------
\* The user edits the list on AniList's own pages.
EditElsewhere(u, a, new) ==
    /\ Edit
    /\ remote' = [remote EXCEPT ![u][a] = new]
    /\ UNCHANGED <<account, saved, cached, session>>

\* The process stops and starts again: load_app_settings reads the rows.
StopAndStart ==
    /\ Edit
    /\ account' = saved
    /\ session' = [s \in Sessions |-> Idle]
    /\ UNCHANGED <<saved, remote, cached>>

Refresh(s) == Fetch(s) \/ Replace(s) \/ UserData(s) \/ StoreList(s)

ListNext ==
    \/ \E s \in Sessions : Refresh(s) \/ Rollback(s)
    \/ RequestRefresh \/ Logout \/ Clear \/ \E u \in Users : Login(u)
    \/ \E shows \in SUBSET Shows \ {{}} :
        \/ \E new \in Wanted : UpdateEntries(shows, new)
        \/ \E lost \in BOOLEAN : Call(shows, lost) \/ DeleteEntries(shows, lost)
    \/ SaveEntries
    \/ \E u \in Users, a \in Shows, new \in Wanted \union {"absent"} : EditElsewhere(u, a, new)
    \/ StopAndStart

\* A worker's run comes every ten minutes; AniList and the database answer again
\* and again; a transaction that waits for locks gets them or fails.
ListFairness ==
    /\ WF_listVars(Fetch("worker")) /\ SF_listVars(Replace("worker"))
    /\ SF_listVars(UserData("worker")) /\ SF_listVars(StoreList("worker"))
    /\ WF_listVars(Rollback("request") \/ Refresh("request") \/ Clear \/ SaveEntries
                    \/ \E shows \in SUBSET Shows : Call(shows, FALSE))

-----------------------------------------------------------------------------
\* Two transactions never have the same row written.
ListTypeOK ==
    /\ {account, saved} \subseteq Users \union {NoUser}
    /\ remote \in [Users -> [Shows -> Entries]] /\ cached \in [Shows -> Entries]
    /\ \A s \in Sessions : DOMAIN session[s].list \subseteq Shows
    /\ session["worker"].rows \intersect session["request"].rows = {}
    /\ edits \in 0..MaxEdits

\* Once nobody changes anything any more, the copy is the list of the account
\* that is logged in, whatever updates were lost half way, whoever was logged in
\* when a refresh began, and even if the list is now empty.
ListCatchesUp == <>[](account # NoUser => cached = remote[account])
=============================================================================
