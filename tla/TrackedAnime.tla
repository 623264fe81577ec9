----------------------------- MODULE TrackedAnime -----------------------------
(***************************************************************************)
(* The anime a user tracks, with the release profile and the release group *)
(* preferences of each: TrackedAnimeComponent and the requests that call   *)
(* it. A request is one transaction; what update_tracked_anime reads may   *)
(* be out of date when it writes.                                          *)
(***************************************************************************)
EXTENDS Integers, FiniteSets, Functions

CONSTANTS
    Shows, Groups, Titles,
    NoTitle,
    Normal(_),     \* a title as it is stored and looked up ("S2" is "Season 2")
    FromEpisodes,  \* first episodes users choose from
    GroupBodies,   \* release group settings of a request: group -> title, offset
    Offsets,       \* offsets a user gives with a remembered title
    Settings,      \* what users put into a profile
    MaxProfiles,   \* bound: rows of tracked_anime_profile ever created
    MaxUpdates     \* bound: update requests between their read and their write

ASSUME TrackedAssumption ==
    /\ Shows \subseteq Nat \ {0} /\ FromEpisodes \subseteq Nat /\ Offsets \subseteq Int
    /\ \A body \in GroupBodies :
        /\ DOMAIN body \subseteq Groups
        /\ \A g \in DOMAIN body : body[g] \in [title: Titles \union {NoTitle}, offset: Int]
    /\ \A t \in Titles : Normal(t) \in Titles /\ Normal(Normal(t)) = Normal(t)
    /\ MaxProfiles \in Nat \ {0} /\ MaxUpdates \in Nat

VARIABLES
    tracked,   \* anilist_id -> row, of the anime that are tracked
    profiles,  \* tracked_anime_profile: id -> settings
    created,   \* the last id given to a profile
    updates    \* update requests that have read and not yet written

trackedVars == <<tracked, profiles, created, updates>>

Preference == [title: Titles \union {NoTitle}, offset: Int]
Tracked    == [status: {"ACTIVE", "ARCHIVED"}, from: FromEpisodes, profile: Nat,
               prefs: [Groups -> Preference]]

\* profile: "default", or the settings of one of its own.
Body == [from: FromEpisodes, unarchive: {"null", "false", "true"},
         profile: Settings \union {"default"}, groups: GroupBodies]

Default == 1

TrackedInit ==
    /\ tracked = <<>> /\ updates = {}
    /\ profiles \in [{Default} -> Settings] /\ created = Default

-----------------------------------------------------------------------------
NormalTitle(t) == IF t = NoTitle THEN NoTitle ELSE Normal(t)

Preferences(prefs, groups) ==
    [g \in Groups |->
        IF g \in DOMAIN groups
        THEN [title |-> NormalTitle(groups[g].title), offset |-> groups[g].offset]
        ELSE prefs[g]]

NoPreferences == [g \in Groups |-> [title |-> NoTitle, offset |-> 0]]

\* A new anime keeps the groups that have a title: an offset alone is dropped.
NewPreferences(groups) ==
    Preferences(NoPreferences,
                Restrict(groups, {g \in DOMAIN groups : groups[g].title # NoTitle}))

NewProfile(settings) ==
    /\ created < MaxProfiles
    /\ profiles' = [p \in DOMAIN profiles \union {created + 1} |->
                     IF p = created + 1 THEN settings ELSE profiles[p]]
    /\ created' = created + 1

NewRow(body, profile) ==
    [status |-> "ACTIVE", from |-> body.from, profile |-> profile,
     prefs  |-> NewPreferences(body.groups)]

CreateTrackedAnime(a, body) ==
    /\ a \notin DOMAIN tracked  \* anilist_id is UNIQUE
    /\ IF body.profile = "default" THEN UNCHANGED <<profiles, created>>
       ELSE NewProfile(body.profile)
    /\ tracked' = [b \in DOMAIN tracked \union {a} |->
          IF b # a THEN tracked[b]
          ELSE NewRow(body, IF body.profile = "default" THEN Default ELSE created + 1)]
    /\ UNCHANGED updates

UpdateReads(a, body) ==
    /\ a \in DOMAIN tracked /\ Cardinality(updates) < MaxUpdates
    /\ updates' = updates \union {[anime |-> a, read |-> tracked[a], body |-> body]}
    /\ UNCHANGED <<tracked, profiles, created>>

\* A slip: the link to the profile that is deleted stays.
ProfileWritesUnlinked(u, row) ==
    IF u.body.profile = "default"
    THEN /\ row.profile = tracked[u.anime].profile /\ UNCHANGED created
         /\ profiles' = Restrict(profiles, DOMAIN profiles \ ({u.read.profile} \ {Default}))
    ELSE IF u.read.profile = Default
         THEN row.profile = created + 1 /\ NewProfile(u.body.profile)
         ELSE /\ row.profile = tracked[u.anime].profile /\ UNCHANGED created
              /\ u.read.profile \in DOMAIN profiles
              /\ profiles' = [profiles EXCEPT ![u.read.profile] = u.body.profile]

\* What becomes of the profile, and the row's link to it. A profile of its own
\* is deleted when the anime goes back to the default; the database refuses to
\* delete one that another anime has, and one that is gone cannot be updated.
ProfileWrites(u, row) ==
    IF u.body.profile = "default"
    THEN IF u.read.profile = Default
         THEN row.profile = tracked[u.anime].profile /\ UNCHANGED <<profiles, created>>
         ELSE /\ row.profile = Default /\ UNCHANGED created
              /\ \A b \in DOMAIN tracked \ {u.anime} : tracked[b].profile # u.read.profile
              /\ profiles' = Restrict(profiles, DOMAIN profiles \ {u.read.profile})
    ELSE IF u.read.profile = Default
         THEN row.profile = created + 1 /\ NewProfile(u.body.profile)
         ELSE /\ row.profile = tracked[u.anime].profile /\ UNCHANGED created
              /\ u.read.profile \in DOMAIN profiles
              /\ profiles' = [profiles EXCEPT ![u.read.profile] = u.body.profile]

\* The columns that differ from the row as it was read; any value of unarchive
\* but null activates.
UpdateWrites(u) ==
    /\ u.anime \in DOMAIN tracked
    /\ \E p \in 1..MaxProfiles :
        LET now == tracked[u.anime]
            row == [status  |-> IF u.body.unarchive # "null" /\ u.read.status # "ACTIVE"
                                THEN "ACTIVE" ELSE now.status,
                    from    |-> IF u.body.from # u.read.from THEN u.body.from ELSE now.from,
                    profile |-> p,
                    prefs   |-> Preferences(now.prefs, u.body.groups)]
        IN  /\ ProfileWrites(u, row)
            /\ tracked' = [tracked EXCEPT ![u.anime] = row]
    /\ updates' = updates \ {u}

\* The row or its profile is gone, a group is not configured, or AniList does
\* not answer: nothing is written.
UpdateFails(u) ==
    /\ updates' = updates \ {u}
    /\ UNCHANGED <<tracked, profiles, created>>

\* archive and unarchive: one anime or a batch, all of which must be tracked.
SetStatus(batch, status) ==
    /\ batch # {} /\ batch \subseteq DOMAIN tracked
    /\ tracked' = [a \in DOMAIN tracked |->
                    IF a \in batch THEN [tracked[a] EXCEPT !.status = status] ELSE tracked[a]]
    /\ UNCHANGED <<profiles, created, updates>>

\* The rows that refer to the anime go with it, its profile does not.
DeleteTrackedAnime(batch) ==
    /\ batch # {} /\ batch \subseteq DOMAIN tracked
    /\ tracked' = Restrict(tracked, DOMAIN tracked \ batch)
    /\ UNCHANGED <<profiles, created, updates>>

\* download_torrent remembers the title of the torrent a user identified.
RememberTitle(a, g, t, offset) ==
    /\ a \in DOMAIN tracked
    /\ tracked' = [tracked EXCEPT ![a].prefs[g] = [title |-> Normal(t), offset |-> offset]]
    /\ UNCHANGED <<profiles, created, updates>>

\* PATCH of the settings page.
UpdateDefaultProfile(settings) ==
    /\ profiles' = [profiles EXCEPT ![Default] = settings]
    /\ UNCHANGED <<tracked, created, updates>>

TrackedNext ==
    \/ \E a \in Shows, from \in FromEpisodes, groups \in GroupBodies,
          profile \in Settings \union {"default"}, unarchive \in {"null", "false", "true"} :
        LET body == [from |-> from, unarchive |-> unarchive, profile |-> profile,
                     groups |-> groups]
        IN  \/ unarchive = "null" /\ CreateTrackedAnime(a, body)
            \/ UpdateReads(a, body)
    \/ \E u \in updates : UpdateWrites(u) \/ UpdateFails(u)
    \/ \E batch \in SUBSET Shows :
        \/ SetStatus(batch, "ARCHIVED") \/ SetStatus(batch, "ACTIVE")
        \/ DeleteTrackedAnime(batch)
    \/ \E a \in Shows, g \in Groups, t \in Titles, offset \in Offsets : RememberTitle(a, g, t, offset)
    \/ \E settings \in Settings : UpdateDefaultProfile(settings)

TrackedSpec == TrackedInit /\ [][TrackedNext]_trackedVars

-----------------------------------------------------------------------------
TrackedTypeOK ==
    /\ DOMAIN tracked \subseteq Shows /\ \A a \in DOMAIN tracked : tracked[a] \in Tracked
    /\ Default \in DOMAIN profiles /\ DOMAIN profiles \subseteq 1..created
    /\ Range(profiles) \subseteq Settings /\ created \in 1..MaxProfiles
    /\ updates \subseteq [anime: Shows, read: Tracked, body: Body]

Owned ==
    \A a \in DOMAIN tracked :
        /\ tracked[a].profile \in DOMAIN profiles
        /\ \A b \in DOMAIN tracked \ {a} :
            tracked[a].profile = tracked[b].profile => tracked[a].profile = Default

\* No step leaves an anime with a profile that was deleted, or two anime with
\* one of their own; and the settings given to one anime never reach another
\* one, nor the default profile, whichever updates overlap (the profile branch
\* of update_tracked_anime).
ProfilesAreOwned ==
    [][ /\ Owned'
        /\ \A u \in updates : UpdateWrites(u) =>
            \A p \in DOMAIN profiles :
                p = Default \/ (\E b \in DOMAIN tracked \ {u.anime} : tracked[b].profile = p)
                    => p \in DOMAIN profiles' /\ profiles'[p] = profiles[p] ]_trackedVars
=============================================================================
