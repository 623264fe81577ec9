--------------------------- MODULE MatchingTheorems ---------------------------
(***************************************************************************)
(* Proofs about the tracked anime with their profiles, the walk of         *)
(* resolve_anime, the mapping rows, and the pass that matches a title.     *)
(***************************************************************************)
EXTENDS MCMatching, FiniteSetTheorems, WellFoundedInduction, TLAPS

-----------------------------------------------------------------------------
\* Tracked anime and their profiles.

\* What holds of the constants.
LEMMA TrackedConstants ==
    /\ Shows \subseteq Nat \ {0} /\ FromEpisodes \subseteq Nat /\ Offsets \subseteq Int
    /\ \A body \in GroupBodies :
        /\ DOMAIN body \subseteq Groups
        /\ \A g \in DOMAIN body : body[g] \in [title: Titles \union {NoTitle}, offset: Int]
    /\ \A t \in Titles : Normal(t) \in Titles /\ Normal(Normal(t)) = Normal(t)
    /\ MaxProfiles \in Nat \ {0} /\ MaxUpdates \in Nat
BY TrackedAssumption

\* The profile an update has read was the anime's own, and no other anime ever
\* comes to have it.
OwnedWhenRead ==
    \A u \in updates :
        /\ u.read.profile \in 1..created
        /\ \A b \in DOMAIN tracked \ {u.anime} :
            tracked[b].profile = u.read.profile => u.read.profile = Default

TrackedInv == TrackedTypeOK /\ Owned /\ OwnedWhenRead

LEMMA TrackedInitially == TrackedInit => TrackedInv
<1> SUFFICES ASSUME TrackedInit PROVE TrackedInv
  OBVIOUS
<1>1. tracked = <<>> /\ updates = {} /\ created = 1 /\ profiles \in [{1} -> Settings]
  BY DEF TrackedInit, Default
<1>2. DOMAIN tracked = {}
  BY <1>1
<1>3. DOMAIN profiles = {1} /\ Range(profiles) \subseteq Settings
  BY <1>1 DEF Range
<1>4. TrackedTypeOK
  BY <1>1, <1>2, <1>3, TrackedConstants DEF TrackedTypeOK, Default
<1> QED
  BY <1>1, <1>2, <1>4 DEF TrackedInv, Owned, OwnedWhenRead

\* Preferences keep their type, and a body's are normalised.
LEMMA PreferencesTyped ==
    ASSUME NEW prefs \in [Groups -> Preference], NEW groups,
           DOMAIN groups \subseteq Groups,
           \A g \in DOMAIN groups : groups[g] \in [title: Titles \union {NoTitle}, offset: Int]
    PROVE  Preferences(prefs, groups) \in [Groups -> Preference]
<1>1. \A g \in DOMAIN groups : /\ NormalTitle(groups[g].title) \in Titles \union {NoTitle}
                               /\ groups[g].offset \in Int
  BY TrackedConstants DEF NormalTitle
<1> QED
  BY <1>1 DEF Preferences, Preference

LEMMA NewPreferencesTyped ==
    ASSUME NEW groups \in GroupBodies PROVE NewPreferences(groups) \in [Groups -> Preference]
<1> DEFINE kept == {g \in DOMAIN groups : groups[g].title # NoTitle}
           some == Restrict(groups, kept)
<1>1. NoPreferences \in [Groups -> Preference]
  BY DEF NoPreferences, Preference
<1>2. DOMAIN some = kept /\ \A g \in kept : some[g] = groups[g]
  BY DEF Restrict
<1>3. /\ DOMAIN some \subseteq Groups
      /\ \A g \in DOMAIN some : some[g] \in [title: Titles \union {NoTitle}, offset: Int]
  BY <1>2, TrackedConstants
<1> HIDE DEF some
<1>4. Preferences(NoPreferences, some) \in [Groups -> Preference]
  BY <1>1, <1>3, PreferencesTyped
<1> QED
  BY <1>4 DEF NewPreferences, some

\* A new profile has an id that none had before.
LEMMA ProfileCreated ==
    ASSUME TrackedInv, NEW settings \in Settings, NewProfile(settings)
    PROVE  /\ created \in Nat /\ created' = created + 1 /\ created' \in 1..MaxProfiles
           /\ DOMAIN profiles' = DOMAIN profiles \union {created + 1}
           /\ \A p \in DOMAIN profiles : profiles'[p] = profiles[p] /\ p # created + 1
           /\ DOMAIN profiles' \subseteq 1..created' /\ Range(profiles') \subseteq Settings
<1>1. /\ created \in 1..MaxProfiles /\ MaxProfiles \in Nat /\ created < MaxProfiles
      /\ created' = created + 1 /\ DOMAIN profiles \subseteq 1..created
      /\ Range(profiles) \subseteq Settings
  BY TrackedConstants DEF TrackedInv, TrackedTypeOK, NewProfile
<1>2. profiles' = [p \in DOMAIN profiles \union {created + 1} |->
                      IF p = created + 1 THEN settings ELSE profiles[p]]
  BY DEF NewProfile
<1>3. \A p \in DOMAIN profiles : p # created + 1
  BY <1>1
<1>4. /\ DOMAIN profiles' = DOMAIN profiles \union {created + 1}
      /\ \A p \in DOMAIN profiles' : profiles'[p] = IF p \in DOMAIN profiles THEN profiles[p]
                                                    ELSE settings
  BY <1>2, <1>3
<1>5. Range(profiles') \subseteq Settings
  BY <1>1, <1>4 DEF Range
<1>6. created' \in 1..MaxProfiles /\ 1..created \subseteq 1..created' /\ created' \in 1..created'
  BY <1>1
<1> QED
  BY <1>1, <1>3, <1>4, <1>5, <1>6

\* Each operation, in turn.
LEMMA CreateKeeps ==
    ASSUME TrackedInv, NEW a \in Shows, NEW body \in Body, CreateTrackedAnime(a, body)
    PROVE  TrackedInv'
<1> DEFINE p == IF body.profile = "default" THEN Default ELSE created + 1
<1>1. /\ a \notin DOMAIN tracked /\ UNCHANGED updates
      /\ DOMAIN tracked' = DOMAIN tracked \union {a}
      /\ \A b \in DOMAIN tracked : tracked'[b] = tracked[b]
      /\ tracked'[a] = NewRow(body, p)
  BY DEF CreateTrackedAnime
<1>2. /\ DOMAIN profiles \subseteq DOMAIN profiles' /\ p \in DOMAIN profiles' /\ p \in Nat
      /\ DOMAIN profiles' \subseteq 1..created' /\ Range(profiles') \subseteq Settings
      /\ created' \in 1..MaxProfiles /\ created <= created' /\ created \in Nat /\ created' \in Nat
      /\ p # Default => p \notin 1..created
  <2>1. CASE body.profile = "default"
    <3>1. UNCHANGED <<profiles, created>>
      BY <2>1 DEF CreateTrackedAnime
    <3> QED
      BY <2>1, <3>1, TrackedConstants DEF TrackedInv, TrackedTypeOK, Default
  <2>2. CASE body.profile # "default"
    <3>1. NewProfile(body.profile) /\ body.profile \in Settings
      BY <2>2 DEF CreateTrackedAnime, Body
    <3> QED
      BY <2>2, <3>1, ProfileCreated, TrackedConstants DEF TrackedInv, TrackedTypeOK, Default
  <2> QED
    BY <2>1, <2>2
<1> HIDE DEF p
<1>3. NewRow(body, p) \in Tracked /\ NewRow(body, p).profile = p
  <2>1. body.from \in FromEpisodes /\ body.groups \in GroupBodies
    BY DEF Body
  <2>2. NewPreferences(body.groups) \in [Groups -> Preference]
    BY <2>1, NewPreferencesTyped
  <2> QED
    BY <1>2, <2>1, <2>2 DEF NewRow, Tracked
<1>4. Owned'
  <2>1. \A b \in DOMAIN tracked : tracked[b].profile \in DOMAIN profiles /\ tracked[b].profile \in 1..created
    BY DEF TrackedInv, Owned, TrackedTypeOK
  <2>2. \A b \in DOMAIN tracked' : tracked'[b].profile \in DOMAIN profiles'
    BY <1>1, <1>2, <1>3, <2>1
  <2>3. \A b, c \in DOMAIN tracked' :
           b # c /\ tracked'[b].profile = tracked'[c].profile => tracked'[b].profile = Default
    BY <1>1, <1>2, <1>3, <2>1 DEF TrackedInv, Owned
  <2> QED
    BY <2>2, <2>3 DEF Owned
<1>5. OwnedWhenRead'
  <2>1. \A u \in updates : u.read.profile \in 1..created'
    BY <1>2 DEF TrackedInv, OwnedWhenRead
  <2>2. \A u \in updates : \A b \in DOMAIN tracked' \ {u.anime} :
            tracked'[b].profile = u.read.profile => u.read.profile = Default
    BY <1>1, <1>2, <1>3 DEF TrackedInv, OwnedWhenRead
  <2> QED
    BY <1>1, <2>1, <2>2 DEF OwnedWhenRead
<1>6. TrackedTypeOK'
  BY <1>1, <1>2, <1>3 DEF TrackedInv, TrackedTypeOK
<1> QED
  BY <1>4, <1>5, <1>6 DEF TrackedInv

LEMMA ReadsKeep ==
    ASSUME TrackedInv, NEW a \in Shows, NEW body \in Body, UpdateReads(a, body)
    PROVE  TrackedInv'
<1>1. /\ a \in DOMAIN tracked /\ UNCHANGED <<tracked, profiles, created>>
      /\ updates' = updates \union {[anime |-> a, read |-> tracked[a], body |-> body]}
  BY DEF UpdateReads
<1>2. tracked[a] \in Tracked /\ tracked[a].profile \in 1..created
  BY <1>1 DEF TrackedInv, TrackedTypeOK, Owned
<1>3. TrackedTypeOK'
  BY <1>1, <1>2 DEF TrackedInv, TrackedTypeOK
<1>4. Owned'
  BY <1>1 DEF TrackedInv, Owned
<1>5. \A b \in DOMAIN tracked \ {a} :
         tracked[b].profile = tracked[a].profile => tracked[a].profile = Default
  BY <1>1 DEF TrackedInv, Owned
<1>6. OwnedWhenRead'
  BY <1>1, <1>2, <1>5 DEF TrackedInv, OwnedWhenRead
<1> QED
  BY <1>3, <1>4, <1>6 DEF TrackedInv

\* What an update makes of the profiles: those of the other anime, and the
\* default, stay as they are.
OthersStay(u) ==
    \A p \in DOMAIN profiles :
        p = Default \/ (\E b \in DOMAIN tracked \ {u.anime} : tracked[b].profile = p)
            => p \in DOMAIN profiles' /\ profiles'[p] = profiles[p]

\* Where an update leaves its anime's row: with the profile it had, which still is
\* there, with the default, or with a new one.
LEMMA ProfileWritten ==
    ASSUME TrackedInv, NEW u \in updates, u.anime \in DOMAIN tracked, NEW entry,
           ProfileWrites(u, entry)
    PROVE  /\ OthersStay(u)
           /\ entry.profile \in DOMAIN profiles' /\ entry.profile \in Nat
           /\ entry.profile \in {tracked[u.anime].profile, Default} \/ entry.profile \notin 1..created
           /\ \A p \in DOMAIN profiles :
                 p \notin DOMAIN profiles' => p = u.read.profile /\ p # Default
           /\ DOMAIN profiles' \subseteq 1..created' /\ Range(profiles') \subseteq Settings
           /\ created' \in 1..MaxProfiles /\ created <= created' /\ created \in Nat
<1>1. /\ created \in 1..MaxProfiles /\ MaxProfiles \in Nat /\ Default \in DOMAIN profiles
      /\ DOMAIN profiles \subseteq 1..created /\ Range(profiles) \subseteq Settings
      /\ u.body.profile \in Settings \union {"default"}
      /\ tracked[u.anime].profile \in DOMAIN profiles
      /\ created \in Nat /\ Default = 1
  BY TrackedConstants DEF TrackedInv, TrackedTypeOK, Owned, Body, Default
<1>2. /\ u.read.profile \in 1..created
      /\ \A b \in DOMAIN tracked \ {u.anime} :
            tracked[b].profile = u.read.profile => u.read.profile = Default
  BY DEF TrackedInv, OwnedWhenRead
<1>3. CASE u.body.profile = "default" /\ u.read.profile = Default
  <2>1. entry.profile = tracked[u.anime].profile /\ UNCHANGED <<profiles, created>>
    BY <1>3 DEF ProfileWrites
  <2> QED
    BY <1>1, <2>1 DEF OthersStay
<1>4. CASE u.body.profile = "default" /\ u.read.profile # Default
  <2>1. /\ entry.profile = Default /\ UNCHANGED created
        /\ \A b \in DOMAIN tracked \ {u.anime} : tracked[b].profile # u.read.profile
        /\ profiles' = Restrict(profiles, DOMAIN profiles \ {u.read.profile})
    BY <1>4 DEF ProfileWrites
  <2>2. /\ DOMAIN profiles' = DOMAIN profiles \ {u.read.profile}
        /\ \A p \in DOMAIN profiles' : profiles'[p] = profiles[p]
    BY <2>1 DEF Restrict
  <2>3. Range(profiles') \subseteq Settings
    BY <1>1, <2>2 DEF Range
  <2>4. OthersStay(u)
    BY <1>4, <2>1, <2>2 DEF OthersStay
  <2>5. entry.profile \in DOMAIN profiles' /\ entry.profile \in Nat
    BY <1>1, <1>4, <2>1, <2>2
  <2>6. DOMAIN profiles' \subseteq 1..created'
    BY <1>1, <2>1, <2>2
  <2>7. \A p \in DOMAIN profiles : p \notin DOMAIN profiles' => p = u.read.profile /\ p # Default
    BY <1>4, <2>2
  <2>8. created' \in 1..MaxProfiles /\ created <= created'
    BY <1>1, <2>1
  <2> QED
    BY <1>1, <2>1, <2>3, <2>4, <2>5, <2>6, <2>7, <2>8
<1>5. CASE u.body.profile # "default" /\ u.read.profile = Default
  <2>1. entry.profile = created + 1 /\ NewProfile(u.body.profile) /\ u.body.profile \in Settings
    BY <1>1, <1>5 DEF ProfileWrites
  <2>2. /\ created' = created + 1 /\ created' \in 1..MaxProfiles
        /\ DOMAIN profiles' = DOMAIN profiles \union {created + 1}
        /\ \A p \in DOMAIN profiles : profiles'[p] = profiles[p]
        /\ DOMAIN profiles' \subseteq 1..created' /\ Range(profiles') \subseteq Settings
    BY <2>1, ProfileCreated
  <2>3. OthersStay(u)
    BY <2>2 DEF OthersStay
  <2> QED
    BY <1>1, <2>1, <2>2, <2>3
<1>6. CASE u.body.profile # "default" /\ u.read.profile # Default
  <2>1. /\ entry.profile = tracked[u.anime].profile /\ UNCHANGED created
        /\ u.read.profile \in DOMAIN profiles /\ u.body.profile \in Settings
        /\ profiles' = [profiles EXCEPT ![u.read.profile] = u.body.profile]
    BY <1>1, <1>6 DEF ProfileWrites
  <2>2. /\ DOMAIN profiles' = DOMAIN profiles
        /\ \A p \in DOMAIN profiles :
              profiles'[p] = IF p = u.read.profile THEN u.body.profile ELSE profiles[p]
    BY <2>1
  <2>3. Range(profiles') \subseteq Settings
    BY <1>1, <2>1, <2>2 DEF Range
  <2>4. OthersStay(u)
    BY <1>2, <1>6, <2>2 DEF OthersStay
  <2>5. entry.profile \in DOMAIN profiles' /\ entry.profile \in Nat
    BY <1>1, <2>1, <2>2
  <2>6. DOMAIN profiles' \subseteq 1..created'
    BY <1>1, <2>1, <2>2
  <2>7. created' \in 1..MaxProfiles /\ created <= created'
    BY <1>1, <2>1
  <2> QED
    BY <1>1, <2>1, <2>2, <2>3, <2>4, <2>5, <2>6, <2>7
<1> QED
  BY <1>3, <1>4, <1>5, <1>6

LEMMA UpdateKeeps ==
    ASSUME TrackedInv, NEW u \in updates, UpdateWrites(u)
    PROVE  TrackedInv' /\ OthersStay(u)
<1> DEFINE now == tracked[u.anime]
           entry(p) == [status  |-> IF u.body.unarchive # "null" /\ u.read.status # "ACTIVE"
                                    THEN "ACTIVE" ELSE now.status,
                        from    |-> IF u.body.from # u.read.from THEN u.body.from ELSE now.from,
                        profile |-> p,
                        prefs   |-> Preferences(now.prefs, u.body.groups)]
<1>1. /\ u.anime \in DOMAIN tracked /\ updates' = updates \ {u}
      /\ \E p \in 1..MaxProfiles : /\ ProfileWrites(u, entry(p))
                                   /\ tracked' = [tracked EXCEPT ![u.anime] = entry(p)]
  BY DEF UpdateWrites
<1>2. PICK p \in 1..MaxProfiles : /\ ProfileWrites(u, entry(p))
                                  /\ tracked' = [tracked EXCEPT ![u.anime] = entry(p)]
  BY <1>1
<1>3. now \in Tracked /\ u.body \in Body /\ u.read \in Tracked
  BY <1>1 DEF TrackedInv, TrackedTypeOK
<1>4. entry(p) \in Tracked /\ entry(p).profile = p
  <2>1. u.body.groups \in GroupBodies /\ u.body.from \in FromEpisodes
    BY <1>3 DEF Body
  <2>2. Preferences(now.prefs, u.body.groups) \in [Groups -> Preference]
    BY <1>3, <2>1, PreferencesTyped, TrackedConstants DEF Tracked
  <2>3. p \in Nat
    BY TrackedConstants
  <2> HIDE DEF now
  <2> QED
    BY <1>3, <2>1, <2>2, <2>3 DEF Tracked
<1> HIDE DEF entry, now
<1>5. /\ OthersStay(u) /\ p \in DOMAIN profiles'
      /\ p \in {tracked[u.anime].profile, Default} \/ p \notin 1..created
      /\ \A q \in DOMAIN profiles :
            q \notin DOMAIN profiles' => q = u.read.profile /\ q # Default
      /\ DOMAIN profiles' \subseteq 1..created' /\ Range(profiles') \subseteq Settings
      /\ created' \in 1..MaxProfiles /\ created <= created' /\ created \in Nat
  BY <1>1, <1>2, <1>4, ProfileWritten
<1>6. /\ DOMAIN tracked' = DOMAIN tracked
      /\ \A b \in DOMAIN tracked : tracked'[b] = IF b = u.anime THEN entry(p) ELSE tracked[b]
  BY <1>1, <1>2
<1>7. \A b \in DOMAIN tracked : /\ tracked[b].profile \in DOMAIN profiles
                                /\ tracked[b].profile \in 1..created
  BY DEF TrackedInv, Owned, TrackedTypeOK
<1>8. Owned'
  <2>1. \A b \in DOMAIN tracked \ {u.anime} : tracked[b].profile \in DOMAIN profiles'
    BY <1>5, <1>7 DEF OthersStay
  <2>2. \A b \in DOMAIN tracked' : tracked'[b].profile \in DOMAIN profiles'
    BY <1>4, <1>5, <1>6, <2>1
  <2>3. \A b \in DOMAIN tracked \ {u.anime} : tracked[b].profile = p => p = Default
    BY <1>1, <1>5, <1>7 DEF TrackedInv, Owned
  <2>4. \A b, c \in DOMAIN tracked' :
           b # c /\ tracked'[b].profile = tracked'[c].profile => tracked'[b].profile = Default
    BY <1>4, <1>6, <2>3 DEF TrackedInv, Owned
  <2> QED
    BY <2>2, <2>4 DEF Owned
<1>9. OwnedWhenRead'
  <2>1. \A v \in updates' : v.read.profile \in 1..created'
    BY <1>1, <1>5 DEF TrackedInv, OwnedWhenRead
  <2>2. ASSUME NEW v \in updates', NEW b \in DOMAIN tracked \ {v.anime},
               tracked'[b].profile = v.read.profile
        PROVE  v.read.profile = Default
    <3>1. v \in updates /\ v.read.profile \in 1..created
      BY <1>1 DEF TrackedInv, OwnedWhenRead
    <3>2. CASE b # u.anime
      BY <1>6, <2>2, <3>1, <3>2 DEF TrackedInv, OwnedWhenRead
    <3>3. CASE b = u.anime
      <4>1. p = v.read.profile
        BY <1>4, <1>6, <2>2, <3>3
      <4>2. p \in {tracked[b].profile, Default}
        BY <1>5, <3>1, <3>3, <4>1
      <4> QED
        BY <2>2, <3>1, <4>1, <4>2 DEF TrackedInv, OwnedWhenRead
    <3> QED
      BY <3>2, <3>3
  <2> QED
    BY <1>6, <2>1, <2>2 DEF OwnedWhenRead
<1>10. TrackedTypeOK'
  <2>1. Default \in DOMAIN profiles'
    BY <1>5 DEF TrackedInv, TrackedTypeOK
  <2> QED
    BY <1>1, <1>4, <1>5, <1>6, <2>1 DEF TrackedInv, TrackedTypeOK
<1> QED
  BY <1>5, <1>8, <1>9, <1>10 DEF TrackedInv

\* A step that gives no anime a profile and takes none away.
LEMMA SameProfilesKeep ==
    ASSUME TrackedInv, UNCHANGED created, DOMAIN profiles' = DOMAIN profiles,
           Range(profiles') \subseteq Settings, updates' \subseteq updates,
           DOMAIN tracked' \subseteq DOMAIN tracked,
           \A a \in DOMAIN tracked' : /\ tracked'[a] \in Tracked
                                      /\ tracked'[a].profile = tracked[a].profile
    PROVE  TrackedInv'
<1>1. TrackedTypeOK'
  BY DEF TrackedInv, TrackedTypeOK
<1>2. Owned'
  BY DEF TrackedInv, Owned
<1>3. OwnedWhenRead'
  <2>1. \A v \in updates' : v.read.profile \in 1..created
    BY DEF TrackedInv, OwnedWhenRead
  <2>2. \A v \in updates' : \A b \in DOMAIN tracked' \ {v.anime} :
            tracked'[b].profile = v.read.profile => v.read.profile = Default
    BY DEF TrackedInv, OwnedWhenRead
  <2> QED
    BY <2>1, <2>2 DEF OwnedWhenRead
<1> QED
  BY <1>1, <1>2, <1>3 DEF TrackedInv

LEMMA StatusKeeps ==
    ASSUME TrackedInv, NEW batch, NEW status \in {"ACTIVE", "ARCHIVED"},
           SetStatus(batch, status) \/ DeleteTrackedAnime(batch)
    PROVE  TrackedInv'
<1>1. UNCHANGED <<profiles, created, updates>>
  BY DEF SetStatus, DeleteTrackedAnime
<1>2. CASE SetStatus(batch, status)
  <2>1. /\ DOMAIN tracked' = DOMAIN tracked
        /\ \A a \in DOMAIN tracked :
              tracked'[a] = IF a \in batch THEN [tracked[a] EXCEPT !.status = status]
                            ELSE tracked[a]
    BY <1>2 DEF SetStatus
  <2>2. \A a \in DOMAIN tracked : tracked[a] \in Tracked
    BY DEF TrackedInv, TrackedTypeOK
  <2>3. \A a \in DOMAIN tracked : /\ tracked'[a] \in Tracked
                                  /\ tracked'[a].profile = tracked[a].profile
    BY <2>1, <2>2 DEF Tracked
  <2> QED
    BY <1>1, <2>1, <2>3, SameProfilesKeep DEF TrackedInv, TrackedTypeOK
<1>3. CASE DeleteTrackedAnime(batch)
  <2>1. /\ DOMAIN tracked' = DOMAIN tracked \ batch
        /\ \A a \in DOMAIN tracked' : tracked'[a] = tracked[a]
    BY <1>3 DEF DeleteTrackedAnime, Restrict
  <2> QED
    BY <1>1, <2>1, SameProfilesKeep DEF TrackedInv, TrackedTypeOK
<1> QED
  BY <1>2, <1>3

LEMMA RememberKeeps ==
    ASSUME TrackedInv, NEW a \in Shows, NEW g \in Groups, NEW t \in Titles,
           NEW offset \in Offsets, RememberTitle(a, g, t, offset)
    PROVE  TrackedInv'
<1> DEFINE new == [title |-> Normal(t), offset |-> offset]
           old == tracked[a]
<1>1. /\ a \in DOMAIN tracked /\ UNCHANGED <<profiles, created, updates>>
      /\ tracked' = [tracked EXCEPT ![a].prefs[g] = new]
  BY DEF RememberTitle
<1>2. new \in Preference
  BY TrackedConstants DEF Preference
<1>3. old \in Tracked
  BY <1>1 DEF TrackedInv, TrackedTypeOK
<1>4. /\ DOMAIN tracked' = DOMAIN tracked
      /\ \A b \in DOMAIN tracked : b # a => tracked'[b] = tracked[b]
      /\ tracked'[a] = [old EXCEPT !.prefs[g] = new]
  BY <1>1
<1> HIDE DEF new, old
<1>5. [old EXCEPT !.prefs[g] = new] \in Tracked /\ [old EXCEPT !.prefs[g] = new].profile = old.profile
  BY <1>2, <1>3 DEF Tracked
<1>6. \A b \in DOMAIN tracked' : /\ tracked'[b] \in Tracked
                                 /\ tracked'[b].profile = tracked[b].profile
  BY <1>4, <1>5 DEF TrackedInv, TrackedTypeOK, old
<1> QED
  BY <1>1, <1>4, <1>6, SameProfilesKeep DEF TrackedInv, TrackedTypeOK

LEMMA RestKeeps ==
    ASSUME TrackedInv,
           \/ \E u \in updates : UpdateFails(u)
           \/ \E settings \in Settings : UpdateDefaultProfile(settings)
           \/ UNCHANGED trackedVars
    PROVE  TrackedInv'
<1>1. UNCHANGED <<tracked, created>> /\ updates' \subseteq updates
  BY DEF UpdateFails, UpdateDefaultProfile, trackedVars
<1>2. DOMAIN profiles' = DOMAIN profiles /\ Range(profiles') \subseteq Settings
  BY DEF UpdateFails, UpdateDefaultProfile, trackedVars, TrackedInv, TrackedTypeOK, Range
<1> QED
  BY <1>1, <1>2, SameProfilesKeep DEF TrackedInv, TrackedTypeOK

LEMMA TrackedStep == TrackedInv /\ [TrackedNext]_trackedVars => TrackedInv'
<1> SUFFICES ASSUME TrackedInv, [TrackedNext]_trackedVars PROVE TrackedInv'
  OBVIOUS
<1>1. ASSUME NEW a \in Shows, NEW from \in FromEpisodes, NEW groups \in GroupBodies,
             NEW profile \in Settings \union {"default"}, NEW unarchive \in {"null", "false", "true"},
             LET body == [from |-> from, unarchive |-> unarchive, profile |-> profile,
                          groups |-> groups]
             IN  CreateTrackedAnime(a, body) \/ UpdateReads(a, body)
      PROVE  TrackedInv'
  <2>1. [from |-> from, unarchive |-> unarchive, profile |-> profile, groups |-> groups] \in Body
    BY DEF Body
  <2> QED
    BY <1>1, <2>1, CreateKeeps, ReadsKeep
<1>2. ASSUME NEW batch \in SUBSET Shows,
             \/ SetStatus(batch, "ARCHIVED") \/ SetStatus(batch, "ACTIVE")
             \/ DeleteTrackedAnime(batch)
      PROVE  TrackedInv'
  <2>1. "ARCHIVED" \in {"ACTIVE", "ARCHIVED"} /\ "ACTIVE" \in {"ACTIVE", "ARCHIVED"}
    OBVIOUS
  <2> QED
    BY <1>2, <2>1, StatusKeeps
<1> QED
  BY <1>1, <1>2, UpdateKeeps, RememberKeeps, RestKeeps DEF TrackedNext

\* The inductive invariant of the tracked anime.
THEOREM TrackedInvariance == TrackedSpec => []TrackedInv
BY TrackedInitially, TrackedStep, PTL DEF TrackedSpec

\* However many updates overlap, and whatever is tracked, archived or deleted
\* meanwhile, no anime is left with a profile that is gone, no two share one of
\* their own, and no update changes the profile of another anime or the default.
THEOREM ProfilesStayOwned == TrackedSpec => ProfilesAreOwned
<1>1. ASSUME TrackedInv, TrackedInv'
      PROVE  [ /\ Owned'
               /\ \A u \in updates : UpdateWrites(u) =>
                   \A p \in DOMAIN profiles :
                       p = Default \/ (\E b \in DOMAIN tracked \ {u.anime} : tracked[b].profile = p)
                           => p \in DOMAIN profiles' /\ profiles'[p] = profiles[p] ]_trackedVars
  <2>1. Owned'
    BY <1>1 DEF TrackedInv
  <2>2. ASSUME NEW u \in updates, UpdateWrites(u) PROVE OthersStay(u)
    BY <1>1, <2>2, UpdateKeeps
  <2> QED
    BY <2>1, <2>2 DEF OthersStay
<1> QED
  BY <1>1, TrackedInvariance, PTL DEF ProfilesAreOwned
-----------------------------------------------------------------------------
\* The walk of resolve_anime.

\* A set of numbers has a least one.
LEMMA LeastNumber ==
    ASSUME NEW S \in SUBSET Nat, S # {} PROVE \E n \in S : \A m \in S : n <= m
<1>1. PICK n \in S : \A m \in S : ~(<<m, n>> \in OpToRel(<, Nat))
  BY NatLessThanWellFounded, WFMin
<1>2. \A m \in S : ~(m < n)
  BY <1>1 DEF OpToRel
<1> QED
  BY <1>2

LEMMA ImageFinite ==
    ASSUME NEW S, IsFiniteSet(S), NEW f, DOMAIN f = S, f = [x \in S |-> f[x]]
    PROVE  IsFiniteSet({f[x] : x \in S})
<1> DEFINE T == {f[x] : x \in S}
<1>1. f \in Surjection(S, T)
  BY DEF Surjection
<1> HIDE DEF T
<1>2. IsFiniteSet(T)
  BY <1>1, FS_Surjection
<1> QED
  BY <1>2 DEF T

\* What the walk needs to know of the tables.
Rules(t) ==
    \A a \in Animes :
        /\ DOMAIN t.relations[a] \in SUBSET Nat /\ IsFiniteSet(DOMAIN t.relations[a])
        /\ \A i \in DOMAIN t.relations[a] : t.relations[a][i] \in Relation

Led(r)      == {[anime |-> r.other, episode |-> n] : n \in r.ofirst..r.olast}
LedFrom(t, a) == UNION {Led(r) : r \in Range(t.relations[a])}

LEMMA LedFinite ==
    ASSUME NEW r \in Relation PROVE IsFiniteSet(Led(r))
<1> DEFINE S == r.ofirst..r.olast
           f == [n \in S |-> [anime |-> r.other, episode |-> n]]
<1>1. r.ofirst \in Int /\ r.olast \in Int
  BY DEF Relation
<1>2. IsFiniteSet(S)
  BY <1>1, FS_Interval
<1>3. Led(r) = {f[n] : n \in S}
  BY DEF Led
<1>4. DOMAIN f = S /\ f = [n \in S |-> f[n]]
  OBVIOUS
<1> HIDE DEF f, S
<1> QED
  BY <1>2, <1>3, <1>4, ImageFinite

LEMMA LedFromFinite ==
    ASSUME NEW t, Rules(t), NEW a \in Animes PROVE IsFiniteSet(LedFrom(t, a))
<1> DEFINE rel == t.relations[a]
           S == DOMAIN rel
           f == [i \in S |-> Led(rel[i])]
<1>1. IsFiniteSet(S) /\ \A i \in S : rel[i] \in Relation
  BY DEF Rules
<1> HIDE DEF rel
<1>2. DOMAIN f = S /\ f = [i \in S |-> f[i]] /\ \A i \in S : f[i] = Led(rel[i])
  OBVIOUS
<1> HIDE DEF f, S
<1>3. IsFiniteSet({f[i] : i \in S})
  BY <1>1, <1>2, ImageFinite
<1>4. \A T \in {f[i] : i \in S} : IsFiniteSet(T)
  BY <1>1, <1>2, LedFinite
<1>5. IsFiniteSet(UNION {f[i] : i \in S})
  BY <1>3, <1>4, FS_UNION
<1>6. {f[i] : i \in S} = {Led(r) : r \in Range(rel)}
  BY <1>2 DEF Range, S
<1> QED
  BY <1>5, <1>6 DEF LedFrom, rel

LEMMA PlacesParts ==
    ASSUME NEW t PROVE Places(t) = {Mismatch} \union UNION {LedFrom(t, a) : a \in Animes}
BY DEF Places, LedFrom, Led

LEMMA PlacesFinite ==
    ASSUME NEW t, Rules(t)
    PROVE  IsFiniteSet(Places(t)) /\ Cardinality(Places(t)) \in Nat
<1> DEFINE f == [a \in Animes |-> LedFrom(t, a)]
<1>1. IsFiniteSet(Animes)
  BY RelationsAssumption
<1>2. DOMAIN f = Animes /\ f = [a \in Animes |-> f[a]] /\ \A a \in Animes : f[a] = LedFrom(t, a)
  OBVIOUS
<1> HIDE DEF f
<1>3. IsFiniteSet({f[a] : a \in Animes})
  BY <1>1, <1>2, ImageFinite
<1>4. \A T \in {f[a] : a \in Animes} : IsFiniteSet(T)
  BY <1>2, LedFromFinite
<1>5. IsFiniteSet(UNION {f[a] : a \in Animes})
  BY <1>3, <1>4, FS_UNION
<1>6. {f[a] : a \in Animes} = {LedFrom(t, a) : a \in Animes}
  BY <1>2
<1> DEFINE U == UNION {LedFrom(t, a) : a \in Animes}
<1>7. IsFiniteSet(U) /\ Places(t) = {Mismatch} \union U
  BY <1>5, <1>6, PlacesParts
<1> HIDE DEF U
<1>8. IsFiniteSet(Places(t))
  <2>1. IsFiniteSet(U \union {Mismatch})
    BY <1>7, FS_AddElement
  <2>2. U \union {Mismatch} = {Mismatch} \union U
    OBVIOUS
  <2> QED
    BY <1>7, <2>1, <2>2
<1> QED
  BY <1>8, FS_CardinalityType

\* A place, or a number the walk may start with.
Spot == [anime: Animes, episode: Nat]

LEMMA PlacesAre ==
    ASSUME NEW t, Rules(t)
    PROVE  /\ Mismatch \in Places(t)
           /\ Places(t) \in SUBSET ({Mismatch} \union Spot)
           /\ \A a \in Animes : \A i \in DOMAIN t.relations[a] :
                Led(t.relations[a][i]) \in SUBSET Places(t)
<1>1. Places(t) = {Mismatch} \union UNION {LedFrom(t, a) : a \in Animes}
  BY PlacesParts
<1>2. \A r \in Relation : Led(r) \in SUBSET Spot
  BY DEF Led, Relation, Spot
<1>3. \A a \in Animes : LedFrom(t, a) \in SUBSET Spot
  BY <1>2 DEF LedFrom, Rules, Range
<1>4. \A a \in Animes : \A i \in DOMAIN t.relations[a] :
         Led(t.relations[a][i]) \in SUBSET LedFrom(t, a)
  BY DEF LedFrom, Range
<1>5. \A a \in Animes : LedFrom(t, a) \in SUBSET Places(t)
  BY <1>1
<1>6. \A x \in Places(t) : x = Mismatch \/ x \in Spot
  BY <1>1, <1>3
<1> QED
  BY <1>1, <1>4, <1>5, <1>6

\* A turn leads to a place, or stays.
LEMMA FollowLeads ==
    ASSUME NEW t, Rules(t), NEW at \in {Mismatch} \union Spot
    PROVE  Follow(t, at) \in Places(t) \union {at}
<1>1. CASE at = Mismatch
  BY <1>1 DEF Follow
<1>2. CASE at # Mismatch
  <2> DEFINE rel == t.relations[at.anime]
             fitting == {i \in DOMAIN rel : rel[i].first <= at.episode /\ at.episode <= rel[i].last}
             first == CHOOSE i \in fitting : \A j \in fitting : i <= j
             matched == rel[first]
             next == [anime   |-> matched.other,
                      episode |-> matched.ofirst + (at.episode - matched.first)]
  <2>1. Follow(t, at) = IF at = Mismatch \/ at.episode \in 1..t.counts[at.anime] \/ fitting = {} THEN at
                        ELSE IF matched.last - matched.first # matched.olast - matched.ofirst THEN Mismatch
                        ELSE next
    BY DEF Follow
  <2>2. at.anime \in Animes /\ at.episode \in Nat
    BY <1>2 DEF Spot
  <2> HIDE DEF rel
  <2>3. ASSUME fitting # {}, matched.last - matched.first = matched.olast - matched.ofirst
        PROVE  next \in Places(t)
    <3>1. DOMAIN rel \in SUBSET Nat /\ \A i \in DOMAIN rel : rel[i] \in Relation
      BY <2>2 DEF Rules, rel
    <3>2. \E i \in fitting : \A j \in fitting : i <= j
      <4>1. fitting \in SUBSET Nat
        BY <3>1
      <4> HIDE DEF fitting
      <4> QED
        BY <4>1, <2>3, LeastNumber
    <3>3. first \in fitting
      BY <3>2
    <3> HIDE DEF first
    <3>4. /\ first \in DOMAIN rel /\ matched \in Relation
          /\ matched.first <= at.episode /\ at.episode <= matched.last
      BY <3>1, <3>3
    <3> HIDE DEF matched, fitting
    <3>5. matched.ofirst + (at.episode - matched.first) \in matched.ofirst..matched.olast
      BY <2>2, <2>3, <3>4 DEF Relation
    <3>6. next \in Led(matched)
      BY <3>5 DEF Led
    <3>7. Led(matched) \in SUBSET Places(t)
      BY <2>2, <3>4, PlacesAre DEF rel, matched
    <3> HIDE DEF next
    <3> QED
      BY <3>6, <3>7
  <2>4. Mismatch \in Places(t)
    BY PlacesAre
  <2> HIDE DEF next, matched, fitting
  <2> QED
    BY <2>1, <2>3, <2>4
<1> QED
  BY <1>1, <1>2

\* f is the walk of n turns.
WalkTo(f, t, at, n) == f = [i \in 0..n |-> IF i = 0 THEN at ELSE Follow(t, f[i - 1])]

LEMMA WalkExists ==
    ASSUME NEW t, NEW at, NEW n \in Nat PROVE \E f : WalkTo(f, t, at, n)
<1> DEFINE Built(f, m) == f = [i \in 0..m |-> IF i = 0 THEN at ELSE Follow(t, f[i - 1])]
           bad == {m \in Nat : ~\E f : Built(f, m)}
<1>1. bad = {}
  <2> SUFFICES ASSUME bad # {} PROVE FALSE
    OBVIOUS
  <2>1. PICK m \in bad : \A k \in bad : m <= k
    <3>1. bad \in SUBSET Nat
      OBVIOUS
    <3> QED
      BY <3>1, LeastNumber
  <2>2. m \in Nat /\ ~\E f : Built(f, m)
    BY <2>1
  <2>3. CASE m = 0
    <3>1. Built([i \in 0..0 |-> at], 0)
      OBVIOUS
    <3> QED
      BY <2>2, <2>3, <3>1
  <2>4. CASE m > 0
    <3>1. m - 1 \in Nat /\ ~(m <= m - 1)
      BY <2>2, <2>4
    <3>2. PICK f : Built(f, m - 1)
      BY <2>1, <3>1
    <3> DEFINE last == Follow(t, f[m - 1])
               g == [i \in 0..m |-> IF i = m THEN last ELSE f[i]]
    <3>3. \A i \in 0..m - 1 : g[i] = f[i]
      BY <2>2, <2>4
    <3>4. \A i \in 0..m : g[i] = IF i = 0 THEN at ELSE Follow(t, g[i - 1])
      <4> SUFFICES ASSUME NEW i \in 0..m
                   PROVE  g[i] = IF i = 0 THEN at ELSE Follow(t, g[i - 1])
        OBVIOUS
      <4>1. CASE i = m
        <5>1. g[i] = last /\ i # 0 /\ g[i - 1] = f[m - 1]
          BY <4>1, <2>2, <2>4, <3>3
        <5> QED
          BY <5>1, <4>1
      <4>2. CASE i # m
        <5>1. i \in 0..m - 1 /\ (i # 0 => i - 1 \in 0..m - 1)
          BY <4>2, <2>2, <2>4
        <5>2. f[i] = IF i = 0 THEN at ELSE Follow(t, f[i - 1])
          <6> HIDE DEF g, last
          <6> QED
            BY <5>1, <4>2, <3>2
        <5>3. g[i] = f[i] /\ (i # 0 => g[i - 1] = f[i - 1])
          BY <5>1, <3>3
        <5> QED
          BY <5>2, <5>3, <4>2
      <4> QED
        BY <4>1, <4>2
    <3>5. g = [i \in 0..m |-> g[i]]
      OBVIOUS
    <3> HIDE DEF g
    <3>6. Built(g, m)
      BY <3>4, <3>5
    <3> QED
      BY <2>2, <3>6
  <2> QED
    BY <2>2, <2>3, <2>4
<1>2. \E f : Built(f, n)
  BY <1>1
<1> QED
  BY <1>2 DEF WalkTo

Turns(t) == Cardinality(Places(t)) + 1

LEMMA WalkIs ==
    ASSUME NEW t, Rules(t), NEW at
    PROVE  /\ Turns(t) \in Nat /\ DOMAIN Walk(t, at) = 0..Turns(t)
           /\ Walk(t, at)[0] = at
           /\ \A i \in 1..Turns(t) : Walk(t, at)[i] = Follow(t, Walk(t, at)[i - 1])
<1> DEFINE n == Turns(t)
           L == Walk(t, at)
<1>1. n \in Nat
  BY PlacesFinite DEF Turns
<1>2. \E f : WalkTo(f, t, at, n)
  BY <1>1, WalkExists
<1>3. L = CHOOSE f : WalkTo(f, t, at, n)
  BY DEF Walk, WalkTo, Turns
<1> HIDE DEF L, n
<1>4. WalkTo(L, t, at, n)
  BY <1>2, <1>3
<1>5. L = [i \in 0..n |-> IF i = 0 THEN at ELSE Follow(t, L[i - 1])]
  BY <1>4 DEF WalkTo
<1>6. DOMAIN L = 0..n /\ \A i \in 0..n : L[i] = IF i = 0 THEN at ELSE Follow(t, L[i - 1])
  BY <1>5
<1>7. L[0] = at /\ \A i \in 1..n : L[i] = Follow(t, L[i - 1])
  BY <1>1, <1>6
<1> QED
  BY <1>1, <1>6, <1>7 DEF n, L

\* It keeps to places and its start.
LEMMA WalkStays ==
    ASSUME NEW t, Rules(t), NEW at \in Spot, NEW i \in 0..Turns(t)
    PROVE  Walk(t, at)[i] \in Places(t) \union {at}
<1> DEFINE p == Walk(t, at)
           n == Turns(t)
           bad == {j \in 0..n : p[j] \notin Places(t) \union {at}}
<1>1. /\ n \in Nat /\ p[0] = at /\ \A j \in 1..n : p[j] = Follow(t, p[j - 1])
  BY WalkIs
<1>2. Places(t) \in SUBSET ({Mismatch} \union Spot)
  BY PlacesAre
<1> HIDE DEF p, n
<1>3. bad = {}
  <2> SUFFICES ASSUME bad # {} PROVE FALSE
    OBVIOUS
  <2>1. PICK m \in bad : \A k \in bad : m <= k
    <3>1. bad \in SUBSET Nat
      OBVIOUS
    <3> QED
      BY <3>1, LeastNumber
  <2>2. m \in 1..n /\ m - 1 \in 0..n /\ ~(m <= m - 1)
    BY <1>1, <2>1
  <2>3. p[m - 1] \in Places(t) \union {at}
    BY <2>1, <2>2
  <2>4. p[m - 1] \in {Mismatch} \union Spot
    BY <1>2, <2>3
  <2>5. p[m] \in Places(t) \union {p[m - 1]}
    BY <1>1, <2>2, <2>4, FollowLeads
  <2> QED
    BY <2>1, <2>3, <2>5
<1> QED
  BY <1>3 DEF p, n

\* A place that was visited before, and the first such.
Again(p, i) == \E j \in 0..(i - 1) : p[j] = p[i]
FirstAgain(p, i) == Again(p, i) /\ \A k \in 0..(i - 1) : ~Again(p, k)

LEMMA WalkReturns ==
    ASSUME NEW t, Rules(t), NEW at \in Spot
    PROVE  \E i \in 0..Turns(t) : FirstAgain(Walk(t, at), i)
<1> DEFINE p == Walk(t, at)
           n == Turns(t)
           V == Places(t) \union {at}
           some == {i \in 0..n : Again(p, i)}
<1>1. n \in Nat /\ DOMAIN p = 0..n
  BY WalkIs
<1>2. p = [i \in 0..n |-> p[i]] /\ \A i \in 0..n : p[i] \in V
  <2>1. \A i \in 0..n : p[i] \in V
    BY WalkStays
  <2>2. p = [i \in 0..n |-> p[i]]
    <3>1. \E f : WalkTo(f, t, at, n)
      BY <1>1, WalkExists
    <3>2. p = CHOOSE f : WalkTo(f, t, at, n)
      BY DEF Walk, WalkTo, Turns
    <3> HIDE DEF p, n
    <3>3. WalkTo(p, t, at, n)
      BY <3>1, <3>2
    <3>4. p = [i \in 0..n |-> IF i = 0 THEN at ELSE Follow(t, p[i - 1])]
      BY <3>3 DEF WalkTo
    <3> QED
      BY <3>4
  <2> QED
    BY <2>1, <2>2
<1>3. /\ IsFiniteSet(V) /\ Cardinality(V) <= n /\ Cardinality(V) \in Nat
  <2>1. IsFiniteSet(Places(t)) /\ Cardinality(Places(t)) \in Nat
    BY PlacesFinite
  <2>2. /\ IsFiniteSet(V)
        /\ Cardinality(V) = IF at \in Places(t) THEN Cardinality(Places(t))
                            ELSE Cardinality(Places(t)) + 1
    BY <2>1, FS_AddElement
  <2>3. n = Cardinality(Places(t)) + 1
    BY DEF Turns
  <2> HIDE DEF V, n
  <2>4. Cardinality(V) <= n
    BY <2>1, <2>2, <2>3
  <2> QED
    BY <2>2, <2>4, FS_CardinalityType
<1>4. IsFiniteSet(0..n) /\ Cardinality(0..n) = n + 1
  BY <1>1, FS_Interval
<1> HIDE DEF p, n, V
<1>5. p \in [0..n -> V]
  BY <1>2
<1>6. Cardinality(V) < Cardinality(0..n)
  BY <1>1, <1>3, <1>4
<1>7. \E x, y \in 0..n : x # y /\ p[x] = p[y]
  BY <1>3, <1>4, <1>5, <1>6, FS_PigeonHole
<1>8. \E x, y \in 0..n : x < y /\ p[x] = p[y]
  BY <1>1, <1>7
<1>9. some # {}
  <2>1. PICK x, y \in 0..n : x < y /\ p[x] = p[y]
    BY <1>8
  <2>2. x \in 0..(y - 1)
    BY <1>1, <2>1
  <2> QED
    BY <2>1, <2>2 DEF Again
<1>10. PICK m \in some : \A k \in some : m <= k
  <2>1. some \in SUBSET Nat
    OBVIOUS
  <2> HIDE DEF some
  <2> QED
    BY <1>9, <2>1, LeastNumber
<1>11. \A k \in 0..(m - 1) : k \in 0..n /\ ~(m <= k)
  BY <1>1, <1>10
<1>12. FirstAgain(p, m)
  BY <1>10, <1>11 DEF FirstAgain
<1> QED
  BY <1>10, <1>12 DEF p, n

\* The answer is the first place visited before.
LEMMA ResolveIs ==
    ASSUME NEW t, Rules(t), NEW a \in Animes, NEW n \in Nat, NEW i \in 0..Turns(t),
           FirstAgain(Walk(t, [anime |-> a, episode |-> n]), i)
    PROVE  ResolveAnime(t, a, n) = Walk(t, [anime |-> a, episode |-> n])[i]
<1> DEFINE p == Walk(t, [anime |-> a, episode |-> n])
<1>1. DOMAIN p = 0..Turns(t) /\ Turns(t) \in Nat
  BY WalkIs
<1>2. ResolveAnime(t, a, n) = p[CHOOSE k \in DOMAIN p : FirstAgain(p, k)]
  BY DEF ResolveAnime, FirstAgain, Again
<1> HIDE DEF p
<1>3. FirstAgain(p, i)
  BY DEF p
<1>4. \A k \in DOMAIN p : FirstAgain(p, k) => k = i
  <2> SUFFICES ASSUME NEW k \in 0..Turns(t), FirstAgain(p, k) PROVE k = i
    BY <1>1
  <2>1. ~(k < i)
    BY <1>1, <1>3 DEF FirstAgain
  <2>2. ~(i < k)
    BY <1>1, <1>3 DEF FirstAgain
  <2> QED
    BY <1>1, <2>1, <2>2
<1>5. (CHOOSE k \in DOMAIN p : FirstAgain(p, k)) = i
  BY <1>1, <1>3, <1>4
<1> QED
  BY <1>2, <1>5 DEF p

\* A number that has been resolved stays.
LEMMA ResolvedStays ==
    ASSUME NEW t, Rules(t), NEW a \in Animes, NEW n \in Nat,
           ResolveAnime(t, a, n) # Mismatch
    PROVE  ResolveAnime(t, ResolveAnime(t, a, n).anime, ResolveAnime(t, a, n).episode)
               = ResolveAnime(t, a, n)
<1> DEFINE at == [anime |-> a, episode |-> n]
           p  == Walk(t, at)
           z  == Turns(t)
<1>1. at \in Spot
  BY DEF Spot
<1> HIDE DEF at
<1>2. /\ z \in Nat /\ p[0] = at /\ \A i \in 1..z : p[i] = Follow(t, p[i - 1])
  BY WalkIs
<1>3. PICK m \in 0..z : FirstAgain(p, m)
  BY <1>1, WalkReturns
<1>4. ResolveAnime(t, a, n) = p[m]
  BY <1>3, ResolveIs DEF at
<1>5. PICK j \in 0..(m - 1) : p[j] = p[m]
  BY <1>3 DEF FirstAgain, Again
<1>6. p[m] \in Spot
  <2>1. p[m] \in Places(t) \union {at}
    BY <1>1, WalkStays
  <2> QED
    BY <1>1, <1>4, <2>1, PlacesAre
<1> DEFINE found == p[m]
           q == Walk(t, found)
           d == m - j
<1>7. found = [anime |-> found.anime, episode |-> found.episode] /\ found.anime \in Animes
      /\ found.episode \in Nat
  <2> HIDE DEF p
  <2> QED
    BY <1>6 DEF Spot
<1>8. q[0] = found /\ \A i \in 1..z : q[i] = Follow(t, q[i - 1])
  BY WalkIs
<1> HIDE DEF p, q, z
<1>9. d \in Nat /\ d > 0 /\ d \in 0..z /\ j \in Nat /\ m \in Nat /\ j + d = m /\ m <= z
  BY <1>2, <1>3, <1>5
<1> HIDE DEF d, found
<1>10. \A i \in 0..d : q[i] = p[j + i]
  <2> DEFINE bad == {i \in 0..d : q[i] # p[j + i]}
  <2> SUFFICES ASSUME bad # {} PROVE FALSE
    OBVIOUS
  <2>1. PICK i \in bad : \A k \in bad : i <= k
    <3>1. bad \in SUBSET Nat
      OBVIOUS
    <3> HIDE DEF bad
    <3> QED
      BY <3>1, LeastNumber
  <2>2. q[0] = p[j + 0]
    BY <1>5, <1>8, <1>9 DEF found
  <2>3. i \in 1..d /\ i - 1 \in 0..d /\ ~(i <= i - 1)
    BY <1>9, <2>1, <2>2
  <2>4. q[i - 1] = p[j + (i - 1)]
    BY <2>1, <2>3
  <2>5. i \in 1..z /\ j + i \in 1..z /\ j + (i - 1) = (j + i) - 1
    BY <1>2, <1>9, <2>3
  <2>6. q[i] = Follow(t, q[i - 1]) /\ p[j + i] = Follow(t, p[j + (i - 1)])
    BY <1>2, <1>8, <2>5
  <2> QED
    BY <2>1, <2>4, <2>6
<1>11. FirstAgain(q, d)
  <2>1. q[0] = q[d]
    BY <1>5, <1>8, <1>9, <1>10 DEF found
  <2>2. Again(q, d)
    BY <1>9, <2>1 DEF Again
  <2>3. ASSUME NEW k \in 0..(d - 1), Again(q, k) PROVE FALSE
    <3>1. PICK i \in 0..(k - 1) : q[i] = q[k]
      BY <2>3 DEF Again
    <3>2. i \in 0..d /\ k \in 0..d /\ j + i \in 0..(j + k - 1) /\ j + k \in 0..(m - 1)
      BY <1>9, <3>1
    <3>3. p[j + i] = p[j + k]
      BY <1>10, <3>1, <3>2
    <3>4. Again(p, j + k)
      BY <3>2, <3>3 DEF Again
    <3> QED
      BY <1>3, <3>2, <3>4 DEF FirstAgain
  <2> QED
    BY <2>2, <2>3 DEF FirstAgain
<1>12. ResolveAnime(t, found.anime, found.episode) = q[d]
  BY <1>7, <1>9, <1>11, ResolveIs DEF q, z
<1>13. q[d] = found
  BY <1>5, <1>9, <1>10 DEF found
<1> QED
  BY <1>4, <1>12, <1>13 DEF found
-----------------------------------------------------------------------------
\* The two directions of a mapping row.

LEMMA Division ==
    ASSUME NEW x \in Nat, NEW k \in Nat \ {0}
    PROVE  x \div k \in Nat /\ x % k \in 0..(k - 1) /\ x = k * (x \div k) + (x % k)
OBVIOUS

LEMMA Quotient ==
    ASSUME NEW k \in Nat \ {0}, NEW q \in Nat, NEW r \in 0..(k - 1)
    PROVE  (k * q + r) \div k = q
OBVIOUS

LEMMA QuotientBound ==
    ASSUME NEW k \in Nat \ {0}, NEW q \in Int, NEW m \in Int, k * q < k * m
    PROVE  q < m
OBVIOUS

LEMMA ProductGrows ==
    ASSUME NEW k \in Nat \ {0}, NEW q \in Int, NEW m \in Int, q < m
    PROVE  k * q + k <= k * m
OBVIOUS

LEMMA ReversedFields ==
    ASSUME NEW l \in Entry
    PROVE  /\ Reversed(l).from = l.tfrom /\ Reversed(l).to = l.tto
           /\ Reversed(l).tfrom = l.from /\ Reversed(l).tto = l.to
           /\ Reversed(l).step = Turned(l.step)
BY DEF Reversed, Entry

LEMMA EntryFields ==
    ASSUME NEW l \in Entry
    PROVE  /\ l.from \in Int /\ l.tfrom \in Int /\ l.step \in Int
           /\ l.to \in Int \union {Open} /\ l.tto \in Int \union {Open} /\ Open \notin Int
BY OpenAssumption DEF Entry, Bound

\* A line that joins k episodes: where it leads, and what leads back.
LEMMA JoinHits ==
    ASSUME NEW l, NEW n \in Int, l.from \in Int, l.tfrom \in Int, l.step \in Nat \ {0},
           Within(n, l.from, l.to), Upto(l.tfrom + ((n - l.from) \div l.step), l.tto)
    PROVE  Hits(l, n) = {l.tfrom + ((n - l.from) \div l.step)}
<1> DEFINE t == Joined(l, n)
<1>1. Targets(l, n) = {x \in {t} : Upto(x.episode, l.tto)}
  BY DEF Targets
<1>2. t.episode = l.tfrom + ((n - l.from) \div l.step)
  BY DEF Joined
<1> HIDE DEF t
<1>3. Targets(l, n) = {t}
  BY <1>1, <1>2
<1> QED
  BY <1>2, <1>3 DEF Hits

\* One that spreads an episode over k.
LEMMA SpreadHits ==
    ASSUME NEW l, NEW n \in Int, l.from \in Int, l.tfrom \in Int, NEW k \in Nat \ {0},
           l.step = -k, Within(n, l.from, l.to)
    PROVE  Hits(l, n) = {t \in Int : /\ l.tfrom + (n - l.from) * k <= t
                                     /\ t <= l.tfrom + (n - l.from) * k + k - 1
                                     /\ Upto(t, l.tto)}
<1>1. Targets(l, n) = Spread(l, n)
  BY DEF Targets
<1>2. -l.step = k /\ SpreadFrom(l, n) = l.tfrom + (n - l.from) * k
  BY DEF SpreadFrom
<1> DEFINE s == l.tfrom + (n - l.from) * k
<1>3. s \in Int /\ s - l.step - 1 = s + k - 1
  BY <1>2
<1> HIDE DEF s
<1>4. Spread(l, n) = {[episode |-> t, part |-> 0, ceiling |-> 0] :
                         t \in {t \in s..(s + k - 1) : Upto(t, l.tto)}}
  BY <1>2, <1>3 DEF Spread, s
<1>5. Hits(l, n) = {t \in s..(s + k - 1) : Upto(t, l.tto)}
  <2>1. \A t : [episode |-> t, part |-> 0, ceiling |-> 0].episode = t
    OBVIOUS
  <2>2. \A t \in Hits(l, n) : t \in s..(s + k - 1) /\ Upto(t, l.tto)
    BY <1>1, <1>4, <2>1 DEF Hits
  <2>3. ASSUME NEW t \in s..(s + k - 1), Upto(t, l.tto) PROVE t \in Hits(l, n)
    <3>1. [episode |-> t, part |-> 0, ceiling |-> 0] \in Targets(l, n)
      BY <1>1, <1>4, <2>3
    <3> QED
      BY <2>1, <3>1 DEF Hits
  <2> QED
    BY <2>2, <2>3
<1> QED
  BY <1>3, <1>5 DEF s

\* Upper ends: of what a join or a spread leads to, while the counts agree.
LEMMA JoinEnds ==
    ASSUME NEW x \in Nat, NEW k \in Nat \ {0}, NEW m \in Int, x < k * m
    PROVE  x \div k < m
<1>1. x \div k \in Nat /\ x % k \in 0..(k - 1) /\ x = k * (x \div k) + (x % k)
  BY Division
<1> DEFINE q == x \div k
<1>2. q \in Nat /\ k * q <= x
  BY <1>1
<1> HIDE DEF q
<1>3. k * q \in Int /\ k * m \in Int /\ k * q < k * m
  BY <1>2
<1>4. q < m
  BY <1>2, <1>3, QuotientBound
<1> QED
  BY <1>4 DEF q

\* A row that was let through and joins.
LEMMA JoinsRoundTrip ==
    ASSUME NEW l \in Entry, ValidRanges(l), l.step \in Nat \ {0}, NEW n \in Int,
           Within(n, l.from, l.to)
    PROVE  /\ Hits(l, n) # {}
           /\ \A t \in Hits(l, n) : Within(t, l.tfrom, l.tto) /\ n \in Hits(Reversed(l), t)
<1> DEFINE k == l.step
           x == n - l.from
           q == x \div k
           r == x % k
           t == l.tfrom + q
           b == Reversed(l)
<1>1. /\ l.from \in Int /\ l.tfrom \in Int /\ l.to \in Int \union {Open}
      /\ l.tto \in Int \union {Open} /\ Open \notin Int
  BY EntryFields
<1>2. /\ b.from = l.tfrom /\ b.to = l.tto /\ b.tfrom = l.from /\ b.tto = l.to
      /\ b.step = Turned(l.step)
  BY ReversedFields
<1>3. x \in Nat /\ k \in Nat \ {0} /\ n = l.from + x
  BY <1>1 DEF Within
<1> HIDE DEF x, k, b
<1>4. q \in Nat /\ r \in 0..(k - 1) /\ x = k * q + r
  BY <1>3, Division
<1>5. k = 1 => q = x
  <2> HIDE DEF q, r
  <2> QED
    BY <1>3, <1>4
<1>6. l.tto # Open => t <= l.tto
  <2> SUFFICES ASSUME l.tto # Open PROVE t <= l.tto
    OBVIOUS
  <2> DEFINE m == l.tto - l.tfrom + 1
  <2>1. l.to # Open /\ l.to \in Int /\ l.tto \in Int /\ l.to - l.from + 1 = k * m
    BY <1>1, <1>3 DEF ValidRanges, Count, k
  <2>2. m \in Int /\ x <= l.to - l.from
    BY <1>1, <1>3, <2>1 DEF Within, Upto
  <2> HIDE DEF m
  <2>3. k * m \in Int /\ x < k * m
    BY <1>1, <1>3, <2>1, <2>2
  <2>4. q < m
    BY <1>3, <2>2, <2>3, JoinEnds
  <2> HIDE DEF q
  <2> QED
    BY <1>1, <1>4, <2>1, <2>4 DEF m
<1>7. t \in Int /\ l.tfrom <= t
  <2> HIDE DEF q, r
  <2> QED
    BY <1>1, <1>4
<1>8. Upto(t, l.tto)
  BY <1>6 DEF Upto
<1>9. Hits(l, n) = {t}
  BY <1>1, <1>3, <1>8, JoinHits DEF x, k
<1>10. Within(t, l.tfrom, l.tto)
  BY <1>7, <1>8 DEF Within
<1>11. Within(t, b.from, b.to)
  BY <1>2, <1>10
<1> HIDE DEF t
<1>12. t - b.from = q
  <2> HIDE DEF q, r
  <2> QED
    BY <1>1, <1>2, <1>4 DEF t
<1>13. Upto(n, b.tto)
  BY <1>2 DEF Within
<1>14. n \in Hits(b, t)
  <2>1. CASE k = 1
    <3>1. b.step = 1 /\ b.step \in Nat \ {0}
      BY <1>2, <2>1 DEF Turned, k
    <3>2. q \in Nat /\ n = b.tfrom + q
      BY <1>2, <1>3, <1>4, <1>5, <2>1
    <3> HIDE DEF q
    <3>3. b.tfrom + ((t - b.from) \div b.step) = n
      BY <1>12, <3>1, <3>2
    <3>4. b.from \in Int /\ b.tfrom \in Int
      BY <1>1, <1>2
    <3>5. Hits(b, t) = {b.tfrom + ((t - b.from) \div b.step)}
      BY <1>7, <1>11, <1>13, <3>1, <3>3, <3>4, JoinHits DEF t
    <3> QED
      BY <3>3, <3>5
  <2>2. CASE k # 1
    <3>1. b.step = -k /\ b.from \in Int /\ b.tfrom \in Int
      BY <1>1, <1>2, <1>3, <2>2 DEF Turned, k
    <3>2. t \in Int
      BY <1>7 DEF t
    <3>3. Hits(b, t) = {u \in Int : /\ b.tfrom + (t - b.from) * k <= u
                                    /\ u <= b.tfrom + (t - b.from) * k + k - 1
                                    /\ Upto(u, b.tto)}
      BY <1>3, <1>11, <3>1, <3>2, SpreadHits
    <3>4. n = b.tfrom + q * k + r /\ q * k \in Int
      <4> HIDE DEF q, r
      <4> QED
        BY <1>1, <1>2, <1>3, <1>4
    <3>5. b.tfrom + q * k <= n /\ n <= b.tfrom + q * k + k - 1
      <4> HIDE DEF q, r
      <4> QED
        BY <1>3, <1>4, <3>1, <3>4
    <3> QED
      BY <1>12, <1>13, <3>3, <3>5
  <2> QED
    BY <2>1, <2>2
<1> QED
  BY <1>9, <1>10, <1>14 DEF b, t

\* One that spreads.
LEMMA SpreadsRoundTrip ==
    ASSUME NEW l \in Entry, ValidRanges(l), l.step <= -2, NEW n \in Int, Within(n, l.from, l.to)
    PROVE  /\ Hits(l, n) # {}
           /\ \A t \in Hits(l, n) : Within(t, l.tfrom, l.tto) /\ n \in Hits(Reversed(l), t)
<1> DEFINE k == -l.step
           x == n - l.from
           s == l.tfrom + x * k
           b == Reversed(l)
<1>1. /\ l.from \in Int /\ l.tfrom \in Int /\ l.to \in Int \union {Open} /\ l.step \in Int
      /\ l.tto \in Int \union {Open} /\ Open \notin Int
  BY EntryFields
<1>2. /\ b.from = l.tfrom /\ b.to = l.tto /\ b.tfrom = l.from /\ b.tto = l.to
      /\ b.step = Turned(l.step)
  BY ReversedFields
<1>3. x \in Nat /\ k \in Nat \ {0} /\ k >= 2 /\ n = l.from + x /\ l.step = -k
  BY <1>1 DEF Within
<1>4. b.step = k
  BY <1>1, <1>2, <1>3 DEF Turned
<1> HIDE DEF x, k, b
<1>5. x * k \in Nat /\ s \in Int
  BY <1>1, <1>3
<1>6. Hits(l, n) = {t \in Int : s <= t /\ t <= s + k - 1 /\ Upto(t, l.tto)}
  BY <1>1, <1>3, SpreadHits DEF x
<1>7. l.tto # Open => s + k - 1 <= l.tto
  <2> SUFFICES ASSUME l.tto # Open PROVE s + k - 1 <= l.tto
    OBVIOUS
  <2> DEFINE m == l.to - l.from + 1
  <2>1. l.to # Open /\ l.to \in Int /\ l.tto \in Int /\ l.tto - l.tfrom + 1 = k * m
    BY <1>1 DEF ValidRanges, Count, k
  <2>2. m \in Int /\ x < m
    BY <1>1, <1>3, <2>1 DEF Within, Upto
  <2> HIDE DEF m
  <2>3. k * x + k <= k * m /\ k * m \in Int /\ x * k = k * x
    BY <1>3, <2>2, ProductGrows
  <2> QED
    BY <1>1, <1>3, <1>5, <2>1, <2>3
<1>8. s \in Hits(l, n)
  <2>1. s <= s + k - 1
    BY <1>3, <1>5
  <2>2. Upto(s, l.tto)
    BY <1>1, <1>3, <1>5, <1>7 DEF Upto
  <2> HIDE DEF s
  <2> QED
    BY <1>5, <1>6, <2>1, <2>2
<1>9. ASSUME NEW t \in Hits(l, n) PROVE Within(t, l.tfrom, l.tto) /\ n \in Hits(b, t)
  <2>1. t \in Int /\ s <= t /\ t <= s + k - 1 /\ Upto(t, l.tto)
    BY <1>6
  <2>2. l.tfrom <= t
    BY <1>1, <1>5, <2>1
  <2>3. Within(t, l.tfrom, l.tto)
    BY <2>1, <2>2 DEF Within
  <2> DEFINE r == t - s
  <2>4. r \in 0..(k - 1) /\ t - b.from = k * x + r
    <3>1. x * k = k * x
      BY <1>3
    <3> QED
      BY <1>1, <1>2, <1>3, <1>5, <2>1, <3>1
  <2> HIDE DEF r, s
  <2>5. (t - b.from) \div b.step = x
    BY <1>3, <1>4, <2>4, Quotient
  <2>6. b.tfrom + ((t - b.from) \div b.step) = n
    BY <1>2, <1>3, <2>5
  <2>7. Upto(n, b.tto) /\ Within(t, b.from, b.to)
    BY <1>2, <2>3 DEF Within
  <2>8. Hits(b, t) = {b.tfrom + ((t - b.from) \div b.step)}
    <3>1. b.from \in Int /\ b.tfrom \in Int /\ b.step \in Nat \ {0}
      BY <1>1, <1>2, <1>3, <1>4
    <3> QED
      BY <2>1, <2>6, <2>7, <3>1, JoinHits
  <2> QED
    BY <2>3, <2>6, <2>8
<1> HIDE DEF s
<1> QED
  BY <1>8, <1>9 DEF b

\* What the checks let through agrees in both directions, for every number.
LEMMA ValidRoundTrips ==
    ASSUME NEW l \in Entry, ValidRanges(l), NEW n \in Int
    PROVE  RoundTrips(l, n)
<1> SUFFICES ASSUME Within(n, l.from, l.to)
             PROVE  /\ Hits(l, n) # {}
                    /\ \A t \in Hits(l, n) : Within(t, l.tfrom, l.tto) /\ n \in Hits(Reversed(l), t)
  BY DEF RoundTrips
<1>1. l.step <= -2 \/ l.step \in Nat \ {0}
  BY EntryFields DEF ValidRanges
<1> QED
  BY <1>1, JoinsRoundTrip, SpreadsRoundTrip
-----------------------------------------------------------------------------
\* Names of videos.

\* Numbers without a gap are shown by their ends, and told apart by them.
LEMMA IntervalEnds ==
    ASSUME NEW a \in Int, NEW b \in Int, a <= b
    PROVE  Shown(a..b) = [gaps |-> FALSE, of |-> {a, b}]
<1>1. Min(a..b) = a
  <2>1. \A x \in a..b : (\A y \in a..b : x =< y) <=> x = a
    OBVIOUS
  <2> QED
    BY <2>1 DEF Min
<1>2. Max(a..b) = b
  <2>1. \A x \in a..b : (\A y \in a..b : x >= y) <=> x = b
    OBVIOUS
  <2> QED
    BY <2>1 DEF Max
<1>3. a..b # {}
  OBVIOUS
<1> QED
  BY <1>1, <1>2, <1>3 DEF Shown

LEMMA ShownTells ==
    ASSUME NEW a \in Int, NEW b \in Int, a <= b, NEW c \in Int, NEW d \in Int, c <= d
    PROVE  /\ Shown(a..b) = Shown(c..d) => a = c /\ b = d
           /\ Shown(a..b) # Shown({})
<1>1. /\ Shown(a..b) = [gaps |-> FALSE, of |-> {a, b}]
      /\ Shown(c..d) = [gaps |-> FALSE, of |-> {c, d}]
  BY IntervalEnds
<1>2. Shown({}) = [gaps |-> FALSE, of |-> {}]
  BY DEF Shown
<1>3. Shown(a..b) = Shown(c..d) => {a, b} = {c, d}
  BY <1>1
<1>4. {a, b} = {c, d} => a = c /\ b = d
  OBVIOUS
<1>5. Shown(a..b) # Shown({})
  BY <1>1, <1>2
<1> QED
  BY <1>3, <1>4, <1>5

LEMMA PointsTell ==
    ASSUME NEW a \in Int, NEW c \in Int
    PROVE  /\ Shown(a..a) = Shown(c..c) => a = c
           /\ Shown(a..a) # Shown({})
<1>1. a <= a /\ c <= c
  OBVIOUS
<1> QED
  BY <1>1, ShownTells

\* What a file is called after AniList's numbers.
LEMMA RawNamesTell ==
    ASSUME NEW v \in [episodes : SUBSET Int, part : Nat, ceiling : Nat],
           NEW w \in [episodes : SUBSET Int, part : Nat, ceiling : Nat],
           NEW a \in Int, NEW b \in Int, a <= b, v.episodes = a..b,
           NEW c \in Int, NEW d \in Int, c <= d, w.episodes = c..d,
           RawName(v) = RawName(w)
    PROVE  ~Disjoint(v, w)
<1>1. /\ Shown(a..b) = Shown(c..d)
      /\ Shown({v.part} \ {0}) = Shown({w.part} \ {0})
  BY DEF RawName
<1>2. v.episodes = w.episodes /\ a \in v.episodes
  BY <1>1, ShownTells
<1>3. /\ v.part \in Int /\ w.part \in Int
      /\ v.part # 0 => {v.part} \ {0} = v.part..v.part
      /\ w.part # 0 => {w.part} \ {0} = w.part..w.part
      /\ v.part = 0 => {v.part} \ {0} = {}
      /\ w.part = 0 => {w.part} \ {0} = {}
  OBVIOUS
<1>4. CASE v.part # 0 /\ w.part # 0
  <2>1. Shown(v.part..v.part) = Shown(w.part..w.part)
    BY <1>1, <1>3, <1>4
  <2>2. v.part = w.part
    BY <1>3, <2>1, PointsTell
  <2> QED
    BY <1>2, <2>2 DEF Disjoint
<1>5. ~(v.part = 0 /\ w.part # 0)
  <2>1. Shown(w.part..w.part) # Shown({})
    BY <1>3, PointsTell
  <2> QED
    BY <1>1, <1>3, <2>1
<1>6. ~(v.part # 0 /\ w.part = 0)
  <2>1. Shown(v.part..v.part) # Shown({})
    BY <1>3, PointsTell
  <2> QED
    BY <1>1, <1>3, <2>1
<1>7. CASE v.part = 0 /\ w.part = 0
  BY <1>2, <1>7 DEF Disjoint
<1> QED
  BY <1>4, <1>5, <1>6, <1>7, <1>3
-----------------------------------------------------------------------------
\* Lines that give each episode as many TVDB episodes of its own.

Plain(l) == l \in Entry /\ ValidRanges(l) /\ (l.step = 1 \/ l.step <= -2)

Span(l) == IF l.step = 1 THEN 1 ELSE -l.step

First(l, n) == l.tfrom + (n - l.from) * Span(l)

LEMMA PlainTypes ==
    ASSUME NEW l, Plain(l), NEW n \in Int
    PROVE  /\ Span(l) \in Nat \ {0} /\ First(l, n) \in Int
           /\ l.from \in Int /\ l.tfrom \in Int /\ l.step \in Int
<1>1. l.from \in Int /\ l.tfrom \in Int /\ l.step \in Int
  BY EntryFields DEF Plain
<1>2. Span(l) \in Nat \ {0}
  BY <1>1 DEF Span, Plain
<1>3. (n - l.from) * Span(l) \in Int
  BY <1>1, <1>2
<1> QED
  BY <1>1, <1>2, <1>3 DEF First

\* Episodes come one after the other.
LEMMA PlainOrder ==
    ASSUME NEW l, Plain(l), NEW n \in Int, NEW m \in Int, n < m
    PROVE  First(l, n) + Span(l) <= First(l, m)
<1>1. /\ Span(l) \in Nat \ {0} /\ l.from \in Int /\ l.tfrom \in Int
  BY PlainTypes
<1> DEFINE k == Span(l)
           x == n - l.from
           y == m - l.from
<1>2. x \in Int /\ y \in Int /\ x < y /\ k \in Nat \ {0}
  BY <1>1
<1>3. First(l, n) = l.tfrom + x * k /\ First(l, m) = l.tfrom + y * k
  BY DEF First
<1> HIDE DEF k, x, y
<1>4. k * x + k <= k * y
  BY <1>2, ProductGrows
<1>5. k * x = x * k /\ k * y = y * k /\ x * k \in Int /\ y * k \in Int
  BY <1>2
<1> QED
  BY <1>1, <1>2, <1>3, <1>4, <1>5 DEF k

LEMMA PlainHits ==
    ASSUME NEW l, Plain(l), NEW n \in Int, Within(n, l.from, l.to)
    PROVE  /\ Hits(l, n) = First(l, n)..(First(l, n) + Span(l) - 1)
           /\ EpisodeRow(l, n).part = 0
<1>1. /\ l.from \in Int /\ l.tfrom \in Int /\ l.step \in Int
      /\ l.to \in Int \union {Open} /\ l.tto \in Int \union {Open} /\ Open \notin Int
  BY EntryFields DEF Plain
<1>2. EpisodeRow(l, n).part = (CHOOSE t \in Targets(l, n) : TRUE).part
  BY DEF EpisodeRow
<1>3. CASE l.step = 1
  <2>1. (n - l.from) \div l.step = n - l.from
    BY <1>1, <1>3
  <2>2. Upto(l.tfrom + (n - l.from), l.tto)
    BY <1>1, <1>3 DEF Plain, ValidRanges, Count, Within, Upto
  <2>3. Hits(l, n) = {l.tfrom + (n - l.from)}
    BY <1>1, <1>3, <2>1, <2>2, JoinHits
  <2>4. First(l, n) = l.tfrom + (n - l.from) /\ Span(l) = 1
    BY <1>1, <1>3 DEF First, Span
  <2>5. Hits(l, n) = First(l, n)..(First(l, n) + Span(l) - 1)
    BY <1>1, <2>3, <2>4
  <2>6. Targets(l, n) \subseteq {Joined(l, n)}
    BY <1>1, <1>3 DEF Targets
  <2>7. Joined(l, n).part = 0
    BY <1>3 DEF Joined
  <2>8. Targets(l, n) # {}
    BY <2>3 DEF Hits
  <2> QED
    BY <1>2, <2>5, <2>6, <2>7, <2>8
<1>4. CASE l.step <= -2
  <2> DEFINE k == -l.step
             s == First(l, n)
  <2>1. k \in Nat \ {0} /\ l.step = -k /\ s = l.tfrom + (n - l.from) * k /\ Span(l) = k /\ s \in Int
    BY <1>1, <1>4, PlainTypes DEF First, Span
  <2>2. Hits(l, n) = {t \in Int : s <= t /\ t <= s + k - 1 /\ Upto(t, l.tto)}
    BY <1>1, <2>1, SpreadHits
  <2>3. ASSUME NEW t \in Int, t <= s + k - 1 PROVE Upto(t, l.tto)
    <3>1. CASE l.tto = Open
      BY <3>1 DEF Upto
    <3>2. CASE l.tto # Open
      <4>1. /\ l.to \in Int /\ l.tto \in Int /\ n <= l.to
            /\ l.tto - l.tfrom + 1 = k * (l.to - l.from + 1)
        <5>1. l.tto - l.tfrom + 1 = -l.step * (l.to - l.from + 1)
          BY <1>1, <1>4, <3>2 DEF Plain, ValidRanges, Count
        <5>2. l.to # Open
          BY <1>1, <1>4, <3>2 DEF Plain, ValidRanges
        <5> QED
          BY <1>1, <3>2, <5>1, <5>2 DEF Within, Upto
      <4>2. n - l.from < l.to - l.from + 1 /\ n - l.from \in Int /\ l.to - l.from + 1 \in Int
        BY <1>1, <4>1
      <4> DEFINE x == n - l.from
                 y == l.to - l.from + 1
      <4>3. x \in Int /\ y \in Int /\ x < y /\ l.tto - l.tfrom + 1 = k * y /\ s = l.tfrom + x * k
        BY <2>1, <4>1, <4>2
      <4> HIDE DEF x, y, k, s
      <4>4. k * x + k <= k * y
        BY <2>1, <4>3, ProductGrows
      <4>5. x * k = k * x /\ k * x \in Int /\ k * y \in Int
        BY <2>1, <4>3
      <4>6. t <= l.tto
        BY <1>1, <2>1, <2>3, <4>1, <4>3, <4>4, <4>5
      <4> QED
        BY <4>6 DEF Upto
    <3> QED
      BY <3>1, <3>2
  <2>4. Hits(l, n) = s..(s + k - 1)
    BY <2>1, <2>2, <2>3
  <2>5. Targets(l, n) = Spread(l, n)
    BY <1>1, <1>4 DEF Targets
  <2>6. \A t \in Targets(l, n) : t.part = 0
    BY <2>5 DEF Spread
  <2>7. s \in Hits(l, n)
    BY <2>1, <2>4
  <2>8. Targets(l, n) # {}
    BY <2>7 DEF Hits
  <2> QED
    BY <1>2, <2>1, <2>4, <2>6, <2>8
<1> QED
  BY <1>3, <1>4 DEF Plain
-----------------------------------------------------------------------------
\* The rows of a set of episodes.
RowsFor(l, S) == {EpisodeRow(l, n) : n \in S}

LEMMA RowFields ==
    ASSUME NEW l, NEW n
    PROVE  /\ EpisodeRow(l, n).number = n /\ EpisodeRow(l, n).tvdb = Hits(l, n)
           /\ EpisodeRow(l, n).part = (CHOOSE t \in Targets(l, n) : TRUE).part
           /\ EpisodeRow(l, n).ceiling = (CHOOSE t \in Targets(l, n) : TRUE).ceiling
BY DEF EpisodeRow

LEMMA RowsOfVideo ==
    ASSUME NEW l, NEW numbers, NEW S \in SUBSET numbers
    PROVE  {ep \in {EpisodeRow(l, n) : n \in numbers} : ep.number \in S} = RowsFor(l, S)
BY RowFields DEF RowsFor

LEMMA VideoKinds ==
    ASSUME NEW numbers \in SUBSET Int, NEW v \in Videos(numbers)
    PROVE  \/ \E i, j \in numbers : i <= j /\ i..j \subseteq numbers /\ v = WholeVideo(i, j)
           \/ \E n \in numbers, c \in Ceilings, p \in Nat : 1 <= p /\ p <= c /\ v = PartVideo(n, p, c)
<1>1. CASE \E i, j \in numbers : v = WholeVideo(i, j) /\ v.episodes # {} /\ v.episodes \subseteq numbers
  <2>1. PICK i \in numbers, j \in numbers :
            v = WholeVideo(i, j) /\ v.episodes # {} /\ v.episodes \subseteq numbers
    BY <1>1
  <2>2. v.episodes = i..j
    BY <2>1 DEF WholeVideo
  <2>3. i <= j
    BY <2>1, <2>2
  <2> QED
    BY <2>1, <2>2, <2>3
<1>2. CASE \E c \in Ceilings : v \in {PartVideo(n, p, c) : n \in numbers, p \in 1..c}
  BY <1>2, CeilingsAssumption
<1>3. \/ \E i, j \in numbers : v = WholeVideo(i, j) /\ v.episodes # {} /\ v.episodes \subseteq numbers
      \/ \E c \in Ceilings : v \in {PartVideo(n, p, c) : n \in numbers, p \in 1..c}
  BY DEF Videos
<1> QED
  BY <1>1, <1>2, <1>3

\* Episodes without a gap have TVDB episodes without a gap.
LEMMA PlainUnion ==
    ASSUME NEW l, Plain(l), NEW i \in Int, NEW j \in Int, i <= j,
           \A n \in i..j : Within(n, l.from, l.to)
    PROVE  UNION {ep.tvdb : ep \in RowsFor(l, i..j)} = First(l, i)..(First(l, j) + Span(l) - 1)
<1> DEFINE k == Span(l)
           U == UNION {ep.tvdb : ep \in RowsFor(l, i..j)}
<1>1. /\ k \in Nat \ {0} /\ l.from \in Int /\ l.tfrom \in Int
      /\ \A n \in Int : First(l, n) \in Int
  BY PlainTypes
<1>2. \A n \in i..j : EpisodeRow(l, n).tvdb = First(l, n)..(First(l, n) + k - 1)
  <2> SUFFICES ASSUME NEW n \in i..j
               PROVE  EpisodeRow(l, n).tvdb = First(l, n)..(First(l, n) + k - 1)
    OBVIOUS
  <2>1. n \in Int /\ Within(n, l.from, l.to)
    OBVIOUS
  <2>2. EpisodeRow(l, n).tvdb = Hits(l, n)
    BY RowFields
  <2>3. Hits(l, n) = First(l, n)..(First(l, n) + Span(l) - 1)
    BY <2>1, PlainHits
  <2> QED
    BY <2>2, <2>3
<1>3. \A t : t \in U <=> \E n \in i..j : t \in EpisodeRow(l, n).tvdb
  BY DEF RowsFor
<1>4. \A n \in i..j : First(l, i) <= First(l, n) /\ First(l, n) <= First(l, j)
  <2> SUFFICES ASSUME NEW n \in i..j PROVE First(l, i) <= First(l, n) /\ First(l, n) <= First(l, j)
    OBVIOUS
  <2>1. n \in Int /\ i <= n /\ n <= j
    OBVIOUS
  <2>2. i < n => First(l, i) + k <= First(l, n)
    BY <2>1, PlainOrder
  <2>3. n < j => First(l, n) + k <= First(l, j)
    BY <2>1, PlainOrder
  <2> QED
    BY <1>1, <2>1, <2>2, <2>3
<1>5. ASSUME NEW t \in First(l, i)..(First(l, j) + k - 1)
      PROVE  \E n \in i..j : t \in First(l, n)..(First(l, n) + k - 1)
  <2> DEFINE x == t - l.tfrom
             y == i - l.from
             z == j - l.from
             q == x \div k
  <2>1. y \in Nat /\ z \in Nat
    BY <1>1 DEF Within
  <2>2. /\ First(l, i) = l.tfrom + y * k /\ First(l, j) = l.tfrom + z * k
        /\ \A n \in Int : First(l, n) = l.tfrom + (n - l.from) * k
    BY DEF First
  <2>3. t \in Int /\ First(l, i) <= t /\ t <= First(l, j) + k - 1
    BY <1>1
  <2>4. y * k = k * y /\ z * k = k * z /\ k * y \in Nat /\ k * z \in Nat
    <3> HIDE DEF y, z, k
    <3> QED
      BY <1>1, <2>1
  <2>5. x \in Nat /\ k * y <= x /\ x <= k * z + k - 1
    <3> HIDE DEF y, z, k
    <3> QED
      BY <1>1, <2>2, <2>3, <2>4
  <2> HIDE DEF x, k
  <2>6. q \in Nat /\ x % k \in 0..(k - 1) /\ x = k * q + (x % k)
    BY <1>1, <2>5, Division
  <2> HIDE DEF q, y, z
  <2>7. y < q + 1
    <3>1. k * (q + 1) = k * q + k /\ k * q \in Int
      BY <1>1, <2>6
    <3>2. k * y < k * (q + 1)
      BY <1>1, <2>4, <2>5, <2>6, <3>1
    <3> QED
      BY <1>1, <2>1, <2>6, <3>2, QuotientBound
  <2>8. q < z + 1
    <3>1. k * (z + 1) = k * z + k /\ k * q \in Int
      BY <1>1, <2>1, <2>6
    <3>2. k * q < k * (z + 1)
      BY <1>1, <2>4, <2>5, <2>6, <3>1
    <3> QED
      BY <1>1, <2>1, <2>6, <3>2, QuotientBound
  <2>9. PICK n \in i..j : n - l.from = q
    <3>1. l.from + q \in i..j
      BY <1>1, <2>1, <2>6, <2>7, <2>8 DEF y, z
    <3>2. (l.from + q) - l.from = q
      BY <1>1, <2>6
    <3> QED
      BY <3>1, <3>2
  <2>10. First(l, n) = l.tfrom + q * k
    BY <2>9 DEF First, k
  <2>11. q * k = k * q /\ k * q \in Int
    BY <1>1, <2>6
  <2>12. t \in First(l, n)..(First(l, n) + k - 1)
    BY <1>1, <2>3, <2>6, <2>10, <2>11 DEF x
  <2> QED
    BY <2>12
<1>6. \A n \in i..j : First(l, n) \in Int
  BY <1>1
<1>7. First(l, i) \in Int /\ First(l, j) \in Int
  BY <1>1
<1> HIDE DEF U, k
<1>8. U \subseteq First(l, i)..(First(l, j) + k - 1)
  <2> SUFFICES ASSUME NEW t \in U PROVE t \in First(l, i)..(First(l, j) + k - 1)
    OBVIOUS
  <2>1. PICK n \in i..j : t \in EpisodeRow(l, n).tvdb
    BY <1>3
  <2>2. t \in First(l, n)..(First(l, n) + k - 1)
    BY <1>2, <2>1
  <2>3. First(l, n) \in Int /\ First(l, i) <= First(l, n) /\ First(l, n) <= First(l, j)
    BY <1>4, <1>6
  <2> QED
    BY <1>1, <1>7, <2>2, <2>3
<1>9. First(l, i)..(First(l, j) + k - 1) \subseteq U
  BY <1>2, <1>3, <1>5
<1> QED
  BY <1>8, <1>9 DEF U, k

LEMMA PlainWhole ==
    ASSUME NEW l, Plain(l), NEW i \in Int, NEW j \in Int, i <= j,
           \A n \in i..j : Within(n, l.from, l.to)
    PROVE  TvdbName(RowsFor(l, i..j), WholeVideo(i, j)) =
               <<Shown(First(l, i)..(First(l, j) + Span(l) - 1)), Shown({})>>
<1> DEFINE v == WholeVideo(i, j)
           R == RowsFor(l, i..j)
<1>1. v.part = 0
  BY DEF WholeVideo
<1>2. TvdbNumbers(R, v) = First(l, i)..(First(l, j) + Span(l) - 1)
  <2>1. TvdbNumbers(R, v) = UNION {ep.tvdb : ep \in R}
    BY <1>1 DEF TvdbNumbers
  <2> QED
    BY <2>1, PlainUnion
<1>3. {ep.part : ep \in R} \ {0} = {}
  <2>1. \A n \in i..j : EpisodeRow(l, n).part = 0
    BY PlainHits
  <2> QED
    BY <2>1 DEF RowsFor
<1>4. TvdbParts(R, v) = {}
  BY <1>1, <1>3 DEF TvdbParts, SharedParts
<1> QED
  BY <1>2, <1>4 DEF TvdbName

\* The part of a release that has TVDB episodes, or a part of one, to itself.
EvenFrom(l, n, p, c) == First(l, n) + (p - 1) * (Span(l) \div c)
EvenTo(l, n, p, c)   == First(l, n) + p * (Span(l) \div c) - 1
OddAt(l, n, p, c)    == First(l, n) + ((p - 1) \div (c \div Span(l)))
OddPart(l, p, c)     == ((p - 1) % (c \div Span(l))) + 1

LEMMA PlainPart ==
    ASSUME NEW l, Plain(l), NEW n \in Int, Within(n, l.from, l.to),
           NEW c \in Nat \ {0, 1}, NEW p \in 1..c,
           Divides(EpisodeRow(l, n), PartVideo(n, p, c))
    PROVE  /\ Span(l) % c = 0 =>
                TvdbName(RowsFor(l, {n}), PartVideo(n, p, c)) =
                    <<Shown(EvenFrom(l, n, p, c)..EvenTo(l, n, p, c)), Shown({})>>
           /\ Span(l) % c # 0 =>
                /\ c % Span(l) = 0
                /\ TvdbName(RowsFor(l, {n}), PartVideo(n, p, c)) =
                       <<Shown(OddAt(l, n, p, c)..OddAt(l, n, p, c)),
                         Shown(OddPart(l, p, c)..OddPart(l, p, c))>>
<1> DEFINE m == Span(l)
           s == First(l, n)
           v == PartVideo(n, p, c)
           ep == EpisodeRow(l, n)
           R == RowsFor(l, {n})
<1>1. m \in Nat \ {0} /\ s \in Int
  BY PlainTypes
<1>2. v.part = p /\ v.ceiling = c /\ v.part # 0
  BY DEF PartVideo
<1>3. ep.tvdb = Hits(l, n)
  BY RowFields
<1>4. ep.tvdb = s..(s + m - 1) /\ ep.part = 0
  BY <1>3, PlainHits
<1>5. R = {ep}
  BY DEF RowsFor
<1> HIDE DEF m, s, v, ep, R
<1>6. TvdbNumbers(R, v) = PartEpisodes(ep, v) /\ TvdbParts(R, v) = PartNumbers(ep, v)
  BY <1>2, <1>5 DEF TvdbNumbers, TvdbParts
<1>7. TvdbCount(ep) = m
  <2>1. s + m - 1 \in Int /\ ~(s > s + m - 1) /\ (s + m - 1) - s + 1 = m
    BY <1>1
  <2>2. Cardinality(s..(s + m - 1)) = IF s > s + m - 1 THEN 0 ELSE (s + m - 1) - s + 1
    BY <1>1, <2>1, FS_Interval
  <2> QED
    BY <1>4, <2>1, <2>2 DEF TvdbCount
<1>8. ASSUME NEW t \in s..(s + m - 1) PROVE Rank(ep, t) = t - s + 1
  <2>1. {u \in ep.tvdb : u <= t} = s..t
    BY <1>1, <1>4
  <2>2. t \in Int /\ s <= t
    BY <1>1
  <2>3. Cardinality(s..t) = IF s > t THEN 0 ELSE t - s + 1
    BY <1>1, <2>2, FS_Interval
  <2>4. Rank(ep, t) = Cardinality(s..t)
    BY <2>1 DEF Rank
  <2> QED
    BY <1>1, <2>2, <2>3, <2>4
<1>9. CASE m % c = 0
  <2> DEFINE e == m \div c
  <2>1. e \in Nat \ {0} /\ m = c * e
    <3>1. e \in Nat /\ m = c * e + 0
      BY <1>1, <1>9, Division
    <3>2. e # 0
      BY <1>1, <3>1
    <3> QED
      BY <3>1, <3>2
  <2>2. PartEpisodes(ep, v) = {t \in ep.tvdb : Rank(ep, t) \in (p - 1) * e + 1 .. p * e}
    BY <1>2, <1>7, <1>9 DEF PartEpisodes
  <2> HIDE DEF e
  <2>3. (p - 1) * e \in Nat /\ p * e \in Int /\ p * e <= m
    BY <2>1
  <2>4. PartEpisodes(ep, v) = (s + (p - 1) * e)..(s + p * e - 1)
    <3> DEFINE x == (p - 1) * e
               y == p * e
    <3>1. x \in Nat /\ y \in Int /\ y <= m
      BY <2>3
    <3>2. PartEpisodes(ep, v) = {t \in ep.tvdb : Rank(ep, t) \in x + 1 .. y}
      BY <2>2
    <3> HIDE DEF x, y
    <3>3. PartEpisodes(ep, v) = {t \in s..(s + m - 1) : t - s + 1 \in x + 1 .. y}
      BY <1>4, <1>8, <3>2
    <3>4. PartEpisodes(ep, v) = (s + x)..(s + y - 1)
      BY <1>1, <3>1, <3>3
    <3> QED
      BY <3>4 DEF x, y
  <2>5. PartNumbers(ep, v) = {}
    BY <1>2, <1>4, <1>7, <1>9 DEF PartNumbers
  <2> QED
    BY <1>6, <1>9, <2>4, <2>5 DEF TvdbName, EvenFrom, EvenTo, e, m, s, v, R
<1>10. CASE m % c # 0
  <2> DEFINE e == c \div m
             q == (p - 1) \div e
             r == (p - 1) % e
  <2>1. c % m = 0
    BY <1>2, <1>7, <1>10 DEF Divides, v, ep
  <2>2. e \in Nat \ {0} /\ c = m * e
    <3>1. e \in Nat /\ c = m * e + 0
      BY <1>1, <2>1, Division
    <3>2. e # 0
      BY <1>1, <3>1
    <3> QED
      BY <1>1, <3>1, <3>2
  <2>3. PartEpisodes(ep, v) = {t \in ep.tvdb : Rank(ep, t) = (p + e - 1) \div e}
    BY <1>2, <1>7, <1>10 DEF PartEpisodes
  <2> HIDE DEF e
  <2>4. p - 1 \in Nat /\ p - 1 < e * m
    <3>1. e * m = m * e
      BY <1>1, <2>2
    <3> QED
      BY <2>2, <3>1
  <2>5. q \in Nat /\ r \in 0..(e - 1) /\ p - 1 = e * q + r
    BY <2>2, <2>4, Division
  <2>6. q < m
    BY <1>1, <2>2, <2>4, JoinEnds
  <2> HIDE DEF q, r
  <2>7. (p + e - 1) \div e = q + 1
    <3>1. p + e - 1 = e * (q + 1) + r
      <4>1. e * (q + 1) = e * q + e /\ e * q \in Int
        BY <2>2, <2>5
      <4> QED
        BY <2>2, <2>5, <4>1
    <3>2. (e * (q + 1) + r) \div e = q + 1
      <4>1. q + 1 \in Nat
        BY <2>5
      <4> QED
        BY <2>2, <2>5, <4>1, Quotient
    <3> QED
      BY <3>1, <3>2
  <2>8. PartEpisodes(ep, v) = (s + q)..(s + q)
    <3>1. PartEpisodes(ep, v) = {t \in s..(s + m - 1) : t - s + 1 = q + 1}
      BY <1>4, <1>8, <2>3, <2>7
    <3> QED
      BY <1>1, <2>5, <2>6, <3>1
  <2>9. PartNumbers(ep, v) = (r + 1)..(r + 1)
    <3>1. PartNumbers(ep, v) = {((v.part - 1) % (v.ceiling \div TvdbCount(ep))) + 1}
      BY <1>2, <1>4, <1>7, <1>10 DEF PartNumbers
    <3>2. PartNumbers(ep, v) = {r + 1}
      BY <1>2, <1>7, <3>1 DEF e, r
    <3> QED
      BY <2>5, <3>2
  <2> QED
    BY <1>6, <1>10, <2>1, <2>8, <2>9 DEF TvdbName, OddAt, OddPart, e, q, r, m, s, v, R
<1> QED
  BY <1>9, <1>10 DEF m, s, v, R

\* Where parts lie, and that they lie apart.
LEMMA EvenEnds ==
    ASSUME NEW l, Plain(l), NEW n \in Int, NEW c \in Nat \ {0, 1}, NEW p \in 1..c,
           Span(l) % c = 0
    PROVE  /\ EvenFrom(l, n, p, c) \in Int /\ EvenTo(l, n, p, c) \in Int
           /\ First(l, n) <= EvenFrom(l, n, p, c)
           /\ EvenFrom(l, n, p, c) <= EvenTo(l, n, p, c)
           /\ EvenTo(l, n, p, c) <= First(l, n) + Span(l) - 1
           /\ \A q \in 1..c : EvenFrom(l, n, q, c) = EvenFrom(l, n, p, c) => q = p
<1> DEFINE m == Span(l)
           s == First(l, n)
           e == m \div c
<1>1. m \in Nat \ {0} /\ s \in Int
  BY PlainTypes
<1>2. e \in Nat \ {0} /\ m = c * e
  <2>1. e \in Nat /\ m = c * e + 0
    BY <1>1, Division
  <2>2. e # 0
    BY <1>1, <2>1
  <2> QED
    BY <2>1, <2>2
<1>3. \A q \in 1..c : EvenFrom(l, n, q, c) = s + (q - 1) * e
  BY DEF EvenFrom
<1>4. EvenTo(l, n, p, c) = s + p * e - 1
  BY DEF EvenTo
<1> HIDE DEF e, m, s
<1>5. (p - 1) * e \in Nat /\ p * e = (p - 1) * e + e /\ p * e <= m
  BY <1>2
<1>6. ASSUME NEW q \in 1..c, EvenFrom(l, n, q, c) = EvenFrom(l, n, p, c) PROVE q = p
  <2>1. (q - 1) * e \in Nat /\ (p - 1) * e \in Nat
    BY <1>2
  <2>2. (q - 1) * e = (p - 1) * e
    BY <1>1, <1>3, <1>6, <2>1
  <2> QED
    BY <1>2, <2>2
<1>7. EvenFrom(l, n, p, c) = s + (p - 1) * e
  BY <1>3
<1> DEFINE x == (p - 1) * e
           y == p * e
<1>8. x \in Nat /\ y = x + e /\ y <= m /\ EvenFrom(l, n, p, c) = s + x /\ EvenTo(l, n, p, c) = s + y - 1
  BY <1>4, <1>5, <1>7
<1> HIDE DEF x, y
<1>9. /\ EvenFrom(l, n, p, c) \in Int /\ EvenTo(l, n, p, c) \in Int
      /\ s <= EvenFrom(l, n, p, c) /\ EvenFrom(l, n, p, c) <= EvenTo(l, n, p, c)
      /\ EvenTo(l, n, p, c) <= s + m - 1
  BY <1>1, <1>2, <1>8
<1> QED
  BY <1>6, <1>9 DEF s, m

LEMMA OddEnds ==
    ASSUME NEW l, Plain(l), NEW n \in Int, NEW c \in Nat \ {0, 1}, NEW p \in 1..c,
           c % Span(l) = 0
    PROVE  /\ OddAt(l, n, p, c) \in Int /\ OddPart(l, p, c) \in Int
           /\ First(l, n) <= OddAt(l, n, p, c)
           /\ OddAt(l, n, p, c) <= First(l, n) + Span(l) - 1
           /\ \A q \in 1..c : /\ OddAt(l, n, q, c) = OddAt(l, n, p, c)
                             /\ OddPart(l, q, c) = OddPart(l, p, c)
                             => q = p
<1> DEFINE m == Span(l)
           s == First(l, n)
           e == c \div m
           at(q) == (q - 1) \div e
           rest(q) == (q - 1) % e
<1>1. m \in Nat \ {0} /\ s \in Int
  BY PlainTypes
<1>2. e \in Nat \ {0} /\ c = m * e
  <2>1. e \in Nat /\ c = m * e + 0
    BY <1>1, Division
  <2>2. e # 0
    BY <1>1, <2>1
  <2> QED
    BY <1>1, <2>1, <2>2
<1>3. \A q \in 1..c : OddAt(l, n, q, c) = s + at(q) /\ OddPart(l, q, c) = rest(q) + 1
  BY DEF OddAt, OddPart
<1> HIDE DEF e, m, s
<1>4. ASSUME NEW q \in 1..c
      PROVE  at(q) \in Nat /\ rest(q) \in Nat /\ q - 1 = e * at(q) + rest(q) /\ at(q) < m
  <2>1. q - 1 \in Nat /\ q - 1 < e * m
    <3>1. e * m = m * e
      BY <1>1, <1>2
    <3> QED
      BY <1>2, <3>1
  <2> DEFINE x == q - 1
  <2>2. x \in Nat /\ x < e * m /\ at(q) = x \div e /\ rest(q) = x % e
    BY <2>1
  <2> HIDE DEF x, at, rest
  <2>3. x \div e < m
    BY <1>1, <1>2, <2>2, JoinEnds
  <2>4. x \div e \in Nat /\ x % e \in 0..(e - 1) /\ x = e * (x \div e) + (x % e)
    BY <1>2, <2>2, Division
  <2>5. at(q) \in Nat /\ rest(q) \in Nat /\ x = e * at(q) + rest(q) /\ at(q) < m
    BY <1>2, <2>2, <2>3, <2>4
  <2> QED
    BY <2>5 DEF x
<1> HIDE DEF at, rest
<1>5. ASSUME NEW q \in 1..c, OddAt(l, n, q, c) = OddAt(l, n, p, c), OddPart(l, q, c) = OddPart(l, p, c)
      PROVE  q = p
  <2>1. at(q) = at(p) /\ rest(q) = rest(p)
    BY <1>1, <1>3, <1>4, <1>5
  <2>2. q - 1 = p - 1
    BY <1>4, <2>1
  <2> QED
    BY <2>2
<1>6. /\ OddAt(l, n, p, c) \in Int /\ OddPart(l, p, c) \in Int
      /\ s <= OddAt(l, n, p, c) /\ OddAt(l, n, p, c) <= s + m - 1
  BY <1>1, <1>3, <1>4
<1> QED
  BY <1>5, <1>6 DEF s, m

\* Where a video lies: between the ends of its episodes.
LEMMA PlainPlace ==
    ASSUME NEW l, Plain(l), NEW numbers \in SUBSET Int, \A n \in numbers : Within(n, l.from, l.to),
           NEW v \in Videos(numbers), Nameable(RowsFor(l, v.episodes), v)
    PROVE  \E i, j, a, b \in Int :
              /\ i <= j /\ v.episodes = i..j /\ i..j \subseteq numbers /\ a <= b
              /\ First(l, i) <= a /\ b <= First(l, j) + Span(l) - 1
              /\ TvdbName(RowsFor(l, v.episodes), v)[1] = Shown(a..b)
<1>1. CASE \E i, j \in numbers : i <= j /\ i..j \subseteq numbers /\ v = WholeVideo(i, j)
  <2>1. PICK i \in numbers, j \in numbers : i <= j /\ i..j \subseteq numbers /\ v = WholeVideo(i, j)
    BY <1>1
  <2>2. v.episodes = i..j /\ i \in Int /\ j \in Int /\ \A n \in i..j : Within(n, l.from, l.to)
    BY <2>1 DEF WholeVideo
  <2>3. TvdbName(RowsFor(l, i..j), WholeVideo(i, j)) =
           <<Shown(First(l, i)..(First(l, j) + Span(l) - 1)), Shown({})>>
    BY <2>1, <2>2, PlainWhole
  <2>4. First(l, i) \in Int /\ First(l, j) \in Int /\ Span(l) \in Nat \ {0}
    BY <2>2, PlainTypes
  <2>5. First(l, i) <= First(l, j)
    <3>1. i < j => First(l, i) + Span(l) <= First(l, j)
      BY <2>2, PlainOrder
    <3> QED
      BY <2>1, <2>2, <2>4, <3>1
  <2> DEFINE b == First(l, j) + Span(l) - 1
  <2>6. b \in Int /\ First(l, i) <= b
    BY <2>4, <2>5
  <2>7. TvdbName(RowsFor(l, v.episodes), v)[1] = Shown(First(l, i)..b)
    BY <2>1, <2>2, <2>3
  <2> HIDE DEF b
  <2>8. b <= First(l, j) + Span(l) - 1
    BY <2>6 DEF b
  <2>9. PICK x \in Int, y \in Int : x = First(l, i) /\ y = b
    BY <2>4, <2>6
  <2>10. /\ x <= y /\ First(l, i) <= x /\ y <= First(l, j) + Span(l) - 1
         /\ TvdbName(RowsFor(l, v.episodes), v)[1] = Shown(x..y)
    BY <2>4, <2>6, <2>7, <2>8, <2>9
  <2> QED
    BY <2>1, <2>2, <2>10
<1>2. CASE \E n \in numbers, c \in Ceilings, p \in Nat : 1 <= p /\ p <= c /\ v = PartVideo(n, p, c)
  <2>1. PICK n \in numbers, c \in Ceilings, p \in Nat : 1 <= p /\ p <= c /\ v = PartVideo(n, p, c)
    BY <1>2
  <2>2. /\ n \in Int /\ c \in Nat \ {0, 1} /\ p \in 1..c /\ v.episodes = {n} /\ v.part # 0
        /\ Within(n, l.from, l.to)
    BY <2>1, CeilingsAssumption DEF PartVideo
  <2>3. Divides(EpisodeRow(l, n), PartVideo(n, p, c))
    BY <2>1, <2>2 DEF Nameable, RowsFor
  <2> DEFINE m == Span(l)
             s == First(l, n)
  <2>4. m \in Nat \ {0} /\ s \in Int
    BY <2>2, PlainTypes
  <2>5. v.episodes = n..n /\ n..n \subseteq numbers /\ n <= n
    BY <2>2
  <2>6. \E a, b \in Int : /\ a <= b /\ s <= a /\ b <= s + m - 1
                           /\ TvdbName(RowsFor(l, {n}), v)[1] = Shown(a..b)
    <3> HIDE DEF m, s
    <3>1. CASE Span(l) % c = 0
      <4>1. TvdbName(RowsFor(l, {n}), PartVideo(n, p, c)) =
                <<Shown(EvenFrom(l, n, p, c)..EvenTo(l, n, p, c)), Shown({})>>
        <5>1. Within(n, l.from, l.to) /\ Divides(EpisodeRow(l, n), PartVideo(n, p, c))
          BY <2>2, <2>3
        <5>2. Span(l) % c = 0 =>
                TvdbName(RowsFor(l, {n}), PartVideo(n, p, c)) =
                    <<Shown(EvenFrom(l, n, p, c)..EvenTo(l, n, p, c)), Shown({})>>
          BY <2>2, <5>1, PlainPart
        <5> QED
          BY <3>1, <5>2
      <4>2. PICK a \in Int, b \in Int : a = EvenFrom(l, n, p, c) /\ b = EvenTo(l, n, p, c)
        BY <2>2, <3>1, EvenEnds
      <4>3. a <= b /\ First(l, n) <= a /\ b <= First(l, n) + Span(l) - 1
        BY <2>2, <3>1, <4>2, EvenEnds
      <4>4. TvdbName(RowsFor(l, {n}), v)[1] = Shown(a..b)
        BY <2>1, <4>1, <4>2
      <4> QED
        BY <4>3, <4>4 DEF m, s
    <3>2. CASE Span(l) % c # 0
      <4>1. /\ c % Span(l) = 0
            /\ TvdbName(RowsFor(l, {n}), PartVideo(n, p, c)) =
                   <<Shown(OddAt(l, n, p, c)..OddAt(l, n, p, c)),
                     Shown(OddPart(l, p, c)..OddPart(l, p, c))>>
        BY <2>2, <2>3, <3>2, PlainPart
      <4>2. PICK a \in Int : a = OddAt(l, n, p, c)
        BY <2>2, <4>1, OddEnds
      <4>3. a <= a /\ First(l, n) <= a /\ a <= First(l, n) + Span(l) - 1
        BY <2>2, <4>1, <4>2, OddEnds
      <4>4. TvdbName(RowsFor(l, {n}), v)[1] = Shown(a..a)
        BY <2>1, <4>1, <4>2
      <4> QED
        BY <4>3, <4>4 DEF m, s
    <3> QED
      BY <3>1, <3>2
  <2> QED
    BY <2>2, <2>5, <2>6 DEF m, s
<1> QED
  BY <1>1, <1>2, VideoKinds

\* Two parts of one episode never have the same numbers.
LEMMA PlainParts ==
    ASSUME NEW l, Plain(l), NEW n \in Int, Within(n, l.from, l.to),
           NEW c \in Nat \ {0, 1}, NEW p \in 1..c, NEW q \in 1..c,
           Divides(EpisodeRow(l, n), PartVideo(n, p, c)),
           Divides(EpisodeRow(l, n), PartVideo(n, q, c)),
           TvdbName(RowsFor(l, {n}), PartVideo(n, p, c)) =
               TvdbName(RowsFor(l, {n}), PartVideo(n, q, c))
    PROVE  p = q
<1> DEFINE name(v) == TvdbName(RowsFor(l, {n}), PartVideo(n, v, c))
<1>1. \A v \in {p, q} :
         /\ Span(l) % c = 0 =>
                name(v) = <<Shown(EvenFrom(l, n, v, c)..EvenTo(l, n, v, c)), Shown({})>>
         /\ Span(l) % c # 0 =>
                /\ c % Span(l) = 0
                /\ name(v) = <<Shown(OddAt(l, n, v, c)..OddAt(l, n, v, c)),
                               Shown(OddPart(l, v, c)..OddPart(l, v, c))>>
  <2> SUFFICES ASSUME NEW v \in {p, q}
               PROVE  /\ Span(l) % c = 0 =>
                            name(v) = <<Shown(EvenFrom(l, n, v, c)..EvenTo(l, n, v, c)), Shown({})>>
                      /\ Span(l) % c # 0 =>
                            /\ c % Span(l) = 0
                            /\ name(v) = <<Shown(OddAt(l, n, v, c)..OddAt(l, n, v, c)),
                                           Shown(OddPart(l, v, c)..OddPart(l, v, c))>>
    OBVIOUS
  <2>1. v \in 1..c /\ Divides(EpisodeRow(l, n), PartVideo(n, v, c))
    OBVIOUS
  <2> QED
    BY <2>1, PlainPart
<1>2. name(p) = name(q)
  OBVIOUS
<1> HIDE DEF name
<1>3. CASE Span(l) % c = 0
  <2>1. PICK a \in Int, b \in Int : a = EvenFrom(l, n, p, c) /\ b = EvenTo(l, n, p, c) /\ a <= b
    BY <1>3, EvenEnds
  <2>2. PICK d \in Int, e \in Int : d = EvenFrom(l, n, q, c) /\ e = EvenTo(l, n, q, c) /\ d <= e
    BY <1>3, EvenEnds
  <2>3. name(p)[1] = Shown(a..b) /\ name(q)[1] = Shown(d..e)
    BY <1>1, <1>3, <2>1, <2>2
  <2>4. a = d
    BY <1>2, <2>1, <2>2, <2>3, ShownTells
  <2> QED
    BY <1>3, <2>1, <2>2, <2>4, EvenEnds
<1>4. CASE Span(l) % c # 0
  <2>1. c % Span(l) = 0
    BY <1>1, <1>4
  <2>2. PICK a \in Int, b \in Int : a = OddAt(l, n, p, c) /\ b = OddPart(l, p, c)
    BY <2>1, OddEnds
  <2>3. PICK d \in Int, e \in Int : d = OddAt(l, n, q, c) /\ e = OddPart(l, q, c)
    BY <2>1, OddEnds
  <2>4. name(p) = <<Shown(a..a), Shown(b..b)>> /\ name(q) = <<Shown(d..d), Shown(e..e)>>
    BY <1>1, <1>4, <2>2, <2>3
  <2>5. Shown(a..a) = Shown(d..d) /\ Shown(b..b) = Shown(e..e)
    <3>1. name(p)[1] = Shown(a..a) /\ name(p)[2] = Shown(b..b)
      BY <2>4
    <3>2. name(q)[1] = Shown(d..d) /\ name(q)[2] = Shown(e..e)
      BY <2>4
    <3> QED
      BY <1>2, <3>1, <3>2
  <2>6. a = d /\ b = e
    BY <2>5, PointsTell
  <2> QED
    BY <2>1, <2>2, <2>3, <2>6, OddEnds
<1> QED
  BY <1>3, <1>4

\* Videos with the same numbers of TVDB share content.
LEMMA PlainNames ==
    ASSUME NEW l, Plain(l), NEW numbers \in SUBSET Int, \A n \in numbers : Within(n, l.from, l.to),
           NEW v \in Videos(numbers), Nameable(RowsFor(l, v.episodes), v),
           NEW w \in Videos(numbers), Nameable(RowsFor(l, w.episodes), w),
           TvdbName(RowsFor(l, v.episodes), v) = TvdbName(RowsFor(l, w.episodes), w)
    PROVE  ~Disjoint(v, w)
<1>1. PICK i \in Int, j \in Int, a \in Int, b \in Int :
              /\ i <= j /\ v.episodes = i..j /\ i..j \subseteq numbers /\ a <= b
              /\ First(l, i) <= a /\ b <= First(l, j) + Span(l) - 1
              /\ TvdbName(RowsFor(l, v.episodes), v)[1] = Shown(a..b)
  BY PlainPlace
<1>2. PICK i2 \in Int, j2 \in Int, a2 \in Int, b2 \in Int :
              /\ i2 <= j2 /\ w.episodes = i2..j2 /\ i2..j2 \subseteq numbers /\ a2 <= b2
              /\ First(l, i2) <= a2 /\ b2 <= First(l, j2) + Span(l) - 1
              /\ TvdbName(RowsFor(l, w.episodes), w)[1] = Shown(a2..b2)
  BY PlainPlace
<1>3. a = a2 /\ b = b2
  <2>1. Shown(a..b) = Shown(a2..b2)
    BY <1>1, <1>2
  <2> QED
    BY <1>1, <1>2, <2>1, ShownTells
<1>4. /\ First(l, i) \in Int /\ First(l, j) \in Int
      /\ First(l, i2) \in Int /\ First(l, j2) \in Int /\ Span(l) \in Nat \ {0}
  BY PlainTypes
<1>5. ~(j < i2)
  <2> SUFFICES ASSUME j < i2 PROVE FALSE
    OBVIOUS
  <2>1. First(l, j) + Span(l) <= First(l, i2)
    BY PlainOrder
  <2> QED
    BY <1>1, <1>2, <1>3, <1>4, <2>1
<1>6. ~(j2 < i)
  <2> SUFFICES ASSUME j2 < i PROVE FALSE
    OBVIOUS
  <2>1. First(l, j2) + Span(l) <= First(l, i)
    BY PlainOrder
  <2> QED
    BY <1>1, <1>2, <1>3, <1>4, <2>1
<1>7. v.episodes \intersect w.episodes # {}
  <2>1. i \in i2..j2 \/ i2 \in i..j
    BY <1>1, <1>2, <1>5, <1>6
  <2>2. i \in i..j /\ i2 \in i2..j2
    BY <1>1, <1>2
  <2> QED
    BY <1>1, <1>2, <2>1, <2>2
<1>8. v.ceiling = w.ceiling => v.part = w.part
  <2> SUFFICES ASSUME v.ceiling = w.ceiling PROVE v.part = w.part
    OBVIOUS
  <2>1. \A u \in Videos(numbers) :
            \/ u.part = 0 /\ u.ceiling = 0
            \/ \E n \in numbers, c \in Ceilings, p \in Nat : 1 <= p /\ p <= c /\ u = PartVideo(n, p, c)
    BY VideoKinds DEF WholeVideo
  <2>2. \A n, p, c : PartVideo(n, p, c).ceiling = c /\ PartVideo(n, p, c).part = p
                        /\ PartVideo(n, p, c).episodes = {n}
    BY DEF PartVideo
  <2>3. 0 \notin Ceilings
    BY CeilingsAssumption
  <2>4. CASE v.part = 0 /\ v.ceiling = 0 /\ w.part = 0 /\ w.ceiling = 0
    BY <2>4
  <2>5. CASE /\ \E n \in numbers, c \in Ceilings, p \in Nat : 1 <= p /\ p <= c /\ v = PartVideo(n, p, c)
             /\ \E n \in numbers, c \in Ceilings, p \in Nat : 1 <= p /\ p <= c /\ w = PartVideo(n, p, c)
    <3>1. PICK n \in numbers, c \in Ceilings, p \in Nat : 1 <= p /\ p <= c /\ v = PartVideo(n, p, c)
      BY <2>5
    <3>2. PICK n2 \in numbers, c2 \in Ceilings, q \in Nat : 1 <= q /\ q <= c2 /\ w = PartVideo(n2, q, c2)
      BY <2>5
    <3>3. c = c2
      BY <2>2, <3>1, <3>2
    <3>4. v.episodes = {n} /\ w.episodes = {n2} /\ v.part = p /\ w.part = q /\ p # 0 /\ q # 0
      BY <2>2, <3>1, <3>2
    <3>5. n = n2
      BY <1>7, <3>4
    <3>6. /\ n \in Int /\ Within(n, l.from, l.to) /\ c \in Nat \ {0, 1} /\ p \in 1..c /\ q \in 1..c
      BY <3>1, <3>2, <3>3, CeilingsAssumption
    <3>7. /\ Divides(EpisodeRow(l, n), PartVideo(n, p, c))
          /\ Divides(EpisodeRow(l, n), PartVideo(n, q, c))
      BY <3>1, <3>2, <3>3, <3>4, <3>5 DEF Nameable, RowsFor
    <3>8. TvdbName(RowsFor(l, {n}), PartVideo(n, p, c)) = TvdbName(RowsFor(l, {n}), PartVideo(n, q, c))
      BY <3>1, <3>2, <3>3, <3>4, <3>5
    <3>9. p = q
      BY <3>6, <3>7, <3>8, PlainParts
    <3> QED
      BY <3>4, <3>9
  <2> QED
    BY <2>1, <2>2, <2>3, <2>4, <2>5
<1> QED
  BY <1>7, <1>8 DEF Disjoint
-----------------------------------------------------------------------------
\* Lines that join several episodes into one of TVDB's.

Joins(l) == l \in Entry /\ ValidRanges(l) /\ l.step \in Nat \ {0, 1}

Into(l, n) == l.tfrom + ((n - l.from) \div l.step)
Rest(l, n) == (n - l.from) % l.step

LEMMA JoinTypes ==
    ASSUME NEW l, Joins(l), NEW n \in Int, Within(n, l.from, l.to)
    PROVE  /\ l.from \in Int /\ l.tfrom \in Int /\ l.step \in Nat \ {0, 1}
           /\ Into(l, n) \in Int /\ Rest(l, n) \in 0..(l.step - 1)
           /\ Into(l, n) - l.tfrom \in Nat
           /\ n - l.from = l.step * (Into(l, n) - l.tfrom) + Rest(l, n)
<1> DEFINE x == n - l.from
           q == x \div l.step
<1>1. l.from \in Int /\ l.tfrom \in Int /\ l.step \in Nat \ {0, 1}
  BY EntryFields DEF Joins
<1>2. x \in Nat
  BY <1>1 DEF Within
<1>3. Into(l, n) = l.tfrom + q /\ Rest(l, n) = x % l.step
  BY DEF Into, Rest
<1> HIDE DEF x
<1>4. q \in Nat /\ x % l.step \in 0..(l.step - 1) /\ x = l.step * q + (x % l.step)
  BY <1>1, <1>2, Division
<1> HIDE DEF q
<1>5. Into(l, n) \in Int /\ Into(l, n) - l.tfrom = q
  BY <1>1, <1>3, <1>4
<1> QED
  BY <1>1, <1>3, <1>4, <1>5 DEF x

LEMMA JoinFields ==
    ASSUME NEW l, Joins(l), NEW n \in Int, Within(n, l.from, l.to)
    PROVE  /\ EpisodeRow(l, n).tvdb = {Into(l, n)}
           /\ EpisodeRow(l, n).part = Rest(l, n) + 1
           /\ EpisodeRow(l, n).ceiling = l.step
<1>1. l.step \in Nat \ {0, 1}
  BY JoinTypes
<1>2. Hits(l, n) # {}
  BY <1>1, JoinsRoundTrip DEF Joins
<1>3. Targets(l, n) \subseteq {Joined(l, n)}
  BY <1>1 DEF Targets
<1>4. Targets(l, n) = {Joined(l, n)}
  BY <1>2, <1>3 DEF Hits
<1>5. /\ Joined(l, n).episode = Into(l, n) /\ Joined(l, n).part = Rest(l, n) + 1
      /\ Joined(l, n).ceiling = l.step
  BY <1>1 DEF Joined, Into, Rest
<1>6. Hits(l, n) = {Into(l, n)}
  BY <1>4, <1>5 DEF Hits
<1>7. (CHOOSE t \in Targets(l, n) : TRUE) = Joined(l, n)
  BY <1>4
<1> QED
  BY <1>5, <1>6, <1>7, RowFields

LEMMA JoinOrder ==
    ASSUME NEW l, Joins(l), NEW n \in Int, Within(n, l.from, l.to),
           NEW m \in Int, Within(m, l.from, l.to), n <= m
    PROVE  /\ Into(l, n) <= Into(l, m)
           /\ Into(l, n) = Into(l, m) => Rest(l, m) - Rest(l, n) = m - n
<1> DEFINE k == l.step
           x == Into(l, n) - l.tfrom
           y == Into(l, m) - l.tfrom
           r == Rest(l, n)
           s == Rest(l, m)
<1>1. /\ l.from \in Int /\ l.tfrom \in Int /\ k \in Nat \ {0, 1}
      /\ Into(l, n) \in Int /\ Into(l, m) \in Int /\ x \in Nat /\ y \in Nat
      /\ r \in 0..(k - 1) /\ s \in 0..(k - 1)
      /\ n - l.from = k * x + r /\ m - l.from = k * y + s
  BY JoinTypes
<1>2. Into(l, n) = l.tfrom + x /\ Into(l, m) = l.tfrom + y
  <2>1. l.tfrom \in Int /\ Into(l, n) \in Int /\ Into(l, m) \in Int
    BY JoinTypes
  <2> QED
    BY <2>1
<1> HIDE DEF x, y, k, r, s
<1>3. k * x \in Int /\ k * y \in Int
  BY <1>1
<1>4. x <= y
  <2> SUFFICES ASSUME y < x PROVE FALSE
    BY <1>1
  <2>1. k * y + k <= k * x
    BY <1>1, ProductGrows
  <2> QED
    BY <1>1, <1>3, <2>1
<1>5. x = y => s - r = m - n
  <2> SUFFICES ASSUME x = y PROVE s - r = m - n
    OBVIOUS
  <2>1. k * x = k * y
    OBVIOUS
  <2> QED
    BY <1>1, <1>3, <2>1
<1>6. Into(l, n) = Into(l, m) => x = y
  BY <1>1, <1>2
<1> QED
  BY <1>1, <1>2, <1>4, <1>5, <1>6 DEF r, s

LEMMA JoinUnion ==
    ASSUME NEW l, Joins(l), NEW i \in Int, NEW j \in Int, i <= j,
           \A n \in i..j : Within(n, l.from, l.to)
    PROVE  UNION {ep.tvdb : ep \in RowsFor(l, i..j)} = Into(l, i)..Into(l, j)
<1> DEFINE U == UNION {ep.tvdb : ep \in RowsFor(l, i..j)}
           k == l.step
           a == Into(l, i)
           b == Into(l, j)
<1>1. /\ i \in i..j /\ j \in i..j /\ \A n \in i..j : n \in Int /\ i <= n /\ n <= j
  OBVIOUS
<1>2. /\ l.from \in Int /\ l.tfrom \in Int /\ k \in Nat \ {0, 1} /\ a \in Int /\ b \in Int
      /\ a - l.tfrom \in Nat /\ b - l.tfrom \in Nat
      /\ Rest(l, i) \in 0..(k - 1) /\ Rest(l, j) \in 0..(k - 1)
      /\ i - l.from = k * (a - l.tfrom) + Rest(l, i)
      /\ j - l.from = k * (b - l.tfrom) + Rest(l, j)
  BY <1>1, JoinTypes
<1>3. \A n \in i..j : EpisodeRow(l, n).tvdb = {Into(l, n)}
  BY <1>1, JoinFields
<1>4. \A t : t \in U <=> \E n \in i..j : t = Into(l, n)
  <2>1. \A t : t \in U <=> \E n \in i..j : t \in EpisodeRow(l, n).tvdb
    BY DEF RowsFor
  <2>2. \A n \in i..j : \A t : t \in EpisodeRow(l, n).tvdb <=> t = Into(l, n)
    BY <1>3
  <2> HIDE DEF U
  <2> QED
    BY <2>1, <2>2
<1>5. \A n \in i..j : Into(l, n) \in a..b
  <2> SUFFICES ASSUME NEW n \in i..j PROVE Into(l, n) \in a..b
    OBVIOUS
  <2>1. Into(l, n) \in Int
    BY <1>1, JoinTypes
  <2>2. a <= Into(l, n) /\ Into(l, n) <= b
    BY <1>1, JoinOrder
  <2> QED
    BY <1>2, <2>1, <2>2
<1>6. ASSUME NEW t \in a..b PROVE \E n \in i..j : t = Into(l, n)
  <2>1. CASE t = a
    BY <1>1, <2>1
  <2>2. CASE t # a
    <3> DEFINE x == a - l.tfrom
               y == b - l.tfrom
               q == t - l.tfrom
    <3>1. /\ x \in Nat /\ y \in Nat /\ q \in Nat /\ x < q /\ q <= y /\ t = l.tfrom + q
          /\ i - l.from = k * x + Rest(l, i) /\ j - l.from = k * y + Rest(l, j)
      BY <1>2, <2>2
    <3> HIDE DEF x, y, q, k
    <3>2. k * x + k <= k * q /\ k * x \in Int /\ k * q \in Int /\ k * y \in Int
      BY <1>2, <3>1, ProductGrows
    <3>3. k * q <= k * y
      <4>1. q < y => k * q + k <= k * y
        BY <1>2, <3>1, ProductGrows
      <4> QED
        BY <1>2, <3>1, <3>2, <4>1
    <3>4. PICK n \in i..j : n - l.from = k * q
      <4>1. l.from + k * q \in i..j /\ (l.from + k * q) - l.from = k * q
        BY <1>2, <3>1, <3>2, <3>3
      <4> QED
        BY <4>1
    <3>5. n - l.from = k * (Into(l, n) - l.tfrom) + Rest(l, n) /\ Rest(l, n) \in 0..(k - 1)
          /\ Into(l, n) \in Int /\ Into(l, n) - l.tfrom \in Nat
      BY <1>1, JoinTypes DEF k
    <3> DEFINE z == Into(l, n) - l.tfrom
    <3>6. z \in Nat /\ Into(l, n) = l.tfrom + z /\ k * q = k * z + Rest(l, n)
      BY <1>2, <3>4, <3>5
    <3> HIDE DEF z
    <3>7. k * q + 0 = k * z + Rest(l, n) /\ 0 \in 0..(k - 1)
      BY <1>2, <3>2, <3>6
    <3>8. (k * q + 0) \div k = q /\ (k * z + Rest(l, n)) \div k = z
      BY <1>2, <3>1, <3>5, <3>6, <3>7, Quotient
    <3>9. t = Into(l, n)
      BY <3>1, <3>6, <3>7, <3>8
    <3> QED
      BY <3>9
  <2> QED
    BY <2>1, <2>2
<1> HIDE DEF U, a, b
<1>7. U = a..b
  BY <1>4, <1>5, <1>6
<1> QED
  BY <1>7 DEF U, a, b

\* Episodes within one TVDB episode, not all of it.
LEMMA JoinParts ==
    ASSUME NEW l, Joins(l), NEW i \in Int, NEW j \in Int, i <= j,
           \A n \in i..j : Within(n, l.from, l.to),
           Into(l, i) = Into(l, j), j - i + 1 < l.step
    PROVE  SharedParts(RowsFor(l, i..j)) = (Rest(l, i) + 1)..(Rest(l, j) + 1)
<1> DEFINE R == RowsFor(l, i..j)
           r == Rest(l, i)
           s == Rest(l, j)
           P == {ep.part : ep \in R} \ {0}
           T == UNION {ep.tvdb : ep \in R}
           C == (CHOOSE ep \in R : ep.part # 0).ceiling
<1>1. /\ i \in i..j /\ j \in i..j /\ \A n \in i..j : n \in Int /\ i <= n /\ n <= j
  OBVIOUS
<1>2. /\ l.step \in Nat \ {0, 1} /\ r \in Nat /\ s \in Nat /\ Into(l, i) \in Int
  BY <1>1, JoinTypes
<1>3. s - r = j - i
  BY <1>1, JoinOrder
<1>4. \A n \in i..j : EpisodeRow(l, n).part = r + (n - i) + 1 /\ EpisodeRow(l, n).ceiling = l.step
  <2> SUFFICES ASSUME NEW n \in i..j
               PROVE  EpisodeRow(l, n).part = r + (n - i) + 1 /\ EpisodeRow(l, n).ceiling = l.step
    OBVIOUS
  <2>1. EpisodeRow(l, n).part = Rest(l, n) + 1 /\ EpisodeRow(l, n).ceiling = l.step
    BY <1>1, JoinFields
  <2>2. Into(l, i) <= Into(l, n) /\ Into(l, n) <= Into(l, j) /\ Into(l, n) \in Int
    BY <1>1, JoinOrder, JoinTypes
  <2>3. Into(l, i) = Into(l, n)
    BY <1>2, <2>2
  <2>4. Rest(l, n) - r = n - i /\ Rest(l, n) \in Nat
    BY <1>1, <2>3, JoinOrder, JoinTypes
  <2> QED
    BY <1>1, <1>2, <2>1, <2>4
<1>5. \A ep \in R : \E n \in i..j : ep = EpisodeRow(l, n)
  BY DEF RowsFor
<1>6. \A n \in i..j : EpisodeRow(l, n) \in R
  BY DEF RowsFor
<1>7. T = {Into(l, i)}
  <2>1. T = Into(l, i)..Into(l, j)
    BY JoinUnion
  <2>2. Into(l, i)..Into(l, i) = {Into(l, i)}
    BY <1>2
  <2> QED
    BY <2>1, <2>2
<1> HIDE DEF R, r, s, T
<1>8. P = (r + 1)..(s + 1)
  <2>1. \A p \in P : p \in (r + 1)..(s + 1)
    <3> SUFFICES ASSUME NEW p \in P PROVE p \in (r + 1)..(s + 1)
      OBVIOUS
    <3>1. PICK ep \in R : p = ep.part
      OBVIOUS
    <3>2. PICK n \in i..j : ep = EpisodeRow(l, n)
      BY <1>5
    <3>3. p = r + (n - i) + 1
      BY <1>4, <3>1, <3>2
    <3> QED
      BY <1>1, <1>2, <1>3, <3>3
  <2>2. ASSUME NEW p \in (r + 1)..(s + 1) PROVE p \in P
    <3>1. PICK n \in i..j : p = r + (n - i) + 1
      <4>1. i + (p - r - 1) \in i..j /\ p = r + ((i + (p - r - 1)) - i) + 1
        BY <1>2, <1>3
      <4> QED
        BY <4>1
    <3>2. EpisodeRow(l, n) \in R /\ EpisodeRow(l, n).part = p
      BY <1>4, <1>6, <3>1
    <3>3. p # 0
      BY <1>2
    <3> QED
      BY <3>2, <3>3
  <2> HIDE DEF P
  <2> QED
    BY <2>1, <2>2
<1>9. C = l.step
  <2>1. EpisodeRow(l, i) \in R /\ EpisodeRow(l, i).part # 0
    BY <1>1, <1>2, <1>4, <1>6
  <2>2. (CHOOSE ep \in R : ep.part # 0) \in R
    BY <2>1
  <2> QED
    BY <1>4, <1>5, <2>2
<1> HIDE DEF P, C
<1>10. P # {} /\ Cardinality(P) = j - i + 1
  <2>1. r + 1 \in Int /\ s + 1 \in Int /\ ~(r + 1 > s + 1) /\ (s + 1) - (r + 1) + 1 = j - i + 1
    BY <1>2, <1>3
  <2>2. Cardinality((r + 1)..(s + 1)) = IF r + 1 > s + 1 THEN 0 ELSE (s + 1) - (r + 1) + 1
    BY <2>1, FS_Interval
  <2>3. r + 1 \in P
    BY <1>2, <1>3, <1>8
  <2> QED
    BY <1>8, <2>1, <2>2, <2>3
<1>11. Cardinality(T) = 1
  BY <1>7, FS_Singleton
<1>12. Cardinality(P) # C
  BY <1>2, <1>9, <1>10
<1>13. SharedParts(R) = IF P # {} /\ Cardinality(T) = 1 /\ Cardinality(P) # C THEN P ELSE {}
  BY DEF SharedParts, P, T, C
<1> QED
  BY <1>8, <1>10, <1>11, <1>12, <1>13 DEF R, r, s

\* Only whole videos have a name.
LEMMA JoinNames ==
    ASSUME NEW l, Joins(l), NEW numbers \in SUBSET Int, \A n \in numbers : Within(n, l.from, l.to),
           NEW v \in Videos(numbers), Nameable(RowsFor(l, v.episodes), v),
           NEW w \in Videos(numbers), Nameable(RowsFor(l, w.episodes), w),
           TvdbName(RowsFor(l, v.episodes), v) = TvdbName(RowsFor(l, w.episodes), w)
    PROVE  ~Disjoint(v, w)
<1>1. ASSUME NEW u \in Videos(numbers), Nameable(RowsFor(l, u.episodes), u)
      PROVE  \E i, j \in Int : i <= j /\ i..j \subseteq numbers /\ u = WholeVideo(i, j)
  <2>1. CASE \E n \in numbers, c \in Ceilings, p \in Nat : 1 <= p /\ p <= c /\ u = PartVideo(n, p, c)
    <3>1. PICK n \in numbers, c \in Ceilings, p \in Nat : 1 <= p /\ p <= c /\ u = PartVideo(n, p, c)
      BY <2>1
    <3>2. u.part # 0 /\ u.episodes = {n} /\ n \in Int /\ Within(n, l.from, l.to)
      BY <3>1 DEF PartVideo
    <3>3. EpisodeRow(l, n).part = 0
      BY <1>1, <3>2 DEF Nameable, RowsFor
    <3>4. EpisodeRow(l, n).part = Rest(l, n) + 1 /\ Rest(l, n) \in Nat
      BY <3>2, JoinFields, JoinTypes
    <3> QED
      BY <3>3, <3>4
  <2> QED
    BY <2>1, VideoKinds
<1>2. PICK i \in Int, j \in Int : i <= j /\ i..j \subseteq numbers /\ v = WholeVideo(i, j)
  BY <1>1
<1>3. PICK i2 \in Int, j2 \in Int : i2 <= j2 /\ i2..j2 \subseteq numbers /\ w = WholeVideo(i2, j2)
  BY <1>1
<1>4. /\ v.part = 0 /\ v.ceiling = 0 /\ v.episodes = i..j
      /\ w.part = 0 /\ w.ceiling = 0 /\ w.episodes = i2..j2
  BY <1>2, <1>3 DEF WholeVideo
<1>5. ASSUME NEW a \in Int, NEW b \in Int, a <= b, a..b \subseteq numbers, NEW u, u = WholeVideo(a, b)
      PROVE  /\ \A n \in a..b : Within(n, l.from, l.to)
             /\ TvdbName(RowsFor(l, u.episodes), u)[1] = Shown(Into(l, a)..Into(l, b))
             /\ TvdbName(RowsFor(l, u.episodes), u)[2] = Shown(SharedParts(RowsFor(l, a..b)))
             /\ Into(l, a) \in Int /\ Into(l, b) \in Int /\ Into(l, a) <= Into(l, b)
             /\ Within(a, l.from, l.to) /\ Within(b, l.from, l.to)
  <2>1. /\ \A n \in a..b : Within(n, l.from, l.to) /\ a \in a..b /\ b \in a..b
    BY <1>5
  <2>2. u.part = 0 /\ u.episodes = a..b
    BY <1>5 DEF WholeVideo
  <2>3. TvdbNumbers(RowsFor(l, a..b), u) = Into(l, a)..Into(l, b)
    <3>1. TvdbNumbers(RowsFor(l, a..b), u) = UNION {ep.tvdb : ep \in RowsFor(l, a..b)}
      BY <2>2 DEF TvdbNumbers
    <3> QED
      BY <1>5, <2>1, <3>1, JoinUnion
  <2>4. TvdbParts(RowsFor(l, a..b), u) = SharedParts(RowsFor(l, a..b))
    BY <2>2 DEF TvdbParts
  <2>5. Within(a, l.from, l.to) /\ Within(b, l.from, l.to)
    BY <1>5, <2>1
  <2>6. Into(l, a) \in Int /\ Into(l, b) \in Int /\ Into(l, a) <= Into(l, b)
    BY <1>5, <2>5, JoinTypes, JoinOrder
  <2>7. TvdbName(RowsFor(l, u.episodes), u) =
            <<Shown(TvdbNumbers(RowsFor(l, a..b), u)), Shown(TvdbParts(RowsFor(l, a..b), u))>>
    BY <2>2 DEF TvdbName
  <2> QED
    BY <2>1, <2>3, <2>4, <2>5, <2>6, <2>7
\* The earlier of two disjoint videos has other parts.
<1>6. ASSUME NEW a \in Int, NEW b \in Int, a <= b, a..b \subseteq numbers,
             NEW c \in Int, NEW d \in Int, c <= d, c..d \subseteq numbers,
             NEW x, x = WholeVideo(a, b), NEW y, y = WholeVideo(c, d), b < c,
             TvdbName(RowsFor(l, x.episodes), x) = TvdbName(RowsFor(l, y.episodes), y)
      PROVE  FALSE
  <2>1. /\ \A n \in a..b : Within(n, l.from, l.to)
        /\ TvdbName(RowsFor(l, x.episodes), x)[1] = Shown(Into(l, a)..Into(l, b))
        /\ TvdbName(RowsFor(l, x.episodes), x)[2] = Shown(SharedParts(RowsFor(l, a..b)))
        /\ Into(l, a) \in Int /\ Into(l, b) \in Int /\ Into(l, a) <= Into(l, b)
        /\ Within(a, l.from, l.to) /\ Within(b, l.from, l.to)
    BY <1>5, <1>6
  <2>2. /\ \A n \in c..d : Within(n, l.from, l.to)
        /\ TvdbName(RowsFor(l, y.episodes), y)[1] = Shown(Into(l, c)..Into(l, d))
        /\ TvdbName(RowsFor(l, y.episodes), y)[2] = Shown(SharedParts(RowsFor(l, c..d)))
        /\ Into(l, c) \in Int /\ Into(l, d) \in Int /\ Into(l, c) <= Into(l, d)
        /\ Within(c, l.from, l.to) /\ Within(d, l.from, l.to)
    BY <1>5, <1>6
  <2>3. /\ Shown(Into(l, a)..Into(l, b)) = Shown(Into(l, c)..Into(l, d))
        /\ Shown(SharedParts(RowsFor(l, a..b))) = Shown(SharedParts(RowsFor(l, c..d)))
    BY <1>6, <2>1, <2>2
  <2>4. Into(l, a) = Into(l, c) /\ Into(l, b) = Into(l, d)
    BY <2>1, <2>2, <2>3, ShownTells
  <2>5. Into(l, b) <= Into(l, c)
    BY <1>6, <2>1, <2>2, JoinOrder
  <2>6. Into(l, a) = Into(l, b) /\ Into(l, c) = Into(l, d) /\ Into(l, a) = Into(l, d)
    BY <2>1, <2>2, <2>4, <2>5
  <2>7. /\ Rest(l, a) \in 0..(l.step - 1) /\ Rest(l, b) \in 0..(l.step - 1)
        /\ Rest(l, c) \in 0..(l.step - 1) /\ Rest(l, d) \in 0..(l.step - 1)
        /\ l.step \in Nat \ {0, 1}
    BY <2>1, <2>2, JoinTypes
  <2>8. /\ Rest(l, d) - Rest(l, a) = d - a /\ Rest(l, b) - Rest(l, a) = b - a
        /\ Rest(l, d) - Rest(l, c) = d - c /\ Rest(l, c) - Rest(l, a) = c - a
    <3>1. a <= d /\ a <= c
      BY <1>6
    <3> QED
      BY <1>6, <2>1, <2>2, <2>4, <2>6, <3>1, JoinOrder
  <2>9. b - a + 1 < l.step /\ d - c + 1 < l.step
    BY <1>6, <2>7, <2>8
  <2>10. /\ SharedParts(RowsFor(l, a..b)) = (Rest(l, a) + 1)..(Rest(l, b) + 1)
         /\ SharedParts(RowsFor(l, c..d)) = (Rest(l, c) + 1)..(Rest(l, d) + 1)
    BY <1>6, <2>1, <2>2, <2>6, <2>9, JoinParts
  <2> DEFINE p == Rest(l, a) + 1
             q == Rest(l, b) + 1
             r == Rest(l, c) + 1
             s == Rest(l, d) + 1
  <2>11. p \in Int /\ q \in Int /\ r \in Int /\ s \in Int /\ p <= q /\ r <= s /\ p < r
    BY <1>6, <2>7, <2>8
  <2>12. Shown(p..q) = Shown(r..s)
    BY <2>3, <2>10
  <2> HIDE DEF p, q, r, s
  <2>13. p = r
    BY <2>11, <2>12, ShownTells
  <2> QED
    BY <2>11, <2>13
<1>7. ~(j < i2)
  BY <1>2, <1>3, <1>6
<1>8. ~(j2 < i)
  BY <1>2, <1>3, <1>6
<1>9. v.episodes \intersect w.episodes # {}
  <2>1. i \in i2..j2 \/ i2 \in i..j
    BY <1>2, <1>3, <1>7, <1>8
  <2>2. i \in i..j /\ i2 \in i2..j2
    BY <1>2, <1>3
  <2> QED
    BY <1>4, <2>1, <2>2
<1> QED
  BY <1>4, <1>9 DEF Disjoint
-----------------------------------------------------------------------------
\* By either numbering, whatever the line.
LEMMA VideoTypes ==
    ASSUME NEW numbers \in SUBSET Int, NEW v \in Videos(numbers)
    PROVE  /\ v \in [episodes : SUBSET Int, part : Nat, ceiling : Nat]
           /\ v.episodes \in SUBSET numbers
           /\ \E a, b \in Int : a <= b /\ v.episodes = a..b
<1>1. CASE \E i, j \in numbers : i <= j /\ i..j \subseteq numbers /\ v = WholeVideo(i, j)
  <2>1. PICK i \in numbers, j \in numbers : i <= j /\ i..j \subseteq numbers /\ v = WholeVideo(i, j)
    BY <1>1
  <2>2. i..j \in SUBSET Int
    OBVIOUS
  <2>3. v = [episodes |-> i..j, part |-> 0, ceiling |-> 0] /\ v.episodes = i..j
    BY <2>1 DEF WholeVideo
  <2> QED
    BY <2>1, <2>2, <2>3
<1>2. CASE \E n \in numbers, c \in Ceilings, p \in Nat : 1 <= p /\ p <= c /\ v = PartVideo(n, p, c)
  <2>1. PICK n \in numbers, c \in Ceilings, p \in Nat : 1 <= p /\ p <= c /\ v = PartVideo(n, p, c)
    BY <1>2
  <2>2. v = [episodes |-> {n}, part |-> p, ceiling |-> c] /\ v.episodes = {n} /\ c \in Nat
    BY <2>1, CeilingsAssumption DEF PartVideo
  <2>3. n \in Int /\ {n} = n..n /\ n <= n
    OBVIOUS
  <2> QED
    BY <2>2, <2>3
<1> QED
  BY <1>1, <1>2, VideoKinds

\* Videos that share nothing never share a name, whatever a user may store.
LEMMA ValidNamesDiffer ==
    ASSUME NEW l \in Entry, ValidRanges(l), NEW numbers \in SUBSET Int,
           \A n \in numbers : Within(n, l.from, l.to)
    PROVE  NamesDiffer(l, numbers)
<1> DEFINE all == {EpisodeRow(l, n) : n \in numbers}
           rowsOf(v) == {ep \in all : ep.number \in v.episodes}
           of(v) == [video |-> v, tvdb |-> TvdbName(rowsOf(v), v), raw |-> RawName(v)]
           named == {v \in Videos(numbers) : Nameable(rowsOf(v), v)}
<1>1. Named(l, numbers) = {of(v) : v \in named}
  BY DEF Named
<1>2. \A v \in Videos(numbers) : rowsOf(v) = RowsFor(l, v.episodes)
  BY VideoTypes, RowsOfVideo
<1>3. Plain(l) \/ Joins(l)
  BY EntryFields DEF Plain, Joins, ValidRanges
<1>4. ASSUME NEW v \in named, NEW w \in named,
             TvdbName(rowsOf(v), v) = TvdbName(rowsOf(w), w) \/ RawName(v) = RawName(w)
      PROVE  ~Disjoint(v, w)
  <2>1. /\ v \in Videos(numbers) /\ Nameable(RowsFor(l, v.episodes), v)
        /\ w \in Videos(numbers) /\ Nameable(RowsFor(l, w.episodes), w)
        /\ rowsOf(v) = RowsFor(l, v.episodes) /\ rowsOf(w) = RowsFor(l, w.episodes)
    BY <1>2
  <2> HIDE DEF rowsOf, all
  <2>2. CASE TvdbName(rowsOf(v), v) = TvdbName(rowsOf(w), w)
    <3>1. TvdbName(RowsFor(l, v.episodes), v) = TvdbName(RowsFor(l, w.episodes), w)
      BY <2>1, <2>2
    <3> QED
      BY <1>3, <2>1, <3>1, PlainNames, JoinNames
  <2>3. CASE RawName(v) = RawName(w)
    BY <2>1, <2>3, VideoTypes, RawNamesTell
  <2> QED
    BY <1>4, <2>2, <2>3
<1> HIDE DEF rowsOf, named
<1>5. ASSUME NEW x \in Named(l, numbers), NEW y \in Named(l, numbers),
             x.tvdb = y.tvdb \/ x.raw = y.raw
      PROVE  ~Disjoint(x.video, y.video)
  <2>1. PICK v \in named : x = of(v)
    BY <1>1
  <2>2. PICK w \in named : y = of(w)
    BY <1>1
  <2>3. /\ x.video = v /\ x.tvdb = TvdbName(rowsOf(v), v) /\ x.raw = RawName(v)
        /\ y.video = w /\ y.tvdb = TvdbName(rowsOf(w), w) /\ y.raw = RawName(w)
    BY <2>1, <2>2
  <2> QED
    BY <1>4, <1>5, <2>3
<1> QED
  BY <1>5 DEF NamesDiffer
-----------------------------------------------------------------------------
\* The rows users correct the mappings with, and the tables.

\* What is not written as a rule is not in the tables.
LEMMA RelationsTyped ==
    ASSUME NEW lines, WellFormed(lines), NEW a \in Animes
    PROVE  /\ DOMAIN Relations(lines, a) \in SUBSET Nat /\ IsFiniteSet(DOMAIN Relations(lines, a))
           /\ \A i \in DOMAIN Relations(lines, a) : Relations(lines, a)[i] \in Relation
<1> DEFINE holds == {i \in DOMAIN lines :
                        /\ {lines[i].this, Leads(lines[i])} \subseteq Animes
                        /\ \/ lines[i].this = a
                           \/ lines[i].repeat /\ Leads(lines[i]) = a}
           rel == [i \in holds |-> RelationOf(lines[i])]
<1>1. Relations(lines, a) = rel
  BY DEF Relations
<1>2. DOMAIN lines = 1..Len(lines) /\ Len(lines) \in Nat
  <2>1. lines \in Seq(Range(lines))
    BY DEF WellFormed
  <2> QED
    BY <2>1
<1>3. IsFiniteSet(DOMAIN lines) /\ DOMAIN lines \in SUBSET Nat
  BY <1>2, FS_Interval
<1>4. holds \in SUBSET DOMAIN lines
  OBVIOUS
<1>5. \A i \in holds : RelationOf(lines[i]) \in Relation
  BY DEF RelationOf, Relation, WellFormed
<1> HIDE DEF holds
<1>6. IsFiniteSet(holds)
  BY <1>3, <1>4, FS_Subset
<1>7. DOMAIN rel = holds /\ \A i \in holds : rel[i] = RelationOf(lines[i])
  OBVIOUS
<1> HIDE DEF rel
<1> QED
  BY <1>1, <1>3, <1>4, <1>5, <1>6, <1>7

LEMMA RulesTyped ==
    ASSUME NEW mappings, NEW hot, NEW lines, NEW counts, WellFormed(lines)
    PROVE  Rules(Tables(mappings, hot, lines, counts))
<1> DEFINE t == Tables(mappings, hot, lines, counts)
<1>1. \A a \in Animes : t.relations[a] = Relations(lines, a)
  BY DEF Tables
<1> HIDE DEF t
<1>2. Rules(t)
  BY <1>1, RelationsTyped DEF Rules
<1> QED
  BY <1>2 DEF t

LEMMA NoRules == WellFormed(<<>>)
<1>1. DOMAIN <<>> = {} /\ Range(<<>>) = {}
  BY DEF Range
<1>2. <<>> \in Seq(Range(<<>>))
  OBVIOUS
<1> QED
  BY <1>1, <1>2 DEF WellFormed

\* The type of the tables; only the rules of the relations take an argument.
TablesTyped(t) ==
    /\ t.forward \subseteq Entry /\ t.backward \subseteq Entry
    /\ Rules(t) /\ t.counts \in [Animes -> Nat]

LEMMA TurnTyped == ASSUME NEW e \in Entry PROVE Turn(e) \in Entry /\ Turn(e).always = e.always
<1>1. Turned(e.step) \in Int
  BY DEF Turned, Entry
<1>2. Reversed(e) \in Entry /\ Reversed(e).always = e.always
  BY <1>1 DEF Reversed, Entry
<1> QED
  BY <1>2 DEF Turn, Entry

LEMMA ExternalTyped ==
    ASSUME NEW file \in MappingFiles \union {{}}, NEW left, NEW right
    PROVE  External(file, left, right) \subseteq Entry
<1>1. \A line \in file :
        /\ line.source \in Animes \union Keys /\ line.target \in Animes \union Keys
        /\ line.from \in Int /\ line.to \in Bound /\ line.step \in Int
        /\ \A t \in line.ranges : t[1] \in Int /\ t[2] \in Bound
  BY MappingAssumption
<1>2. \A line \in file : \A t \in line.ranges :
        [source |-> line.source, target |-> line.target, from |-> line.from,
         to |-> line.to, tfrom |-> t[1], tto |-> t[2], step |-> line.step,
         always |-> FALSE] \in Entry
  BY <1>1 DEF Entry
<1> QED
  BY <1>2 DEF External

LEMMA HotTyped ==
    ASSUME NEW file \in HotFiles \union {{}}
    PROVE  Hot(file) \subseteq Entry /\ {Turn(e) : e \in Hot(file)} \subseteq Entry
<1>1. file \subseteq Entry
  BY MappingAssumption
<1>2. \A entry \in file : [entry EXCEPT !.always = TRUE] \in Entry
  BY <1>1 DEF Entry
<1>3. Hot(file) \subseteq Entry
  BY <1>2 DEF Hot
<1> QED
  BY <1>3, TurnTyped

LEMMA LoadedTyped ==
    ASSUME NEW mappings \in MappingFiles \union {{}}, NEW hot \in HotFiles \union {{}},
           NEW lines \in RuleFiles \union {<<>>}, NEW counts \in CountFiles \union {{}}
    PROVE  TablesTyped(Tables(mappings, hot, lines, counts))
<1> DEFINE t == Tables(mappings, hot, lines, counts)
<1>1. Rules(t)
  BY RelationsAssumption, NoRules, RulesTyped
<1>2. t.forward \subseteq Entry /\ t.backward \subseteq Entry
  <2>1. /\ t.forward = External(mappings, "anilist", "tvdb_show") \union Hot(hot)
        /\ t.backward = External(mappings, "tvdb_show", "anilist")
                         \union {Turn(e) : e \in Hot(hot)}
    BY DEF Tables
  <2> HIDE DEF t
  <2> QED
    BY <2>1, ExternalTyped, HotTyped
<1>3. t.counts \in [Animes -> Nat]
  <2>1. \A a \in Animes : EpisodeCount(counts, a) \in Nat
    BY RelationsAssumption DEF EpisodeCount
  <2>2. t.counts = [a \in Animes |-> EpisodeCount(counts, a)]
    BY DEF Tables
  <2> HIDE DEF t
  <2> QED
    BY <2>1, <2>2
<1> HIDE DEF t
<1>4. TablesTyped(t)
  BY <1>1, <1>2, <1>3 DEF TablesTyped
<1> QED
  BY <1>4 DEF t

LEMMA NoTablesTyped == TablesTyped(NoTables)
<1>1. {} \in MappingFiles \union {{}} /\ {} \in HotFiles \union {{}}
      /\ <<>> \in RuleFiles \union {<<>>} /\ {} \in CountFiles \union {{}}
  OBVIOUS
<1> QED
  BY <1>1, LoadedTyped DEF NoTables

\* The types, with what the walk needs of the rules.
MappingTyped ==
    /\ DOMAIN rows \subseteq Ids /\ \A i \in DOMAIN rows : rows[i] \in Entry
    /\ edits \subseteq [id: Ids, read: Entry, body: Bodies]
    /\ IsFiniteSet(edits) /\ Cardinality(edits) <= MaxEdits
    /\ TablesTyped(table)

LEMMA BodiesAre == Bodies \subseteq Entry /\ \A body \in Bodies : body.always \in BOOLEAN
BY MappingAssumption DEF Entry

LEMMA MappingInitially == MappingInit => MappingTyped
<1> SUFFICES ASSUME MappingInit PROVE MappingTyped
  OBVIOUS
<1>1. rows = <<>> /\ edits = {} /\ table = NoTables
  BY DEF MappingInit
<1>2. DOMAIN rows = {}
  BY <1>1
<1>3. IsFiniteSet({}) /\ Cardinality({}) = 0
  BY FS_EmptySet
<1> QED
  BY <1>1, <1>2, <1>3, NoTablesTyped, MappingAssumption DEF MappingTyped

LEMMA EditsFewer ==
    ASSUME MappingTyped, NEW e \in edits, edits' = edits \ {e}
    PROVE  IsFiniteSet(edits') /\ Cardinality(edits') <= MaxEdits
<1>1. /\ IsFiniteSet(edits') /\ Cardinality(edits') = Cardinality(edits) - 1
      /\ Cardinality(edits) \in Nat
  BY FS_RemoveElement, FS_CardinalityType DEF MappingTyped
<1> QED
  BY <1>1, MappingAssumption DEF MappingTyped

\* A column is as the body has it or stays.
Merged(e, entry) == [c \in DOMAIN e.body |-> IF e.body[c] # e.read[c] THEN e.body[c] ELSE entry[c]]

LEMMA MergedTyped ==
    ASSUME NEW e, e.body \in Entry, NEW entry \in Entry PROVE Merged(e, entry) \in Entry
<1> DEFINE body == e.body
           m == Merged(e, entry)
           columns == {"source", "target", "from", "to", "tfrom", "tto", "step", "always"}
<1>1. DOMAIN body = columns
  BY DEF Entry
<1>2. m = [c \in columns |-> IF body[c] # e.read[c] THEN body[c] ELSE entry[c]]
  BY <1>1 DEF Merged
<1> HIDE DEF body, m
<1>3. DOMAIN m = columns /\ \A c \in columns : m[c] \in {body[c], entry[c]}
  BY <1>2
<1>4. /\ m["source"] \in Animes \union Keys /\ m["target"] \in Animes \union Keys
      /\ m["from"] \in Int /\ m["to"] \in Bound /\ m["tfrom"] \in Int /\ m["tto"] \in Bound
      /\ m["step"] \in Int
  BY <1>3 DEF Entry, body
<1>5. m["always"] \in BOOLEAN
  <2>1. body["always"] \in BOOLEAN /\ entry["always"] \in BOOLEAN
    BY DEF Entry, body
  <2> QED
    BY <1>3, <2>1
<1>6. m = [source |-> m["source"], target |-> m["target"], from |-> m["from"], to |-> m["to"],
           tfrom |-> m["tfrom"], tto |-> m["tto"], step |-> m["step"], always |-> m["always"]]
  BY <1>2, <1>3
<1>7. m \in Entry
  BY <1>4, <1>5, <1>6 DEF Entry
<1> QED
  BY <1>7 DEF m

LEMMA MappingStep == MappingTyped /\ [MappingNext]_mappingVars => MappingTyped'
<1> SUFFICES ASSUME MappingTyped, [MappingNext]_mappingVars PROVE MappingTyped'
  OBVIOUS
<1> USE DEF MappingTyped
<1>1. ASSUME NEW i \in Ids, NEW body \in Bodies, CreateRow(i, body) PROVE MappingTyped'
  <2>1. /\ UNCHANGED <<edits, table>> /\ DOMAIN rows' = DOMAIN rows \union {i}
        /\ \A j \in DOMAIN rows' : rows'[j] = IF j = i THEN body ELSE rows[j]
    BY <1>1 DEF CreateRow
  <2> QED
    BY <2>1, BodiesAre
<1>2. ASSUME NEW i \in Ids, NEW body \in Bodies, EditReads(i, body) PROVE MappingTyped'
  <2> DEFINE e == [id |-> i, read |-> rows[i], body |-> body]
  <2>1. /\ UNCHANGED <<rows, table>> /\ edits' = edits \union {e} /\ i \in DOMAIN rows
        /\ Cardinality(edits) < MaxEdits
    BY <1>2 DEF EditReads
  <2>2. e \in [id: Ids, read: Entry, body: Bodies]
    BY <2>1
  <2> HIDE DEF e
  <2>3. /\ IsFiniteSet(edits') /\ Cardinality(edits) \in Nat
        /\ Cardinality(edits') = Cardinality(edits) \/ Cardinality(edits') = Cardinality(edits) + 1
    BY <2>1, FS_AddElement, FS_CardinalityType
  <2>4. Cardinality(edits') <= MaxEdits
    BY <2>1, <2>3, MappingAssumption
  <2> QED
    BY <2>1, <2>2, <2>3, <2>4
<1>3. ASSUME NEW e \in edits, EditWrites(e) PROVE MappingTyped'
  <2>1. /\ UNCHANGED table /\ edits' = edits \ {e}
        /\ rows' = IF e.id \notin DOMAIN rows THEN rows
                   ELSE [rows EXCEPT ![e.id] = Merged(e, rows[e.id])]
    BY <1>3 DEF EditWrites, Merged
  <2>2. e.body \in Entry
    BY BodiesAre
  <2>3. e.id \in DOMAIN rows => Merged(e, rows[e.id]) \in Entry
    BY <2>2, MergedTyped
  <2>4. DOMAIN rows' = DOMAIN rows /\ \A j \in DOMAIN rows' : rows'[j] \in Entry
    BY <2>1, <2>3
  <2> QED
    BY <2>1, <2>4, EditsFewer
<1>4. ASSUME NEW e \in edits, EditFails(e) PROVE MappingTyped'
  BY <1>4, EditsFewer DEF EditFails
<1>5. ASSUME NEW i \in Ids, DeleteRow(i) PROVE MappingTyped'
  BY <1>5 DEF DeleteRow
<1>6. CASE LoadRelations \/ RefreshRelations
  <2>1. UNCHANGED <<rows, edits>>
    BY <1>6 DEF LoadRelations, RefreshRelations
  <2>2. TablesTyped(table')
    <3>1. PICK mappings \in MappingFiles \union {{}}, hot \in HotFiles \union {{}},
               lines \in RuleFiles \union {<<>>}, counts \in CountFiles \union {{}} :
                  table' = Tables(mappings, hot, lines, counts)
      BY <1>6 DEF LoadRelations, RefreshRelations
    <3> QED
      BY <3>1, LoadedTyped
  <2> QED
    BY <2>1, <2>2 DEF TablesTyped, Rules
<1>7. CASE UNCHANGED mappingVars
  BY <1>7 DEF mappingVars, TablesTyped, Rules
<1> QED
  BY <1>1, <1>2, <1>3, <1>4, <1>5, <1>6, <1>7 DEF MappingNext

LEMMA RulesAreRelations ==
    ASSUME NEW t, Rules(t), NEW a \in Animes PROVE Range(t.relations[a]) \subseteq Relation
BY DEF Rules, Range

\* The types of the rows, the requests and the tables hold throughout.
THEOREM MappingTypes == MappingSpec => []MappingTypeOK
<1>1. MappingTyped => MappingTypeOK
  BY RulesAreRelations DEF MappingTyped, TablesTyped, MappingTypeOK
<1> QED
  BY <1>1, MappingInitially, MappingStep, PTL DEF MappingSpec

\* For all files of rules, and all numbers: a number that has been resolved
\* stays, however the rules chain or turn back.
THEOREM ResolvedNumbersSettle == MappingSpec => []NumbersSettle
<1>1. MappingTyped => NumbersSettle
  <2> SUFFICES ASSUME MappingTyped, NEW a \in Animes, NEW n \in Numbers,
                      ResolveAnime(table, a, n) # Mismatch
               PROVE  ResolveAnime(table, ResolveAnime(table, a, n).anime,
                                   ResolveAnime(table, a, n).episode) = ResolveAnime(table, a, n)
    BY DEF NumbersSettle
  <2>1. n \in Nat /\ Rules(table)
    BY MappingAssumption DEF MappingTyped, TablesTyped
  <2> QED
    BY <2>1, ResolvedStays
<1> QED
  BY <1>1, MappingInitially, MappingStep, PTL DEF MappingSpec

-----------------------------------------------------------------------------
\* Rows that agree in both directions.

\* No two updates of one row overlap.
OneEditEach == \A e, f \in edits : e.id = f.id => e = f

\* What has been let through; a row does not change under an update.
RowsValid ==
    /\ \A i \in DOMAIN rows : ValidRanges(rows[i])
    /\ \A e \in edits : /\ ValidRanges(e.body)
                        /\ e.id \in DOMAIN rows => rows[e.id] = e.read

LEMMA MergedIsBody ==
    ASSUME NEW e, e.body \in Entry PROVE Merged(e, e.read) = e.body
<1>1. e.body = [c \in DOMAIN e.body |-> e.body[c]]
  BY DEF Entry
<1> QED
  BY <1>1 DEF Merged

LEMMA RowsStep ==
    MappingTyped /\ RowsValid /\ OneEditEach /\ [MappingNext]_mappingVars => RowsValid'
<1> SUFFICES ASSUME MappingTyped, RowsValid, OneEditEach, [MappingNext]_mappingVars
             PROVE  RowsValid'
  OBVIOUS
<1> USE DEF RowsValid
<1>1. ASSUME NEW i \in Ids, NEW body \in Bodies, CreateRow(i, body) PROVE RowsValid'
  <2>1. /\ UNCHANGED edits /\ DOMAIN rows' = DOMAIN rows \union {i} /\ ValidRanges(body)
        /\ \A j \in DOMAIN rows' : rows'[j] = IF j = i THEN body ELSE rows[j]
        /\ \A e \in edits : e.id # i
    BY <1>1 DEF CreateRow
  <2> QED
    BY <2>1
<1>2. ASSUME NEW i \in Ids, NEW body \in Bodies, EditReads(i, body) PROVE RowsValid'
  BY <1>2 DEF EditReads
<1>3. ASSUME NEW e \in edits, EditWrites(e) PROVE RowsValid'
  <2>1. /\ edits' = edits \ {e}
        /\ rows' = IF e.id \notin DOMAIN rows THEN rows
                   ELSE [rows EXCEPT ![e.id] = Merged(e, rows[e.id])]
    BY <1>3 DEF EditWrites, Merged
  <2>2. e.body \in Entry
    BY BodiesAre DEF MappingTyped
  <2>3. e.id \in DOMAIN rows => Merged(e, rows[e.id]) = e.body
    BY <2>2, MergedIsBody
  <2>4. /\ DOMAIN rows' = DOMAIN rows
        /\ \A j \in DOMAIN rows : rows'[j] = IF j = e.id THEN e.body ELSE rows[j]
    BY <2>1, <2>3
  <2>5. \A f \in edits' : f \in edits /\ f.id # e.id
    BY <2>1 DEF OneEditEach
  <2> QED
    BY <2>4, <2>5
<1>4. ASSUME NEW e \in edits, EditFails(e) PROVE RowsValid'
  BY <1>4 DEF EditFails
<1>5. ASSUME NEW i \in Ids, DeleteRow(i) PROVE RowsValid'
  BY <1>5 DEF DeleteRow
<1>6. CASE LoadRelations \/ RefreshRelations
  BY <1>6 DEF LoadRelations, RefreshRelations
<1>7. CASE UNCHANGED mappingVars
  BY <1>7 DEF mappingVars
<1> QED
  BY <1>1, <1>2, <1>3, <1>4, <1>5, <1>6, <1>7 DEF MappingNext

\* As long as no two updates of one row overlap, an episode of a row has TVDB
\* episodes and each of them leads back to it: for all rows users may store,
\* whatever their ranges and their granularity.
THEOREM RowsAgree == MappingSpec /\ []OneEditEach => []RowsRoundTrip
<1>1. MappingInit => RowsValid
  <2> SUFFICES ASSUME MappingInit PROVE RowsValid
    OBVIOUS
  <2>1. rows = <<>> /\ edits = {}
    BY DEF MappingInit
  <2>2. DOMAIN rows = {}
    BY <2>1
  <2> QED
    BY <2>1, <2>2 DEF RowsValid
<1>2. MappingTyped /\ RowsValid => RowsRoundTrip
  <2> SUFFICES ASSUME MappingTyped, RowsValid, NEW i \in DOMAIN rows, NEW n \in Numbers
               PROVE  RoundTrips(rows[i], n)
    BY DEF RowsRoundTrip, Stored, Range
  <2>1. rows[i] \in Entry /\ ValidRanges(rows[i]) /\ n \in Int
    BY MappingAssumption DEF MappingTyped, RowsValid
  <2> QED
    BY <2>1, ValidRoundTrips
<1> QED
  BY <1>1, <1>2, MappingInitially, MappingStep, RowsStep, PTL DEF MappingSpec

\* So long, too, videos of one anime that share no content never share a name in
\* the library, by TVDB's numbers or by AniList's: whatever rows users store, into
\* whatever number of parts releases divide an episode, for all numbers.
THEOREM NamesStayApart == MappingSpec /\ []OneEditEach => []NamesTellApart
<1>1. MappingInit => RowsValid
  <2> SUFFICES ASSUME MappingInit PROVE RowsValid
    OBVIOUS
  <2>1. rows = <<>> /\ edits = {}
    BY DEF MappingInit
  <2>2. DOMAIN rows = {}
    BY <2>1
  <2> QED
    BY <2>1, <2>2 DEF RowsValid
<1>2. MappingTyped /\ RowsValid => NamesTellApart
  <2> SUFFICES ASSUME MappingTyped, RowsValid, NEW i \in DOMAIN rows
               PROVE  NamesDiffer(rows[i], {n \in Numbers : Within(n, rows[i].from, rows[i].to)})
    BY DEF NamesTellApart, Stored, Range
  <2> DEFINE numbers == {n \in Numbers : Within(n, rows[i].from, rows[i].to)}
  <2>1. rows[i] \in Entry /\ ValidRanges(rows[i])
    BY DEF MappingTyped, RowsValid
  <2>2. numbers \in SUBSET Int /\ \A n \in numbers : Within(n, rows[i].from, rows[i].to)
    <3>1. Numbers \subseteq Nat
      BY MappingAssumption
    <3>2. Nat \subseteq Int
      OBVIOUS
    <3>3. \A n \in numbers : n \in Numbers /\ Within(n, rows[i].from, rows[i].to)
      OBVIOUS
    <3> HIDE DEF numbers
    <3> QED
      BY <3>1, <3>2, <3>3, Zenon
  <2> HIDE DEF numbers
  <2>3. NamesDiffer(rows[i], numbers)
    BY <2>1, <2>2, ValidNamesDiffer
  <2> QED
    BY <2>3 DEF numbers
<1> QED
  BY <1>1, <1>2, MappingInitially, MappingStep, RowsStep, PTL DEF MappingSpec

\* Both hold when there is one update at a time, as in the runs.
THEOREM OneAtATime ==
    ASSUME MaxEdits = 1
    PROVE  MappingSpec => [](RowsRoundTrip /\ NamesTellApart)
<1>1. MappingTyped => OneEditEach
  <2> SUFFICES ASSUME MappingTyped, NEW e \in edits, NEW f \in edits PROVE e = f
    BY DEF OneEditEach
  <2>1. IsFiniteSet(edits) /\ Cardinality(edits) \in Nat /\ Cardinality(edits) # 0
    BY FS_CardinalityType, FS_EmptySet DEF MappingTyped
  <2>2. Cardinality(edits) = 1
    BY <2>1 DEF MappingTyped
  <2>3. \E x : edits = {x}
    BY <2>1, <2>2, FS_Singleton
  <2> QED
    BY <2>3
<1> QED
  BY <1>1, MappingInitially, MappingStep, RowsAgree, NamesStayApart, PTL DEF MappingSpec
-----------------------------------------------------------------------------
\* ALWAYS rows decide, IF_MISSING rows fill gaps.

Marked(S) == \A e \in S : e.always \in BOOLEAN
Bindings(S) == {e \in S : e.always}

\* All targets of a number.
Found(S, source, n) ==
    UNION {{[target |-> e.target, episode |-> t.episode, part |-> t.part,
             ceiling |-> t.ceiling, always |-> e.always] : t \in Targets(e, n)} :
           e \in {e \in S : e.source = source}}

Greatest(pool) == {h \in pool : \A g \in pool : g.target <= h.target}

LEMMA LookupIs ==
    ASSUME NEW S, NEW source, NEW n
    PROVE  Lookup(S, source, n) =
               LET hits    == Found(S, source, n)
                   binding == {h \in hits : h.always}
               IN  Greatest(IF binding # {} THEN binding ELSE hits)
BY DEF Lookup, Found, Greatest

LEMMA FoundBinding ==
    ASSUME NEW S, Marked(S), NEW source, NEW n
    PROVE  /\ {h \in Found(S, source, n) : h.always} = Found(Bindings(S), source, n)
           /\ \A h \in Found(Bindings(S), source, n) : h.always
<1> DEFINE hit(e, t) == [target |-> e.target, episode |-> t.episode, part |-> t.part,
                         ceiling |-> t.ceiling, always |-> e.always]
<1>1. \A e, t : hit(e, t).always = e.always
  OBVIOUS
<1>2. \A T, h : h \in Found(T, source, n)
                  <=> \E e \in T : e.source = source /\ \E t \in Targets(e, n) : h = hit(e, t)
  BY DEF Found
<1> HIDE DEF hit
<1>3. \A h \in Found(Bindings(S), source, n) : h.always
  BY <1>1, <1>2 DEF Bindings
<1>4. \A h : h \in Found(Bindings(S), source, n) => h \in Found(S, source, n)
  BY <1>2 DEF Bindings
<1>5. \A h \in Found(S, source, n) : h.always => h \in Found(Bindings(S), source, n)
  BY <1>1, <1>2 DEF Bindings
<1> QED
  BY <1>3, <1>4, <1>5

\* Binding entries alone decide whether an answer binds, and then the answer.
LEMMA BindingsDecide ==
    ASSUME NEW S, Marked(S), NEW source, NEW n
    PROVE  /\ Binding(Lookup(S, source, n)) <=> Binding(Lookup(Bindings(S), source, n))
           /\ Binding(Lookup(S, source, n)) =>
                Lookup(S, source, n) = Lookup(Bindings(S), source, n)
<1> DEFINE B == Bindings(S)
           L == Lookup(S, source, n)
           M == Lookup(B, source, n)
           F == Found(S, source, n)
           G == Found(B, source, n)
<1>1. {h \in F : h.always} = G /\ \A h \in G : h.always
  BY FoundBinding
<1>2. {h \in G : h.always} = G
  BY <1>1
<1>3. L = Greatest(IF G # {} THEN G ELSE F)
  BY <1>1, LookupIs
<1>4. M = Greatest(G)
  <2>1. M = Greatest(IF {h \in G : h.always} # {} THEN {h \in G : h.always} ELSE G)
    BY LookupIs
  <2> HIDE DEF M, G
  <2> QED
    BY <1>2, <2>1
<1>5. \A pool : Greatest(pool) \subseteq pool
  BY DEF Greatest
<1> HIDE DEF L, M, F, G, B
<1>6. ASSUME G # {} PROVE L = M
  BY <1>3, <1>4, <1>6
<1>7. ASSUME G = {} PROVE ~Binding(L) /\ ~Binding(M)
  <2>1. L \subseteq F /\ M = {} /\ \A h \in F : ~h.always
    BY <1>1, <1>3, <1>4, <1>5, <1>7
  <2> QED
    BY <2>1 DEF Binding
<1>8. (Binding(L) <=> Binding(M)) /\ (Binding(L) => L = M)
  BY <1>6, <1>7
<1> QED
  BY <1>8 DEF L, M, B

\* Two sets of rows with the same binding ones answer alike where one of those
\* binds, or where the tables, the same ones, have an answer.
LEMMA AnswerStands ==
    ASSUME NEW S, NEW T, Marked(S), Marked(T), Bindings(S) = Bindings(T), NEW m, NEW k,
           NEW source, NEW n,
           \/ Binding(Lookup(Bindings(S), source, n))
           \/ k = m /\ Lookup(m, source, n) # {}
    PROVE  Answer(T, k, source, n) = Answer(S, m, source, n)
<1> DEFINE B == Lookup(Bindings(S), source, n)
           L == Lookup(S, source, n)
           M == Lookup(T, source, n)
<1>1. (Binding(L) <=> Binding(B)) /\ (Binding(L) => L = B)
  BY BindingsDecide
<1>2. (Binding(M) <=> Binding(B)) /\ (Binding(M) => M = B)
  BY BindingsDecide
<1>3. Answer(S, m, source, n) = IF Binding(L) \/ Lookup(m, source, n) = {} THEN L
                                ELSE Lookup(m, source, n)
  BY DEF Answer
<1>4. Answer(T, k, source, n) = IF Binding(M) \/ Lookup(k, source, n) = {} THEN M
                                ELSE Lookup(k, source, n)
  BY DEF Answer
<1>5. Binding(B) \/ (k = m /\ Lookup(m, source, n) # {})
  OBVIOUS
<1> HIDE DEF B, L, M
<1> QED
  BY <1>1, <1>2, <1>3, <1>4, <1>5

\* The first season of a binding row decides.
LEMMA SeriesStands ==
    ASSUME NEW S, NEW T, Marked(S), Marked(T), Bindings(S) = Bindings(T),
           NEW t, NEW u, NEW a, \E e \in Bindings(S) : e.source = a
    PROVE  TvdbSeries(T, u, a) = TvdbSeries(S, t, a)
<1> DEFINE of(X) == {e \in X : e.source = a}
           marked(X) == {e \in of(X) : e.always}
           B == {e \in Bindings(S) : e.source = a}
<1>1. marked(S) = B /\ marked(T) = B /\ B # {}
  <2>1. \A X : marked(X) = {e \in Bindings(X) : e.source = a}
    BY DEF Bindings
  <2> HIDE DEF marked
  <2> QED
    BY <2>1
<1> DEFINE keys(X) == {e.target : e \in IF marked(X) # {} THEN marked(X) ELSE of(X)}
           first(K) == IF K = {} THEN NoSeries
                       ELSE Series(CHOOSE k \in K : \A j \in K :
                               \/ Season(k) # 0 /\ Season(j) = 0
                               \/ /\ (Season(k) = 0) <=> (Season(j) = 0)
                                  /\ \/ Season(k) < Season(j)
                                     \/ Season(k) = Season(j) /\ Series(k) <= Series(j))
<1>2. \A X : FirstSeries(X, a) = first(keys(X))
  BY DEF FirstSeries
<1>3. \A X : FirstSeries(of(X), a) = first(keys(of(X)))
  BY <1>2
<1>4. \A X : of(of(X)) = of(X)
  OBVIOUS
<1> HIDE DEF first
<1>5. keys(of(S)) = {e.target : e \in B} /\ keys(of(T)) = {e.target : e \in B}
  <2>1. marked(of(S)) = B /\ marked(of(T)) = B
    BY <1>1, <1>4
  <2> HIDE DEF marked, of, B
  <2> QED
    BY <1>1, <2>1
<1>6. FirstSeries(of(S), a) = FirstSeries(of(T), a)
  BY <1>3, <1>5
<1>7. (\E e \in of(S) : e.always) /\ (\E e \in of(T) : e.always)
  BY <1>1
<1>8. TvdbSeries(S, t, a) = FirstSeries(of(S), a)
  BY <1>7 DEF TvdbSeries
<1>9. TvdbSeries(T, u, a) = FirstSeries(of(T), a)
  BY <1>7 DEF TvdbSeries
<1> QED
  BY <1>6, <1>8, <1>9

LEMMA StoredMarked ==
    ASSUME NEW r, \A i \in DOMAIN r : r[i] \in Entry
    PROVE  /\ Range(r) \subseteq Entry /\ Marked(Range(r))
           /\ Marked({Turn(e) : e \in Range(r)})
           /\ Bindings({Turn(e) : e \in Range(r)}) = {Turn(e) : e \in Bindings(Range(r))}
<1>1. Range(r) \subseteq Entry
  BY DEF Range
<1>2. \A e \in Entry : e.always \in BOOLEAN
  BY DEF Entry
<1>3. \A e \in Range(r) : Turn(e).always = e.always
  BY <1>1, TurnTyped
<1> HIDE DEF Range
<1>4. Marked(Range(r)) /\ Marked({Turn(e) : e \in Range(r)})
  BY <1>1, <1>2, <1>3 DEF Marked
<1>5. Bindings({Turn(e) : e \in Range(r)}) = {Turn(e) : e \in Bindings(Range(r))}
  BY <1>3 DEF Bindings
<1> QED
  BY <1>1, <1>4, <1>5

\* A user's ALWAYS row decides whatever is loaded or edited beside it, and an
\* IF_MISSING row changes nothing the tables answer: for all rows and all
\* tables, in either direction.
THEOREM AnswersStay == MappingSpec => AnswersStand
<1>1. ASSUME MappingTyped, MappingTyped'
      PROVE  [ Standing' = Standing /\ (Standing # {} \/ rows' # rows) =>
        LET always == Standing
            Settled(entries, own, a, n) ==
                \/ Binding(Lookup(own, a, n))
                \/ table' = table /\ Lookup(entries, a, n) # {}
        IN  /\ \A a \in Animes, n \in Numbers :
                Settled(table.forward, always, a, n) =>
                    TvdbEpisodes(Stored, table, a, n)' = TvdbEpisodes(Stored, table, a, n)
            /\ \A k \in Keys, n \in Numbers :
                Settled(table.backward, {Turn(e) : e \in always}, k, n) =>
                    AnilistEpisodes(Stored, table, k, n)'
                        = AnilistEpisodes(Stored, table, k, n)
            /\ \A a \in Animes :
                (\E n \in Numbers : Binding(Lookup(always, a, n))) =>
                    TvdbSeries(Stored, table, a)' = TvdbSeries(Stored, table, a)
      ]_<<rows, table>>
  <2> DEFINE S == Range(rows)
             T == Range(rows')
  <2> SUFFICES ASSUME Bindings(T) = Bindings(S)
               PROVE
            /\ \A a \in Animes, n \in Numbers :
                \/ Binding(Lookup(Bindings(S), a, n))
                \/ table' = table /\ Lookup(table.forward, a, n) # {}
                => TvdbEpisodes(T, table', a, n) = TvdbEpisodes(S, table, a, n)
            /\ \A k \in Keys, n \in Numbers :
                \/ Binding(Lookup({Turn(e) : e \in Bindings(S)}, k, n))
                \/ table' = table /\ Lookup(table.backward, k, n) # {}
                => AnilistEpisodes(T, table', k, n) = AnilistEpisodes(S, table, k, n)
            /\ \A a \in Animes :
                (\E n \in Numbers : Binding(Lookup(Bindings(S), a, n))) =>
                    TvdbSeries(T, table', a) = TvdbSeries(S, table, a)
    BY DEF Standing, Stored, Bindings, TvdbEpisodes, AnilistEpisodes, TvdbSeries
  <2>1. /\ Marked(S) /\ Marked({Turn(e) : e \in S})
        /\ Bindings({Turn(e) : e \in S}) = {Turn(e) : e \in Bindings(S)}
    BY <1>1, StoredMarked DEF MappingTyped
  <2>2. /\ Marked(T) /\ Marked({Turn(e) : e \in T})
        /\ Bindings({Turn(e) : e \in T}) = {Turn(e) : e \in Bindings(T)}
    BY <1>1, StoredMarked DEF MappingTyped
  <2> HIDE DEF S, T
  <2>3. ASSUME NEW a \in Animes, NEW n \in Numbers,
               \/ Binding(Lookup(Bindings(S), a, n))
               \/ table' = table /\ Lookup(table.forward, a, n) # {}
        PROVE  TvdbEpisodes(T, table', a, n) = TvdbEpisodes(S, table, a, n)
    <3>1. \/ Binding(Lookup(Bindings(S), a, n))
          \/ table'.forward = table.forward /\ Lookup(table.forward, a, n) # {}
      BY <2>3
    <3>2. Answer(T, table'.forward, a, n) = Answer(S, table.forward, a, n)
      BY <2>1, <2>2, <3>1, AnswerStands
    <3> QED
      BY <3>2 DEF TvdbEpisodes
  <2>4. ASSUME NEW k \in Keys, NEW n \in Numbers,
               \/ Binding(Lookup({Turn(e) : e \in Bindings(S)}, k, n))
               \/ table' = table /\ Lookup(table.backward, k, n) # {}
        PROVE  AnilistEpisodes(T, table', k, n) = AnilistEpisodes(S, table, k, n)
    <3> DEFINE X == {Turn(e) : e \in S}
               Y == {Turn(e) : e \in T}
    <3>1. Bindings(X) = {Turn(e) : e \in Bindings(S)} /\ Bindings(X) = Bindings(Y)
      BY <2>1, <2>2
    <3> HIDE DEF X, Y
    <3>2. \/ Binding(Lookup(Bindings(X), k, n))
          \/ table'.backward = table.backward /\ Lookup(table.backward, k, n) # {}
      BY <2>4, <3>1
    <3>3. Answer(Y, table'.backward, k, n) = Answer(X, table.backward, k, n)
      <4>1. Marked(X) /\ Marked(Y)
        BY <2>1, <2>2 DEF X, Y
      <4> QED
        BY <3>1, <3>2, <4>1, AnswerStands
    <3> QED
      BY <3>3 DEF AnilistEpisodes, X, Y
  <2>5. ASSUME NEW a \in Animes, NEW n \in Numbers, Binding(Lookup(Bindings(S), a, n))
        PROVE  TvdbSeries(T, table', a) = TvdbSeries(S, table, a)
    <3>1. \E e \in Bindings(S) : e.source = a
      <4>1. Lookup(Bindings(S), a, n) # {}
        BY <2>5 DEF Binding
      <4>2. Found(Bindings(S), a, n) # {}
        BY <4>1, LookupIs DEF Greatest
      <4> QED
        BY <4>2 DEF Found
    <3> QED
      BY <2>1, <2>2, <3>1, SeriesStands
  <2> QED
    BY <2>3, <2>4, <2>5
<1> QED
  BY <1>1, MappingInitially, MappingStep, PTL DEF MappingSpec, AnswersStand
-----------------------------------------------------------------------------
\* The pass that matches a title.

\* Of finitely many numbers one is the greatest.
LEMMA FiniteHasGreatest ==
    ASSUME NEW S \in SUBSET Nat, IsFiniteSet(S), S # {}
    PROVE  \E n \in S : \A m \in S : m <= n
<1> DEFINE Top(T) == \E n \in T : \A m \in T : m <= n
           bad == {n \in Nat : \E T \in SUBSET S : T # {} /\ Cardinality(T) = n /\ ~Top(T)}
<1>1. bad = {}
  <2> SUFFICES ASSUME bad # {} PROVE FALSE
    OBVIOUS
  <2>1. PICK n \in bad : \A m \in bad : n <= m
    <3>1. bad \in SUBSET Nat
      OBVIOUS
    <3> QED
      BY <3>1, LeastNumber
  <2>2. PICK T \in SUBSET S : T # {} /\ Cardinality(T) = n /\ ~Top(T)
    BY <2>1
  <2>3. PICK x \in T : TRUE
    BY <2>2
  <2> DEFINE R == T \ {x}
  <2>4. IsFiniteSet(T) /\ IsFiniteSet(R) /\ n \in Nat
    BY <2>1, FS_Subset
  <2>5. Cardinality(R) = n - 1 /\ Cardinality(R) \in Nat
    BY <2>2, <2>4, FS_RemoveElement, FS_CardinalityType
  <2>6. R # {}
    <3> SUFFICES ASSUME R = {} PROVE FALSE
      OBVIOUS
    <3>1. T = {x} /\ x \in Nat
      BY <2>3
    <3> QED
      BY <3>1, <2>2
  <2>7. Top(R)
    <3> SUFFICES ASSUME ~Top(R) PROVE FALSE
      OBVIOUS
    <3>1. Cardinality(R) \in bad
      BY <2>5, <2>6
    <3>2. n <= Cardinality(R)
      BY <2>1, <3>1
    <3> QED
      BY <2>4, <2>5, <3>2
  <2>8. PICK y \in R : \A m \in R : m <= y
    BY <2>7
  <2>9. x \in Nat /\ y \in Nat /\ y \in T /\ \A m \in T : m \in Nat /\ (m = x \/ m <= y)
    BY <2>3, <2>8
  <2>10. Top(T)
    <3>1. CASE x <= y
      BY <2>9, <3>1
    <3>2. CASE ~(x <= y)
      BY <2>3, <2>9, <3>2
    <3> QED
      BY <3>1, <3>2
  <2> QED
    BY <2>2, <2>10
<1>2. IsFiniteSet(S) /\ Cardinality(S) \in Nat
  BY FS_CardinalityType
<1> QED
  BY <1>1, <1>2

AClaim == [anime: Animes \union {None}, offset: Int, status: {"ACTIVE", "ARCHIVED"}]

APass == [pc: {"idle", "searched", "claims", "known", "taken"},
          title: Titles \union {NoTitle}, group: Groups \union {None}, number: Nat,
          found: Animes \union {None}, pref: AClaim, anime: Animes \union {None},
          episode: Nat, ruled: BOOLEAN]

AMatch == [anime: Animes \union {None}, episode: Nat]

MatchTyped ==
    /\ TrackedInv
    /\ Rules(offsets) /\ offsets.counts \in [Animes -> Nat]
    /\ pass \in APass /\ row \in AMatch
    /\ pass.pc # "idle" => pass.group \in Groups

\* Claims are those of tracked anime, and of any of them one has the greatest id.
LEMMA ClaimsTyped ==
    ASSUME TrackedInv, NEW title, NEW group \in Groups
    PROVE  Claims(title, group) \subseteq AClaim
<1>1. Shows \subseteq Animes /\ DOMAIN tracked \subseteq Shows
      /\ \A a \in DOMAIN tracked : tracked[a] \in Tracked
  BY MatchAssumption DEF TrackedInv, TrackedTypeOK
<1>2. \A a \in DOMAIN tracked : /\ tracked[a].prefs[group].offset \in Int
                                /\ tracked[a].status \in {"ACTIVE", "ARCHIVED"}
  BY <1>1 DEF Tracked, Preference
<1> QED
  BY <1>1, <1>2 DEF Claims, AClaim

LEMMA ClaimsHaveGreatest ==
    ASSUME TrackedInv, NEW title, NEW group, NEW C \in SUBSET Claims(title, group), C # {}
    PROVE  \E c \in C : \A d \in C : d.anime <= c.anime
<1> DEFINE ids == {c.anime : c \in C}
<1>1. \A c \in Claims(title, group) : c.anime \in DOMAIN tracked
  BY DEF Claims
<1>2. ids \in SUBSET Animes /\ ids # {}
  BY <1>1, MatchAssumption DEF TrackedInv, TrackedTypeOK
<1>3. IsFiniteSet(ids) /\ ids \in SUBSET Nat
  BY <1>2, RelationsAssumption, FS_Subset
<1>4. PICK n \in ids : \A m \in ids : m <= n
  <2> HIDE DEF ids
  <2> QED
    BY <1>2, <1>3, FiniteHasGreatest
<1> QED
  BY <1>4

LEMMA ClaimTyped ==
    ASSUME TrackedInv, NEW title, NEW group \in Groups
    PROVE  Claim(title, group) \in AClaim
<1> DEFINE claims == Claims(title, group)
           first == IF \E c \in claims : c.status = "ACTIVE"
                    THEN {c \in claims : c.status = "ACTIVE"} ELSE claims
           top == CHOOSE c \in first : \A d \in first : d.anime <= c.anime
<1>1. Claim(title, group) = IF claims = {} THEN NoClaim ELSE top
  BY DEF Claim
<1>2. NoClaim \in AClaim
  BY DEF NoClaim, AClaim
<1>3. claims # {} => first \in SUBSET claims /\ first # {}
  OBVIOUS
<1>4. claims # {} => top \in claims
  <2>1. claims # {} => \E c \in first : \A d \in first : d.anime <= c.anime
    <3> HIDE DEF first
    <3> QED
      BY <1>3, ClaimsHaveGreatest
  <2> HIDE DEF claims
  <2>2. claims # {} => top \in first
    <3> HIDE DEF first
    <3> QED
      BY <2>1
  <2> HIDE DEF first, top
  <2> QED
    BY <1>3, <2>2
<1> HIDE DEF top, first
<1> QED
  BY <1>1, <1>2, <1>4, ClaimsTyped

\* A claim of an active anime, if it has one.
LEMMA ActiveClaimIs ==
    ASSUME TrackedInv, NEW title, NEW group, ActiveClaim(title, group) # NoClaim
    PROVE  /\ ActiveClaim(title, group).status = "ACTIVE"
           /\ Claim(title, group) = ActiveClaim(title, group)
<1> DEFINE claims == Claims(title, group)
           active == {c \in claims : c.status = "ACTIVE"}
           top == CHOOSE c \in active : \A d \in active : d.anime <= c.anime
<1>1. active # {} /\ ActiveClaim(title, group) = top
  BY DEF ActiveClaim
<1>2. Claim(title, group) = top
  BY <1>1 DEF Claim
<1>3. \E c \in active : \A d \in active : d.anime <= c.anime
  BY <1>1, ClaimsHaveGreatest
<1>4. top \in active
  <2> HIDE DEF active
  <2> QED
    BY <1>3
<1> HIDE DEF top
<1> QED
  BY <1>1, <1>2, <1>4

LEMMA ResolvedTyped ==
    ASSUME NEW t, Rules(t), NEW a \in Animes, NEW n \in Nat
    PROVE  ResolveAnime(t, a, n) \in {Mismatch} \union Spot
<1> DEFINE at == [anime |-> a, episode |-> n]
<1>1. at \in Spot
  BY DEF Spot
<1>2. PICK i \in 0..Turns(t) : FirstAgain(Walk(t, at), i)
  BY <1>1, WalkReturns
<1>3. ResolveAnime(t, a, n) = Walk(t, at)[i]
  BY <1>2, ResolveIs
<1>4. Walk(t, at)[i] \in Places(t) \union {at}
  BY <1>1, WalkStays
<1> HIDE DEF at
<1> QED
  BY <1>1, <1>3, <1>4, PlacesAre

LEMMA RuleTablesTyped ==
    ASSUME NEW rules \in TitleRules \union {<<>>}
    PROVE  Rules(RuleTables(rules)) /\ RuleTables(rules).counts \in [Animes -> Nat]
<1>1. Rules(RuleTables(rules))
  BY MatchAssumption, NoRules, RulesTyped DEF RuleTables
<1>2. \A a \in Animes : EpisodeCount({}, a) = 0
  BY DEF EpisodeCount
<1>3. RuleTables(rules).counts = [a \in Animes |-> EpisodeCount({}, a)]
  BY DEF RuleTables, Tables
<1> QED
  BY <1>1, <1>2, <1>3

LEMMA NoPassTyped == NoPass \in APass /\ NoPass.pc = "idle" /\ NoMatch \in AMatch
BY DEF NoPass, APass, NoClaim, AClaim, NoMatch, AMatch

LEMMA MatchInitially == MatchInit => MatchTyped
<1> SUFFICES ASSUME MatchInit PROVE MatchTyped
  OBVIOUS
<1>1. TrackedInv
  BY TrackedInitially DEF MatchInit
<1>2. offsets = RuleTables(<<>>) /\ pass = NoPass /\ row = NoMatch
  BY DEF MatchInit
<1>3. Rules(offsets) /\ offsets.counts \in [Animes -> Nat]
  BY <1>2, RuleTablesTyped DEF Rules
<1> QED
  BY <1>1, <1>2, <1>3, NoPassTyped DEF MatchTyped

\* What the steps of a pass make of it; the rest of a step is elsewhere.
LEMMA PassTyped ==
    ASSUME MatchTyped, Pass
    PROVE  /\ pass' \in APass /\ (pass'.pc # "idle" => pass'.group \in Groups)
           /\ row' \in AMatch /\ UNCHANGED <<trackedVars, offsets>>
<1> DEFINE Good == /\ pass' \in APass /\ (pass'.pc # "idle" => pass'.group \in Groups)
                   /\ row' \in AMatch /\ UNCHANGED <<trackedVars, offsets>>
<1>0. pass \in APass /\ row \in AMatch /\ (pass.pc # "idle" => pass.group \in Groups)
  BY DEF MatchTyped
<1>1. ASSUME NEW t \in SearchTitles, NEW g \in Groups, NEW n \in Searched, NEW found \in Finds,
             Search(t, g, n, found)
      PROVE  Good
  <2>1. /\ pass' = [NoPass EXCEPT !.pc = "searched", !.title = t, !.group = g,
                                  !.number = n, !.found = found]
        /\ row' = NoMatch /\ UNCHANGED <<trackedVars, offsets>>
    BY <1>1 DEF Search
  <2>2. t \in Titles /\ n \in Nat /\ found \in Animes \union {None}
    BY TrackedConstants, MatchAssumption DEF SearchTitles, Finds
  <2>3. pass' \in APass /\ pass'.group = g
    BY <2>1, <2>2, NoPassTyped DEF APass
  <2> QED
    BY <2>1, <2>3, NoPassTyped
<1>2. ASSUME ReadClaims PROVE Good
  <2>1. /\ pass.pc = "searched" /\ UNCHANGED <<trackedVars, offsets, row>>
        /\ pass' = [pass EXCEPT !.pc = "claims", !.pref = Claim(pass.title, pass.group)]
    BY <1>2 DEF ReadClaims
  <2>2. Claim(pass.title, pass.group) \in AClaim
    BY <1>0, <2>1, ClaimTyped DEF MatchTyped
  <2>3. pass' \in APass /\ pass'.group = pass.group
    BY <1>0, <2>1, <2>2 DEF APass
  <2> QED
    BY <1>0, <2>1, <2>3
<1>3. ASSUME Preprocess PROVE Good
  <2> DEFINE found == ResolveAnime(offsets, pass.found, pass.number)
  <2>1. /\ pass.pc = "claims" /\ UNCHANGED <<trackedVars, offsets, row>>
        /\ pass' = IF Claimed
                   THEN [pass EXCEPT !.pc = "known", !.anime = pass.pref.anime,
                                     !.episode = pass.number - pass.pref.offset]
                   ELSE IF Unmatched \/ found = Mismatch THEN NoPass
                   ELSE [pass EXCEPT !.pc = "known", !.anime = found.anime,
                                     !.episode = found.episode,
                                     !.ruled = (found.anime # pass.found)]
    BY <1>3 DEF Preprocess
  <2>2. ASSUME Claimed PROVE Good
    <3>1. /\ pass.pref.anime \in Animes \union {None}
          /\ pass.number - pass.pref.offset \in Nat
      BY <1>0, <2>2 DEF Claimed, APass, AClaim
    <3>2. pass' = [pass EXCEPT !.pc = "known", !.anime = pass.pref.anime,
                               !.episode = pass.number - pass.pref.offset]
      BY <2>1, <2>2
    <3>3. pass' \in APass /\ pass'.group = pass.group
      BY <1>0, <3>1, <3>2 DEF APass
    <3> QED
      BY <1>0, <2>1, <3>3
  <2>3. ASSUME ~Claimed, Unmatched \/ found = Mismatch PROVE Good
    <3>1. pass' = NoPass
      BY <2>1, <2>3
    <3> QED
      BY <1>0, <2>1, <3>1, NoPassTyped
  <2>4. ASSUME ~Claimed, ~Unmatched, found # Mismatch PROVE Good
    <3>1. pass.found \in Animes /\ pass.number \in Nat /\ Rules(offsets)
      BY <1>0, <2>4 DEF Unmatched, APass, MatchTyped
    <3>2. found \in Spot
      BY <2>4, <3>1, ResolvedTyped
    <3> HIDE DEF found
    <3>3. found.anime \in Animes /\ found.episode \in Nat
      BY <3>2 DEF Spot
    <3> DEFINE differs == found.anime # pass.found
    <3>4. differs \in BOOLEAN
      OBVIOUS
    <3>5. pass' = [pass EXCEPT !.pc = "known", !.anime = found.anime,
                               !.episode = found.episode, !.ruled = differs]
      BY <2>1, <2>4
    <3> HIDE DEF differs
    <3>6. pass' \in APass /\ pass'.group = pass.group
      BY <1>0, <3>3, <3>4, <3>5 DEF APass
    <3> QED
      BY <1>0, <2>1, <3>6
  <2> HIDE DEF found, Good
  <2> QED
    BY <2>2, <2>3, <2>4
<1>4. ASSUME ReadTracked PROVE Good
  <2>1. /\ pass.pc = "known" /\ UNCHANGED <<trackedVars, offsets, row>>
        /\ pass' = IF Takes(pass.anime, pass.episode) THEN [pass EXCEPT !.pc = "taken"] ELSE NoPass
    BY <1>4 DEF ReadTracked
  <2>2. pass' \in APass /\ (pass' = NoPass \/ pass'.group = pass.group)
    BY <1>0, <2>1, NoPassTyped DEF APass
  <2> QED
    BY <1>0, <2>1, <2>2, NoPassTyped
<1>5. ASSUME FetchFails \/ PassFails PROVE Good
  BY <1>0, <1>5, NoPassTyped DEF FetchFails, PassFails
<1>6. ASSUME WriteMatch PROVE Good
  <2>1. /\ pass' = NoPass /\ UNCHANGED <<trackedVars, offsets>>
        /\ row' = IF pass.anime \in DOMAIN tracked
                  THEN [anime |-> pass.anime, episode |-> pass.episode] ELSE row
    BY <1>6 DEF WriteMatch
  <2>2. row' \in AMatch
    BY <1>0, <2>1 DEF APass, AMatch
  <2> QED
    BY <2>1, <2>2, NoPassTyped
<1> HIDE DEF Good
<1>7. Good
  BY <1>1, <1>2, <1>3, <1>4, <1>5, <1>6 DEF Pass
<1> QED
  BY <1>7 DEF Good

LEMMA MatchStep == MatchTyped /\ [MatchNext]_matchVars => MatchTyped'
<1> SUFFICES ASSUME MatchTyped, [MatchNext]_matchVars PROVE MatchTyped'
  OBVIOUS
<1>1. TrackedInv
  BY DEF MatchTyped
<1>2. CASE Pass
  <2>1. /\ pass' \in APass /\ (pass'.pc # "idle" => pass'.group \in Groups)
        /\ row' \in AMatch /\ UNCHANGED <<trackedVars, offsets>>
    BY <1>2, PassTyped
  <2>2. TrackedInv'
    BY <1>1, <2>1, TrackedStep
  <2> QED
    BY <2>1, <2>2 DEF MatchTyped, Rules
<1>3. ASSUME NEW rules \in TitleRules, RefreshRules(rules) PROVE MatchTyped'
  <2>1. offsets' = RuleTables(rules) /\ UNCHANGED <<trackedVars, pass, row>>
    BY <1>3 DEF RefreshRules
  <2>2. Rules(offsets') /\ offsets'.counts \in [Animes -> Nat]
    BY <2>1, RuleTablesTyped
  <2>3. TrackedInv'
    BY <1>1, <2>1, TrackedStep
  <2> QED
    BY <2>1, <2>2, <2>3 DEF MatchTyped, Rules
<1>4. CASE TrackedNext /\ UNCHANGED <<offsets, pass, row>>
  <2>1. TrackedInv'
    BY <1>1, <1>4, TrackedStep
  <2> QED
    BY <1>4, <2>1 DEF MatchTyped, Rules
<1>5. CASE UNCHANGED matchVars
  <2>1. UNCHANGED <<trackedVars, offsets, pass, row>>
    BY <1>5 DEF matchVars
  <2>2. TrackedInv'
    BY <1>1, <2>1, TrackedStep
  <2> QED
    BY <2>1, <2>2 DEF MatchTyped, Rules
<1> QED
  BY <1>2, <1>3, <1>4, <1>5 DEF MatchNext

\* The types of a pass hold, beside everything users do.
THEOREM MatchTypes == MatchSpec => []MatchTypeOK
<1>1. MatchTyped => MatchTypeOK
  <2> SUFFICES ASSUME MatchTyped PROVE MatchTypeOK
    OBVIOUS
  <2>1. pass.pc \in {"idle", "searched", "claims", "known", "taken"}
        /\ {pass.found, pass.pref.anime, pass.anime, row.anime} \subseteq Animes \union {None}
        /\ {pass.number, pass.episode, row.episode} \subseteq Nat
    BY DEF MatchTyped, APass, AClaim, AMatch
  <2> QED
    BY <2>1, RulesAreRelations DEF MatchTyped, MatchTypeOK, TrackedInv
<1> QED
  BY <1>1, MatchInitially, MatchStep, PTL DEF MatchSpec

\* To the tracked anime a pass is nothing: what holds of them by themselves
\* holds of them beside it.
THEOREM PassesLeaveTracked == MatchSpec => TrackedSpec
<1>1. MatchInit => TrackedInit
  BY DEF MatchInit
<1>2. [MatchNext]_matchVars => [TrackedNext]_trackedVars
  <2>1. Pass => UNCHANGED trackedVars
    BY DEF Pass, Search, ReadClaims, Preprocess, ReadTracked, FetchFails, WriteMatch, PassFails
  <2>2. \A rules \in TitleRules : RefreshRules(rules) => UNCHANGED trackedVars
    BY DEF RefreshRules
  <2> QED
    BY <2>1, <2>2 DEF MatchNext, matchVars
<1> QED
  BY <1>1, <1>2, PTL DEF MatchSpec, TrackedSpec

-----------------------------------------------------------------------------
\* What a pass gives a torrent to.

\* What has been decided was so at some moment of the pass.
Admitted ==
    pass.pc = "taken" =>
        \E x \in admitted : x.anime = pass.anime /\ x.from <= pass.episode

\* The claim that has stood is the one there is; it has been read, and followed.
ClaimFollowed ==
    claimant # NoClaim =>
        /\ pass.pc # "idle" => claimant = ActiveClaim(pass.title, pass.group)
        /\ pass.pc \in {"claims", "known", "taken"} => pass.pref = claimant
        /\ pass.pc \in {"known", "taken"} /\ claimant.offset < pass.number =>
              /\ pass.anime = claimant.anime
              /\ pass.episode = pass.number - claimant.offset

\* The steps of a pass as far as they matter here.
LEMMA PassGoes ==
    ASSUME MatchTyped, [MatchNext]_matchVars
    PROVE  \/ pass'.pc = "idle"
           \/ pass.pc = "idle" /\ pass'.pc = "searched"
           \/ pass.pc # "idle" /\ pass' = pass
           \/ /\ pass.pc = "searched" /\ pass'.pc = "claims" /\ UNCHANGED tracked
              /\ pass'.title = pass.title /\ pass'.group = pass.group
              /\ pass'.pref = Claim(pass.title, pass.group)
           \/ /\ pass.pc = "claims" /\ pass'.pc = "known" /\ UNCHANGED tracked
              /\ pass'.title = pass.title /\ pass'.group = pass.group
              /\ pass'.pref = pass.pref /\ pass'.number = pass.number
              /\ Claimed => /\ pass'.anime = pass.pref.anime
                            /\ pass'.episode = pass.number - pass.pref.offset
           \/ /\ pass.pc = "known" /\ pass' = [pass EXCEPT !.pc = "taken"] /\ UNCHANGED tracked
              /\ Takes(pass.anime, pass.episode)
<1>0. pass \in APass
  BY DEF MatchTyped
<1>1. CASE UNCHANGED pass
  <2>1. pass' = pass
    BY <1>1
  <2> QED
    BY <2>1
<1>2. ASSUME NEW t \in SearchTitles, NEW g \in Groups, NEW n \in Searched, NEW found \in Finds,
             Search(t, g, n, found)
      PROVE  pass.pc = "idle" /\ pass'.pc = "searched"
  BY <1>2 DEF Search, NoPass
<1>3. ASSUME ReadClaims
      PROVE  /\ pass.pc = "searched" /\ pass'.pc = "claims" /\ UNCHANGED tracked
             /\ pass'.title = pass.title /\ pass'.group = pass.group
             /\ pass'.pref = Claim(pass.title, pass.group)
  BY <1>0, <1>3 DEF ReadClaims, APass, trackedVars
<1>4. ASSUME Preprocess, pass'.pc # "idle"
      PROVE  /\ pass.pc = "claims" /\ pass'.pc = "known" /\ UNCHANGED tracked
             /\ pass'.title = pass.title /\ pass'.group = pass.group
             /\ pass'.pref = pass.pref /\ pass'.number = pass.number
             /\ Claimed => /\ pass'.anime = pass.pref.anime
                           /\ pass'.episode = pass.number - pass.pref.offset
  <2>1. pass.pc = "claims" /\ UNCHANGED tracked
    BY <1>4 DEF Preprocess, trackedVars
  <2>2. CASE Claimed
    BY <1>0, <1>4, <2>1, <2>2 DEF Preprocess, APass
  <2>3. CASE ~Claimed
    <3> DEFINE found == ResolveAnime(offsets, pass.found, pass.number)
    <3>1. pass' = [pass EXCEPT !.pc = "known", !.anime = found.anime, !.episode = found.episode,
                               !.ruled = (found.anime # pass.found)]
      BY <1>4, <2>3, NoPassTyped DEF Preprocess
    <3> HIDE DEF found
    <3> QED
      BY <1>0, <2>1, <2>3, <3>1 DEF APass
  <2> QED
    BY <2>2, <2>3
<1>5. ASSUME ReadTracked, pass'.pc # "idle"
      PROVE  /\ pass.pc = "known" /\ pass' = [pass EXCEPT !.pc = "taken"] /\ UNCHANGED tracked
             /\ Takes(pass.anime, pass.episode)
  BY <1>5, NoPassTyped DEF ReadTracked, trackedVars
<1>6. ASSUME FetchFails \/ WriteMatch \/ PassFails PROVE pass'.pc = "idle"
  BY <1>6, NoPassTyped DEF FetchFails, WriteMatch, PassFails
<1>7. \/ UNCHANGED pass \/ Pass
  BY DEF MatchNext, matchVars, RefreshRules
<1> QED
  BY <1>1, <1>2, <1>3, <1>4, <1>5, <1>6, <1>7 DEF Pass

LEMMA AdmittedStep == MatchTyped /\ Admitted /\ [MatchNext]_matchVars => Admitted'
<1> SUFFICES ASSUME MatchTyped, Admitted, [MatchNext]_matchVars, pass'.pc = "taken"
             PROVE  \E x \in admitted' : x.anime = pass'.anime /\ x.from <= pass'.episode
  BY DEF Admitted
<1>1. CASE UNCHANGED matchVars
  BY <1>1 DEF Admitted, matchVars
<1>2. CASE MatchNext
  <2> DEFINE active == {[anime |-> a, from |-> tracked[a].from] :
                          a \in {a \in DOMAIN tracked : tracked[a].status = "ACTIVE"}}
  <2>1. admitted' = IF pass'.pc = "idle" THEN {}
                    ELSE IF pass.pc = "idle" THEN active' ELSE admitted \union active'
    BY <1>2 DEF MatchNext, Remember
  <2>2. \/ pass.pc # "idle" /\ pass' = pass
        \/ /\ pass.pc = "known" /\ pass' = [pass EXCEPT !.pc = "taken"] /\ UNCHANGED tracked
           /\ Takes(pass.anime, pass.episode)
    BY PassGoes
  <2>3. pass.pc # "idle" /\ admitted' = admitted \union active'
    <3> HIDE DEF active
    <3> QED
      BY <2>1, <2>2
  <2>4. CASE pass' = pass
    BY <2>3, <2>4 DEF Admitted
  <2>5. CASE /\ pass' = [pass EXCEPT !.pc = "taken"] /\ UNCHANGED tracked
             /\ Takes(pass.anime, pass.episode)
    <3> DEFINE x == [anime |-> pass.anime, from |-> tracked[pass.anime].from]
    <3>1. /\ pass.anime \in DOMAIN tracked /\ tracked[pass.anime].status = "ACTIVE"
          /\ tracked[pass.anime].from \in Nat /\ pass.episode \in Nat
          /\ pass.episode >= tracked[pass.anime].from
      BY <2>5, TrackedConstants
      DEF Takes, MatchTyped, APass, TrackedInv, TrackedTypeOK, Tracked
    <3>2. x \in active
      BY <3>1
    <3>3. active' = active
      BY <2>5
    <3>4. pass'.anime = pass.anime /\ pass'.episode = pass.episode
      BY <2>5 DEF MatchTyped, APass
    <3> HIDE DEF active
    <3>5. x \in admitted'
      BY <2>3, <3>2, <3>3
    <3>6. x.anime = pass'.anime /\ x.from <= pass'.episode
      BY <3>1, <3>4
    <3> HIDE DEF x
    <3> QED
      BY <3>5, <3>6
  <2> QED
    BY <2>2, <2>4, <2>5
<1> QED
  BY <1>1, <1>2

LEMMA ClaimStep == MatchTyped /\ ClaimFollowed /\ [MatchNext]_matchVars => ClaimFollowed'
<1> SUFFICES ASSUME MatchTyped, ClaimFollowed, [MatchNext]_matchVars, claimant' # NoClaim
             PROVE  /\ pass'.pc # "idle" => claimant' = ActiveClaim(pass.title, pass.group)'
                    /\ pass'.pc \in {"claims", "known", "taken"} => pass'.pref = claimant'
                    /\ pass'.pc \in {"known", "taken"} /\ claimant'.offset < pass'.number =>
                          /\ pass'.anime = claimant'.anime
                          /\ pass'.episode = pass'.number - claimant'.offset
  BY DEF ClaimFollowed
<1>0. pass \in APass /\ TrackedInv
  BY DEF MatchTyped
<1>1. CASE UNCHANGED matchVars
  <2>1. UNCHANGED <<claimant, pass, tracked>>
    BY <1>1 DEF matchVars, trackedVars
  <2>2. ActiveClaim(pass.title, pass.group)' = ActiveClaim(pass.title, pass.group)
    BY <2>1 DEF ActiveClaim, Claims
  <2> QED
    BY <2>1, <2>2 DEF ClaimFollowed
<1>2. CASE MatchNext
  <2> DEFINE claim == ActiveClaim(pass.title, pass.group)
  <2>1. claimant' = IF pass'.pc = "idle" THEN NoClaim
                    ELSE IF pass.pc = "idle" \/ claimant = claim' THEN claim'
                    ELSE NoClaim
    BY <1>2 DEF MatchNext, Remember
  <2>2. pass'.pc # "idle" /\ claimant' = claim'
    <3> HIDE DEF claim
    <3> QED
      BY <2>1
  <2>3. pass.pc # "idle" => claimant' = claimant /\ claimant # NoClaim
    <3> HIDE DEF claim
    <3> QED
      BY <2>1
  <2>4. CASE pass.pc = "idle" /\ pass'.pc = "searched"
    BY <2>2, <2>4
  <2>5. CASE pass.pc # "idle" /\ pass' = pass
    BY <2>2, <2>3, <2>5 DEF ClaimFollowed
  <2>6. CASE /\ pass.pc = "searched" /\ pass'.pc = "claims" /\ UNCHANGED tracked
             /\ pass'.title = pass.title /\ pass'.group = pass.group
             /\ pass'.pref = Claim(pass.title, pass.group)
    <3>1. claimant' = claim /\ claim # NoClaim
      BY <2>3, <2>6 DEF ClaimFollowed
    <3>2. pass'.pref = claim
      BY <1>0, <2>6, <3>1, ActiveClaimIs
    <3> HIDE DEF claim
    <3> QED
      BY <2>2, <2>6, <3>1, <3>2 DEF claim
  <2>7. CASE /\ pass.pc = "claims" /\ pass'.pc = "known" /\ UNCHANGED tracked
             /\ pass'.title = pass.title /\ pass'.group = pass.group
             /\ pass'.pref = pass.pref /\ pass'.number = pass.number
             /\ Claimed => /\ pass'.anime = pass.pref.anime
                           /\ pass'.episode = pass.number - pass.pref.offset
    <3>1. /\ claimant' = claimant /\ claimant # NoClaim /\ pass.pref = claimant
          /\ claimant = ActiveClaim(pass.title, pass.group)
      BY <2>3, <2>7 DEF ClaimFollowed
    <3>2. claimant.status = "ACTIVE"
      BY <1>0, <3>1, ActiveClaimIs
    <3>3. claimant.offset < pass.number => Claimed
      BY <3>1, <3>2 DEF Claimed
    <3> QED
      BY <2>2, <2>7, <3>1, <3>3
  <2>8. CASE pass.pc = "known" /\ pass' = [pass EXCEPT !.pc = "taken"]
    <3>1. /\ pass'.pref = pass.pref /\ pass'.number = pass.number
          /\ pass'.anime = pass.anime /\ pass'.episode = pass.episode
      BY <1>0, <2>8 DEF APass
    <3> QED
      BY <2>2, <2>3, <2>8, <3>1 DEF ClaimFollowed
  <2> QED
    BY <2>2, <2>4, <2>5, <2>6, <2>7, <2>8, PassGoes
<1> QED
  BY <1>1, <1>2

\* No torrent is given to an anime that was not active, from that episode on, at
\* some moment of the pass: whatever is tracked, archived, deleted or refreshed
\* meanwhile, for any rules, claims and searches.
THEOREM MatchesAreTracked == MatchSpec => MatchedIsTracked
<1>1. MatchInit => Admitted
  BY NoPassTyped DEF MatchInit, Admitted
<1>2. ASSUME MatchTyped, Admitted
      PROVE  [ WriteMatch /\ pass.anime \in DOMAIN tracked =>
                 \E x \in admitted : x.anime = row'.anime /\ x.from <= row'.episode ]_matchVars
  <2> SUFFICES ASSUME WriteMatch, pass.anime \in DOMAIN tracked
               PROVE  \E x \in admitted : x.anime = row'.anime /\ x.from <= row'.episode
    OBVIOUS
  <2>1. pass.pc = "taken" /\ row' = [anime |-> pass.anime, episode |-> pass.episode]
    BY DEF WriteMatch
  <2> QED
    BY <1>2, <2>1 DEF Admitted
<1> QED
  BY <1>1, <1>2, MatchInitially, MatchStep, AdmittedStep, PTL DEF MatchSpec, MatchedIsTracked

\* The claim of an active anime on a title decides while it stands, whatever
\* AniList finds, the rules say or archived anime claim.
THEOREM ClaimsDecide == MatchSpec => ClaimDecides
<1>1. MatchInit => ClaimFollowed
  BY DEF MatchInit, ClaimFollowed
<1>2. ASSUME MatchTyped, ClaimFollowed
      PROVE  [ /\ WriteMatch /\ pass.anime \in DOMAIN tracked
               /\ claimant # NoClaim /\ claimant.offset < pass.number
               => row' = [anime |-> claimant.anime, episode |-> pass.number - claimant.offset]
             ]_matchVars
  <2> SUFFICES ASSUME WriteMatch, pass.anime \in DOMAIN tracked,
                      claimant # NoClaim, claimant.offset < pass.number
               PROVE  row' = [anime |-> claimant.anime, episode |-> pass.number - claimant.offset]
    OBVIOUS
  <2>1. pass.pc = "taken" /\ row' = [anime |-> pass.anime, episode |-> pass.episode]
    BY DEF WriteMatch
  <2> QED
    BY <1>2, <2>1 DEF ClaimFollowed
<1> QED
  BY <1>1, <1>2, MatchInitially, MatchStep, ClaimStep, PTL DEF MatchSpec, ClaimDecides

-----------------------------------------------------------------------------
\* The whole that is checked.

\* Each of its graphs is a behaviour of both specifications.
THEOREM MatchingIsItsParts == Spec => MappingSpec /\ MatchSpec
<1>1. Init => MappingInit /\ MatchInit
  BY DEF Init
<1>2. [Next]_vars => [MappingNext]_mappingVars /\ [MatchNext]_matchVars
  BY DEF Next, InRows, InProfiles, InTitles, vars
<1> QED
  BY <1>1, <1>2, PTL DEF Spec, MappingSpec, MatchSpec

\* The types of the rows, the tables, the tracked anime and the pass.
THEOREM MatchingTypes == Spec => []TypeOK
<1>1. MappingTypeOK /\ MatchTypeOK => TypeOK
  BY DEF TypeOK
<1> QED
  BY <1>1, MatchingIsItsParts, MappingTypes, MatchTypes, PTL

\* With one update of the rows at a time the whole keeps what its parts promise:
\* both directions of a row agree, resolved numbers settle, names tell videos
\* apart, rows that bind decide, only tracked anime are matched, claims decide
\* and profiles have one owner.
THEOREM MatchingKeepsItsPromises ==
    ASSUME MaxEdits = 1
    PROVE  Spec => /\ [](RowsRoundTrip /\ NumbersSettle /\ NamesTellApart)
                   /\ AnswersStand /\ MatchedIsTracked /\ ClaimDecides /\ ProfilesAreOwned
<1>1. MappingSpec => [](RowsRoundTrip /\ NamesTellApart)
  BY OneAtATime
<1> QED
  BY <1>1, MatchingIsItsParts, ResolvedNumbersSettle, AnswersStay, MatchesAreTracked, ClaimsDecide,
     PassesLeaveTracked, ProfilesStayOwned, PTL
=============================================================================
