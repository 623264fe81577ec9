----------------------------- MODULE TitleMatching -----------------------------
(***************************************************************************)
(* Which episode of which tracked anime a listed torrent belongs to: one   *)
(* torrent of populate_raw_torrents_data, from the search for its title on *)
(* AniList to its row, while users change what they track and the rules of *)
(* AnimeRelations are refreshed.                                           *)
(***************************************************************************)
EXTENDS TrackedAnime, AnimeRelations

CONSTANTS
    Searched,   \* episode numbers in titles
    TitleRules  \* contents of anime-relations.txt; no count of episodes is known

ASSUME MatchAssumption ==
    /\ Shows \subseteq Animes /\ Searched \subseteq Nat
    /\ \A rules \in TitleRules : WellFormed(rules)

VARIABLES
    offsets,  \* the rules and episode counts AnimeRelations holds
    pass,     \* the torrent being matched
    row,      \* the row it wrote: anime and episode
    \* for the properties only:
    admitted, \* the anime that were active since the pass began, and from where
    claimant  \* the claim on the title that has stood since the pass began

matchVars == <<trackedVars, offsets, pass, row, admitted, claimant>>

None == 0

NoClaim == [anime |-> None, offset |-> 0, status |-> "ACTIVE"]
NoPass == [pc |-> "idle", title |-> NoTitle, group |-> None, number |-> 0, found |-> None,
           pref |-> NoClaim, anime |-> None, episode |-> 0, ruled |-> FALSE]
NoMatch == [anime |-> None, episode |-> 0]

RuleTables(rules) == Tables({}, {}, rules, {})

Claims(title, group) ==
    {[anime |-> a, offset |-> tracked[a].prefs[group].offset, status |-> tracked[a].status] :
        a \in {a \in DOMAIN tracked : tracked[a].prefs[group].title = title}}

\* A slip: the greatest id, whatever its status.
ClaimOnGreatestId(title, group) ==
    LET claims == Claims(title, group)
    IN  IF claims = {} THEN NoClaim
        ELSE CHOOSE c \in claims : \A d \in claims : d.anime <= c.anime

\* The preferences of a group that name the title: active anime first, then the
\* greatest AniList id.
Claim(title, group) ==
    LET claims == Claims(title, group)
        first  == IF \E c \in claims : c.status = "ACTIVE"
                  THEN {c \in claims : c.status = "ACTIVE"} ELSE claims
    IN  IF claims = {} THEN NoClaim
        ELSE CHOOSE c \in first : \A d \in first : d.anime <= c.anime

MatchInit ==
    /\ TrackedInit
    /\ offsets = RuleTables(<<>>)
    /\ pass = NoPass /\ row = NoMatch /\ admitted = {} /\ claimant = NoClaim

-----------------------------------------------------------------------------
\* ReleaseTitleParts.search_title: the titles that are searched for, a season
\* spelt out.
SearchTitles == {Normal(t) : t \in Titles}

\* get_anime_multi_search_results: any anime may be found by a title, now or when
\* it was last asked for, or none.
Finds == Animes \union {None}

Search(title, group, n, found) ==
    /\ pass.pc = "idle"
    /\ pass' = [NoPass EXCEPT !.pc = "searched", !.title = title, !.group = group,
                              !.number = n, !.found = found]
    /\ row' = NoMatch
    /\ UNCHANGED <<trackedVars, offsets>>

ReadClaims ==
    /\ pass.pc = "searched"
    /\ pass' = [pass EXCEPT !.pc = "claims", !.pref = Claim(pass.title, pass.group)]
    /\ UNCHANGED <<trackedVars, offsets, row>>

Unmatched == pass.found = None

Claimed ==
    /\ pass.pref # NoClaim /\ pass.pref.offset < pass.number
    /\ Unmatched \/ pass.pref.status = "ACTIVE"

\* _preprocess_raw_torrent. A claim stands against what AniList found while its
\* anime is active; without a find it stands in any status. The rules apply to
\* what AniList found only.
Preprocess ==
    /\ pass.pc = "claims"
    /\ pass' = LET found == ResolveAnime(offsets, pass.found, pass.number)
               IN  IF Claimed
                   THEN [pass EXCEPT !.pc = "known", !.anime = pass.pref.anime,
                                     !.episode = pass.number - pass.pref.offset]
                   ELSE IF Unmatched \/ found = Mismatch THEN NoPass
                   ELSE [pass EXCEPT !.pc = "known", !.anime = found.anime,
                                     !.episode = found.episode,
                                     !.ruled = (found.anime # pass.found)]
    /\ UNCHANGED <<trackedVars, offsets, row>>

\* A slip: an archived anime still takes torrents.
TakesArchived(a, n) == a \in DOMAIN tracked /\ n >= tracked[a].from

Takes(a, n) ==
    a \in DOMAIN tracked /\ tracked[a].status = "ACTIVE" /\ n >= tracked[a].from

\* _process_raw_torrents reads the rows of the anime before it asks AniList for
\* those the rules led to, and decides on what it read.
ReadTracked ==
    /\ pass.pc = "known"
    /\ pass' = IF Takes(pass.anime, pass.episode) THEN [pass EXCEPT !.pc = "taken"] ELSE NoPass
    /\ UNCHANGED <<trackedVars, offsets, row>>

\* The anime a rule led to cannot be had from AniList.
FetchFails ==
    /\ pass.pc = "taken" /\ pass.ruled
    /\ pass' = NoPass
    /\ UNCHANGED <<trackedVars, offsets, row>>

\* The episode and the torrent; an anime deleted meanwhile fails the pass.
WriteMatch ==
    /\ pass.pc = "taken"
    /\ row' = IF pass.anime \in DOMAIN tracked
              THEN [anime |-> pass.anime, episode |-> pass.episode] ELSE row
    /\ pass' = NoPass
    /\ UNCHANGED <<trackedVars, offsets>>

\* AniList, the database or TVDB fails; nothing has been written.
PassFails ==
    /\ pass.pc # "idle"
    /\ pass' = NoPass
    /\ UNCHANGED <<trackedVars, offsets, row>>

RefreshRules(rules) ==
    /\ offsets' = RuleTables(rules)
    /\ UNCHANGED <<trackedVars, pass, row>>

\* Of the claims of active anime on a title, the one of the greatest id.
ActiveClaim(title, group) ==
    LET active == {c \in Claims(title, group) : c.status = "ACTIVE"}
    IN  IF active = {} THEN NoClaim
        ELSE CHOOSE c \in active : \A d \in active : d.anime <= c.anime

\* What the properties remember of a pass.
Remember ==
    LET active == {[anime |-> a, from |-> tracked[a].from] :
                    a \in {a \in DOMAIN tracked : tracked[a].status = "ACTIVE"}}
        claim  == ActiveClaim(pass.title, pass.group)
    IN  /\ admitted' = IF pass'.pc = "idle" THEN {}
                       ELSE IF pass.pc = "idle" THEN active'
                       ELSE admitted \union active'
        /\ claimant' = IF pass'.pc = "idle" THEN NoClaim
                       ELSE IF pass.pc = "idle" \/ claimant = claim' THEN claim'
                       ELSE NoClaim

Pass ==
    \/ \E t \in SearchTitles, g \in Groups, n \in Searched, found \in Finds : Search(t, g, n, found)
    \/ ReadClaims \/ Preprocess \/ ReadTracked \/ FetchFails \/ WriteMatch \/ PassFails

MatchNext ==
    /\ \/ Pass
       \/ \E rules \in TitleRules : RefreshRules(rules)
       \/ TrackedNext /\ UNCHANGED <<offsets, pass, row>>
    /\ Remember

MatchSpec == MatchInit /\ [][MatchNext]_matchVars

-----------------------------------------------------------------------------
MatchTypeOK ==
    /\ TrackedTypeOK
    /\ \A a \in Animes : Range(offsets.relations[a]) \subseteq Relation
    /\ offsets.counts \in [Animes -> Nat]
    /\ pass.pc \in {"idle", "searched", "claims", "known", "taken"}
    /\ {pass.found, pass.pref.anime, pass.anime, row.anime} \subseteq Animes \union {None}
    /\ {pass.number, pass.episode, row.episode} \subseteq Nat

\* A torrent is never given to an anime nobody tracks: its anime was active
\* from that episode on at some moment of the pass, whichever claim, search or
\* rule led there and whatever was archived, deleted or refreshed meanwhile.
MatchedIsTracked ==
    [][ WriteMatch /\ pass.anime \in DOMAIN tracked =>
            \E x \in admitted : x.anime = row'.anime /\ x.from <= row'.episode ]_matchVars

\* The claim of an active anime on a group's title decides: as long as it stands
\* during the pass, neither AniList nor a rule nor the claim of an archived
\* anime gives the torrent to another one.
ClaimDecides ==
    [][ /\ WriteMatch /\ pass.anime \in DOMAIN tracked
        /\ claimant # NoClaim /\ claimant.offset < pass.number
        => row' = [anime |-> claimant.anime, episode |-> pass.number - claimant.offset]
      ]_matchVars
=============================================================================
