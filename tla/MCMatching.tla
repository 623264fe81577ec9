------------------------------ MODULE MCMatching ------------------------------
(***************************************************************************)
(* Two anime, two series with two seasons each, one release group. Three   *)
(* graphs in one run: in "rows" two rows users edit beside the tables they *)
(* correct, in "profiles" two overlapping updates of tracked anime, in     *)
(* "titles" a pass against everything else users do.                       *)
(***************************************************************************)
EXTENDS EpisodeMapping, TitleMatching, TLC

VARIABLE part

vars == <<mappingVars, matchVars, part>>

\* 21 is season 1 of series 2.
MCSeries(k) == k \div 10
MCSeason(k) == k % 10

MCEntry(source, target, from, to, tfrom, tto, step, always) ==
    [source |-> source, target |-> target, from |-> from, to |-> to,
     tfrom |-> tfrom, tto |-> tto, step |-> step, always |-> always]

\* A join, a spread, an open range, rows of two anime for one season, and two
\* requests that are refused.
MCBodies ==
    {MCEntry(1, 11, 1, 4, 3, 4, 2, TRUE), MCEntry(1, 11, 2, 3, 1, 4, -2, FALSE),
     MCEntry(1, 20, 1, Open, 2, Open, 1, FALSE), MCEntry(2, 11, 1, 3, 1, 3, 1, TRUE),
     MCEntry(1, 11, 1, 4, 3, 3, 2, TRUE), MCEntry(1, 11, 1, 4, 3, 5, 0, TRUE)}

MCLine(left, source, right, target, from, to, ranges, step) ==
    [left |-> left, source |-> source, right |-> right, target |-> target,
     from |-> from, to |-> to, ranges |-> ranges, step |-> step]

MCMappingFiles ==
    {{MCLine("anilist", 1, "tvdb_show", 10, 1, Open, {<<1, 2>>, <<4, 4>>}, 1),
      MCLine("anilist", 1, "tvdb_show", 21, 3, 4, {<<1, Open>>}, 1),
      MCLine("anilist", 1, "mal", 21, 3, 4, {<<1, Open>>}, 1),
      MCLine("tvdb_show", 11, "anilist", 2, 1, 6, {<<1, 3>>}, 2),
      MCLine("tvdb_show", 10, "anilist", 1, 1, 3, {<<1, 3>>}, 1)}}

MCHotFiles ==
    {{MCEntry(1, 21, 1, 2, 1, 4, -2, FALSE), MCEntry(2, 11, 1, 2, 5, 6, 1, FALSE),
      MCEntry(2, 11, 3, 3, 1, 1, 0, FALSE)}}

MCRule(this, first, last, other, ofirst, olast, repeat) ==
    [this |-> this, first |-> first, last |-> last, other |-> other,
     ofirst |-> ofirst, olast |-> olast, repeat |-> repeat]

MCTitleRules == {<<MCRule(1, 2, 3, 2, 1, 2, TRUE), MCRule(2, 2, 2, 1, 1, 2, FALSE)>>}

\* The second file leads in circles and to a mismatch.
MCRuleFiles ==
    {<<MCRule(1, 3, 4, 2, 1, 2, TRUE)>>,
     <<MCRule(1, 3, 4, Same, 1, 2, FALSE), MCRule(1, 3, 4, 2, 5, 6, FALSE),
       MCRule(2, 1, 3, 1, 1, 3, FALSE), MCRule(1, 2, 2, 2, 3, 3, TRUE),
       MCRule(Unknown, 1, 1, 2, 1, 1, FALSE), MCRule(2, 7, 7, Unknown, 1, 1, FALSE),
       MCRule(2, 4, 6, 2, 1, 4, FALSE)>>}

MCCountFiles ==
    {{[anime |-> 2, count |-> 2, expired |-> FALSE], [anime |-> 1, count |-> 4, expired |-> TRUE]}}

\* "S2" is stored and searched as "Season 2".
MCNormal(t) == "Season 2"

MCPreference(title, offset) == [g \in {"G"} |-> [title |-> title, offset |-> offset]]

MCGroupBodies == {<<>>, MCPreference("S2", 1), MCPreference(NoTitle, 0)}

\* Rows are alike, and settings.
Alike == Permutations(Ids) \union Permutations(Settings)

InRows == UNCHANGED matchVars

InProfiles ==
    /\ pass' = NoPass /\ UNCHANGED <<mappingVars, offsets>>
    /\ \A a \in DOMAIN tracked' :
        /\ tracked'[a].status = "ACTIVE" /\ tracked'[a].from = 1
        /\ tracked'[a].prefs["G"].title = NoTitle
    /\ \A u \in updates' :
        u.body.unarchive = "null" /\ u.body.groups = <<>> /\ u.body.from = 1

InTitles == UNCHANGED <<mappingVars, profiles, updates>>

Init ==
    /\ MappingInit /\ MatchInit
    /\ part \in {"rows", "profiles", "titles"}

Next ==
    /\ UNCHANGED part
    /\ \/ part = "rows"     /\ MappingNext /\ InRows
       \/ part = "profiles" /\ MatchNext /\ InProfiles
       \/ part = "titles"   /\ MatchNext /\ InTitles

Spec == Init /\ [][Next]_vars

TypeOK == MappingTypeOK /\ MatchTypeOK
=============================================================================
