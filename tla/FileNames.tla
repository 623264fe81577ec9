------------------------------ MODULE FileNames ------------------------------
(***************************************************************************)
(* What the library calls the video of one or several episodes of an anime *)
(* (utils/helpers/file_name_formatters.py), by AniList's numbers or by     *)
(* those of the TVDB episodes a line of the mapping leads to. The titles,  *)
(* the season and the release are the same for all videos compared here    *)
(* and are left out; the user's format is taken to contain the number.     *)
(***************************************************************************)
EXTENDS EpisodeRanges, FiniteSetsExt

CONSTANT Ceilings  \* into how many parts releases divide an episode

ASSUME CeilingsAssumption == Ceilings \subseteq Nat \ {0, 1}

\* The row of tracked_anime_episode: the TVDB episodes of episode n, and which
\* part of one it is (0: it is none).
EpisodeRow(l, n) ==
    [number  |-> n, tvdb |-> Hits(l, n),
     part    |-> (CHOOSE t \in Targets(l, n) : TRUE).part,
     ceiling |-> (CHOOSE t \in Targets(l, n) : TRUE).ceiling]

\* A video: the episodes it holds, or one part of one of them.
WholeVideo(first, last) == [episodes |-> first..last, part |-> 0, ceiling |-> 0]
PartVideo(n, part, ceiling) == [episodes |-> {n}, part |-> part, ceiling |-> ceiling]

Videos(numbers) ==
    {v \in {WholeVideo(i, j) : i \in numbers, j \in numbers} :
        v.episodes # {} /\ v.episodes \subseteq numbers}
    \union UNION {{PartVideo(n, p, c) : n \in numbers, p \in 1..c} : c \in Ceilings}

TvdbCount(row) == Cardinality(row.tvdb)

-----------------------------------------------------------------------------
\* One part of an episode is some of its TVDB episodes, or part of one of them;
\* what does not divide evenly has no name (TorrentEpisodeCountMismatch).
Divides(row, v) == TvdbCount(row) % v.ceiling = 0 \/ v.ceiling % TvdbCount(row) = 0

\* TVDB episodes are counted in their order.
Rank(row, t) == Cardinality({u \in row.tvdb : u <= t})

PartEpisodes(row, v) ==
    IF TvdbCount(row) % v.ceiling = 0
    THEN LET each == TvdbCount(row) \div v.ceiling
         IN  {t \in row.tvdb : Rank(row, t) \in (v.part - 1) * each + 1 .. v.part * each}
    ELSE LET each == v.ceiling \div TvdbCount(row)
         IN  {t \in row.tvdb : Rank(row, t) = (v.part + each - 1) \div each}

\* A slip: the part is counted in the episode of the release.
PartNumbersWhole(row, v) ==
    IF TvdbCount(row) > 1 THEN {} ELSE {IF row.part # 0 THEN row.part ELSE v.part}

PartNumbers(row, v) ==
    IF TvdbCount(row) = 1 /\ row.part # 0 THEN {row.part}
    ELSE IF TvdbCount(row) % v.ceiling = 0 THEN {}
    ELSE {((v.part - 1) % (v.ceiling \div TvdbCount(row))) + 1}

\* Several whole episodes: parts of one TVDB episode are named unless all of
\* them are there.
SharedParts(rows) ==
    LET present == {row.part : row \in rows} \ {0}
        tvdb    == UNION {row.tvdb : row \in rows}
        ceiling == (CHOOSE row \in rows : row.part # 0).ceiling
    IN  IF present # {} /\ Cardinality(tvdb) = 1 /\ Cardinality(present) # ceiling
        THEN present ELSE {}

\* _resolve_tvdb_episodes
TvdbNumbers(rows, v) ==
    IF v.part # 0 THEN UNION {PartEpisodes(row, v) : row \in rows}
    ELSE UNION {row.tvdb : row \in rows}

TvdbParts(rows, v) ==
    IF v.part # 0 THEN UNION {PartNumbers(row, v) : row \in rows}
    ELSE SharedParts(rows)

\* Numbers without a gap are shown by their ends ("1-3"), others one by one
\* ("1 & 3"); parts alike.
Shown(numbers) ==
    IF numbers = {} THEN [gaps |-> FALSE, of |-> {}]
    ELSE LET ends == {Min(numbers), Max(numbers)}
         IN  IF numbers = Min(numbers)..Max(numbers) THEN [gaps |-> FALSE, of |-> ends]
             ELSE [gaps |-> TRUE, of |-> numbers]

\* format_file_name with TVDB's structure and without it; rows: of the episodes.
TvdbName(rows, v) == <<Shown(TvdbNumbers(rows, v)), Shown(TvdbParts(rows, v))>>

RawName(v) == <<Shown(v.episodes), Shown({v.part} \ {0})>>

\* Left out is a part of an episode that is itself part of a TVDB episode: all
\* of its parts take one name.
Nameable(rows, v) == v.part # 0 => \A row \in rows : Divides(row, v) /\ row.part = 0

-----------------------------------------------------------------------------
\* The names of all videos of these episodes that have one.
Named(l, numbers) ==
    LET all       == {EpisodeRow(l, n) : n \in numbers}
        rowsOf(v) == {row \in all : row.number \in v.episodes}
    IN  {[video |-> v, tvdb |-> TvdbName(rowsOf(v), v), raw |-> RawName(v)] :
            v \in {v \in Videos(numbers) : Nameable(rowsOf(v), v)}}

\* Nothing of the one is in the other.
Disjoint(v, w) ==
    v.episodes \intersect w.episodes = {} \/ (v.ceiling = w.ceiling /\ v.part # w.part)

\* Videos that share no content never share a name.
NamesDiffer(l, numbers) ==
    \A x, y \in Named(l, numbers) :
        x.tvdb = y.tvdb \/ x.raw = y.raw => ~Disjoint(x.video, y.video)
=============================================================================
