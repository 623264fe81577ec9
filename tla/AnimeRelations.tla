---------------------------- MODULE AnimeRelations ----------------------------
(***************************************************************************)
(* The tables of AnimeRelations and its answers: which TVDB episodes an    *)
(* AniList episode is, the other way round, and which anime an absolute    *)
(* episode number belongs to.                                              *)
(*                                                                         *)
(* A mapping is a set of entries: a line, the id on its left and the id on *)
(* its right. An AniList anime is a number; a season of a TVDB series is a *)
(* number too, ordered like the pair (series, season). The targets of an   *)
(* answer are a set: their order is left out.                              *)
(***************************************************************************)
EXTENDS EpisodeRanges, FiniteSets, Sequences, Functions

CONSTANTS
    Animes, Keys,          \* AniList ids; seasons of TVDB series
    Series(_), Season(_),  \* of a key
    RuleFiles,             \* contents of anime-relations.txt
    CountFiles,            \* of anime-relations-anilist-episode-count.txt
    Same, Unknown          \* "~" and "?" in a rule

\* A file of rules: what is not written as a rule is not in it.
WellFormed(rules) ==
    /\ rules \in Seq(Range(rules))
    /\ \A i \in DOMAIN rules :
        {rules[i].first, rules[i].last, rules[i].ofirst, rules[i].olast} \subseteq Nat

ASSUME RelationsAssumption ==
    /\ Animes \subseteq Nat \ {0} /\ IsFiniteSet(Animes) /\ Keys \subseteq Nat
    /\ \A k \in Keys : Series(k) \in Nat /\ Season(k) \in Nat
    /\ \A rules \in RuleFiles : WellFormed(rules)
    /\ \A line \in UNION CountFiles : line.count \in Nat

Entry == [source: Animes \union Keys, target: Animes \union Keys,
          from: Int, to: Bound, tfrom: Int, tto: Bound, step: Int, always: BOOLEAN]

Relation == [other: Animes, first: Nat, last: Nat, ofirst: Nat, olast: Nat]

\* An entry from the other side.
Turn(e) == [Reversed(e) EXCEPT !.source = e.target, !.target = e.source]

-----------------------------------------------------------------------------
\* Building the tables.

\* Entries of the lines of one direction; lines about other databases are
\* passed over, and one line may have several ranges on its right.
External(file, left, right) ==
    UNION {{[source |-> line.source, target |-> line.target, from |-> line.from,
             to |-> line.to, tfrom |-> t[1], tto |-> t[2], step |-> line.step,
             always |-> FALSE] : t \in line.ranges} :
           line \in {line \in file : line.left = left /\ line.right = right}}

\* An anime with one bad line is left out altogether.
Hot(file) ==
    {[row EXCEPT !.always = TRUE] :
        row \in {row \in file :
                    \A other \in file : other.source = row.source => other.step \notin {0, -1}}}

\* A rule of the file, which may lead to the anime itself.
Leads(line) == IF line.other = Same THEN line.this ELSE line.other

RelationOf(line) == [other |-> Leads(line), first |-> line.first, last |-> line.last,
                     ofirst |-> line.ofirst, olast |-> line.olast]

\* A slip: a rule to an anime without an AniList id is kept.
RelationsUnknown(lines, anime) ==
    LET holds == {i \in DOMAIN lines :
                    /\ lines[i].this \in Animes
                    /\ lines[i].this = anime \/ (lines[i].repeat /\ Leads(lines[i]) = anime)}
    IN  [i \in holds |-> RelationOf(lines[i])]

\* The rules of one anime by their lines in the file. A repeated one ("!") also
\* holds for numbers given for the anime it leads to.
Relations(lines, anime) ==
    LET holds == {i \in DOMAIN lines :
                    /\ {lines[i].this, Leads(lines[i])} \subseteq Animes
                    /\ lines[i].this = anime \/ (lines[i].repeat /\ Leads(lines[i]) = anime)}
    IN  [i \in holds |-> RelationOf(lines[i])]

\* 0: not known, or the line has expired.
EpisodeCount(file, anime) ==
    LET lines == {line \in file : line.anime = anime /\ ~line.expired}
    IN  IF lines = {} THEN 0 ELSE (CHOOSE line \in lines : TRUE).count

Tables(mappings, hot, rules, counts) ==
    [forward   |-> External(mappings, "anilist", "tvdb_show") \union Hot(hot),
     backward  |-> External(mappings, "tvdb_show", "anilist")
                    \union {Turn(e) : e \in Hot(hot)},
     relations |-> [a \in Animes |-> Relations(rules, a)],
     counts    |-> [a \in Animes |-> EpisodeCount(counts, a)]]

-----------------------------------------------------------------------------
\* Answers.

\* A slip: the greatest id wins, binding or not.
LookupUnranked(mapping, source, n) ==
    LET hits == UNION {{[target |-> e.target, episode |-> t.episode, part |-> t.part,
                         ceiling |-> t.ceiling, always |-> e.always] : t \in Targets(e, n)} :
                       e \in {e \in mapping : e.source = source}}
    IN  {h \in hits : \A g \in hits : g.target <= h.target}

\* Among the ids with a binding target (a user's ALWAYS, a hot override) the
\* greatest, with those targets only; without any the greatest that has targets.
Lookup(mapping, source, n) ==
    LET hits == UNION {{[target |-> e.target, episode |-> t.episode, part |-> t.part,
                         ceiling |-> t.ceiling, always |-> e.always] : t \in Targets(e, n)} :
                       e \in {e \in mapping : e.source = source}}
        binding == {h \in hits : h.always}
        pool    == IF binding # {} THEN binding ELSE hits
    IN  {h \in pool : \A g \in pool : g.target <= h.target}

Binding(answer) == \E h \in answer : h.always

\* A slip: any row of a user goes first.
AnswerOwnFirst(overrides, mapping, source, n) ==
    LET own == Lookup(overrides, source, n)
    IN  IF own # {} THEN own ELSE Lookup(mapping, source, n)

\* A user's row first when it binds, the tables next, then the user's others.
Answer(overrides, mapping, source, n) ==
    LET own    == Lookup(overrides, source, n)
        common == Lookup(mapping, source, n)
    IN  IF Binding(own) \/ common = {} THEN own ELSE common

TvdbEpisodes(overrides, t, anime, n)  == Answer(overrides, t.forward, anime, n)
AnilistEpisodes(overrides, t, key, n) ==
    Answer({Turn(e) : e \in overrides}, t.backward, key, n)

NoSeries == -1

\* The series of the first season an anime is mapped to; specials come last.
FirstSeries(mapping, anime) ==
    LET of      == {e \in mapping : e.source = anime}
        binding == {e \in of : e.always}
        keys    == {e.target : e \in IF binding # {} THEN binding ELSE of}
        before(k, j) == \/ Season(k) # 0 /\ Season(j) = 0
                        \/ /\ (Season(k) = 0) <=> (Season(j) = 0)
                           /\ \/ Season(k) < Season(j)
                              \/ Season(k) = Season(j) /\ Series(k) <= Series(j)
    IN  IF keys = {} THEN NoSeries
        ELSE Series(CHOOSE k \in keys : \A j \in keys : before(k, j))

TvdbSeries(overrides, t, anime) ==
    LET own == {e \in overrides : e.source = anime}
        common == FirstSeries(t.forward, anime)
    IN  IF (\E e \in own : e.always) \/ common = NoSeries THEN FirstSeries(own, anime) ELSE common

Mismatch == [anime |-> 0, episode |-> 0]

\* One turn of the walk, which ends where it stays. The first rule in the file
\* that fits is followed; two lengths that differ are an error; numbers an anime
\* is known to have stand.
Follow(t, at) ==
    LET relations == t.relations[at.anime]
        fitting   == {i \in DOMAIN relations :
                        relations[i].first <= at.episode /\ at.episode <= relations[i].last}
        matched   == relations[CHOOSE i \in fitting : \A j \in fitting : i <= j]
    IN  IF at = Mismatch \/ at.episode \in 1..t.counts[at.anime] \/ fitting = {} THEN at
        ELSE IF matched.last - matched.first # matched.olast - matched.ofirst THEN Mismatch
        ELSE [anime   |-> matched.other,
              episode |-> matched.ofirst + (at.episode - matched.first)]

\* Where rules can lead.
Places(t) ==
    {Mismatch} \union
    UNION {UNION {{[anime |-> r.other, episode |-> n] : n \in r.ofirst..r.olast} :
                  r \in Range(t.relations[a])} : a \in Animes}

\* The places in turn; the walk has to come back to one of them.
Walk(t, at) ==
    LET place[i \in 0..Cardinality(Places(t)) + 1] ==
            IF i = 0 THEN at ELSE Follow(t, place[i - 1])
    IN  place

\* A slip: one rule is followed.
ResolveAnimeOnce(t, anime, n) == Follow(t, [anime |-> anime, episode |-> n])

\* AnimeRelations.resolve_anime: the first place that was visited before, where
\* the rules end or turn back.
ResolveAnime(t, anime, n) ==
    LET place    == Walk(t, [anime |-> anime, episode |-> n])
        again(i) == \E j \in 0..(i - 1) : place[j] = place[i]
    IN  place[CHOOSE i \in DOMAIN place : again(i) /\ \A k \in 0..(i - 1) : ~again(k)]
=============================================================================
