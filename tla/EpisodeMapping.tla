---------------------------- MODULE EpisodeMapping ----------------------------
(***************************************************************************)
(* The rows with which users correct the mappings (MappingAPIComponent),   *)
(* beside the loads and refreshes of the tables they correct.              *)
(***************************************************************************)
EXTENDS AnimeRelations, FileNames

CONSTANTS
    Ids,           \* rows users may create
    Bodies,        \* the requests to create or update a row
    Numbers,       \* episode numbers asked for
    MaxEdits,      \* bound: updates between their read and their write
    MappingFiles,  \* contents of mappings.min.json
    HotFiles       \* of overrides.min.json

ASSUME MappingAssumption ==
    /\ IsFiniteSet(Ids) /\ MaxEdits \in Nat
    /\ Bodies \subseteq
        [source: Animes, target: Keys, from: Int, to: Bound, tfrom: Int, tto: Bound,
         step: Int, always: BOOLEAN]
    /\ Numbers \subseteq Nat
    /\ \A file \in MappingFiles : \A line \in file :
        /\ {line.source, line.target} \subseteq Animes \union Keys
        /\ line.from \in Int /\ line.to \in Bound /\ line.step \in Int
        /\ line.ranges \subseteq Int \X Bound
    /\ HotFiles \subseteq SUBSET Entry

VARIABLES
    rows,   \* mapping_override: id -> row, of the ids in use
    edits,  \* update requests waiting for AniList and TVDB
    table   \* what AnimeRelations holds in memory

mappingVars == <<rows, edits, table>>

Stored   == Range(rows)
Standing == {row \in Stored : row.always}

NoTables == Tables({}, {}, <<>>, {})

MappingInit ==
    /\ rows = <<>> /\ edits = {}
    /\ table = NoTables

\* The database does not use an id twice: none of a row being updated.
CreateRow(i, body) ==
    /\ i \notin DOMAIN rows /\ ValidRanges(body) /\ \A e \in edits : e.id # i
    /\ rows' = [j \in DOMAIN rows \union {i} |-> IF j = i THEN body ELSE rows[j]]
    /\ UNCHANGED <<edits, table>>

\* The request is checked before the ids are looked up on AniList and TVDB.
EditReads(i, body) ==
    /\ i \in DOMAIN rows /\ ValidRanges(body) /\ Cardinality(edits) < MaxEdits
    /\ edits' = edits \union {[id |-> i, read |-> rows[i], body |-> body]}
    /\ UNCHANGED <<rows, table>>

\* Only the columns that differ from the row that was read are written; a row
\* deleted meanwhile stays deleted, and the request fails.
EditWrites(e) ==
    /\ rows' = IF e.id \notin DOMAIN rows THEN rows
               ELSE [rows EXCEPT ![e.id] =
                        [c \in DOMAIN e.body |->
                            IF e.body[c] # e.read[c] THEN e.body[c] ELSE rows[e.id][c]]]
    /\ edits' = edits \ {e}
    /\ UNCHANGED table

\* No such anime or series, or no answer.
EditFails(e) ==
    /\ edits' = edits \ {e}
    /\ UNCHANGED <<rows, table>>

DeleteRow(i) ==
    /\ i \in DOMAIN rows
    /\ rows' = [j \in DOMAIN rows \ {i} |-> rows[j]]
    /\ UNCHANGED <<edits, table>>

\* load_relations: on start and when the hot overrides are switched; a file
\* that cannot be had is empty. refresh_relations replaces all tables or none.
LoadRelations ==
    /\ \E mappings \in MappingFiles \union {{}}, hot \in HotFiles \union {{}},
          rules \in RuleFiles \union {<<>>}, counts \in CountFiles \union {{}} :
            table' = Tables(mappings, hot, rules, counts)
    /\ UNCHANGED <<rows, edits>>

RefreshRelations ==
    /\ \E mappings \in MappingFiles, hot \in HotFiles \union {{}},
          rules \in RuleFiles, counts \in CountFiles :
            table' = Tables(mappings, hot, rules, counts)
    /\ UNCHANGED <<rows, edits>>

MappingNext ==
    \/ \E i \in Ids, body \in Bodies : CreateRow(i, body) \/ EditReads(i, body)
    \/ \E e \in edits : EditWrites(e) \/ EditFails(e)
    \/ \E i \in Ids : DeleteRow(i)
    \/ LoadRelations
    \/ RefreshRelations

MappingSpec == MappingInit /\ [][MappingNext]_mappingVars

-----------------------------------------------------------------------------
MappingTypeOK ==
    /\ DOMAIN rows \subseteq Ids /\ \A i \in DOMAIN rows : rows[i] \in Entry
    /\ edits \subseteq [id: Ids, read: Entry, body: Bodies] /\ Cardinality(edits) <= MaxEdits
    /\ table.forward \subseteq Entry /\ table.backward \subseteq Entry
    /\ \A a \in Animes : Range(table.relations[a]) \subseteq Relation
    /\ table.counts \in [Animes -> Nat]

\* Whatever users store, the two directions agree: an episode of a row has
\* TVDB episodes, and each of them leads back to it (_validate_ranges, the
\* reverse granularity of _overrides_to_mappings).
RowsRoundTrip == \A row \in Stored, n \in Numbers : RoundTrips(row, n)

\* An ALWAYS row decides, an IF_MISSING row only fills gaps: while no ALWAYS row
\* changes, neither new tables nor other rows, edited in any order, change what
\* such a row answers, and no IF_MISSING row changes what the tables answer; in
\* either direction.
AnswersStand ==
    [][ Standing' = Standing /\ (Standing # {} \/ rows' # rows) =>
        LET always == Standing
            Settled(entries, own, a, n) ==
                \/ Binding(Lookup(own, a, n))
                \/ table' = table /\ Lookup(entries, a, n) # {}
        IN  /\ \A a \in Animes, n \in Numbers :
                Settled(table.forward, always, a, n) =>
                    TvdbEpisodes(Stored, table, a, n)' = TvdbEpisodes(Stored, table, a, n)
            /\ \A k \in Keys, n \in Numbers :
                Settled(table.backward, {Turn(e) : e \in always}, k, n) =>
                    AnilistEpisodes(Stored, table, k, n)'
                        = AnilistEpisodes(Stored, table, k, n)
            /\ \A a \in Animes :
                (\E n \in Numbers : Binding(Lookup(always, a, n))) =>
                    TvdbSeries(Stored, table, a)' = TvdbSeries(Stored, table, a)
      ]_<<rows, table>>

\* A number that has been resolved stays: the torrent of a resolved episode and
\* the one of the absolute number become the same episode, however the rules
\* chain or turn back (resolve_anime's visited set and episode counts).
NumbersSettle ==
    \A a \in Animes, n \in Numbers :
        LET found == ResolveAnime(table, a, n)
        IN  found # Mismatch => ResolveAnime(table, found.anime, found.episode) = found

\* Videos of one anime that share no content never share a name in the library,
\* whichever row maps their episodes: no import takes another episode's file
\* for its own and replaces it (format_file_name).
NamesTellApart ==
    \A row \in Stored : NamesDiffer(row, {n \in Numbers : Within(n, row.from, row.to)})
=============================================================================
