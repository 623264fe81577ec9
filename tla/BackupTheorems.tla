---------------------------- MODULE BackupTheorems ----------------------------
(***************************************************************************)
(* Backups and their restoration, for every set of versions, any number of *)
(* archives and any number of stops.                                       *)
(***************************************************************************)
EXTENDS BackupRestore, SequenceTheorems, FiniteSetTheorems, TLAPS

Statement == {"migration", "own", "restored"} \X Nat \X Nat

\* One set of data: the program's own or that of an archive.
Data == {<<Own>>} \union {Statements(f) : f \in 1..files}

\* One set of data, inserted at schema k and migrated to schema n.
WholeAt(k, data, n) == Migrations(1, k) \o data \o Migrations(k + 1, n)

HoldsData(d, n) == \E k \in Versions, data \in Data : k <= n /\ d = WholeAt(k, data, n)

\* An archive has a number of its own and the schema of a version that served.
ArchivesKnown ==
    /\ files \in Nat
    /\ archives \subseteq [file : 1..files, user : BOOLEAN, schema : Versions, whole : BOOLEAN]
    /\ \A a, b \in archives : a.file = b.file => a = b

WritersKnown ==
    /\ writer \in [Writers -> [file : Nat, mark : 0..files, pc : {"idle", "write", "mark"}]]
    /\ marker \in [file : 0..files, schema : Nat, fresh : BOOLEAN]

\* What is committed and what a start has still to commit make up its schema.
SchemaFollows ==
    /\ db \in Seq(Statement) /\ plan \in Seq(Statement)
    /\ up # "down" => Schema(db \o plan) = version

\* A restoration that was begun has a marker, and a start that restores has a
\* whole set of data in what it committed and what it has still to commit.
Restoring ==
    restoration = "begun" =>
        /\ up # "serving" /\ marker.file \in 1..files
        /\ up = "starting" => HoldsData(db \o plan, version)

\* Where no restoration is under way, the database is whole at the schema it has,
\* and a start only migrates it further.
Settled ==
    restoration = "none" =>
        /\ HoldsData(db, Schema(db))
        /\ up = "starting" => plan = Migrations(Schema(db) + 1, version)

BackupInv ==
    /\ BackupTypeOK /\ ArchivesKnown /\ WritersKnown
    /\ SchemaFollows /\ Restoring /\ Settled

-----------------------------------------------------------------------------
\* The migrations from schema k to schema n.
LEMMA MigrationsAre ==
    ASSUME NEW k \in Nat, NEW n \in Nat, k <= n
    PROVE  /\ Migrations(k + 1, n) \in Seq(Statement)
           /\ Len(Migrations(k + 1, n)) = n - k
           /\ \A x \in 1..(n - k) : Migrations(k + 1, n)[x] = <<"migration", k + x, 0>>
<1>1. n - k \in Nat /\ n + 1 - (k + 1) = n - k
  OBVIOUS
<1>2. \A x \in 1..(n - k) : /\ <<"migration", k + x, 0>> \in Statement
                            /\ k + 1 + x - 1 = k + x
  BY DEF Statement
<1> DEFINE m == [x \in 1..(n - k) |-> <<"migration", k + x, 0>>]
<1>3. Migrations(k + 1, n) = m
  BY <1>1, <1>2 DEF Migrations, Migration
<1>4. m \in Seq(Statement)
  BY <1>1, <1>2
<1>5. Len(m) = n - k
  BY <1>1
<1> QED
  BY <1>3, <1>4, <1>5

\* The first of all.
LEMMA FirstMigrations ==
    ASSUME NEW k \in Nat
    PROVE  /\ Migrations(1, k) \in Seq(Statement)
           /\ Len(Migrations(1, k)) = k
           /\ \A x \in 1..k : Migrations(1, k)[x] = <<"migration", x, 0>>
<1>1. \A x \in 1..k : <<"migration", x, 0>> \in Statement /\ 1 + x - 1 = x
  BY DEF Statement
<1>2. Migrations(1, k) = [x \in 1..k |-> <<"migration", x, 0>>]
  BY <1>1 DEF Migrations, Migration
<1> QED
  BY <1>1, <1>2

\* There are none from a schema to itself.
LEMMA NoMigrations == ASSUME NEW n \in Nat PROVE Migrations(n + 1, n) = <<>>
<1>1. Migrations(n + 1, n) \in Seq(Statement) /\ Len(Migrations(n + 1, n)) = 0
  BY MigrationsAre
<1> QED
  BY <1>1, EmptySeq

\* One more migration, at the end.
LEMMA OneMore ==
    ASSUME NEW k \in Nat, NEW n \in Nat, k <= n
    PROVE  Append(Migrations(k + 1, n), Migration(n + 1)) = Migrations(k + 1, n + 1)
<1> DEFINE m == n + 1
           old == Migrations(k + 1, n)
           s == Append(old, Migration(m))
           t == Migrations(k + 1, m)
<1>1. m \in Nat /\ k <= m /\ m = n + 1
  OBVIOUS
<1>2. Migration(m) \in Statement /\ Migration(m) = <<"migration", m, 0>>
  BY <1>1 DEF Migration, Statement
<1>3. /\ old \in Seq(Statement) /\ Len(old) = n - k
      /\ \A x \in 1..(n - k) : old[x] = <<"migration", k + x, 0>>
  BY MigrationsAre
<1> HIDE DEF m
<1>4. /\ t \in Seq(Statement) /\ Len(t) = m - k
      /\ \A x \in 1..(m - k) : t[x] = <<"migration", k + x, 0>>
  BY <1>1, MigrationsAre
<1> HIDE DEF old, t
<1>5. s \in Seq(Statement) /\ Len(s) = Len(t)
  BY <1>1, <1>2, <1>3, <1>4
<1>6. \A x \in 1..Len(t) : s[x] = IF x = m - k THEN Migration(m) ELSE old[x]
  BY <1>1, <1>2, <1>3, <1>4
<1> HIDE DEF s
<1>7. ASSUME NEW x \in 1..(m - k) PROVE s[x] = t[x]
  <2>1. t[x] = <<"migration", k + x, 0>> /\ x \in 1..Len(t)
    BY <1>4
  <2>2. CASE x = m - k
    BY <2>1, <2>2, <1>1, <1>2, <1>6
  <2>3. CASE x # m - k
    <3>1. x \in 1..(n - k)
      BY <2>3, <1>1
    <3>2. s[x] = old[x]
      BY <2>1, <2>3, <1>6
    <3> QED
      BY <2>1, <3>1, <3>2, <1>3
  <2> QED
    BY <2>2, <2>3
<1>8. s = t
  BY <1>4, <1>5, <1>7, SeqEqual
<1> QED
  BY <1>8 DEF s, t, old, m

\* The first of them, and the others.
LEMMA FirstOfThem ==
    ASSUME NEW k \in Nat, NEW n \in Nat, k < n
    PROVE  /\ Head(Migrations(k + 1, n)) = Migration(k + 1)
           /\ Tail(Migrations(k + 1, n)) = Migrations(k + 1 + 1, n)
<1> DEFINE m == k + 1
           s == Migrations(k + 1, n)
           t == Migrations(m + 1, n)
<1>1. m \in Nat /\ m <= n /\ m = k + 1 /\ k <= n
  OBVIOUS
<1>2. /\ s \in Seq(Statement) /\ Len(s) = n - k
      /\ \A x \in 1..(n - k) : s[x] = <<"migration", k + x, 0>>
  BY <1>1, MigrationsAre
<1> HIDE DEF m
<1>3. /\ t \in Seq(Statement) /\ Len(t) = n - m
      /\ \A x \in 1..(n - m) : t[x] = <<"migration", m + x, 0>>
  BY <1>1, MigrationsAre
<1> HIDE DEF s, t
<1>4. s # <<>>
  BY <1>1, <1>2
<1>5. /\ Head(s) = s[1] /\ Tail(s) \in Seq(Statement) /\ Len(Tail(s)) = Len(t)
      /\ \A x \in 1..Len(t) : Tail(s)[x] = s[x + 1]
  BY <1>1, <1>2, <1>3, <1>4, HeadTailProperties
<1>6. ASSUME NEW x \in 1..Len(t) PROVE Tail(s)[x] = t[x]
  <2>1. x + 1 \in 1..(n - k) /\ k + (x + 1) = m + x /\ x \in 1..(n - m)
    BY <1>1, <1>3
  <2> QED
    BY <2>1, <1>2, <1>3, <1>5
<1>7. Tail(s) = t
  BY <1>5, <1>6, <1>3, SeqEqual
<1>8. Head(s) = <<"migration", k + 1, 0>>
  BY <1>1, <1>2, <1>5
<1> QED
  BY <1>7, <1>8 DEF s, t, m, Migration

-----------------------------------------------------------------------------
\* The schema of a database counts its migrations, wherever they stand.
LEMMA SchemaIsFinite ==
    ASSUME NEW d \in Seq(Statement)
    PROVE  IsFiniteSet({i \in DOMAIN d : d[i][1] = "migration"}) /\ Schema(d) \in Nat
<1>1. IsFiniteSet(1..Len(d)) /\ DOMAIN d = 1..Len(d)
  BY FS_Interval
<1>2. {i \in DOMAIN d : d[i][1] = "migration"} \in SUBSET (1..Len(d))
  BY <1>1
<1>3. IsFiniteSet({i \in DOMAIN d : d[i][1] = "migration"})
  BY <1>1, <1>2, FS_Subset
<1> QED
  BY <1>3, FS_CardinalityType DEF Schema

LEMMA SchemaOfAppend ==
    ASSUME NEW d \in Seq(Statement), NEW e \in Statement
    PROVE  Schema(Append(d, e)) = IF e[1] = "migration" THEN Schema(d) + 1 ELSE Schema(d)
<1> DEFINE old == {i \in DOMAIN d : d[i][1] = "migration"}
           new == {i \in DOMAIN Append(d, e) : Append(d, e)[i][1] = "migration"}
<1>1. IsFiniteSet(old) /\ Cardinality(old) \in Nat /\ Schema(d) = Cardinality(old)
  BY SchemaIsFinite DEF Schema
<1>2. /\ DOMAIN d = 1..Len(d) /\ DOMAIN Append(d, e) = 1..(Len(d) + 1)
      /\ \A i \in 1..Len(d) : Append(d, e)[i] = d[i]
      /\ Append(d, e)[Len(d) + 1] = e /\ Len(d) \in Nat
  OBVIOUS
<1>3. new = IF e[1] = "migration" THEN old \union {Len(d) + 1} ELSE old
  BY <1>2
<1>4. Len(d) + 1 \notin old
  BY <1>2
<1> HIDE DEF old
<1>5. Cardinality(old \union {Len(d) + 1}) = Cardinality(old) + 1
  BY <1>1, <1>4, FS_AddElement
<1> QED
  BY <1>1, <1>3, <1>5 DEF Schema

\* Migrations from the schema that a database has bring it to the one they end at.
LEMMA SchemaMigrated ==
    ASSUME NEW d \in Seq(Statement), NEW v \in Nat, Schema(d) <= v
    PROVE  Schema(d \o Migrations(Schema(d) + 1, v)) = v
<1> DEFINE k == Schema(d)
           e == Migrations(k + 1, v)
           old == {i \in DOMAIN d : d[i][1] = "migration"}
           more == (Len(d) + 1)..(Len(d) + v - k)
           new == {i \in DOMAIN (d \o e) : (d \o e)[i][1] = "migration"}
<1>1. IsFiniteSet(old) /\ Cardinality(old) = k /\ k \in Nat
  BY SchemaIsFinite DEF Schema
<1>2. /\ e \in Seq(Statement) /\ Len(e) = v - k
      /\ \A x \in 1..(v - k) : e[x] = <<"migration", k + x, 0>>
  <2>1. k \in Nat /\ k <= v
    BY <1>1
  <2> HIDE DEF k
  <2> QED
    BY <2>1, MigrationsAre
<1>3. /\ d \o e \in Seq(Statement) /\ Len(d \o e) = Len(d) + (v - k) /\ Len(d) \in Nat
      /\ \A i \in 1..(Len(d) + (v - k)) : (d \o e)[i] = IF i <= Len(d) THEN d[i] ELSE e[i - Len(d)]
  <2> HIDE DEF e, k
  <2>1. Len(d) \in Nat
    OBVIOUS
  <2> QED
    BY <2>1, <1>2, ConcatProperties
<1>4. DOMAIN d = 1..Len(d) /\ DOMAIN (d \o e) = 1..(Len(d) + (v - k))
  BY <1>3
<1> HIDE DEF k, e
<1>5. \A i \in 1..(Len(d) + (v - k)) : i > Len(d) => (d \o e)[i][1] = "migration"
  <2> SUFFICES ASSUME NEW i \in 1..(Len(d) + (v - k)), i > Len(d)
               PROVE  (d \o e)[i][1] = "migration"
    OBVIOUS
  <2>1. i - Len(d) \in 1..(v - k) /\ ~(i <= Len(d))
    BY <1>1, <1>3
  <2>2. (d \o e)[i] = <<"migration", k + (i - Len(d)), 0>>
    BY <2>1, <1>2, <1>3
  <2> QED
    BY <2>2
<1>6. new = old \union more
  <2>1. \A i : i \in new <=> i \in 1..(Len(d) + (v - k)) /\ (d \o e)[i][1] = "migration"
    BY <1>4
  <2>2. \A i \in 1..Len(d) : i \in new <=> i \in old
    BY <2>1, <1>1, <1>3, <1>4
  <2>3. \A i \in more : i \in new
    BY <2>1, <1>1, <1>3, <1>5
  <2>4. \A i \in new : i \in 1..Len(d) \/ i \in more
    BY <2>1, <1>1, <1>3
  <2> QED
    BY <2>2, <2>3, <2>4, <1>4
<1>7. old \intersect more = {}
  BY <1>4, <1>3
<1>8. IsFiniteSet(more) /\ Cardinality(more) = v - k
  <2> DEFINE l == Len(d) + 1  r == Len(d) + v - k
  <2>1. l \in Int /\ r \in Int /\ (IF l > r THEN 0 ELSE r - l + 1) = v - k
    BY <1>1, <1>3 DEF k
  <2> HIDE DEF l, r
  <2>2. IsFiniteSet(l..r) /\ Cardinality(l..r) = v - k
    BY <2>1, FS_Interval
  <2> QED
    BY <2>2 DEF l, r
<1> HIDE DEF old, more
<1>9. Cardinality(old \union more) = k + (v - k)
  <2>1. Cardinality(old \union more) = Cardinality(old) + Cardinality(more) - Cardinality({})
    BY <1>1, <1>7, <1>8, FS_Union
  <2> QED
    BY <2>1, <1>1, <1>8, FS_EmptySet
<1>10. Schema(d \o e) = Cardinality(old \union more)
  BY <1>6 DEF Schema
<1>11. k + (v - k) = v
  BY <1>1
<1> QED
  BY <1>9, <1>10, <1>11 DEF k, e

\* A set of data holds no migration.
LEMMA DataAreEntries ==
    ASSUME ArchivesKnown, NEW data \in Data
    PROVE  /\ data \in Seq(Statement)
           /\ \A i \in 1..Len(data) : data[i][1] # "migration"
<1>1. CASE data = <<Own>>
  BY <1>1 DEF Own, Statement
<1>2. ASSUME NEW f \in 1..files, data = Statements(f)
      PROVE  /\ data \in Seq(Statement)
             /\ \A i \in 1..Len(data) : data[i][1] # "migration"
  BY <1>2 DEF Statements, Statement, ArchivesKnown
<1> QED
  BY <1>1, <1>2 DEF Data

\* A whole set of data, migrated to schema n, is a database of schema n.
LEMMA SchemaOfWhole ==
    ASSUME ArchivesKnown, NEW k \in Nat, NEW n \in Nat, k <= n, NEW data \in Data
    PROVE  WholeAt(k, data, n) \in Seq(Statement) /\ Schema(WholeAt(k, data, n)) = n
<1> DEFINE m == Migrations(1, k)
           d == m \o data
<1>1. /\ m \in Seq(Statement) /\ Len(m) = k
      /\ \A x \in 1..k : m[x] = <<"migration", x, 0>>
  BY FirstMigrations
<1>2. data \in Seq(Statement) /\ \A i \in 1..Len(data) : data[i][1] # "migration"
  BY DataAreEntries
<1> HIDE DEF m
<1>3. /\ d \in Seq(Statement) /\ Len(d) = k + Len(data) /\ Len(data) \in Nat
      /\ \A i \in 1..(k + Len(data)) : d[i] = IF i <= k THEN m[i] ELSE data[i - k]
  <2>1. Len(data) \in Nat
    BY <1>2
  <2> QED
    BY <2>1, <1>1, <1>2, ConcatProperties
<1> HIDE DEF d
<1>4. {i \in DOMAIN d : d[i][1] = "migration"} = 1..k
  <2>1. DOMAIN d = 1..(k + Len(data))
    BY <1>3
  <2>2. \A i \in 1..k : d[i][1] = "migration"
    BY <1>1, <1>3
  <2>3. \A i \in 1..(k + Len(data)) : i > k => d[i][1] # "migration"
    <3> SUFFICES ASSUME NEW i \in 1..(k + Len(data)), i > k PROVE d[i][1] # "migration"
      OBVIOUS
    <3>1. i - k \in 1..Len(data) /\ d[i] = data[i - k]
      BY <1>3
    <3> QED
      BY <3>1, <1>2
  <2> QED
    BY <2>1, <2>2, <2>3, <1>3
<1>5. Schema(d) = k
  <2>1. Cardinality(1..k) = IF 1 > k THEN 0 ELSE k - 1 + 1
    BY FS_Interval
  <2>2. Schema(d) = Cardinality(1..k)
    BY <1>4 DEF Schema
  <2> QED
    BY <2>1, <2>2
<1>6. Schema(d \o Migrations(k + 1, n)) = n
  BY <1>3, <1>5, SchemaMigrated
<1>7. d \o Migrations(k + 1, n) \in Seq(Statement)
  BY <1>3, MigrationsAre, ConcatProperties
<1> QED
  BY <1>6, <1>7 DEF WholeAt, d, m

\* The next migration leaves it whole.
LEMMA WholeGrows ==
    ASSUME ArchivesKnown, NEW k \in Nat, NEW n \in Nat, k <= n, NEW data \in Data
    PROVE  Append(WholeAt(k, data, n), Migration(n + 1)) = WholeAt(k, data, n + 1)
<1> DEFINE d == Migrations(1, k) \o data
           e == Migrations(k + 1, n)
           x == Migration(n + 1)
<1>1. d \in Seq(Statement) /\ e \in Seq(Statement)
  BY FirstMigrations, MigrationsAre, DataAreEntries, ConcatProperties
<1>2. x \in Statement
  BY DEF Migration, Statement
<1>3. Append(e, x) = Migrations(k + 1, n + 1)
  BY OneMore
<1> HIDE DEF d, e, x
<1>4. Append(d \o e, x) = d \o Append(e, x)
  <2>1. <<x>> \in Seq(Statement) /\ d \o e \in Seq(Statement)
    BY <1>1, <1>2, ConcatProperties
  <2>2. Append(d \o e, x) = (d \o e) \o <<x>> /\ Append(e, x) = e \o <<x>>
    BY <2>1, <1>1, <1>2, AppendIsConcat
  <2> QED
    BY <2>1, <2>2, <1>1, ConcatAssociative
<1> QED
  BY <1>3, <1>4 DEF WholeAt, d, e, x

\* What is committed leaves the plan: together they stay what they were.
LEMMA CommitMoves ==
    ASSUME NEW d \in Seq(Statement), NEW p \in Seq(Statement), p # <<>>
    PROVE  /\ Append(d, Head(p)) \in Seq(Statement) /\ Tail(p) \in Seq(Statement)
           /\ Append(d, Head(p)) \o Tail(p) = d \o p
<1>1. Head(p) \in Statement /\ Tail(p) \in Seq(Statement) /\ <<Head(p)>> \in Seq(Statement)
  BY HeadTailProperties
<1>2. p = <<Head(p)>> \o Tail(p) /\ Append(d, Head(p)) = d \o <<Head(p)>>
  BY <1>1, AppendIsConcat
<1>3. (d \o <<Head(p)>>) \o Tail(p) = d \o (<<Head(p)>> \o Tail(p))
  BY <1>1, ConcatAssociative
<1> QED
  BY <1>1, <1>2, <1>3

-----------------------------------------------------------------------------
\* A database that is whole at the schema of the version that runs is what
\* ServesWhole asks for.
LEMMA WholeIsServed == BackupInv => ServesWhole
<1> SUFFICES ASSUME BackupInv, up = "serving", restoration = "none" PROVE WholeData(db)
  BY DEF ServesWhole
<1>1. plan = <<>> /\ db \in Seq(Statement) /\ Schema(db \o plan) = version
  BY DEF BackupInv, BackupTypeOK, SchemaFollows
<1>2. Schema(db) = version
  BY <1>1, ConcatEmptySeq
<1>3. HoldsData(db, version)
  BY <1>2 DEF BackupInv, Settled
<1> QED
  BY <1>3 DEF HoldsData, WholeAt, Data, WholeData

\* Archives come and go: the sets of data are those of the archives ever begun.
LEMMA DataGrow ==
    ASSUME files \in Nat, files' \in Nat, files <= files' PROVE Data \subseteq Data'
BY DEF Data

\* What touches neither the database nor what becomes of it.
LEMMA DataStay ==
    ASSUME BackupInv, UNCHANGED <<up, version, db, plan, restoration>>,
           files' \in Nat, files <= files',
           restoration = "begun" => marker'.file = marker.file
    PROVE  SchemaFollows' /\ Restoring' /\ Settled'
<1>1. files \in Nat
  BY DEF BackupInv, ArchivesKnown
<1>2. Data \subseteq Data'
  BY <1>1, DataGrow
<1>3. SchemaFollows'
  BY DEF BackupInv, SchemaFollows
<1>4. Restoring'
  <2> SUFFICES ASSUME restoration' = "begun"
               PROVE  /\ up' # "serving" /\ marker'.file \in 1..files'
                      /\ up' = "starting" => HoldsData(db \o plan, version)'
    BY DEF Restoring
  <2>1. up # "serving" /\ marker.file \in 1..files /\ (up = "starting" => HoldsData(db \o plan, version))
    BY DEF BackupInv, Restoring
  <2>2. marker'.file \in 1..files'
    BY <2>1, <1>1
  <2> QED
    BY <2>1, <2>2, <1>2 DEF HoldsData
<1>5. Settled'
  BY <1>2 DEF BackupInv, Settled, HoldsData
<1> QED
  BY <1>3, <1>4, <1>5

LEMMA BackupInitially == BackupInit => BackupInv
<1> SUFFICES ASSUME BackupInit PROVE BackupInv
  OBVIOUS
<1>1. version \in Versions /\ version \in Nat \ {0} /\ files = 0 /\ files \in Nat
  BY BackupAssumption DEF BackupInit
<1>2. ArchivesKnown /\ WritersKnown
  BY <1>1 DEF BackupInit, ArchivesKnown, WritersKnown, Writers, NoWriter, NoMarker
<1>3. BackupTypeOK
  BY <1>1, BackupAssumption DEF BackupInit, BackupTypeOK, NoMarker
<1>4. <<Own>> \in Data
  BY DEF Data
<1>5. db = WholeAt(version, <<Own>>, version)
  <2>1. Migrations(version + 1, version) = <<>>
    BY <1>1, NoMigrations
  <2>2. Migrations(1, version) \in Seq(Statement)
    BY <1>1, FirstMigrations
  <2>3. Own \in Statement /\ <<Own>> \in Seq(Statement)
    BY DEF Own, Statement
  <2>4. db = Migrations(1, version) \o <<Own>>
    BY <2>2, <2>3, AppendIsConcat DEF BackupInit
  <2>5. Migrations(1, version) \o <<Own>> \in Seq(Statement)
    BY <2>2, <2>3, ConcatProperties
  <2>6. (Migrations(1, version) \o <<Own>>) \o <<>> = Migrations(1, version) \o <<Own>>
    BY <2>5, ConcatEmptySeq
  <2> QED
    BY <2>1, <2>4, <2>6 DEF WholeAt
<1>6. db \in Seq(Statement) /\ Schema(db) = version
  BY <1>1, <1>2, <1>4, <1>5, SchemaOfWhole
<1>7. plan = <<>> /\ db \o plan = db
  BY <1>6, ConcatEmptySeq DEF BackupInit
<1>8. SchemaFollows
  BY <1>6, <1>7, EmptySeq DEF SchemaFollows
<1>9. HoldsData(db, Schema(db))
  BY <1>1, <1>4, <1>5, <1>6 DEF HoldsData
<1>10. Restoring /\ Settled
  BY <1>9 DEF Restoring, Settled, BackupInit
<1> QED
  BY <1>2, <1>3, <1>8, <1>10 DEF BackupInv

LEMMA BeginKeeps ==
    ASSUME BackupInv, NEW w \in Writers, NEW user \in BOOLEAN, NEW mark \in 0..files,
           BeginBackup(w, user, mark)
    PROVE  BackupInv'
<1>1. /\ files \in Nat /\ files' = files + 1 /\ files' \in Nat /\ files <= files'
      /\ UNCHANGED <<up, version, db, marker, plan, restoration, stops>> /\ up = "serving"
  BY DEF BeginBackup, BackupInv, ArchivesKnown
<1>2. SchemaFollows' /\ Restoring' /\ Settled'
  BY <1>1, DataStay
<1>3. Schema(db) \in Versions
  <2>1. plan = <<>> /\ db \in Seq(Statement) /\ Schema(db \o plan) = version /\ version \in Versions
    BY <1>1 DEF BackupInv, BackupTypeOK, SchemaFollows
  <2> QED
    BY <2>1, ConcatEmptySeq
<1>4. ArchivesKnown'
  <2> DEFINE new == [file |-> files + 1, user |-> user, schema |-> Schema(db), whole |-> FALSE]
  <2>1. archives' = archives \union {new}
    BY DEF BeginBackup
  <2>2. new \in [file : 1..files', user : BOOLEAN, schema : Versions, whole : BOOLEAN]
    BY <1>1, <1>3
  <2>3. \A a \in archives : a \in [file : 1..files', user : BOOLEAN, schema : Versions, whole : BOOLEAN]
                            /\ a.file # new.file
    BY <1>1 DEF BackupInv, ArchivesKnown
  <2> HIDE DEF new
  <2> QED
    BY <2>1, <2>2, <2>3, <1>1 DEF BackupInv, ArchivesKnown
<1>5. WritersKnown'
  <2>1. writer' = [writer EXCEPT ![w] = [file |-> files + 1, mark |-> mark, pc |-> "write"]]
    BY DEF BeginBackup
  <2>2. [file |-> files + 1, mark |-> mark, pc |-> "write"]
            \in [file : Nat, mark : 0..files', pc : {"idle", "write", "mark"}]
    BY <1>1
  <2>3. writer \in [Writers -> [file : Nat, mark : 0..files', pc : {"idle", "write", "mark"}]]
    BY <1>1 DEF BackupInv, WritersKnown
  <2>4. marker \in [file : 0..files', schema : Nat, fresh : BOOLEAN]
    BY <1>1 DEF BackupInv, WritersKnown
  <2> QED
    BY <2>1, <2>2, <2>3, <2>4, <1>1 DEF WritersKnown
<1>6. BackupTypeOK'
  <2>1. {a.file : a \in archives}' \subseteq 1..files'
    BY <1>4 DEF ArchivesKnown
  <2>2. files' <= MaxFiles
    BY <1>1, BackupAssumption DEF BeginBackup
  <2>3. marker'.file \in 0..files'
    BY <1>1 DEF BackupInv, BackupTypeOK
  <2> QED
    BY <1>1, <2>1, <2>2, <2>3 DEF BackupInv, BackupTypeOK
<1> QED
  BY <1>2, <1>4, <1>5, <1>6 DEF BackupInv

LEMMA FinishKeeps ==
    ASSUME BackupInv, NEW w \in Writers, FinishBackup(w) PROVE BackupInv'
<1> DEFINE mine == {a \in archives : a.file = writer[w].file}
           done == {[a EXCEPT !.whole = TRUE] : a \in mine}
           Archive == [file : 1..files, user : BOOLEAN, schema : Versions, whole : BOOLEAN]
<1>1. /\ files \in Nat /\ archives' = (archives \ mine) \union done
      /\ UNCHANGED <<up, version, db, files, marker, plan, restoration, stops>>
  BY DEF FinishBackup, BackupInv, ArchivesKnown
<1>2. SchemaFollows' /\ Restoring' /\ Settled'
  BY <1>1, DataStay
<1>3. \A a \in archives : [a EXCEPT !.whole = TRUE] \in Archive
                          /\ [a EXCEPT !.whole = TRUE].file = a.file
  BY DEF BackupInv, ArchivesKnown
<1>4. ArchivesKnown'
  <2>1. archives' \subseteq Archive
    BY <1>1, <1>3 DEF BackupInv, ArchivesKnown
  <2>2. \A a \in done : \A b \in done : a = b
    BY <1>3 DEF BackupInv, ArchivesKnown
  <2>3. \A a \in done : a.file = writer[w].file
    BY <1>3
  <2>4. \A b \in archives \ mine : b.file # writer[w].file
    OBVIOUS
  <2> HIDE DEF done, mine
  <2>5. \A a, b \in archives' : a.file = b.file => a = b
    BY <1>1, <2>2, <2>3, <2>4 DEF BackupInv, ArchivesKnown
  <2> QED
    BY <1>1, <2>1, <2>5 DEF ArchivesKnown
<1>5. WritersKnown' /\ (up # "serving" => writer' = [x \in Writers |-> NoWriter])
  <2> DEFINE idle == [x \in Writers |-> NoWriter]
             next == IF mine # {} /\ writer[w].mark # 0
                     THEN [writer[w] EXCEPT !.pc = "mark"] ELSE NoWriter
  <2>1. writer' = [writer EXCEPT ![w] = next] /\ writer[w].pc = "write"
    BY DEF FinishBackup
  <2>2. /\ writer \in [Writers -> [file : Nat, mark : 0..files, pc : {"idle", "write", "mark"}]]
        /\ marker \in [file : 0..files, schema : Nat, fresh : BOOLEAN]
    BY DEF BackupInv, WritersKnown
  <2>3. next \in [file : Nat, mark : 0..files, pc : {"idle", "write", "mark"}]
    <3>1. NoWriter \in [file : Nat, mark : 0..files, pc : {"idle", "write", "mark"}]
      BY <1>1 DEF NoWriter
    <3>2. [writer[w] EXCEPT !.pc = "mark"]
              \in [file : Nat, mark : 0..files, pc : {"idle", "write", "mark"}]
      BY <2>2
    <3> QED
      BY <3>1, <3>2
  <2> HIDE DEF next
  <2>4. up = "serving"
    <3>1. writer # idle
      BY <2>1 DEF NoWriter
    <3> QED
      BY <3>1 DEF BackupInv, BackupTypeOK
  <2> QED
    BY <1>1, <2>1, <2>2, <2>3, <2>4 DEF WritersKnown
<1>6. BackupTypeOK'
  <2>1. {a.file : a \in archives}' \subseteq 1..files'
    BY <1>4 DEF ArchivesKnown
  <2> QED
    BY <1>1, <1>5, <2>1 DEF BackupInv, BackupTypeOK
<1> QED
  BY <1>2, <1>4, <1>5, <1>6 DEF BackupInv

\* The archive that the marker names is the one that was checked.
LEMMA RestorableIsKnown ==
    ASSUME BackupInv, NEW f, NEW v, Restorable(f, v)
    PROVE  f \in 1..files /\ SchemaOf(f) \in Versions /\ SchemaOf(f) <= v
<1>1. PICK a \in archives : a.file = f /\ a.whole /\ a.schema <= v
  BY DEF Restorable
<1>2. SchemaOf(f) = a.schema
  BY <1>1 DEF SchemaOf, BackupInv, ArchivesKnown
<1> QED
  BY <1>1, <1>2 DEF BackupInv, ArchivesKnown

LEMMA MarkKeeps ==
    ASSUME BackupInv, NEW w \in Writers, MarkForRestoration(w) PROVE BackupInv'
<1>1. /\ files \in Nat /\ UNCHANGED <<up, version, db, archives, files, plan, restoration, stops>>
      /\ writer' = [writer EXCEPT ![w] = NoWriter] /\ writer[w].pc = "mark"
  BY DEF MarkForRestoration, BackupInv, ArchivesKnown
<1>2. up = "serving"
  <2>1. writer # [x \in Writers |-> NoWriter]
    BY <1>1 DEF NoWriter
  <2> QED
    BY <2>1 DEF BackupInv, BackupTypeOK
<1>3. marker' \in [file : 0..files, schema : Nat, fresh : BOOLEAN]
  <2>1. CASE Restorable(writer[w].mark, version)
    <3>1. writer[w].mark \in 0..files /\ SchemaOf(writer[w].mark) \in Nat
      <4>1. SchemaOf(writer[w].mark) \in Versions
        BY <2>1, RestorableIsKnown
      <4> QED
        BY <4>1, BackupAssumption DEF BackupInv, WritersKnown
    <3> QED
      BY <2>1, <3>1 DEF MarkForRestoration
  <2>2. CASE ~Restorable(writer[w].mark, version)
    BY <2>2 DEF MarkForRestoration, BackupInv, WritersKnown
  <2> QED
    BY <2>1, <2>2
<1>4. restoration # "begun"
  BY <1>2 DEF BackupInv, Restoring
<1>5. SchemaFollows' /\ Restoring' /\ Settled'
  BY <1>1, <1>4, DataStay
<1>6. WritersKnown'
  BY <1>1, <1>3 DEF BackupInv, WritersKnown, NoWriter
<1>7. BackupTypeOK'
  BY <1>1, <1>2, <1>3 DEF BackupInv, BackupTypeOK
<1>8. ArchivesKnown'
  BY <1>1 DEF BackupInv, ArchivesKnown
<1> QED
  BY <1>5, <1>6, <1>7, <1>8 DEF BackupInv

\* delete_backup and prune_old_backups take archives away.
LEMMA RemovalKeeps ==
    ASSUME BackupInv, archives' \subseteq archives,
           UNCHANGED <<up, version, db, files, writer, marker, plan, restoration, stops>>
    PROVE  BackupInv'
<1>1. SchemaFollows' /\ Restoring' /\ Settled'
  BY DataStay DEF BackupInv, ArchivesKnown
<1> QED
  BY <1>1 DEF BackupInv, BackupTypeOK, ArchivesKnown, WritersKnown

LEMMA TimeKeeps == ASSUME BackupInv, TimePasses PROVE BackupInv'
<1>1. /\ marker' = [marker EXCEPT !.fresh = FALSE]
      /\ UNCHANGED <<up, version, db, archives, files, writer, plan, restoration, stops>>
  BY DEF TimePasses
<1>2. marker' \in [file : 0..files, schema : Nat, fresh : BOOLEAN] /\ marker'.file = marker.file
  BY <1>1 DEF BackupInv, WritersKnown
<1>3. SchemaFollows' /\ Restoring' /\ Settled'
  BY <1>1, <1>2, DataStay DEF BackupInv, ArchivesKnown
<1> QED
  BY <1>1, <1>2, <1>3 DEF BackupInv, BackupTypeOK, ArchivesKnown, WritersKnown

-----------------------------------------------------------------------------
LEMMA StopKeeps == ASSUME BackupInv, StopProgram PROVE BackupInv'
<1>1. /\ up' = "down" /\ stops' = stops + 1 /\ stops < MaxStops /\ plan' = <<>>
      /\ writer' = [w \in Writers |-> NoWriter]
      /\ UNCHANGED <<version, db, archives, files, marker, restoration>>
  BY DEF StopProgram
<1>2. WritersKnown'
  BY <1>1 DEF BackupInv, WritersKnown, ArchivesKnown, NoWriter
<1>3. BackupTypeOK'
  BY <1>1, BackupAssumption DEF BackupInv, BackupTypeOK
<1>4. SchemaFollows'
  BY <1>1, EmptySeq DEF BackupInv, SchemaFollows
<1>5. Restoring' /\ Settled'
  BY <1>1 DEF BackupInv, Restoring, Settled, HoldsData, Data
<1> QED
  BY <1>1, <1>2, <1>3, <1>4, <1>5 DEF BackupInv, ArchivesKnown

LEMMA RestoreKeeps ==
    ASSUME BackupInv, NEW v \in Versions, StartRestoring(v) PROVE BackupInv'
<1> DEFINE f == marker.file
           k == SchemaOf(f)
<1>1. /\ up = "down" /\ up' = "starting" /\ version' = v /\ db' = <<>> /\ plan' = Plan(v)
      /\ restoration' = "begun" /\ UNCHANGED <<archives, files, writer, marker, stops>>
      /\ Restorable(f, v)
  BY DEF StartRestoring, Accepted
<1>2. f \in 1..files /\ k \in Versions /\ k <= v /\ k \in Nat /\ v \in Nat
  BY <1>1, RestorableIsKnown, BackupAssumption
<1>3. ArchivesKnown /\ Statements(f) \in Data
  BY <1>2 DEF BackupInv, Data
<1>4. plan' = WholeAt(k, Statements(f), v)
  BY <1>1 DEF Plan, WholeAt
<1>5. plan' \in Seq(Statement) /\ Schema(plan') = v
  BY <1>2, <1>3, <1>4, SchemaOfWhole
<1>6. db' \o plan' = plan'
  BY <1>1, <1>5, ConcatEmptySeq
<1>7. SchemaFollows'
  BY <1>1, <1>5, <1>6, EmptySeq DEF SchemaFollows
<1>8. Restoring'
  <2>1. Data' = Data
    BY <1>1 DEF Data
  <2>2. HoldsData(db \o plan, version)'
    BY <1>1, <1>2, <1>3, <1>4, <1>6, <2>1 DEF HoldsData
  <2> QED
    BY <1>1, <1>2, <2>2 DEF Restoring
<1>9. Settled' /\ ArchivesKnown' /\ WritersKnown'
  BY <1>1 DEF BackupInv, Settled, ArchivesKnown, WritersKnown
<1>10. BackupTypeOK'
  BY <1>1 DEF BackupInv, BackupTypeOK
<1> QED
  BY <1>7, <1>8, <1>9, <1>10 DEF BackupInv

LEMMA PlainKeeps ==
    ASSUME BackupInv, NEW v \in Versions, StartPlain(v) PROVE BackupInv'
<1>1. /\ up = "down" /\ version' = v /\ marker' = NoMarker
      /\ UNCHANGED <<db, archives, files, writer, stops>>
      /\ restoration' = IF restoration = "begun" /\ marker # NoMarker
                        THEN "abandoned" ELSE restoration
  BY DEF StartPlain
<1>2. v \in Nat /\ db \in Seq(Statement) /\ Schema(db) \in Nat
  BY BackupAssumption, SchemaIsFinite DEF BackupInv, SchemaFollows
<1>3. \/ Schema(db) > v /\ up' = "down" /\ plan' = <<>>
      \/ /\ Schema(db) <= v /\ up' = "starting"
         /\ plan' = Migrations(Schema(db) + 1, v)
  BY <1>2 DEF StartPlain
<1>4. SchemaFollows'
  <2>1. CASE up' = "down"
    BY <2>1, <1>1, <1>2, <1>3, EmptySeq DEF SchemaFollows
  <2>2. CASE up' = "starting"
    <3>1. Schema(db) <= v /\ plan' = Migrations(Schema(db) + 1, v)
      BY <2>2, <1>3
    <3>2. plan' \in Seq(Statement)
      BY <3>1, <1>2, MigrationsAre
    <3>3. Schema(db \o plan') = v
      BY <3>1, <1>2, SchemaMigrated
    <3> QED
      BY <3>2, <3>3, <1>1, <1>2 DEF SchemaFollows
  <2> QED
    BY <2>1, <2>2, <1>3
<1>5. restoration' # "begun"
  BY <1>1 DEF BackupInv, Restoring, NoMarker
<1>6. Settled'
  <2> SUFFICES ASSUME restoration' = "none"
               PROVE  /\ HoldsData(db, Schema(db))'
                      /\ up' = "starting" => plan' = Migrations(Schema(db) + 1, version)'
    BY DEF Settled
  <2>1. restoration = "none" /\ Data' = Data
    BY <1>1 DEF Data
  <2>2. HoldsData(db, Schema(db))
    BY <2>1 DEF BackupInv, Settled
  <2>3. HoldsData(db, Schema(db))'
    BY <2>1, <2>2, <1>1 DEF HoldsData
  <2> QED
    BY <2>3, <1>1, <1>3
<1>7. ArchivesKnown' /\ WritersKnown' /\ Restoring'
  BY <1>1, <1>5 DEF BackupInv, ArchivesKnown, WritersKnown, Restoring, NoMarker
<1>8. BackupTypeOK'
  BY <1>1, <1>3 DEF BackupInv, BackupTypeOK, ArchivesKnown, NoMarker
<1> QED
  BY <1>4, <1>6, <1>7, <1>8 DEF BackupInv

LEMMA ApplyKeeps == ASSUME BackupInv, Apply PROVE BackupInv'
<1>1. /\ up = "starting" /\ plan # <<>> /\ db' = Append(db, Head(plan)) /\ plan' = Tail(plan)
      /\ UNCHANGED <<up, version, archives, files, writer, marker, restoration, stops>>
  BY DEF Apply
<1>2. db \in Seq(Statement) /\ plan \in Seq(Statement)
  BY DEF BackupInv, SchemaFollows
<1>3. db' \in Seq(Statement) /\ plan' \in Seq(Statement) /\ db' \o plan' = db \o plan
  BY <1>1, <1>2, CommitMoves
<1>4. Data' = Data
  BY <1>1 DEF Data
<1>5. SchemaFollows'
  BY <1>1, <1>3 DEF BackupInv, SchemaFollows
<1>6. Restoring'
  <2> SUFFICES ASSUME restoration' = "begun"
               PROVE  up' # "serving" /\ marker'.file \in 1..files' /\ HoldsData(db \o plan, version)'
    BY DEF Restoring
  <2>1. marker.file \in 1..files /\ HoldsData(db \o plan, version)
    BY <1>1 DEF BackupInv, Restoring
  <2> QED
    BY <2>1, <1>1, <1>3, <1>4 DEF HoldsData
<1>7. Settled'
  <2> SUFFICES ASSUME restoration' = "none"
               PROVE  /\ HoldsData(db, Schema(db))'
                      /\ plan' = Migrations(Schema(db) + 1, version)'
    BY DEF Settled
  <2> DEFINE s == Schema(db)
  <2>1. /\ s \in Nat /\ version \in Nat /\ HoldsData(db, s) /\ plan = Migrations(s + 1, version)
        /\ ArchivesKnown
    BY <1>1, <1>2, BackupAssumption, SchemaIsFinite DEF BackupInv, BackupTypeOK, Settled
  <2>2. s < version
    <3>1. Schema(db \o plan) = version
      BY <1>1 DEF BackupInv, SchemaFollows
    <3>2. CASE s = version
      BY <3>2, <2>1, <1>1, NoMigrations
    <3>3. CASE s > version
      <4>1. 1..(version + 1 - (s + 1)) = {}
        BY <3>3, <2>1
      <4>2. plan = [i \in {} |-> Migration(s + 1 + i - 1)]
        BY <4>1, <2>1 DEF Migrations
      <4>3. Len(plan) = 0
        BY <4>2, <1>2
      <4> QED
        BY <4>3, <1>1, <1>2, EmptySeq
    <3> QED
      BY <3>2, <3>3, <2>1
  <2>3. Head(plan) = Migration(s + 1) /\ Tail(plan) = Migrations(s + 1 + 1, version)
    BY <2>1, <2>2, FirstOfThem
  <2>4. Schema(db') = s + 1
    <3>1. Migration(s + 1) \in Statement /\ Migration(s + 1)[1] = "migration"
      BY <2>1 DEF Migration, Statement
    <3>2. Schema(Append(db, Migration(s + 1))) = Schema(db) + 1
      BY <3>1, <1>2, SchemaOfAppend
    <3> QED
      BY <3>2, <2>3, <1>1
  <2>5. PICK k \in Versions, data \in Data : k <= s /\ db = WholeAt(k, data, s)
    BY <2>1 DEF HoldsData
  <2> HIDE DEF s
  <2>6. k \in Nat /\ k <= s + 1
    BY <2>1, <2>5, BackupAssumption
  <2>7. db' = WholeAt(k, data, s + 1)
    BY <2>1, <2>3, <2>5, <2>6, <1>1, WholeGrows
  <2>8. HoldsData(db, Schema(db))'
    BY <2>4, <2>5, <2>6, <2>7, <1>4 DEF HoldsData
  <2> QED
    BY <2>3, <2>4, <2>8, <1>1
<1>8. BackupTypeOK' /\ ArchivesKnown' /\ WritersKnown'
  BY <1>1 DEF BackupInv, BackupTypeOK, ArchivesKnown, WritersKnown
<1> QED
  BY <1>5, <1>6, <1>7, <1>8 DEF BackupInv

LEMMA ServeKeeps == ASSUME BackupInv, Serve PROVE BackupInv'
<1>1. /\ up = "starting" /\ plan = <<>> /\ up' = "serving" /\ marker' = NoMarker
      /\ restoration' = IF restoration = "begun" THEN "none" ELSE restoration
      /\ UNCHANGED <<version, db, archives, files, writer, plan, stops>>
  BY DEF Serve
<1>2. db \in Seq(Statement) /\ db \o plan = db /\ Schema(db) = version /\ Data' = Data
  BY <1>1, ConcatEmptySeq DEF BackupInv, SchemaFollows, Data
<1>3. SchemaFollows'
  BY <1>1, <1>2 DEF BackupInv, SchemaFollows
<1>4. Settled'
  <2> SUFFICES ASSUME restoration' = "none" PROVE HoldsData(db, Schema(db))'
    BY <1>1 DEF Settled
  <2>1. HoldsData(db, Schema(db))
    <3>1. CASE restoration = "begun"
      BY <3>1, <1>1, <1>2 DEF BackupInv, Restoring
    <3>2. CASE restoration # "begun"
      BY <3>2, <1>1 DEF BackupInv, Settled
    <3> QED
      BY <3>1, <3>2
  <2> QED
    BY <2>1, <1>1, <1>2 DEF HoldsData
<1>5. Restoring'
  BY <1>1 DEF Restoring
<1>6. BackupTypeOK' /\ ArchivesKnown' /\ WritersKnown'
  BY <1>1 DEF BackupInv, BackupTypeOK, ArchivesKnown, WritersKnown, NoMarker
<1> QED
  BY <1>3, <1>4, <1>5, <1>6 DEF BackupInv

LEMMA BackupStepKeeps == BackupInv /\ [BackupNext]_backupVars => BackupInv'
<1> SUFFICES ASSUME BackupInv, [BackupNext]_backupVars PROVE BackupInv'
  OBVIOUS
<1>1. CASE UNCHANGED backupVars
  BY <1>1, RemovalKeeps DEF backupVars
<1>2. CASE BeginBackup("worker", FALSE, 0) \/ BeginBackup("request", TRUE, 0)
  <2>1. 0 \in 0..files
    BY DEF BackupInv, ArchivesKnown
  <2> QED
    BY <1>2, <2>1, BeginKeeps DEF Writers
<1>3. ASSUME NEW f \in 1..files, BeginBackup("request", FALSE, f) PROVE BackupInv'
  <2>1. f \in 0..files
    BY DEF BackupInv, ArchivesKnown
  <2> QED
    BY <1>3, <2>1, BeginKeeps DEF Writers
<1>4. ASSUME NEW w \in Writers, FinishBackup(w) \/ MarkForRestoration(w) PROVE BackupInv'
  BY <1>4, FinishKeeps, MarkKeeps
<1>5. ASSUME NEW a \in archives, DeleteBackup(a) PROVE BackupInv'
  <2>1. /\ archives' \subseteq archives
        /\ UNCHANGED <<up, version, db, files, writer, marker, plan, restoration, stops>>
    BY <1>5 DEF DeleteBackup
  <2> QED
    BY <2>1, RemovalKeeps
<1>6. CASE Prune
  <2>1. /\ archives' \subseteq archives
        /\ UNCHANGED <<up, version, db, files, writer, marker, plan, restoration, stops>>
    BY <1>6 DEF Prune
  <2> QED
    BY <2>1, RemovalKeeps
<1>7. CASE TimePasses \/ StopProgram \/ Apply \/ Serve
  BY <1>7, TimeKeeps, StopKeeps, ApplyKeeps, ServeKeeps
<1>8. ASSUME NEW v \in Versions, StartRestoring(v) \/ StartPlain(v) PROVE BackupInv'
  BY <1>8, RestoreKeeps, PlainKeeps
<1> QED
  BY <1>1, <1>2, <1>3, <1>4, <1>5, <1>6, <1>7, <1>8 DEF BackupNext

\* The inductive invariant of backups and restorations.
THEOREM BackupInvariance == BackupSpec => []BackupInv
BY BackupInitially, BackupStepKeeps, PTL DEF BackupSpec

\* The program serves a whole set of data at its own schema, whatever start was
\* stopped wherever (restore_backup, apply_db_migrations, on_start_actions).
THEOREM ServedDataIsWhole == BackupSpec => []ServesWhole
BY BackupInvariance, WholeIsServed, PTL
=============================================================================
