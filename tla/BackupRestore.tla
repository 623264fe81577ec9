---------------------------- MODULE BackupRestore ----------------------------
(***************************************************************************)
(* Backups and their restoration: archives written while the program       *)
(* serves, a marker left for the next start, and a start that drops the    *)
(* database and builds it again from the migrations and the archive, one   *)
(* commit at a time. The program may stop at any point, and start again in *)
(* another version.                                                        *)
(***************************************************************************)
EXTENDS Naturals, Sequences, FiniteSets

CONSTANTS
    Versions, \* versions of the program; each comes with the migration to its schema
    Keep,     \* AUTO_BACKUP_RETENTION_COUNT
    MaxFiles, \* bound: archives ever begun
    MaxStops  \* bound: stops

\* Schemas are numbered from 1; 0 is the schema of an empty database.
ASSUME BackupAssumption ==
    Versions \subseteq Nat \ {0} /\ {Keep, MaxFiles, MaxStops} \subseteq Nat

VARIABLES
    up,       \* "serving", "starting" or "down"
    version,  \* the version that runs
    db,       \* what was committed to the database: migrations and data, in order
    archives, \* the archives in the directory
    files,    \* how many were begun: the number of the newest
    writer,   \* create_backup of the worker and of a request
    marker,   \* .pending_restore
    plan,     \* what a start has still to commit
    restoration, \* "none", "begun" or "abandoned": what became of the last one
    stops

backupVars == <<up, version, db, archives, files, writer, marker, plan, restoration, stops>>

Writers == {"worker", "request"}
NoWriter == [file |-> 0, mark |-> 0, pc |-> "idle"]
NoMarker == [file |-> 0, schema |-> 0, fresh |-> FALSE]

Migration(v) == <<"migration", v, 0>>
Own == <<"own", 0, 0>>

\* The statements an archive consists of; each is committed by itself.
Statements(f) == <<<<"restored", f, 1>>, <<"restored", f, 2>>>>

Migrations(first, last) == [i \in 1..(last + 1 - first) |-> Migration(first + i - 1)]

\* _get_current_schema_version
Schema(d) == Cardinality({i \in DOMAIN d : d[i][1] = "migration"})

BackupInit ==
    /\ up = "serving" /\ version \in Versions
    /\ db = Append(Migrations(1, version), Own)
    /\ archives = {} /\ files = 0
    /\ writer = [w \in Writers |-> NoWriter]
    /\ marker = NoMarker /\ plan = <<>> /\ restoration = "none"
    /\ stops = 0

-----------------------------------------------------------------------------
\* create_backup reads one consistent snapshot, then writes the archive, which
\* is there, unreadable, until it is whole. A request to restore (mark) makes a
\* backup first.
BeginBackup(w, user, mark) ==
    /\ up = "serving" /\ writer[w].pc = "idle" /\ files < MaxFiles
    /\ files' = files + 1
    /\ archives' = archives \union
            {[file |-> files + 1, user |-> user, schema |-> Schema(db), whole |-> FALSE]}
    /\ writer' = [writer EXCEPT ![w] = [file |-> files + 1, mark |-> mark, pc |-> "write"]]
    /\ UNCHANGED <<up, version, db, marker, plan, restoration, stops>>

\* The size of an archive that was removed meanwhile cannot be read: that fails.
FinishBackup(w) ==
    /\ writer[w].pc = "write"
    /\ LET mine == {a \in archives : a.file = writer[w].file}
       IN  /\ archives' = (archives \ mine) \union {[a EXCEPT !.whole = TRUE] : a \in mine}
           /\ writer' = [writer EXCEPT ![w] = IF mine # {} /\ @.mark # 0
                                              THEN [@ EXCEPT !.pc = "mark"] ELSE NoWriter]
    /\ UNCHANGED <<up, version, db, files, marker, plan, restoration, stops>>

\* validate_backup_archive
Restorable(f, v) == \E a \in archives : a.file = f /\ a.whole /\ a.schema <= v

SchemaOf(f) == (CHOOSE a \in archives : a.file = f).schema

\* mark_backup_for_restoration
MarkForRestoration(w) ==
    /\ writer[w].pc = "mark"
    /\ writer' = [writer EXCEPT ![w] = NoWriter]
    /\ marker' = IF Restorable(writer[w].mark, version)
                 THEN [file |-> writer[w].mark, schema |-> SchemaOf(writer[w].mark), fresh |-> TRUE]
                 ELSE marker
    /\ UNCHANGED <<up, version, db, archives, files, plan, restoration, stops>>

\* delete_backup
DeleteBackup(a) ==
    /\ up = "serving"
    /\ archives' = archives \ {a}
    /\ UNCHANGED <<up, version, db, files, writer, marker, plan, restoration, stops>>

\* prune_old_backups: the newest Keep of those that no user made stay, whole or not.
Prune ==
    /\ up = "serving"
    /\ LET autos == {a \in archives : ~a.user}
       IN  archives' = archives \
                {a \in autos : Cardinality({b \in autos : b.file > a.file}) >= Keep}
    /\ UNCHANGED <<up, version, db, files, writer, marker, plan, restoration, stops>>

-----------------------------------------------------------------------------
\* Three hours pass.
TimePasses ==
    /\ marker.fresh
    /\ marker' = [marker EXCEPT !.fresh = FALSE]
    /\ UNCHANGED <<up, version, db, archives, files, writer, plan, restoration, stops>>

\* The process is stopped or killed, or a statement of a start fails.
StopProgram ==
    /\ up # "down" /\ stops < MaxStops
    /\ up' = "down" /\ stops' = stops + 1
    /\ writer' = [w \in Writers |-> NoWriter] /\ plan' = <<>>
    /\ UNCHANGED <<version, db, archives, files, marker, restoration>>

\* restore_backup accepts the marker.
Accepted(v) == marker.fresh /\ marker.schema <= v /\ Restorable(marker.file, v)

\* apply_db_migrations after the database was dropped: the statements of the
\* archive follow the first migration that is not older than its schema.
Plan(v) ==
    LET k == SchemaOf(marker.file)
    IN  Migrations(1, k) \o Statements(marker.file) \o Migrations(k + 1, v)

\* A slip: the marker goes before the database does.
StartRestoringForgetful(v) ==
    /\ up = "down" /\ Accepted(v)
    /\ up' = "starting" /\ version' = v
    /\ db' = <<>> /\ plan' = Plan(v) /\ restoration' = "begun"
    /\ marker' = NoMarker
    /\ UNCHANGED <<archives, files, writer, stops>>

\* A start with a marker it accepts drops the database at once.
StartRestoring(v) ==
    /\ up = "down" /\ Accepted(v)
    /\ up' = "starting" /\ version' = v
    /\ db' = <<>> /\ plan' = Plan(v) /\ restoration' = "begun"
    /\ UNCHANGED <<archives, files, writer, marker, stops>>

\* Any other removes the marker; it exits when the schema is newer than itself.
StartPlain(v) ==
    /\ up = "down" /\ ~Accepted(v)
    /\ marker' = NoMarker
    /\ restoration' = IF restoration = "begun" /\ marker # NoMarker
                      THEN "abandoned" ELSE restoration
    /\ version' = v
    /\ IF Schema(db) > v THEN up' = "down" /\ plan' = <<>>
       ELSE up' = "starting" /\ plan' = Migrations(Schema(db) + 1, v)
    /\ UNCHANGED <<db, archives, files, writer, stops>>

\* (A migration is taken as one: the version is the last that one of an upgrade
\* writes, and a start repeats what it did before.)
Apply ==
    /\ up = "starting" /\ plan # <<>>
    /\ db' = Append(db, Head(plan)) /\ plan' = Tail(plan)
    /\ UNCHANGED <<up, version, archives, files, writer, marker, restoration, stops>>

\* on_start_actions removes the marker when everything is committed.
Serve ==
    /\ up = "starting" /\ plan = <<>>
    /\ up' = "serving" /\ marker' = NoMarker
    /\ restoration' = IF restoration = "begun" THEN "none" ELSE restoration
    /\ UNCHANGED <<version, db, archives, files, writer, plan, stops>>

BackupNext ==
    \/ BeginBackup("worker", FALSE, 0)
    \/ BeginBackup("request", TRUE, 0) \/ \E f \in 1..files : BeginBackup("request", FALSE, f)
    \/ \E w \in Writers : FinishBackup(w) \/ MarkForRestoration(w)
    \/ \E a \in archives : DeleteBackup(a)
    \/ Prune \/ TimePasses \/ StopProgram
    \/ \E v \in Versions : StartRestoring(v) \/ StartPlain(v)
    \/ Apply \/ Serve

BackupSpec == BackupInit /\ [][BackupNext]_backupVars

-----------------------------------------------------------------------------
\* No archive is missing a number, and only one that serves writes any.
BackupTypeOK ==
    /\ up \in {"serving", "starting", "down"} /\ version \in Versions
    /\ {a.file : a \in archives} \subseteq 1..files /\ files <= MaxFiles
    /\ up # "serving" => writer = [w \in Writers |-> NoWriter]
    /\ up # "starting" => plan = <<>>
    /\ marker.file \in 0..files /\ stops \in 0..MaxStops

\* Every statement of the program's own data, or of one archive, after the
\* migrations up to the schema it is of and before the others.
WholeData(d) ==
    \E k \in Versions : k <= version /\
        \E data \in {<<Own>>} \union {Statements(f) : f \in 1..files} :
            d = Migrations(1, k) \o data \o Migrations(k + 1, version)

\* Whatever is stopped half way, and in whatever version the program starts
\* again, it serves a database with one set of data, whole, that was migrated
\* from the schema it is of to the program's own: never a part of a restoration.
\* (But for a restoration whose marker got too old, or whose archive went, before
\* a start could finish it: the program then serves what is there.)
ServesWhole == up = "serving" /\ restoration = "none" => WholeData(db)
=============================================================================
