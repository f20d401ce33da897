----------------------------- MODULE Migrations -----------------------------
(***************************************************************************)
(* db/migrate.go as main.go runs it at every start: instances of the       *)
(* server that start at once and may crash at any step, over one postgres  *)
(* database.  Each file runs in a transaction together with the insertion  *)
(* of its version, but six of the shipped files carry a BEGIN and COMMIT   *)
(* of their own (for example db/migrations/019_create_assignments.sql:33   *)
(* and :59), which commits their SQL before the insertion.  A file is its  *)
(* version, the first three characters of its name; these are distinct.    *)
(***************************************************************************)
EXTENDS Naturals, Records

CONSTANTS
    Instances,          \* server processes
    LastFile,           \* the versions are 1..LastFile
    SelfCommitting,     \* the files with a COMMIT of their own
    MaxStarts           \* bound: starts of one instance

ASSUME MigrationsAssumption ==
    /\ LastFile \in Nat /\ MaxStarts \in Nat
    /\ SelfCommitting \subseteq 1..LastFile
    /\ \A versions \in SUBSET (1..LastFile) : None # versions

VARIABLES
    schema_migrations,  \* None, or the set of versions recorded (committed)
    effects,            \* per file how often its SQL was committed
    instance            \* per instance: pc, the file it is at, starts so far

migrationVars == <<schema_migrations, effects, instance>>

Files == 1..LastFile
Down == [pc |-> "down", file |-> 0, starts |-> 0]

MigrationsInit ==
    /\ schema_migrations = None
    /\ effects = [f \in Files |-> 0]
    /\ instance = [i \in Instances |-> Down]

At(i, pc) == instance[i].pc = pc
Goto(i, pc) == instance' = [instance EXCEPT ![i].pc = pc]
File(i) == instance[i].file

\* The transaction of i holds the key of file f: it inserted it and is not committed.
HoldsKey(i, f) == At(i, "commit") /\ File(i) = f /\ f \notin SelfCommitting

\* log.Fatalf: an open transaction is rolled back with the connection.
Fatal(i) == Goto(i, "down")

\* The process starts and has read and sorted the files.
RunMigrations(i) ==
    /\ At(i, "down") /\ instance[i].starts < MaxStarts
    /\ instance' = [instance EXCEPT ![i] = [pc |-> "ensure", file |-> 1, starts |-> @.starts + 1]]
    /\ UNCHANGED <<schema_migrations, effects>>

ensureMigrationsTable(i) ==
    /\ At(i, "ensure")
    /\ schema_migrations' = IF schema_migrations = None THEN {} ELSE schema_migrations
    /\ Goto(i, "check")
    /\ UNCHANGED effects

\* The head of the loop: the next file, unless it is recorded already.
isMigrationApplied(i) ==
    /\ At(i, "check") /\ File(i) \in Files
    /\ instance' = IF File(i) \in schema_migrations
                   THEN [instance EXCEPT ![i].file = @ + 1]
                   ELSE [instance EXCEPT ![i].pc = "exec"]
    /\ UNCHANGED <<schema_migrations, effects>>

\* After the last file the store is built and the server listens.
MigrationsDone(i) ==
    /\ At(i, "check") /\ File(i) \notin Files
    /\ Goto(i, "serving")
    /\ UNCHANGED <<schema_migrations, effects>>

\* applyMigration: the SQL of the file, which may fail (against another instance
\* that runs the same DDL, say); a COMMIT in it commits it here.
ExecSQL(i) ==
    /\ At(i, "exec")
    /\ effects' = IF File(i) \in SelfCommitting THEN [effects EXCEPT ![File(i)] = @ + 1] ELSE effects
    /\ Goto(i, "insert")
    /\ UNCHANGED schema_migrations

ExecFails(i) ==
    /\ At(i, "exec")
    /\ Fatal(i)
    /\ UNCHANGED <<schema_migrations, effects>>

\* The version is a primary key: the insertion waits for a transaction that
\* inserted it already, and fails when it is committed.  Without a transaction
\* left it is committed at once.
InsertVersion(i) ==
    /\ At(i, "insert")
    /\ \A j \in Instances \ {i} : ~HoldsKey(j, File(i))
    /\ \/ File(i) \in schema_migrations /\ Fatal(i) /\ UNCHANGED schema_migrations
       \/ /\ File(i) \notin schema_migrations
          /\ schema_migrations' = IF File(i) \in SelfCommitting
                                  THEN schema_migrations \cup {File(i)} ELSE schema_migrations
          /\ Goto(i, "commit")
    /\ UNCHANGED effects

\* Mistake: the loop commits the record and the SQL apart.
CommitTxRecordOnly(i) ==
    /\ At(i, "commit")
    /\ schema_migrations' = schema_migrations \cup {File(i)}
    /\ instance' = [instance EXCEPT ![i].pc = "check", ![i].file = @ + 1]
    /\ UNCHANGED effects

\* tx.Commit, which has nothing to do when the file committed itself.
CommitTx(i) ==
    /\ At(i, "commit")
    /\ schema_migrations' = schema_migrations \cup {File(i)}
    /\ effects' = IF File(i) \in SelfCommitting THEN effects
                  ELSE [effects EXCEPT ![File(i)] = @ + 1]
    /\ instance' = [instance EXCEPT ![i].pc = "check", ![i].file = @ + 1]

\* The instance dies, or is stopped while it serves.
Crash(i) ==
    /\ ~At(i, "down")
    /\ Fatal(i)
    /\ UNCHANGED <<schema_migrations, effects>>

MigrationsNext ==
    \E i \in Instances :
        \/ RunMigrations(i) \/ ensureMigrationsTable(i) \/ isMigrationApplied(i)
        \/ MigrationsDone(i) \/ ExecSQL(i) \/ ExecFails(i) \/ InsertVersion(i)
        \/ CommitTx(i) \/ Crash(i)

MigrationsSpec == MigrationsInit /\ [][MigrationsNext]_migrationVars

-----------------------------------------------------------------------------
\* Properties.

Recorded == IF schema_migrations = None THEN {} ELSE schema_migrations

MigrationPCs == {"down", "ensure", "check", "exec", "insert", "commit", "serving"}

MigrationsTypeOK ==
    /\ schema_migrations = None \/ schema_migrations \subseteq Files
    /\ effects \in [Files -> Nat]
    /\ instance \in [Instances -> [pc : MigrationPCs, file : 0..LastFile + 1,
                                   starts : 0..MaxStarts]]

\* Whatever crashes and whoever starts at the same time, the database is at a
\* definite version: the SQL of an ordinary file is committed exactly once and
\* together with its record, that of a file with a COMMIT of its own at least
\* once before it; no SQL is committed before all earlier files are recorded;
\* and an instance that serves has the whole schema.
SchemaIsAtAVersion ==
    /\ \A f \in Files \ SelfCommitting : effects[f] = IF f \in Recorded THEN 1 ELSE 0
    /\ \A f \in SelfCommitting : f \in Recorded => effects[f] > 0
    /\ \A f \in Files : effects[f] > 0 => 1..f - 1 \subseteq Recorded
    /\ \A i \in Instances : At(i, "serving") => Recorded = Files

\* The strengthening that makes SchemaIsAtAVersion inductive: the version table
\* is there once an instance is past ensureMigrationsTable; an instance starts
\* at the first file and is in a file only when all earlier ones are recorded; a COMMIT in the SQL comes
\* before the insertion; and a key is held by one transaction, for a version
\* that nobody has recorded.
InstanceInv(i) ==
    /\ instance[i].pc \notin {"down", "ensure"} => schema_migrations # None
    /\ At(i, "ensure") => File(i) = 1
    /\ At(i, "check") => File(i) > 0
    /\ instance[i].pc \in {"check", "exec", "insert", "commit"} => 1..File(i) - 1 \subseteq Recorded
    /\ instance[i].pc \in {"exec", "insert", "commit"} => File(i) \in Files
    /\ instance[i].pc \in {"insert", "commit"} /\ File(i) \in SelfCommitting => effects[File(i)] > 0
    /\ At(i, "commit") => (File(i) \in Recorded <=> File(i) \in SelfCommitting)
    /\ \A j \in Instances \ {i} : ~(HoldsKey(i, File(i)) /\ HoldsKey(j, File(i)))

MigrationsInv ==
    /\ MigrationsTypeOK /\ SchemaIsAtAVersion
    /\ \A i \in Instances : InstanceInv(i)
=============================================================================
