----------------------------- MODULE Migrations -----------------------------
(***************************************************************************)
(* How the schema of the database comes to be: bootstrap, the operator's   *)
(* baseline of a schema that no migration made, and drizzle's migrator,    *)
(* which a container of the API runs before its server, where it is asked  *)
(* to (docker-entrypoint.sh), and again when it restarts.                  *)
(*                                                                         *)
(* A schema is the set of the objects that the scripts look at or that     *)
(* migrations fail over: "users" and "audit_logs" stand for the six        *)
(* initial relations, "actor_columns" for the six columns of 0003, and     *)
(* "foreign_keys" and "outbox_indexes" for what nobody looks at.           *)
(***************************************************************************)
EXTENDS FiniteSetsExt, Integers

CONSTANTS Servers,   \* containers that run the migrator and then the server, those of
                     \* the API with RUN_DB_SETUP_ON_STARTUP; a worker does not
          Legacies   \* the schemas the database may have before any of this

\* drizzle/0000 to 0008: what each migration creates.
Creates ==
    << {"users", "audit_logs", "foreign_keys"},
       {"identity_outbox", "outbox_indexes"},
       {"role", "profession"},
       {"schema_version", "actor_columns"},
       {"email_outbox"},
       {"user_presence"},
       {"session_index"},
       {"is_persistent"},
       {"hash_index"} >>

Migration == 1..9
Objects == UNION {Creates[k] : k \in Migration}
CreatedBy(steps) == UNION {Creates[k] : k \in steps}

\* IF NOT EXISTS; everything else fails when it is there.
Guarded == {"schema_version", "actor_columns", "user_presence", "session_index"}

ASSUME MigrationsAssumption == Servers # {} /\ Legacies \subseteq SUBSET Objects

VARIABLES
    objects,   \* the schema, as committed
    journal,   \* the migrations recorded in __drizzle_migrations
    baseline,  \* the prefix the baseline in progress is to record (0: none)
    server,    \* what each container is at, and the last migration it has read
    legacy     \* history: whether the schema was sound at the beginning, and what
               \* it lacked that nobody looks at

schemaVars == <<objects, journal, baseline, server, legacy>>

Server == [pc : {"down", "migrating", "starting", "ensuring", "up"}, last : 0..9]
Last == Max(journal \union {0})

\* inferLegacyPrefix looks at relations and columns only.
Unseen == {"foreign_keys", "outbox_indexes"}

\* What a schema lacks of a migration that it seems to have.
Torn(schema) ==
    {d \in Unseen \ schema : \E k \in 1..2 : d \in Creates[k] /\ schema \intersect Creates[k] # {}}

\* The schemas that the first four migrations make, with bootstrap or without it.
CleanPrefixes == {CreatedBy(1..k) : k \in 0..4}
CleanLegacies == CleanPrefixes \union {p \union {"schema_version"} : p \in CleanPrefixes}

SchemaInit ==
    /\ objects \in Legacies
    /\ legacy = [clean |-> objects \in CleanLegacies, torn |-> Torn(objects)]
    /\ journal = {}
    /\ baseline = 0
    /\ server = [s \in Servers |-> [pc |-> "down", last |-> 0]]

-----------------------------------------------------------------------------
(* bootstrap and baseline-legacy-migrations *)

\* The statement of bootstrap that these objects see.  Each of its statements
\* commits alone, and all of them may be repeated.
Bootstrap ==
    /\ objects' = objects \union {"schema_version"}
    /\ UNCHANGED <<journal, baseline, server, legacy>>

\* Mutant: half of the fourth migration will do.
InconsistentEarly ==
    /\ {"users", "audit_logs"} \subseteq objects
    /\ \/ ("role" \in objects) # ("profession" \in objects)
       \/ "role" \in objects /\ "identity_outbox" \notin objects

\* inferLegacyPrefix: where it throws.
Inconsistent ==
    /\ {"users", "audit_logs"} \subseteq objects
    /\ \/ ("role" \in objects) # ("profession" \in objects)
       \/ "role" \in objects /\ "identity_outbox" \notin objects
       \/ /\ "role" \in objects
          /\ ("schema_version" \in objects) # ("actor_columns" \in objects)

\* inferLegacyPrefix: what it returns otherwise, as a number of migrations.
Prefix ==
    IF ~({"users", "audit_logs"} \subseteq objects) THEN 0
    ELSE IF "identity_outbox" \notin objects THEN 1
    ELSE IF "role" \notin objects THEN 2
    ELSE IF "schema_version" \notin objects THEN 3
    ELSE 4

\* Under the advisory lock, with nothing recorded: the prefix is inferred.
BaselineInfer ==
    /\ baseline = 0 /\ journal = {}
    /\ ~Inconsistent /\ Prefix > 0
    /\ baseline' = Prefix
    /\ UNCHANGED <<objects, journal, server, legacy>>

\* Mutant: the last of the prefix is left out.
BaselineCommitShort ==
    /\ baseline > 0
    /\ journal' = journal \union 1..(baseline - 1)
    /\ baseline' = 0
    /\ UNCHANGED <<objects, server, legacy>>

\* The hashes are inserted and committed, whatever a migrator has recorded since.
BaselineCommit ==
    /\ baseline > 0
    /\ journal' = journal \union 1..baseline
    /\ baseline' = 0
    /\ UNCHANGED <<objects, server, legacy>>

\* The script or its connection dies: ROLLBACK, and the lock is free.
BaselineAbort ==
    /\ baseline > 0
    /\ baseline' = 0
    /\ UNCHANGED <<objects, journal, server, legacy>>

-----------------------------------------------------------------------------
(* pnpm db:migrate, that is drizzle-kit's migrator, in docker-entrypoint.sh *)

\* The last migration recorded is read, outside the transaction and without a
\* lock.
MigrateRead(s) ==
    /\ server[s].pc = "down"
    /\ server' = [server EXCEPT ![s] = [pc |-> "migrating", last |-> Last]]
    /\ UNCHANGED <<objects, journal, baseline, legacy>>

\* The migrations after the one that was read.
Pending(s) == (server[s].last + 1)..9

\* A statement of theirs meets an object that is there, committed by then.
Conflict(steps) == (CreatedBy(steps) \intersect objects) \ Guarded # {}

\* All of them, and their records, in one transaction.
MigrateRun(s) ==
    /\ server[s].pc = "migrating" /\ ~Conflict(Pending(s))
    /\ objects' = objects \union CreatedBy(Pending(s))
    /\ journal' = journal \union Pending(s)
    /\ server' = [server EXCEPT ![s] = [pc |-> "starting", last |-> 0]]
    /\ UNCHANGED <<baseline, legacy>>

\* The transaction is rolled back, because a statement failed or the container
\* died: exit 1, set -e ends the entrypoint, and the container restarts.
MigrateFail(s) ==
    /\ server[s].pc = "migrating"
    /\ server' = [server EXCEPT ![s] = [pc |-> "down", last |-> 0]]
    /\ UNCHANGED <<objects, journal, baseline, legacy>>

SchemaNext ==
    \/ Bootstrap \/ BaselineInfer \/ BaselineCommit \/ BaselineAbort
    \/ \E s \in Servers : MigrateRead(s) \/ MigrateRun(s) \/ MigrateFail(s)

-----------------------------------------------------------------------------
(* Properties *)

\* The journal, the baseline and the containers hold what they can hold.
SchemaTypeOK ==
    /\ objects \subseteq Objects
    /\ journal \subseteq Migration
    /\ baseline \in 0..4
    /\ server \in [Servers -> Server]
    /\ legacy \in [clean : BOOLEAN, torn : SUBSET Unseen]

\* Whatever the order and the number of the scripts and the containers, a
\* migration that is recorded has been applied whole: a database never skips one
\* that it needs.  The exception is a torn legacy schema, which lacked what
\* inferLegacyPrefix does not look at, and will lack it for ever.
RecordedIsApplied ==
    \A k \in journal : Creates[k] \ objects \subseteq legacy.torn

\* A migrator that runs alone now gets to the end, after a baseline if there is
\* something to record first.
CanMigrate ==
    IF journal = {} /\ objects \intersect Creates[1] # {}
    THEN ~Inconsistent /\ ~Conflict((Prefix + 1)..9)
    ELSE ~Conflict((Last + 1)..9)

\* bootstrap came before the baseline of a schema of three migrations: its
\* schema_version is taken for half of the fourth, and the baseline throws.
BootstrapSpoiltBaseline ==
    /\ journal = {} /\ "role" \in objects
    /\ "schema_version" \in objects /\ "actor_columns" \notin objects

\* A database that was empty, or that any number of the first migrations had
\* made, is never stuck: containers that race each other, the baseline in the
\* middle of them, or any of them dying leave it such that the next one brings it
\* up.  But for bootstrap, when it comes before the baseline of three migrations.
SoundSchemaIsNeverStuck ==
    legacy.clean => CanMigrate \/ BootstrapSpoiltBaseline
=============================================================================
