-------------------------- MODULE AuditTrailProofs --------------------------
(***************************************************************************)
(* Theorems about the schema of Migrations and the trail of AuditTrail,    *)
(* for any containers, legacy schemas, requests, conversions and months.   *)
(***************************************************************************)
EXTENDS AuditTrail, WellFoundedInduction, TLAPS

\* What BaselineCommit is going to record is there,
BaselineIsApplied == \A k \in 1..baseline : Creates[k] \ objects \subseteq legacy.torn

\* and a schema is torn in nothing but what it was torn in at the beginning.
TornFromTheStart == Torn(objects) \subseteq legacy.torn

\* The inductive invariant.
SchemaInv ==
    SchemaTypeOK /\ RecordedIsApplied /\ BaselineIsApplied /\ TornFromTheStart

-----------------------------------------------------------------------------
(* Facts about the migrations *)

\* Each creates objects of its own.
LEMMA CreatesApart ==
    \A j, k \in Migration : j # k => Creates[j] \intersect Creates[k] = {}
<1>. SUFFICES ASSUME NEW j \in Migration, NEW k \in Migration, NEW d,
                     d \in Creates[j], d \in Creates[k]
              PROVE  j = k
  OBVIOUS
<1>1. CASE j = 1 BY <1>1 DEF Creates, Migration
<1>2. CASE j = 2 BY <1>2 DEF Creates, Migration
<1>3. CASE j = 3 BY <1>3 DEF Creates, Migration
<1>4. CASE j = 4 BY <1>4 DEF Creates, Migration
<1>5. CASE j = 5 BY <1>5 DEF Creates, Migration
<1>6. CASE j = 6 BY <1>6 DEF Creates, Migration
<1>7. CASE j = 7 BY <1>7 DEF Creates, Migration
<1>8. CASE j = 8 BY <1>8 DEF Creates, Migration
<1>9. CASE j = 9 BY <1>9 DEF Creates, Migration
<1>. QED
  BY <1>1, <1>2, <1>3, <1>4, <1>5, <1>6, <1>7, <1>8, <1>9 DEF Migration

\* The last migration recorded is one, or there is none.
LEMMA LastType ==
    ASSUME journal \subseteq Migration
    PROVE  Last \in 0..9
<1>1. journal \union {0} \subseteq 0..9 /\ 0 \in journal \union {0}
  BY DEF Migration
<1>2. \E x \in journal \union {0} : \A y \in journal \union {0} : x >= y
  BY <1>1
<1>3. Max(journal \union {0}) \in journal \union {0}
  BY <1>2 DEF Max
<1>. QED
  BY <1>1, <1>3 DEF Last

\* What the script makes of the schema is made of objects.
LEMMA ObjectsType ==
    /\ "schema_version" \in Objects
    /\ \A steps \in SUBSET Migration : CreatedBy(steps) \subseteq Objects
<1>1. 4 \in Migration /\ "schema_version" \in Creates[4]
  BY DEF Migration, Creates
<1>. QED
  BY <1>1 DEF Objects, CreatedBy

-----------------------------------------------------------------------------
(* The invariant holds at the start, *)

LEMMA InitSchema == SchemaInit => SchemaInv
<1>. SUFFICES ASSUME SchemaInit PROVE SchemaInv
  OBVIOUS
<1>1. Torn(objects) \subseteq Unseen
  BY DEF Torn
<1>2. [s \in Servers |-> [pc |-> "down", last |-> 0]] \in [Servers -> Server]
  BY DEF Server
<1>3. SchemaTypeOK
  BY <1>1, <1>2, MigrationsAssumption DEF SchemaInit, SchemaTypeOK, CleanLegacies
<1>4. RecordedIsApplied /\ BaselineIsApplied /\ TornFromTheStart
  BY DEF SchemaInit, RecordedIsApplied, BaselineIsApplied, TornFromTheStart
<1>. QED
  BY <1>3, <1>4 DEF SchemaInv

(* and is kept by every step of the scripts, *)

\* while objects are only added, what was applied stays applied.
LEMMA MoreObjects ==
    ASSUME SchemaInv, objects \subseteq objects', UNCHANGED legacy
    PROVE  /\ journal' = journal => RecordedIsApplied'
           /\ baseline' = baseline => BaselineIsApplied'
  BY DEF SchemaInv, RecordedIsApplied, BaselineIsApplied

LEMMA BootstrapKeeps == SchemaInv /\ Bootstrap => SchemaInv'
<1>. SUFFICES ASSUME SchemaInv, Bootstrap PROVE SchemaInv'
  OBVIOUS
<1>1. SchemaTypeOK'
  BY ObjectsType DEF SchemaInv, SchemaTypeOK, Bootstrap
<1>2. RecordedIsApplied' /\ BaselineIsApplied'
  BY MoreObjects DEF Bootstrap
<1>3. \A k \in 1..2 : "schema_version" \notin Creates[k]
  BY DEF Creates
<1>4. Torn(objects') \subseteq Torn(objects)
  BY <1>3 DEF Torn, Bootstrap
<1>5. TornFromTheStart'
  BY <1>4 DEF SchemaInv, TornFromTheStart, Bootstrap
<1>. QED
  BY <1>1, <1>2, <1>5 DEF SchemaInv

\* The step the exception of RecordedIsApplied comes from: of a schema that has
\* what inferLegacyPrefix looks at, only what it does not look at may be missing.
LEMMA InferKeeps == SchemaInv /\ BaselineInfer => SchemaInv'
<1>. SUFFICES ASSUME SchemaInv, BaselineInfer PROVE SchemaInv'
  OBVIOUS
<1>. USE DEF BaselineInfer
<1>1. Prefix \in 0..4
  BY DEF Prefix
<1>2. SchemaTypeOK' /\ RecordedIsApplied' /\ TornFromTheStart'
  BY <1>1 DEF SchemaInv, SchemaTypeOK, RecordedIsApplied, TornFromTheStart, Torn
<1>3. ASSUME NEW k \in 1..Prefix, NEW d \in Creates[k] \ objects
      PROVE  d \in legacy.torn
  <2>1. {"users", "audit_logs"} \subseteq objects
    BY DEF Prefix
  <2>2. k \in 1..4
    BY <1>1
  <2>3. CASE k = 1
    <3>1. d = "foreign_keys" /\ "users" \in objects \intersect Creates[1]
      BY <2>1, <2>3 DEF Creates
    <3>. QED
      BY <3>1, <2>3 DEF SchemaInv, TornFromTheStart, Torn, Unseen
  <2>4. CASE k = 2
    <3>1. "identity_outbox" \in objects
      BY <2>1, <2>4 DEF Prefix
    <3>2. d = "outbox_indexes" /\ "identity_outbox" \in Creates[2]
      BY <3>1, <2>4 DEF Creates
    <3>. QED
      BY <3>1, <3>2, <2>4 DEF SchemaInv, TornFromTheStart, Torn, Unseen
  <2>5. CASE k = 3
    <3>1. "role" \in objects /\ "profession" \in objects
      BY <2>1, <2>5 DEF Prefix, Inconsistent
    <3>. QED
      BY <3>1, <2>5 DEF Creates
  <2>6. CASE k = 4
    <3>1. "role" \in objects /\ "schema_version" \in objects
      BY <2>1, <2>6 DEF Prefix
    <3>2. "actor_columns" \in objects
      BY <2>1, <3>1 DEF Inconsistent
    <3>. QED
      BY <3>1, <3>2, <2>6 DEF Creates
  <2>. QED
    BY <2>2, <2>3, <2>4, <2>5, <2>6
<1>4. BaselineIsApplied'
  BY <1>3 DEF BaselineIsApplied
<1>. QED
  BY <1>2, <1>4 DEF SchemaInv

LEMMA CommitKeeps == SchemaInv /\ BaselineCommit => SchemaInv'
<1>. SUFFICES ASSUME SchemaInv, BaselineCommit PROVE SchemaInv'
  OBVIOUS
<1>1. SchemaTypeOK'
  BY DEF SchemaInv, SchemaTypeOK, BaselineCommit, Migration
<1>2. RecordedIsApplied'
  BY DEF SchemaInv, RecordedIsApplied, BaselineIsApplied, BaselineCommit
<1>3. BaselineIsApplied' /\ TornFromTheStart'
  BY DEF SchemaInv, BaselineIsApplied, TornFromTheStart, Torn, BaselineCommit
<1>. QED
  BY <1>1, <1>2, <1>3 DEF SchemaInv

\* The transaction of a migrator: no schema is torn by it, for whatever it adds to a
\* migration it adds with all the rest of that migration.
LEMMA RunKeeps ==
    ASSUME SchemaInv, NEW s \in Servers, MigrateRun(s)
    PROVE  SchemaInv'
<1>. USE DEF MigrateRun
<1>1. Pending(s) \subseteq Migration
  BY DEF SchemaInv, SchemaTypeOK, Server, Pending, Migration
<1>2. SchemaTypeOK'
  BY <1>1, ObjectsType DEF SchemaInv, SchemaTypeOK, Server
<1>3. \A k \in Pending(s) : Creates[k] \subseteq objects'
  BY DEF CreatedBy
<1>4. RecordedIsApplied'
  BY <1>3 DEF SchemaInv, RecordedIsApplied
<1>5. BaselineIsApplied'
  BY MoreObjects
<1>6. ASSUME NEW d \in Torn(objects') PROVE d \in Torn(objects)
  <2>1. PICK k \in 1..2 : d \in Creates[k] /\ objects' \intersect Creates[k] # {}
    BY <1>6 DEF Torn
  <2>2. d \in Unseen \ objects' /\ d \notin objects /\ k \in Migration
    BY <1>6 DEF Torn, Migration
  <2>3. PICK e : e \in objects' /\ e \in Creates[k]
    BY <2>1
  <2>4. e \in objects
    <3>. SUFFICES ASSUME e \notin objects PROVE FALSE
      OBVIOUS
    <3>1. PICK j \in Pending(s) : e \in Creates[j]
      BY <2>3 DEF CreatedBy
    <3>2. j = k
      BY <1>1, <2>2, <2>3, <3>1, CreatesApart
    <3>. QED
      BY <1>3, <2>1, <2>2, <3>2
  <2>. QED
    BY <2>1, <2>2, <2>3, <2>4 DEF Torn
<1>7. TornFromTheStart'
  BY <1>6 DEF SchemaInv, TornFromTheStart
<1>. QED
  BY <1>2, <1>4, <1>5, <1>7 DEF SchemaInv

\* A step that leaves the schema and its records alone: containers may be anywhere.
LEMMA ServersKeep ==
    ASSUME SchemaInv, UNCHANGED <<objects, journal, legacy>>,
           baseline' \in {0, baseline}, server' \in [Servers -> Server]
    PROVE  SchemaInv'
<1>1. SchemaTypeOK' /\ RecordedIsApplied' /\ TornFromTheStart'
  BY DEF SchemaInv, SchemaTypeOK, RecordedIsApplied, TornFromTheStart, Torn
<1>2. BaselineIsApplied'
  BY DEF SchemaInv, BaselineIsApplied
<1>. QED
  BY <1>1, <1>2 DEF SchemaInv

LEMMA SchemaKeeps == SchemaInv /\ SchemaNext => SchemaInv'
<1>. SUFFICES ASSUME SchemaInv, SchemaNext PROVE SchemaInv'
  OBVIOUS
<1>t. server \in [Servers -> Server] /\ journal \subseteq Migration
  BY DEF SchemaInv, SchemaTypeOK
<1>1. CASE Bootstrap
  BY <1>1, BootstrapKeeps
<1>2. CASE BaselineInfer
  BY <1>2, InferKeeps
<1>3. CASE BaselineCommit
  BY <1>3, CommitKeeps
<1>4. CASE BaselineAbort
  BY <1>4, <1>t, ServersKeep DEF BaselineAbort
<1>5. ASSUME NEW s \in Servers, MigrateRead(s) PROVE SchemaInv'
  <2>1. [pc |-> "migrating", last |-> Last] \in Server
    BY <1>t, LastType DEF Server
  <2>. QED
    BY <1>5, <1>t, <2>1, ServersKeep DEF MigrateRead
<1>6. ASSUME NEW s \in Servers, MigrateRun(s) PROVE SchemaInv'
  BY <1>6, RunKeeps
<1>7. ASSUME NEW s \in Servers, MigrateFail(s) PROVE SchemaInv'
  BY <1>7, <1>t, ServersKeep DEF MigrateFail, Server
<1>. QED
  BY <1>1, <1>2, <1>3, <1>4, <1>5, <1>6, <1>7 DEF SchemaNext

(* and by every step of AuditTrail. *)

LEMMA NextKeepsSchema == SchemaInv /\ [Next]_vars => SchemaInv'
<1>. SUFFICES ASSUME SchemaInv, [Next]_vars PROVE SchemaInv'
  OBVIOUS
<1>t. server \in [Servers -> Server]
  BY DEF SchemaInv, SchemaTypeOK
<1>0. ASSUME UNCHANGED schemaVars PROVE SchemaInv'
  BY <1>0, <1>t, ServersKeep DEF schemaVars
<1>1. CASE Schema
  BY <1>1, SchemaKeeps DEF Schema
<1>2. ASSUME NEW o \in Ops,
             \/ Begin(o) \/ Insert(o) \/ Publish(o)
             \/ Commit(o) \/ Abort(o) \/ Change(o) \/ InsertAfter(o)
      PROVE  SchemaInv'
  BY <1>0, <1>2 DEF Begin, Insert, Publish, Commit, Abort, Change, InsertAfter
<1>3. ASSUME NEW s \in Servers, EnsureStart(s) PROVE SchemaInv'
  BY <1>3, <1>t, ServersKeep DEF EnsureStart, Server
<1>4. ASSUME NEW s \in Servers, EnsureAsk(s) PROVE SchemaInv'
  BY <1>0, <1>4 DEF EnsureAsk
<1>5. ASSUME NEW s \in Servers, EnsurePartition(s) PROVE SchemaInv'
  BY <1>5, <1>t, ServersKeep DEF EnsurePartition, Server
<1>6. ASSUME NEW s \in Servers, EnsureFail(s) PROVE SchemaInv'
  BY <1>6, <1>t, ServersKeep DEF EnsureFail, Server
<1>7. ASSUME NEW s \in Servers, Crash(s) PROVE SchemaInv'
  BY <1>7, <1>t, ServersKeep DEF Crash, Server
<1>8. CASE ConvertStart \/ ConvertRename \/ ConvertCommit \/ ConvertFail
  BY <1>0, <1>8 DEF ConvertStart, ConvertRename, ConvertCommit, ConvertFail
<1>9. CASE Tick \/ RedisLost \/ RedisBack
  BY <1>0, <1>9 DEF Tick, RedisLost, RedisBack
<1>10. CASE UNCHANGED vars
  BY <1>0, <1>10 DEF vars
<1>. QED
  BY <1>1, <1>2, <1>3, <1>4, <1>5, <1>6, <1>7, <1>8, <1>9, <1>10 DEF Next

\* The schema, its records and its torn parts, for any number of containers and
\* from whatever legacy schema: the invariant of Migrations.
THEOREM SchemaInvariant == Spec => []SchemaInv
<1>1. Init => SchemaInv
  BY InitSchema DEF Init
<1>2. SchemaInv /\ [Next]_vars => SchemaInv'
  BY NextKeepsSchema
<1>. QED
  BY <1>1, <1>2, PTL DEF Spec

\* What is recorded as applied has been applied whole, unless the schema was torn
\* before any of the scripts saw it: baselines and migrators never skip a migration.
THEOREM NothingIsSkipped == Spec => []RecordedIsApplied
<1>1. SchemaInv => RecordedIsApplied
  BY DEF SchemaInv
<1>. QED
  BY <1>1, SchemaInvariant, PTL

-----------------------------------------------------------------------------
(* A sound schema is never stuck *)

\* The schema is that of the first k migrations; bootstrap may have been there.
Level(k) ==
    /\ objects \ {"schema_version"} = CreatedBy(1..k) \ {"schema_version"}
    /\ k >= 4 => "schema_version" \in objects

\* A schema that was sound is at some level, and recorded up to there or not at
\* all; and a migrator has read what is recorded now, or what was before.
CleanAt(k) ==
    /\ Level(k) /\ k \in 0..4 \union {9}
    /\ \/ journal = {} /\ k \in 0..4 /\ baseline \in {0, k}
       \/ journal = 1..k /\ baseline = 0
    /\ \A s \in Servers : server[s].pc = "migrating" =>
          /\ server[s].last \in {0, k} \union (IF k = 9 THEN 0..4 ELSE {})
          /\ journal = {} => server[s].last = 0

CleanInv == legacy.clean => \E k \in 0..9 : CleanAt(k)

\* What is there at a level: all that the migrations up to it make, and none of the
\* rest but schema_version.
LEMMA AtLevel ==
    ASSUME NEW k \in 0..9, Level(k), NEW j \in Migration, NEW d \in Creates[j],
           d # "schema_version"
    PROVE  d \in objects <=> j <= k
<1>1. d \in objects <=> d \in CreatedBy(1..k)
  BY DEF Level
<1>2. j <= k => d \in CreatedBy(1..k)
  BY DEF CreatedBy, Migration
<1>3. ASSUME d \in CreatedBy(1..k) PROVE j <= k
  <2>1. PICK i \in 1..k : d \in Creates[i]
    BY <1>3 DEF CreatedBy
  <2>2. i = j
    BY <2>1, CreatesApart DEF Migration
  <2>. QED
    BY <2>2
<1>. QED
  BY <1>1, <1>2, <1>3

\* The migrations above the level meet nothing that is there,
LEMMA NoConflictAbove ==
    ASSUME NEW k \in 0..9, Level(k)
    PROVE  ~Conflict((k + 1)..9)
<1>. SUFFICES ASSUME NEW d \in CreatedBy((k + 1)..9) \intersect objects, d \notin Guarded
              PROVE  FALSE
  BY DEF Conflict
<1>1. PICK j \in (k + 1)..9 : d \in Creates[j]
  BY DEF CreatedBy
<1>2. d # "schema_version"
  BY DEF Guarded
<1>3. j \in Migration /\ j > k /\ d \in objects
  BY DEF Migration
<1>4. d \in objects <=> j <= k
  BY <1>1, <1>2, <1>3, AtLevel
<1>. QED
  BY <1>3, <1>4

\* and one that is below it does, if it is not guarded.
LEMMA ConflictBelow ==
    ASSUME NEW k \in 0..9, Level(k), NEW j \in Migration, j <= k,
           NEW d \in Creates[j] \ Guarded, NEW steps, j \in steps
    PROVE  Conflict(steps)
<1>1. d # "schema_version"
  BY DEF Guarded
<1>2. d \in objects
  BY <1>1, AtLevel
<1>3. d \in CreatedBy(steps)
  BY DEF CreatedBy
<1>. QED
  BY <1>2, <1>3 DEF Conflict

\* The last migration recorded, at a level.
LEMMA LastAt ==
    ASSUME NEW k \in 0..9
    PROVE  /\ journal = {} => Last = 0
           /\ journal = 1..k => Last = k
<1>1. ASSUME journal = {} PROVE Last = 0
  BY <1>1 DEF Last, Max
<1>2. ASSUME journal = 1..k PROVE Last = k
  <2>1. journal \union {0} = 0..k
    BY <1>2
  <2>2. k \in 0..k /\ \A y \in 0..k : k >= y
    OBVIOUS
  <2>3. \A x \in 0..k : (\A y \in 0..k : x >= y) => x = k
    BY <2>2
  <2>. QED
    BY <2>1, <2>2, <2>3 DEF Last, Max
<1>. QED
  BY <1>1, <1>2

LEMMA InitClean == SchemaInit => CleanInv
<1>. SUFFICES ASSUME SchemaInit, legacy.clean PROVE \E k \in 0..9 : CleanAt(k)
  BY DEF CleanInv
<1>1. PICK k \in 0..4 : objects \in {CreatedBy(1..k), CreatedBy(1..k) \union {"schema_version"}}
  BY DEF SchemaInit, CleanLegacies, CleanPrefixes
<1>2. "schema_version" \in CreatedBy(1..4)
  BY DEF CreatedBy, Creates
<1>3. Level(k)
  <2>1. objects \ {"schema_version"} = CreatedBy(1..k) \ {"schema_version"}
    BY <1>1
  <2>2. CASE k = 4
    BY <1>1, <1>2, <2>1, <2>2 DEF Level
  <2>3. CASE k \in 0..3
    BY <2>1, <2>3 DEF Level
  <2>. QED
    BY <2>2, <2>3
<1>4. \A s \in Servers : server[s].pc # "migrating"
  BY DEF SchemaInit
<1>. QED
  BY <1>3, <1>4 DEF CleanAt, SchemaInit

\* The level depends on the objects alone.
LEMMA LevelKeeps ==
    ASSUME NEW k \in 0..9, Level(k), objects' \in {objects, objects \union {"schema_version"}}
    PROVE  Level(k)'
  BY DEF Level

\* Steps that make no object but schema_version and record nothing.
LEMMA QuietClean ==
    ASSUME CleanInv, objects' \in {objects, objects \union {"schema_version"}},
           UNCHANGED <<journal, legacy>>, baseline' \in {0, baseline},
           \A s \in Servers : server'[s].pc = "migrating" => server'[s] = server[s]
    PROVE  CleanInv'
<1>. SUFFICES ASSUME legacy.clean PROVE \E k \in 0..9 : CleanAt(k)'
  BY DEF CleanInv
<1>1. PICK k \in 0..9 : CleanAt(k)
  BY DEF CleanInv
<1>2. Level(k)'
  BY <1>1, LevelKeeps DEF CleanAt
<1>. QED
  BY <1>1, <1>2 DEF CleanAt

LEMMA InferClean == CleanInv /\ BaselineInfer => CleanInv'
<1>. SUFFICES ASSUME CleanInv, BaselineInfer, legacy.clean
              PROVE  \E k \in 0..9 : CleanAt(k)'
  BY DEF CleanInv, BaselineInfer
<1>1. PICK k \in 0..9 : CleanAt(k)
  BY DEF CleanInv
<1>2. Level(k) /\ k \in 0..4
  BY <1>1 DEF CleanAt, BaselineInfer
<1>3. /\ "users" \in Creates[1] /\ "identity_outbox" \in Creates[2]
      /\ "role" \in Creates[3] /\ "actor_columns" \in Creates[4]
  BY DEF Creates
<1>4. /\ "users" \in objects <=> 1 <= k
      /\ "identity_outbox" \in objects <=> 2 <= k
      /\ "role" \in objects <=> 3 <= k
      /\ "actor_columns" \in objects <=> 4 <= k
  BY <1>2, <1>3, AtLevel DEF Migration
<1>5. k >= 4 => "schema_version" \in objects
  BY <1>2 DEF Level
<1>6. Prefix = k
  BY <1>2, <1>4, <1>5 DEF BaselineInfer, Prefix, Inconsistent
<1>7. Level(k)'
  BY <1>2 DEF Level, BaselineInfer
<1>. QED
  BY <1>1, <1>2, <1>6, <1>7 DEF CleanAt, BaselineInfer

LEMMA CommitClean == CleanInv /\ BaselineCommit => CleanInv'
<1>. SUFFICES ASSUME CleanInv, BaselineCommit, legacy.clean
              PROVE  \E k \in 0..9 : CleanAt(k)'
  BY DEF CleanInv, BaselineCommit
<1>1. PICK k \in 0..9 : CleanAt(k)
  BY DEF CleanInv
<1>2. journal = {} /\ baseline = k /\ k \in 1..4
  BY <1>1 DEF CleanAt, BaselineCommit
<1>3. journal' = 1..k /\ baseline' = 0
  BY <1>2 DEF BaselineCommit
<1>4. 1 \in 1..k
  BY <1>2
<1>5. Level(k)'
  BY <1>1 DEF CleanAt, Level, BaselineCommit
<1>. QED
  BY <1>1, <1>3, <1>4, <1>5 DEF CleanAt, BaselineCommit

LEMMA ReadClean ==
    ASSUME CleanInv, NEW s \in Servers, server \in [Servers -> Server], MigrateRead(s)
    PROVE  CleanInv'
<1>. SUFFICES ASSUME legacy.clean PROVE \E k \in 0..9 : CleanAt(k)'
  BY DEF CleanInv, MigrateRead
<1>1. PICK k \in 0..9 : CleanAt(k)
  BY DEF CleanInv
<1>2. Last \in {0, k} /\ (journal = {} => Last = 0)
  BY <1>1, LastAt DEF CleanAt
<1>3. Level(k)'
  BY <1>1 DEF CleanAt, Level, MigrateRead
<1>. QED
  BY <1>1, <1>2, <1>3 DEF CleanAt, MigrateRead

\* A migrator that has read less than what is recorded by now, or than what is there,
\* meets "users" or "email_outbox" and fails; any other brings the schema to the end.
LEMMA RunClean ==
    ASSUME CleanInv, NEW s \in Servers, server \in [Servers -> Server], MigrateRun(s)
    PROVE  CleanInv'
<1>. SUFFICES ASSUME legacy.clean PROVE CleanAt(9)'
  BY DEF CleanInv, MigrateRun
<1>1. PICK k \in 0..9 : CleanAt(k)
  BY DEF CleanInv
<1>. DEFINE last == server[s].last
<1>2. Level(k) /\ last \in 0..9
  BY <1>1 DEF CleanAt, MigrateRun
<1>3. "users" \in Creates[1] \ Guarded /\ "email_outbox" \in Creates[5] \ Guarded
  BY DEF Creates, Guarded
<1>4. last = k
  <2>1. CASE last = 0 /\ k # 0
    <3>1. 1 \in Pending(s) /\ 1 \in Migration /\ 1 <= k
      BY <2>1 DEF Pending, Migration
    <3>2. Conflict(Pending(s))
      BY <1>2, <1>3, <3>1, ConflictBelow
    <3>. QED
      BY <3>2 DEF MigrateRun
  <2>2. CASE k = 9 /\ last \in 0..4
    <3>1. 5 \in Pending(s) /\ 5 \in Migration /\ 5 <= k
      BY <2>2 DEF Pending, Migration
    <3>2. Conflict(Pending(s))
      BY <1>2, <1>3, <3>1, ConflictBelow
    <3>. QED
      BY <3>2 DEF MigrateRun
  <2>. QED
    BY <1>1, <2>1, <2>2 DEF CleanAt, MigrateRun
<1>5. Pending(s) = (k + 1)..9
  BY <1>4 DEF Pending
<1>6. journal' = 1..9 /\ baseline' = 0
  BY <1>1, <1>4, <1>5 DEF CleanAt, MigrateRun
<1>7. CreatedBy(1..9) = CreatedBy(1..k) \union CreatedBy((k + 1)..9)
  BY DEF CreatedBy
<1>8. Level(9)'
  <2>1. objects' = objects \union CreatedBy((k + 1)..9)
    BY <1>5 DEF MigrateRun
  <2>2. "schema_version" \in CreatedBy(4..4) /\ (k < 4 => CreatedBy(4..4) \subseteq CreatedBy((k + 1)..9))
    BY DEF CreatedBy, Creates
  <2>3. "schema_version" \in objects'
    BY <1>2, <2>1, <2>2 DEF Level
  <2>4. objects' \ {"schema_version"} = CreatedBy(1..9) \ {"schema_version"}
    BY <1>2, <1>7, <2>1 DEF Level
  <2>. QED
    BY <2>3, <2>4 DEF Level
<1>9. \A r \in Servers : server'[r].pc = "migrating" => server'[r] = server[r]
  BY DEF MigrateRun
<1>10. \A r \in Servers : server[r].pc = "migrating" => server[r].last \in 0..4 \union {9}
  BY <1>1 DEF CleanAt
<1>. QED
  BY <1>6, <1>8, <1>9, <1>10 DEF CleanAt

LEMMA SchemaClean ==
    ASSUME CleanInv, server \in [Servers -> Server], SchemaNext
    PROVE  CleanInv'
<1>1. CASE Bootstrap
  BY <1>1, QuietClean DEF Bootstrap
<1>2. CASE BaselineInfer
  BY <1>2, InferClean
<1>3. CASE BaselineCommit
  BY <1>3, CommitClean
<1>4. CASE BaselineAbort
  BY <1>4, QuietClean DEF BaselineAbort
<1>5. ASSUME NEW s \in Servers, MigrateRead(s) PROVE CleanInv'
  BY <1>5, ReadClean
<1>6. ASSUME NEW s \in Servers, MigrateRun(s) PROVE CleanInv'
  BY <1>6, RunClean
<1>7. ASSUME NEW s \in Servers, MigrateFail(s) PROVE CleanInv'
  <2>1. \A r \in Servers : server'[r].pc = "migrating" => server'[r] = server[r]
    BY <1>7 DEF MigrateFail
  <2>. QED
    BY <1>7, <2>1, QuietClean DEF MigrateFail
<1>. QED
  BY <1>1, <1>2, <1>3, <1>4, <1>5, <1>6, <1>7 DEF SchemaNext

LEMMA NextKeepsClean == SchemaInv /\ CleanInv /\ [Next]_vars => CleanInv'
<1>. SUFFICES ASSUME SchemaInv, CleanInv, [Next]_vars PROVE CleanInv'
  OBVIOUS
<1>t. server \in [Servers -> Server]
  BY DEF SchemaInv, SchemaTypeOK
<1>0. ASSUME UNCHANGED <<objects, journal, baseline, legacy>>,
             \A s \in Servers : server'[s].pc = "migrating" => server'[s] = server[s]
      PROVE  CleanInv'
  BY <1>0, QuietClean
<1>u. ASSUME UNCHANGED schemaVars PROVE CleanInv'
  BY <1>0, <1>u DEF schemaVars
<1>s. ASSUME UNCHANGED <<objects, journal, baseline, legacy>>, NEW s \in Servers,
             NEW pc, pc # "migrating", server' = [server EXCEPT ![s].pc = pc]
      PROVE  CleanInv'
  <2>1. \A r \in Servers : server'[r].pc = "migrating" => server'[r] = server[r]
    BY <1>s, <1>t DEF Server
  <2>. QED
    BY <1>0, <1>s, <2>1
<1>1. CASE Schema
  BY <1>1, <1>t, SchemaClean DEF Schema
<1>2. ASSUME NEW o \in Ops,
             \/ Begin(o) \/ Insert(o) \/ Publish(o)
             \/ Commit(o) \/ Abort(o) \/ Change(o) \/ InsertAfter(o)
      PROVE  CleanInv'
  BY <1>u, <1>2 DEF Begin, Insert, Publish, Commit, Abort, Change, InsertAfter
<1>3. ASSUME NEW s \in Servers, EnsureStart(s) PROVE CleanInv'
  BY <1>3, <1>s DEF EnsureStart
<1>4. ASSUME NEW s \in Servers, EnsureAsk(s) PROVE CleanInv'
  BY <1>u, <1>4 DEF EnsureAsk
<1>5. ASSUME NEW s \in Servers, EnsurePartition(s) PROVE CleanInv'
  BY <1>5, <1>0, <1>s DEF EnsurePartition
<1>6. ASSUME NEW s \in Servers, EnsureFail(s) PROVE CleanInv'
  BY <1>6, <1>s DEF EnsureFail
<1>7. ASSUME NEW s \in Servers, Crash(s) PROVE CleanInv'
  BY <1>7, <1>s DEF Crash
<1>8. CASE ConvertStart \/ ConvertRename \/ ConvertCommit \/ ConvertFail
  BY <1>u, <1>8 DEF ConvertStart, ConvertRename, ConvertCommit, ConvertFail
<1>9. CASE Tick \/ RedisLost \/ RedisBack
  BY <1>u, <1>9 DEF Tick, RedisLost, RedisBack
<1>10. CASE UNCHANGED vars
  BY <1>u, <1>10 DEF vars
<1>. QED
  BY <1>1, <1>2, <1>3, <1>4, <1>5, <1>6, <1>7, <1>8, <1>9, <1>10 DEF Next

\* At a level, a migrator has nothing but what is above it to do.
LEMMA LevelsMigrate ==
    ASSUME NEW k \in 0..9, CleanAt(k)
    PROVE  CanMigrate \/ BootstrapSpoiltBaseline
<1>1. Level(k) /\ ~Conflict((k + 1)..9)
  BY NoConflictAbove DEF CleanAt
<1>2. /\ "users" \in Creates[1] /\ "audit_logs" \in Creates[1]
      /\ "identity_outbox" \in Creates[2] /\ "role" \in Creates[3]
      /\ "profession" \in Creates[3] /\ "actor_columns" \in Creates[4]
  BY DEF Creates
<1>3. /\ "users" \in objects <=> 1 <= k
      /\ "audit_logs" \in objects <=> 1 <= k
      /\ "identity_outbox" \in objects <=> 2 <= k
      /\ "role" \in objects <=> 3 <= k
      /\ "profession" \in objects <=> 3 <= k
      /\ "actor_columns" \in objects <=> 4 <= k
  <2>. DEFINE At(j, d) == d \in Creates[j] => (d \in objects <=> j <= k)
  <2>1. ASSUME NEW j \in Migration, NEW d, d # "schema_version" PROVE At(j, d)
    BY <1>1, <2>1, AtLevel
  <2>2. {1, 2, 3, 4} \subseteq Migration
    BY DEF Migration
  <2>3. At(1, "users") /\ At(1, "audit_logs") /\ At(2, "identity_outbox")
    BY <2>1, <2>2
  <2>4. At(3, "role") /\ At(3, "profession") /\ At(4, "actor_columns")
    BY <2>1, <2>2
  <2>. QED
    BY <1>2, <2>3, <2>4
<1>4. k >= 4 => "schema_version" \in objects
  BY <1>1 DEF Level
<1>5. CASE journal = 1..k
  <2>1. Last = k
    BY <1>5, LastAt
  <2>2. CASE k = 0
    <3>1. \A d \in Creates[1] : d # "schema_version"
      BY DEF Creates
    <3>2. objects \intersect Creates[1] = {}
      BY <1>1, <2>2, <3>1, AtLevel DEF Migration
    <3>. QED
      BY <1>1, <2>1, <3>2 DEF CanMigrate
  <2>3. CASE k # 0
    <3>1. 1 \in journal
      BY <1>5, <2>3
    <3>. QED
      BY <1>1, <2>1, <3>1 DEF CanMigrate
  <2>. QED
    BY <2>2, <2>3
<1>6. CASE journal = {} /\ k \in 1..4 /\ ~BootstrapSpoiltBaseline
  <2>1. objects \intersect Creates[1] # {}
    BY <1>2, <1>3, <1>6
  <2>2. ~Inconsistent
    BY <1>3, <1>4, <1>6 DEF Inconsistent, BootstrapSpoiltBaseline
  <2>3. Prefix = k
    BY <1>3, <1>4, <1>6 DEF Prefix, BootstrapSpoiltBaseline
  <2>. QED
    BY <1>1, <1>6, <2>1, <2>2, <2>3 DEF CanMigrate
<1>7. journal = {} /\ k = 0 => journal = 1..k
  OBVIOUS
<1>. QED
  BY <1>5, <1>6, <1>7 DEF CleanAt

\* A schema that was sound stays at a level, and so the next migrator brings it up,
\* whatever the baselines, the containers and their ends before it: unless
\* bootstrap came before the baseline of three migrations.
THEOREM SoundSchemaLives == Spec => []SoundSchemaIsNeverStuck
<1>1. Init => CleanInv
  BY InitClean DEF Init
<1>2. SchemaInv /\ CleanInv /\ [Next]_vars => CleanInv'
  BY NextKeepsClean
<1>3. CleanInv => SoundSchemaIsNeverStuck
  BY LevelsMigrate DEF CleanInv, SoundSchemaIsNeverStuck
<1>. QED
  BY <1>1, <1>2, <1>3, SchemaInvariant, PTL DEF Spec

-----------------------------------------------------------------------------
(* The trail, the lock of its table and the partitions *)

\* Rows, requests and servers are of months that have been.
MonthsPass ==
    /\ \A r \in rows : r.month <= month
    /\ \A o \in Ops : op[o].month <= month
    /\ \A s \in Servers : ensure[s].base <= month

\* A server looks after the partitions of a partitioned table, and only while it
\* starts.
EnsuringServers ==
    \A s \in Servers :
        /\ server[s].pc # "ensuring" => ensure[s] = NotEnsuring
        /\ kind = "plain" => server[s].pc # "ensuring"

\* A partitioned table has partitions for its rows, from this month to the
\* horizon, and those of these that a starting server has got to.
Tabled ==
    IF kind = "plain" THEN horizon = -1
    ELSE /\ RowMonths \union month..horizon \subseteq parts
         /\ \A s \in Servers :
               month..(ensure[s].base + ensure[s].made - 1) \subseteq parts

\* The table is not renamed under a row that is not committed yet.
WritersHoldTheTable ==
    \A o \in Writing : ~conv.renamed /\ HasPartition(op[o].month)

\* A request has changed nothing before it commits, and has no row before it
\* writes it.
OneRowEach ==
    \A o \in Ops :
        /\ op[o].pc \in {"idle", "open", "wrote", "told"} => o \notin changes
        /\ op[o].pc = "changed" => o \in changes /\ ~Rowed(o)

\* The inductive invariant.
TrailInv ==
    /\ TypeOK /\ conv.waiting <= conv.begun
    /\ MonthsPass /\ EnsuringServers /\ Tabled /\ WritersHoldTheTable
    /\ OneRowEach /\ TrailIsComplete

\* Months have a first and a last one.
LEMMA Least ==
    ASSUME NEW S \in SUBSET Nat, S # {}
    PROVE  \E x \in S : \A y \in S : x <= y
<1>. DEFINE R == {ss \in Nat \X Nat : ss[1] < ss[2]}
<1>1. IsWellFoundedOn(R, Nat)
  BY NatLessThanWellFounded DEF OpToRel
<1>2. \A x, y \in Nat : y < x => <<y, x>> \in R
  OBVIOUS
<1>. HIDE DEF R
<1>3. PICK x \in S : \A y \in S : <<y, x>> \notin R
  BY <1>1, WFMin
<1>4. ASSUME NEW y \in S PROVE x <= y
  <2>1. ~(y < x)
    BY <1>2, <1>3
  <2>. QED
    BY <2>1
<1>. QED
  BY <1>4

LEMMA MinMonth ==
    ASSUME NEW S \in SUBSET Nat, S # {}
    PROVE  Min(S) \in S /\ \A y \in S : Min(S) <= y
<1>1. \E x \in S : \A y \in S : x =< y
  BY Least
<1>. QED
  BY <1>1 DEF Min

LEMMA MaxMonthOf ==
    ASSUME NEW n \in Nat, NEW S \in SUBSET (0..n), S # {}
    PROVE  Max(S) \in S /\ \A y \in S : Max(S) >= y
<1>. DEFINE T == {n - x : x \in S}
<1>1. T \in SUBSET Nat /\ T # {}
  <2>1. \A x \in S : n - x \in Nat
    OBVIOUS
  <2>. QED
    BY <2>1
<1>2. PICK m \in T : \A y \in T : m <= y
  BY <1>1, Least
<1>3. PICK x \in S : m = n - x
  BY <1>2
<1>4. \A y \in S : n - y \in T
  OBVIOUS
<1>5. \A y \in S : x >= y
  <2>. SUFFICES ASSUME NEW y \in S PROVE x >= y
    OBVIOUS
  <2>1. m <= n - y
    BY <1>2, <1>4
  <2>. QED
    BY <1>3, <2>1
<1>. QED
  BY <1>5 DEF Max

\* The later of two months.
LEMMA MaxOfTwo ==
    ASSUME NEW a \in Int, NEW b \in Int
    PROVE  Max({a, b}) = IF a >= b THEN a ELSE b
<1>. DEFINE c == IF a >= b THEN a ELSE b
<1>1. c \in {a, b} /\ \A y \in {a, b} : c >= y
  OBVIOUS
<1>2. \A x \in {a, b} : (\A y \in {a, b} : x >= y) => x = c
  OBVIOUS
<1>. HIDE DEF c
<1>3. Max({a, b}) = c
  BY <1>1, <1>2 DEF Max
<1>. QED
  BY <1>3 DEF c

LEMMA InitTrail == Init => TrailInv
<1>. SUFFICES ASSUME Init PROVE TrailInv
  OBVIOUS
<1>1. PICK old \in SUBSET Ops :
         /\ rows = {[op |-> o, month |-> 0] : o \in old}
         /\ op = [o \in Ops |-> IF o \in old THEN [Idle EXCEPT !.pc = "done"] ELSE Idle]
         /\ changes = old
  BY DEF Init
<1>2. 0 \in Months /\ -1 \notin 0..month
  BY AuditAssumption DEF Months, Init
<1>3. SchemaTypeOK
  BY InitSchema DEF Init, SchemaInv
<1>4. Idle \in Op /\ [Idle EXCEPT !.pc = "done"] \in Op /\ NotEnsuring \in Ensure
  BY <1>2, AuditAssumption DEF Idle, Op, NotEnsuring, Ensure
<1>5. rows \subseteq Row
  BY <1>1, <1>2 DEF Row
<1>6. op \in [Ops -> Op]
  BY <1>1, <1>4
<1>7. TypeOK
  BY <1>1, <1>2, <1>3, <1>4, <1>5, <1>6, AuditAssumption DEF Init, TypeOK
<1>8. \A o \in Ops : op[o].month = 0 /\ op[o].pc = IF o \in old THEN "done" ELSE "idle"
  BY <1>1 DEF Idle
<1>9. MonthsPass /\ EnsuringServers /\ Tabled /\ WritersHoldTheTable
  <2>1. MonthsPass
    BY <1>1, <1>8 DEF Init, MonthsPass, NotEnsuring
  <2>2. EnsuringServers /\ Tabled
    BY DEF Init, SchemaInit, EnsuringServers, Tabled
  <2>3. WritersHoldTheTable
    BY <1>8 DEF WritersHoldTheTable, Writing
  <2>. QED
    BY <2>1, <2>2, <2>3
<1>10. ASSUME NEW o \in old PROVE Rowed(o)
  <2>. DEFINE r == [op |-> o, month |-> 0]
  <2>1. r \in rows /\ r.op = o
    BY <1>1
  <2>. QED
    BY <2>1 DEF Rowed
<1>11. OneRowEach
  BY <1>1, <1>8 DEF OneRowEach
<1>r. \A r \in rows : r.op \in old /\ r = [op |-> r.op, month |-> 0]
  BY <1>1
<1>t. TrailIsComplete
  BY <1>1, <1>8, <1>10, <1>r DEF TrailIsComplete
<1>12. conv.waiting <= conv.begun
  BY DEF Init
<1>. QED
  BY <1>7, <1>9, <1>11, <1>t, <1>12 DEF TrailInv

\* A request goes on in its transaction, or the transaction ends without effect.
LEMMA TransactionTrail ==
    ASSUME TrailInv, NEW o \in Ops, NEW x \in Op, op' = [op EXCEPT ![o] = x],
           UNCHANGED <<schemaVars, month, redis, kind, parts, rows, ensure, conv,
                       changes, horizon>>,
           op[o].pc \in {"idle", "open", "wrote", "told"} \/ x.pc = "failed",
           x.pc \in {"open", "wrote", "told", "failed"}, x.month <= month,
           x.pc \in {"wrote", "told"} => ~conv.renamed /\ HasPartition(x.month)
    PROVE  TrailInv'
<1>. USE DEF TrailInv
<1>1. op \in [Ops -> Op] /\ op' \in [Ops -> Op]
  BY DEF TypeOK
<1>2. \A q \in Ops : op'[q] = IF q = o THEN x ELSE op[q]
  BY <1>1
<1>3. TypeOK'
  BY <1>1 DEF TypeOK, SchemaTypeOK, schemaVars
<1>4. MonthsPass'
  BY <1>2 DEF MonthsPass
<1>5. EnsuringServers' /\ Tabled'
  BY DEF EnsuringServers, Tabled, RowMonths, schemaVars
<1>6. WritersHoldTheTable'
  BY <1>2 DEF WritersHoldTheTable, Writing, HasPartition
<1>7. \A q : Rowed(q)' <=> Rowed(q)
  BY DEF Rowed
<1>8. OneRowEach'
  BY <1>2, <1>7 DEF OneRowEach
<1>9. TrailIsComplete'
  BY <1>2, <1>7 DEF TrailIsComplete, OneRowEach
<1>. QED
  BY <1>3, <1>4, <1>5, <1>6, <1>8, <1>9

LEMMA RequestTrail ==
    ASSUME TrailInv, NEW o \in Ops, Begin(o) \/ Insert(o) \/ Publish(o) \/ Abort(o)
    PROVE  TrailInv'
<1>1. op \in [Ops -> Op] /\ month \in Months /\ 0 \in Months /\ 0 <= month
  BY AuditAssumption DEF TrailInv, TypeOK, Months
<1>2. op[o] \in Op /\ op[o].month <= month
  BY <1>1 DEF TrailInv, MonthsPass
<1>3. \A pc \in {"wrote", "told"} : [op[o] EXCEPT !.pc = pc] \in Op
  BY <1>2 DEF Op
<1>. DEFINE failed == [Idle EXCEPT !.pc = "failed"]
<1>f. failed \in Op /\ failed.pc = "failed" /\ failed.month <= month
  BY <1>1 DEF Op, Idle
<1>4. CASE Begin(o)
  <2>. DEFINE x == [pc |-> "open", month |-> month]
  <2>1. op' = [op EXCEPT ![o] = x] /\ x \in Op /\ x.pc = "open" /\ x.month <= month
    BY <1>1, <1>4 DEF Begin, Op, Months
  <2>. HIDE DEF x
  <2>. QED
    BY <1>4, <2>1, TransactionTrail DEF Begin
<1>5. CASE Insert(o)
  <2>1. ~conv.renamed
    BY <1>5 DEF Insert, Exclusive
  <2>2. CASE HasPartition(op[o].month)
    <3>1. PICK pc \in {"wrote", "told"} : op' = [op EXCEPT ![o].pc = pc]
      BY <1>5, <2>2 DEF Insert
    <3>. DEFINE x == [op[o] EXCEPT !.pc = pc]
    <3>2. op' = [op EXCEPT ![o] = x] /\ x \in Op /\ x.pc = pc /\ x.month = op[o].month
      BY <1>1, <1>2, <1>3, <3>1 DEF Op
    <3>. HIDE DEF x
    <3>. QED
      BY <1>2, <1>5, <2>1, <2>2, <3>2, TransactionTrail DEF Insert
  <2>3. CASE ~HasPartition(op[o].month)
    <3>1. op' = [op EXCEPT ![o] = failed]
      BY <1>5, <2>3 DEF Insert
    <3>. HIDE DEF failed
    <3>. QED
      BY <1>f, <1>5, <3>1, TransactionTrail DEF Insert
  <2>. QED
    BY <2>2, <2>3
<1>6. CASE Publish(o)
  <2>. DEFINE x == [op[o] EXCEPT !.pc = "told"]
  <2>1. op' = [op EXCEPT ![o] = x] /\ x \in Op /\ x.pc = "told" /\ x.month = op[o].month
    BY <1>1, <1>2, <1>3, <1>6 DEF Publish, Op
  <2>2. ~conv.renamed /\ HasPartition(op[o].month)
    BY <1>6 DEF Publish, Writing, TrailInv, WritersHoldTheTable
  <2>. HIDE DEF x
  <2>. QED
    BY <1>2, <1>6, <2>1, <2>2, TransactionTrail DEF Publish
<1>7. CASE Abort(o)
  <2>1. op' = [op EXCEPT ![o] = failed]
    BY <1>7 DEF Abort
  <2>. HIDE DEF failed
  <2>. QED
    BY <1>f, <1>7, <2>1, TransactionTrail DEF Abort
<1>. QED
  BY <1>4, <1>5, <1>6, <1>7

\* The change that is committed before its row is written.
LEMMA ChangeTrail ==
    ASSUME TrailInv, NEW o \in Ops, Change(o)
    PROVE  TrailInv'
<1>. USE DEF TrailInv
<1>. DEFINE x == [op[o] EXCEPT !.pc = "changed"]
<1>1. op \in [Ops -> Op] /\ op[o].pc = "idle"
  BY DEF TypeOK, Change
<1>2. op' = [op EXCEPT ![o] = x] /\ x \in Op /\ x.pc = "changed" /\ x.month = op[o].month
  BY <1>1 DEF Change, Op
<1>. HIDE DEF x
<1>3. \A q \in Ops : op'[q] = IF q = o THEN x ELSE op[q]
  BY <1>1, <1>2
<1>4. op' \in [Ops -> Op]
  BY <1>1, <1>2
<1>5. TypeOK'
  BY <1>4 DEF TypeOK, SchemaTypeOK, schemaVars, Change
<1>6. MonthsPass'
  BY <1>2, <1>3 DEF MonthsPass, Change
<1>7. EnsuringServers' /\ Tabled'
  BY DEF EnsuringServers, Tabled, RowMonths, schemaVars, Change
<1>8. WritersHoldTheTable'
  BY <1>2, <1>3 DEF WritersHoldTheTable, Writing, HasPartition, Change
<1>9. \A q : Rowed(q)' <=> Rowed(q)
  BY DEF Rowed, Change
<1>10. ~Rowed(o)
  BY <1>1 DEF Rowed, TrailIsComplete, OneRowEach
<1>11. changes' = changes \union {o} /\ rows' = rows
  BY DEF Change
<1>12. OneRowEach'
  BY <1>2, <1>3, <1>9, <1>10, <1>11 DEF OneRowEach
<1>13. TrailIsComplete'
  BY <1>2, <1>3, <1>9, <1>11 DEF TrailIsComplete
<1>. QED
  BY <1>5, <1>6, <1>7, <1>8, <1>12, <1>13 DEF Change

\* A request ends with the row it has written, of a month that has its partition.
LEMMA RowTrail ==
    ASSUME TrailInv, NEW o \in Ops, NEW x \in Op, op' = [op EXCEPT ![o] = x],
           x.pc = "done", x.month <= month, op[o].pc \in {"told", "changed"},
           NEW m \in Months, m <= month, HasPartition(m),
           rows' = rows \union {[op |-> o, month |-> m]},
           changes' = changes \union {o},
           UNCHANGED <<schemaVars, month, redis, kind, parts, ensure, conv, horizon>>
    PROVE  TrailInv'
<1>. USE DEF TrailInv
<1>. DEFINE r0 == [op |-> o, month |-> m]
<1>1. op \in [Ops -> Op]
  BY DEF TypeOK
<1>2. op' \in [Ops -> Op] /\ \A q \in Ops : op'[q] = IF q = o THEN x ELSE op[q]
  BY <1>1
<1>3. r0 \in Row /\ r0.op = o /\ r0.month = m
  BY DEF Row
<1>. HIDE DEF r0
<1>4. rows' = rows \union {r0}
  BY DEF r0
<1>5. TypeOK'
  BY <1>2, <1>3, <1>4 DEF TypeOK, SchemaTypeOK, schemaVars
<1>6. MonthsPass'
  BY <1>2, <1>3, <1>4 DEF MonthsPass
<1>7. EnsuringServers'
  BY DEF EnsuringServers, schemaVars
<1>8. Tabled'
  <2>1. RowMonths' = RowMonths \union {m}
    BY <1>3, <1>4 DEF RowMonths
  <2>. QED
    BY <2>1 DEF Tabled, HasPartition
<1>9. WritersHoldTheTable'
  BY <1>2 DEF WritersHoldTheTable, Writing, HasPartition
<1>10. ~Rowed(o)
  BY DEF Rowed, TrailIsComplete, OneRowEach
<1>11. Rowed(o)' /\ \A q : Rowed(q) => Rowed(q)'
  BY <1>3, <1>4 DEF Rowed
<1>12. \A q \in Ops : q # o /\ Rowed(q)' => Rowed(q)
  BY <1>3, <1>4 DEF Rowed
<1>13. OneRowEach'
  BY <1>2, <1>12 DEF OneRowEach
<1>14. TrailIsComplete'
  <2>1. /\ \A q \in changes' : Rowed(q)' \/ op'[q].pc \in {"changed", "failed"}
        /\ \A q \in Ops : op'[q].pc = "done" => Rowed(q)'
    BY <1>2, <1>11 DEF TrailIsComplete, TypeOK
  <2>2. \A r \in rows' : r.op \in changes'
    BY <1>3, <1>4 DEF TrailIsComplete
  <2>3. \A r \in rows : r.op # o
    BY <1>10 DEF Rowed
  <2>4. \A q, r \in rows' : q.op = r.op => q = r
    BY <1>3, <1>4, <2>3 DEF TrailIsComplete
  <2>. QED
    BY <2>1, <2>2, <2>4 DEF TrailIsComplete
<1>. QED
  BY <1>5, <1>6, <1>7, <1>8, <1>9, <1>13, <1>14

LEMMA CommitTrail ==
    ASSUME TrailInv, NEW o \in Ops, Commit(o)
    PROVE  TrailInv'
<1>. DEFINE x == [Idle EXCEPT !.pc = "done"]
<1>1. x \in Op /\ x.pc = "done" /\ x.month <= month
  BY AuditAssumption DEF Op, Idle, Months, TrailInv, TypeOK
<1>2. op[o] \in Op /\ op[o].month \in Months /\ op[o].month <= month
  BY DEF TrailInv, TypeOK, MonthsPass, Op
<1>3. HasPartition(op[o].month)
  BY DEF Commit, TrailInv, WritersHoldTheTable, Writing
<1>4. op' = [op EXCEPT ![o] = x]
  BY DEF Commit
<1>. HIDE DEF x
<1>. QED
  BY <1>1, <1>2, <1>3, <1>4, RowTrail DEF Commit

LEMMA InsertAfterTrail ==
    ASSUME TrailInv, NEW o \in Ops, InsertAfter(o)
    PROVE  TrailInv'
<1>1. op \in [Ops -> Op] /\ op[o] \in Op /\ op[o].month <= month /\ o \in changes
  BY DEF TrailInv, TypeOK, MonthsPass, OneRowEach, InsertAfter
<1>2. month \in Months /\ month <= month
  BY AuditAssumption DEF TrailInv, TypeOK, Months
<1>3. CASE HasPartition(month)
  <2>. DEFINE x == [op[o] EXCEPT !.pc = "done"]
  <2>1. op' = [op EXCEPT ![o] = x] /\ x \in Op /\ x.pc = "done" /\ x.month <= month
    BY <1>1, <1>3 DEF InsertAfter, Op
  <2>2. changes' = changes \union {o} /\ rows' = rows \union {[op |-> o, month |-> month]}
    BY <1>1, <1>3 DEF InsertAfter
  <2>. HIDE DEF x
  <2>. QED
    BY <1>2, <1>3, <2>1, <2>2, RowTrail DEF InsertAfter
<1>4. CASE ~HasPartition(month)
  <2>. DEFINE x == [op[o] EXCEPT !.pc = "failed"]
  <2>1. op' = [op EXCEPT ![o] = x] /\ x \in Op /\ x.pc = "failed" /\ x.month <= month
    BY <1>1, <1>4 DEF InsertAfter, Op
  <2>. HIDE DEF x
  <2>. QED
    BY <1>4, <2>1, TransactionTrail DEF InsertAfter
<1>. QED
  BY <1>3, <1>4

\* A step of a server that leaves the table alone: it stops looking after the
\* partitions or is with the one it was at, and requests may end with it.
LEMMA ServerTrail ==
    ASSUME TrailInv, SchemaTypeOK', ensure' \in [Servers -> Ensure], op' \in [Ops -> Op],
           UNCHANGED <<month, redis, kind, parts, rows, conv, changes, horizon>>,
           \A o \in Ops :
               op'[o] = op[o] \/ (op'[o].pc = "failed" /\ op'[o].month <= month),
           \A s \in Servers :
               \/ server'[s].pc # "ensuring" /\ ensure'[s] = NotEnsuring
               \/ /\ server'[s].pc = "ensuring" /\ kind # "plain"
                  /\ ensure'[s].base <= month
                  /\ \/ ensure'[s].base = month /\ ensure'[s].made = 0
                     \/ /\ ensure'[s].base = ensure[s].base
                        /\ ensure'[s].made = ensure[s].made
    PROVE  TrailInv'
<1>. USE DEF TrailInv
<1>0. month \in Nat
  BY AuditAssumption DEF TypeOK
<1>1. TypeOK'
  BY DEF TypeOK
<1>2. MonthsPass'
  BY <1>0 DEF MonthsPass, NotEnsuring
<1>3. EnsuringServers'
  BY DEF EnsuringServers
<1>4. Tabled'
  <2>1. RowMonths' = RowMonths
    BY DEF RowMonths
  <2>2. ASSUME NEW s \in Servers, kind # "plain"
        PROVE  month..(ensure'[s].base + ensure'[s].made - 1) \subseteq parts
    BY <1>0, <2>2 DEF Tabled, NotEnsuring
  <2>. QED
    BY <2>1, <2>2 DEF Tabled
<1>5. WritersHoldTheTable'
  BY DEF WritersHoldTheTable, Writing, HasPartition
<1>6. \A q : Rowed(q)' <=> Rowed(q)
  BY DEF Rowed
<1>7. OneRowEach'
  BY <1>6 DEF OneRowEach
<1>8. TrailIsComplete'
  BY <1>6 DEF TrailIsComplete, TypeOK
<1>. QED
  BY <1>1, <1>2, <1>3, <1>4, <1>5, <1>7, <1>8

LEMMA EnsureTrail ==
    ASSUME TrailInv, SchemaTypeOK', NEW s \in Servers,
           EnsureStart(s) \/ EnsureAsk(s) \/ EnsureFail(s) \/ Crash(s)
    PROVE  TrailInv'
<1>1. /\ server \in [Servers -> Server] /\ ensure \in [Servers -> Ensure]
      /\ op \in [Ops -> Op] /\ month \in Months /\ month <= month
  BY AuditAssumption DEF TrailInv, TypeOK, SchemaTypeOK, Months
<1>2. /\ NotEnsuring \in Ensure /\ NotEnsuring.base = 0 /\ NotEnsuring.made = 0
      /\ [NotEnsuring EXCEPT !.base = month] \in Ensure
  <2>1. 0 \in Months /\ 0 \in 0..Ahead /\ month \in Months
    BY <1>1, AuditAssumption DEF Months
  <2>2. NotEnsuring \in Ensure
    BY <2>1 DEF Ensure, NotEnsuring
  <2>3. [NotEnsuring EXCEPT !.base = month] \in Ensure
    BY <2>1, <2>2 DEF Ensure
  <2>. QED
    BY <2>2, <2>3 DEF NotEnsuring
<1>3. \A r \in Servers :
         \/ server[r].pc # "ensuring" /\ ensure[r] = NotEnsuring
         \/ server[r].pc = "ensuring" /\ kind # "plain" /\ ensure[r].base <= month
  BY DEF TrailInv, EnsuringServers, MonthsPass
<1>4. CASE EnsureStart(s)
  <2>1. ensure[s] = NotEnsuring
    BY <1>3, <1>4 DEF EnsureStart
  <2>2. ensure' \in [Servers -> Ensure]
    <3>1. CASE kind = "plain"
      BY <1>1, <1>4, <3>1 DEF EnsureStart
    <3>2. CASE kind # "plain"
      <4>1. ensure' = [ensure EXCEPT ![s] = [NotEnsuring EXCEPT !.base = month]]
        BY <1>1, <1>4, <2>1, <3>2 DEF EnsureStart
      <4>. QED
        BY <1>1, <1>2, <4>1
    <3>. QED
      BY <3>1, <3>2
  <2>3. \A r \in Servers \ {s} : server'[r] = server[r] /\ ensure'[r] = ensure[r]
    BY <1>1, <1>4 DEF EnsureStart
  <2>4. CASE kind = "plain"
    <3>1. server'[s].pc = "up" /\ ensure'[s] = NotEnsuring
      BY <1>1, <1>4, <2>1, <2>4 DEF EnsureStart, Server
    <3>. QED
      BY <1>1, <1>3, <1>4, <2>2, <2>3, <3>1, ServerTrail DEF EnsureStart
  <2>5. CASE kind # "plain"
    <3>1. /\ server'[s].pc = "ensuring"
          /\ ensure'[s].base = month /\ ensure'[s].made = 0
      BY <1>1, <1>2, <1>4, <2>1, <2>5 DEF EnsureStart, Server, NotEnsuring
    <3>. QED
      BY <1>1, <1>3, <1>4, <2>2, <2>3, <2>5, <3>1, ServerTrail DEF EnsureStart
  <2>. QED
    BY <2>4, <2>5
<1>5. CASE EnsureAsk(s)
  <2>1. ensure' \in [Servers -> Ensure]
    BY <1>1, <1>5 DEF EnsureAsk, Ensure
  <2>2. \A r \in Servers : /\ ensure'[r].base = ensure[r].base
                           /\ ensure'[r].made = ensure[r].made
                           /\ r # s => ensure'[r] = ensure[r]
    BY <1>1, <1>5 DEF EnsureAsk, Ensure
  <2>3. server' = server /\ server[s].pc = "ensuring"
    BY <1>5 DEF EnsureAsk, schemaVars
  <2>. QED
    BY <1>1, <1>3, <1>5, <2>1, <2>2, <2>3, ServerTrail DEF EnsureAsk
<1>6. CASE EnsureFail(s) \/ Crash(s)
  <2>1. ensure' = [ensure EXCEPT ![s] = NotEnsuring]
    BY <1>6 DEF EnsureFail, Crash
  <2>2. server'[s].pc # "ensuring"
    BY <1>1, <1>6 DEF EnsureFail, Crash, Server
  <2>3. \A r \in Servers \ {s} : server'[r] = server[r]
    BY <1>1, <1>6 DEF EnsureFail, Crash
  <2>4. [Idle EXCEPT !.pc = "failed"] \in Op
    BY AuditAssumption DEF Op, Idle, Months
  <2>5. /\ op' \in [Ops -> Op]
        /\ \A o \in Ops :
              op'[o] = op[o] \/ (op'[o].pc = "failed" /\ op'[o].month <= month)
    <3>1. CASE EnsureFail(s)
      BY <1>1, <3>1 DEF EnsureFail
    <3>2. CASE Crash(s)
      <4>1. \A o \in Ops : op'[o] \in {op[o], [Idle EXCEPT !.pc = "failed"]}
        BY <3>2 DEF Crash
      <4>2. op' = [o \in Ops |-> op'[o]]
        BY <3>2 DEF Crash
      <4>3. 0 <= month
        BY <1>1, AuditAssumption DEF Months
      <4>. QED
        BY <1>1, <2>4, <4>1, <4>2, <4>3 DEF Idle
    <3>. QED
      BY <1>6, <3>1, <3>2
  <2>6. ensure' \in [Servers -> Ensure] /\ ensure'[s] = NotEnsuring
        /\ \A r \in Servers \ {s} : ensure'[r] = ensure[r]
    BY <1>1, <1>2, <2>1
  <2>. QED
    BY <1>3, <1>6, <2>2, <2>3, <2>5, <2>6, ServerTrail DEF EnsureFail, Crash
<1>. QED
  BY <1>4, <1>5, <1>6

\* The next partition is there; with the last of them the horizon moves.
LEMMA PartitionTrail ==
    ASSUME TrailInv, SchemaTypeOK', NEW s \in Servers, EnsurePartition(s)
    PROVE  TrailInv'
<1>. USE DEF TrailInv
<1>. DEFINE e == ensure[s]
            slice == e.base + e.made
<1>1. /\ server \in [Servers -> Server] /\ ensure \in [Servers -> Ensure]
      /\ month \in 0..MaxMonth /\ Ahead \in Nat /\ Future \in Nat /\ MaxMonth \in Nat
  BY AuditAssumption DEF TypeOK, SchemaTypeOK
<1>2. e.base \in Nat /\ e.made \in 0..Ahead /\ e.base <= month /\ e.asked
  BY <1>1 DEF Ensure, MonthsPass, EnsurePartition, Months
<1>3. server[s].pc = "ensuring" /\ kind = "partitioned"
  BY <1>2 DEF EnsuringServers, NotEnsuring, TypeOK
<1>b. month..(slice - 1) \subseteq parts
  <2>1. month..(e.base + e.made - 1) \subseteq parts
    BY <1>3 DEF Tabled
  <2>2. e.base + e.made - 1 = slice - 1
    BY <1>2
  <2>. QED
    BY <2>1, <2>2
<1>4. slice \in Months /\ parts' = parts \union {slice} /\ kind' = kind
  BY <1>1, <1>2 DEF Months, EnsurePartition
<1>5. /\ UNCHANGED <<month, redis, kind, rows, op, conv, changes>>
      /\ \A r \in Servers \ {s} : server'[r] = server[r] /\ ensure'[r] = ensure[r]
  BY <1>1 DEF EnsurePartition
<1>6. CASE EnsureLast(s)
  <2>1. ensure' = [ensure EXCEPT ![s] = NotEnsuring] /\ server' = [server EXCEPT ![s].pc = "up"]
    BY <1>6 DEF EnsurePartition
  <2>2. /\ ensure'[s] = NotEnsuring /\ server'[s].pc = "up" /\ NotEnsuring \in Ensure
    BY <1>1, <2>1 DEF Server, Ensure, NotEnsuring, Months
  <2>3. ensure' \in [Servers -> Ensure]
    BY <1>1, <2>1, <2>2
  <2>4. horizon' = IF horizon >= slice THEN horizon ELSE slice
    <3>1. horizon \in Int /\ e.base + Ahead \in Int /\ e.made = Ahead
      BY <1>1, <1>2, <1>6 DEF EnsureLast, TypeOK, Months
    <3>. QED
      BY <1>6, <3>1, MaxOfTwo DEF EnsurePartition
  <2>5. TypeOK'
    BY <1>4, <1>5, <2>3, <2>4 DEF TypeOK
  <2>6. MonthsPass'
    BY <1>1, <1>5, <2>2 DEF MonthsPass, NotEnsuring
  <2>7. EnsuringServers'
    BY <1>3, <1>5, <2>2 DEF EnsuringServers
  <2>8. Tabled'
    <3>1. RowMonths' = RowMonths
      BY <1>5 DEF RowMonths
    <3>2. horizon \in Int /\ slice \in Int
      BY <1>4 DEF TypeOK, Months
    <3>3. month..horizon \subseteq parts /\ RowMonths \subseteq parts
      BY <1>3 DEF Tabled
    <3>4. ASSUME NEW m \in month..horizon' PROVE m \in parts'
      <4>1. m \in month..horizon \/ m \in month..(slice - 1) \/ m = slice
        BY <1>1, <2>4, <3>2
      <4>. QED
        BY <1>4, <1>b, <3>3, <4>1
    <3>5. \A r \in Servers : month..(ensure'[r].base + ensure'[r].made - 1) \subseteq parts'
      BY <1>1, <1>3, <1>4, <1>5, <2>2 DEF Tabled, NotEnsuring
    <3>. QED
      BY <1>3, <1>4, <1>5, <3>1, <3>3, <3>4, <3>5 DEF Tabled
  <2>9. WritersHoldTheTable'
    BY <1>4, <1>5 DEF WritersHoldTheTable, Writing, HasPartition
  <2>10. OneRowEach' /\ TrailIsComplete'
    BY <1>5 DEF OneRowEach, TrailIsComplete, Rowed
  <2>. QED
    BY <1>5, <2>5, <2>6, <2>7, <2>8, <2>9, <2>10
<1>7. CASE ~EnsureLast(s)
  <2>. DEFINE x == [e EXCEPT !.made = @ + 1, !.asked = FALSE]
  <2>1. /\ ensure' = [ensure EXCEPT ![s] = x]
        /\ server' = server /\ horizon' = horizon
    BY <1>1, <1>7 DEF EnsurePartition
  <2>2. x \in Ensure /\ x.base = e.base /\ x.made = e.made + 1
    <3>1. e \in Ensure /\ e.made + 1 \in 0..Ahead
      BY <1>1, <1>2, <1>7 DEF EnsureLast
    <3>. QED
      BY <3>1 DEF Ensure
  <2>. HIDE DEF x
  <2>3. ensure' \in [Servers -> Ensure] /\ ensure'[s] = x
    BY <1>1, <2>1, <2>2
  <2>4. TypeOK'
    BY <1>4, <1>5, <2>1, <2>3 DEF TypeOK
  <2>5. MonthsPass'
    BY <1>2, <1>5, <2>2, <2>3 DEF MonthsPass
  <2>6. EnsuringServers'
    BY <1>3, <1>5, <2>1, <2>3 DEF EnsuringServers
  <2>7. Tabled'
    <3>1. RowMonths' = RowMonths
      BY <1>5 DEF RowMonths
    <3>3. ASSUME NEW m \in month..(x.base + x.made - 1) PROVE m \in parts'
      <4>1. m \in month..(slice - 1) \/ m = slice
        BY <1>1, <1>2, <2>2
      <4>. QED
        BY <1>4, <1>b, <4>1
    <3>4. \A r \in Servers : month..(ensure'[r].base + ensure'[r].made - 1) \subseteq parts'
      BY <1>3, <1>4, <1>5, <2>3, <3>3 DEF Tabled
    <3>. QED
      BY <1>3, <1>4, <1>5, <2>1, <3>1, <3>4 DEF Tabled
  <2>8. WritersHoldTheTable'
    BY <1>4, <1>5 DEF WritersHoldTheTable, Writing, HasPartition
  <2>9. OneRowEach' /\ TrailIsComplete'
    BY <1>5 DEF OneRowEach, TrailIsComplete, Rowed
  <2>. QED
    BY <1>5, <2>4, <2>5, <2>6, <2>7, <2>8, <2>9
<1>. QED
  BY <1>6, <1>7

\* The table gets its partitions, and the rows in them: nobody writes or makes
\* partitions meanwhile that the new ones do not cover.
LEMMA ConvertTrail == TrailInv /\ SchemaTypeOK' /\ ConvertCommit => TrailInv'
<1>. SUFFICES ASSUME TrailInv, SchemaTypeOK', ConvertCommit PROVE TrailInv'
  OBVIOUS
<1>. USE DEF TrailInv
<1>1. /\ month \in 0..MaxMonth /\ Ahead \in Nat /\ Future \in Nat /\ MaxMonth \in Nat
      /\ ensure \in [Servers -> Ensure] /\ horizon \in Int
      /\ kind \in {"plain", "partitioned"}
  BY AuditAssumption DEF TypeOK, Months
<1>2. /\ parts' = Slices /\ rows' = rows /\ kind' = "partitioned"
      /\ Slices \intersect parts = {} /\ Writing = {}
      /\ UNCHANGED <<server, month, redis, op, ensure, changes>>
  <2>1. Writing = {}
    BY DEF ConvertCommit, WritersHoldTheTable
  <2>. QED
    BY <2>1 DEF ConvertCommit, Copied, schemaVars
<1>3. RowMonths \in SUBSET (0..month)
  BY <1>1 DEF RowMonths, MonthsPass, TypeOK, Row, Months
<1>4. \A s \in Servers : ensure[s].base \in Nat /\ ensure[s].base <= month
                         /\ ensure[s].made \in 0..Ahead
  BY <1>1 DEF MonthsPass, Ensure, Months
\* The last partition that there is, and what is between it and this month.
<1>. DEFINE last == IF rows = {} THEN month + Ahead ELSE Max(RowMonths) + Future
<1>5. /\ last \in 0..(MaxMonth + Ahead + Future) /\ Slices \subseteq Months
      /\ month..last \union RowMonths \subseteq Slices
  <2>1. CASE rows = {}
    BY <1>1, <2>1 DEF Slices, RowMonths, Months
  <2>2. CASE rows # {}
    <3>1. RowMonths # {} /\ RowMonths \in SUBSET Nat
      BY <1>3, <2>2 DEF RowMonths
    <3>2. Max(RowMonths) \in RowMonths /\ \A m \in RowMonths : Max(RowMonths) >= m
      BY <1>1, <1>3, <3>1, MaxMonthOf
    <3>3. Min(RowMonths) \in RowMonths /\ \A m \in RowMonths : Min(RowMonths) <= m
      BY <3>1, MinMonth
    <3>4. Slices = Min(RowMonths)..Max(RowMonths) \union (Max(RowMonths) + 1)..(Max(RowMonths) + Future)
      BY <2>2 DEF Slices
    <3>. DEFINE first == Min(RowMonths)
                top == Max(RowMonths)
    <3>5. first \in 0..month /\ top \in 0..month /\ first <= top
      BY <1>3, <3>2, <3>3
    <3>6. last = top + Future
      BY <2>2
    <3>7. RowMonths \subseteq first..top
      BY <1>1, <1>3, <3>2, <3>3, <3>5
    <3>. HIDE DEF first, top, last
    <3>8. Slices = first..top \union (top + 1)..(top + Future)
      BY <3>4 DEF first, top
    <3>. QED
      BY <1>1, <3>5, <3>6, <3>7, <3>8 DEF Months
  <2>. QED
    BY <2>1, <2>2
\* There is a row, and the table is plain, or it has no partition of these months.
<1>6. kind = "plain" \/ (rows = {} /\ horizon < month)
  <2>. SUFFICES ASSUME kind # "plain" PROVE rows = {} /\ horizon < month
    OBVIOUS
  <2>1. RowMonths \subseteq parts /\ month..horizon \subseteq parts
    BY DEF Tabled
  <2>2. RowMonths = {}
    BY <1>2, <1>5, <2>1
  <2>3. rows = {}
    BY <2>2 DEF RowMonths
  <2>4. month \in Slices
    BY <1>1, <1>5, <2>3
  <2>. QED
    BY <1>1, <1>2, <2>1, <2>3, <2>4
<1>7. horizon' = IF horizon >= last THEN horizon ELSE last
  <2>1. {horizon} \union {last} = {horizon, last} /\ last \in Int
    BY <1>5
  <2>2. horizon' = Max({horizon} \union {last})
    BY DEF ConvertCommit
  <2>. HIDE DEF last
  <2>. QED
    BY <1>1, <2>1, <2>2, MaxOfTwo
<1>. HIDE DEF last
<1>8. month..horizon' \subseteq Slices
  <2>1. horizon < month
    BY <1>1, <1>6 DEF Tabled
  <2>2. month..horizon' \subseteq month..last
    BY <1>1, <1>5, <1>7, <2>1
  <2>. QED
    BY <1>5, <2>2
<1>9. ASSUME NEW s \in Servers
      PROVE  month..(ensure[s].base + ensure[s].made - 1) \subseteq Slices
  <2>1. CASE kind = "plain"
    <3>1. ensure[s].base = 0 /\ ensure[s].made = 0
      BY <2>1 DEF EnsuringServers, NotEnsuring
    <3>. QED
      BY <1>1, <3>1
  <2>2. CASE rows = {}
    <3>1. last = month + Ahead
      BY <2>2 DEF last
    <3>2. month..(ensure[s].base + ensure[s].made - 1) \subseteq month..last
      BY <1>1, <1>4, <3>1
    <3>. QED
      BY <1>5, <3>2
  <2>. QED
    BY <1>6, <2>1, <2>2
<1>10. Tabled'
  <2>1. RowMonths' = RowMonths
    BY <1>2 DEF RowMonths
  <2>2. \A s \in Servers :
           (month..(ensure[s].base + ensure[s].made - 1))' \subseteq Slices
    BY <1>2, <1>9
  <2>. QED
    BY <1>2, <1>5, <1>8, <2>1, <2>2 DEF Tabled
<1>11. conv' = [conv EXCEPT !.renamed = FALSE]
  BY DEF ConvertCommit
<1>12. conv' \in [begun : 0..MaxConversions, waiting : 0..MaxConversions, renamed : BOOLEAN]
       /\ conv'.waiting <= conv'.begun
  BY <1>11 DEF TypeOK
<1>13. horizon' \in Months
  BY <1>1, <1>5, <1>7 DEF Months, TypeOK
<1>14. TypeOK'
  BY <1>2, <1>5, <1>12, <1>13 DEF TypeOK
<1>15. MonthsPass' /\ EnsuringServers'
  BY <1>2 DEF MonthsPass, EnsuringServers
<1>16. Writing' = {}
  BY <1>2 DEF Writing
<1>17. WritersHoldTheTable'
  BY <1>16 DEF WritersHoldTheTable
<1>18. OneRowEach' /\ TrailIsComplete'
  BY <1>2 DEF OneRowEach, TrailIsComplete, Rowed
<1>. QED
  BY <1>10, <1>12, <1>14, <1>15, <1>17, <1>18

\* The rest of the conversion takes the lock and leaves it, with nothing changed.
LEMMA ConvertingTrail ==
    ASSUME TrailInv, ConvertStart \/ ConvertRename \/ ConvertFail
    PROVE  TrailInv'
<1>. USE DEF TrailInv
<1>1. UNCHANGED <<schemaVars, month, redis, kind, parts, rows, op, ensure, changes, horizon>>
  BY DEF ConvertStart, ConvertRename, ConvertFail
<1>. DEFINE Conv == [begun : 0..MaxConversions, waiting : 0..MaxConversions, renamed : BOOLEAN]
<1>2. /\ conv \in Conv /\ MaxConversions \in Nat /\ conv.waiting <= conv.begun
      /\ conv.begun \in 0..MaxConversions /\ conv.waiting \in 0..MaxConversions
  BY AuditAssumption DEF TypeOK
<1>3. conv' \in Conv /\ conv'.waiting <= conv'.begun
  <2>1. CASE ConvertStart
    <3>1. /\ conv' = [conv EXCEPT !.begun = @ + 1, !.waiting = @ + 1]
          /\ conv.begun + 1 \in 0..MaxConversions /\ conv.waiting + 1 \in 0..MaxConversions
      BY <1>2, <2>1 DEF ConvertStart
    <3>2. conv' \in Conv
      BY <1>2, <3>1
    <3>3. conv'.begun = conv.begun + 1 /\ conv'.waiting = conv.waiting + 1
      BY <1>2, <3>1
    <3>. QED
      BY <1>2, <3>2, <3>3
  <2>2. CASE ConvertRename
    <3>1. /\ conv' = [conv EXCEPT !.waiting = @ - 1, !.renamed = TRUE]
          /\ conv.waiting - 1 \in 0..MaxConversions
      BY <1>2, <2>2 DEF ConvertRename
    <3>2. conv' \in Conv
      BY <1>2, <3>1
    <3>3. conv'.begun = conv.begun /\ conv'.waiting = conv.waiting - 1
      BY <1>2, <3>1
    <3>. QED
      BY <1>2, <3>2, <3>3
  <2>3. CASE ConvertFail
    <3>1. \/ /\ conv' = [conv EXCEPT !.waiting = @ - 1]
             /\ conv.waiting - 1 \in 0..MaxConversions
          \/ conv' = [conv EXCEPT !.renamed = FALSE]
      BY <1>2, <2>3 DEF ConvertFail
    <3>2. conv' \in Conv
      BY <1>2, <3>1
    <3>3. conv'.begun = conv.begun /\ conv'.waiting \in {conv.waiting - 1, conv.waiting}
      BY <1>2, <3>1
    <3>. QED
      BY <1>2, <3>2, <3>3
  <2>. QED
    BY <2>1, <2>2, <2>3
<1>4. TypeOK'
  BY <1>1, <1>3 DEF TypeOK, SchemaTypeOK, schemaVars
<1>5. MonthsPass' /\ EnsuringServers'
  BY <1>1 DEF MonthsPass, EnsuringServers, schemaVars
<1>6. Tabled'
  BY <1>1 DEF Tabled, RowMonths
<1>7. Writing' = Writing
  BY <1>1 DEF Writing
<1>8. WritersHoldTheTable'
  <2>1. conv'.renamed => conv.renamed \/ Writing = {}
    BY DEF ConvertStart, ConvertRename, ConvertFail, TypeOK
  <2>. QED
    BY <1>1, <1>7, <2>1 DEF WritersHoldTheTable, HasPartition
<1>9. OneRowEach' /\ TrailIsComplete'
  BY <1>1 DEF OneRowEach, TrailIsComplete, Rowed
<1>. QED
  BY <1>3, <1>4, <1>5, <1>6, <1>8, <1>9

\* Months pass, Redis comes and goes, and the schema changes elsewhere.
LEMMA AroundTrail ==
    ASSUME TrailInv, SchemaTypeOK',
           UNCHANGED <<kind, parts, rows, op, ensure, conv, changes, horizon>>,
           month' \in 0..MaxMonth, month <= month', redis' \in BOOLEAN,
           \A s \in Servers : server'[s].pc = "ensuring" <=> server[s].pc = "ensuring"
    PROVE  TrailInv'
<1>. USE DEF TrailInv
<1>1. /\ month \in 0..MaxMonth /\ op \in [Ops -> Op] /\ ensure \in [Servers -> Ensure]
      /\ rows \subseteq Row /\ MaxMonth \in Nat
  BY AuditAssumption DEF TypeOK
<1>2. TypeOK'
  BY DEF TypeOK
<1>3. MonthsPass'
  <2>1. /\ \A r \in rows : r.month \in Int
        /\ \A o \in Ops : op[o].month \in Int
        /\ \A s \in Servers : ensure[s].base \in Int
    BY <1>1 DEF Row, Op, Ensure, Months
  <2>. QED
    BY <1>1, <2>1 DEF MonthsPass
<1>4. EnsuringServers'
  BY DEF EnsuringServers
<1>5. Tabled'
  <2>1. RowMonths' = RowMonths
    BY DEF RowMonths
  <2>2. \A n \in Int : month'..n \subseteq month..n
    BY <1>1
  <2>3. horizon \in Int /\ \A s \in Servers : ensure[s].base + ensure[s].made - 1 \in Int
    BY <1>1, AuditAssumption DEF TypeOK, Ensure, Months
  <2>. QED
    BY <2>1, <2>2, <2>3 DEF Tabled
<1>6. WritersHoldTheTable'
  BY DEF WritersHoldTheTable, Writing, HasPartition
<1>7. OneRowEach' /\ TrailIsComplete'
  BY DEF OneRowEach, TrailIsComplete, Rowed
<1>. QED
  BY <1>2, <1>3, <1>4, <1>5, <1>6, <1>7

LEMMA NextTrail == SchemaInv /\ TrailInv /\ [Next]_vars => TrailInv'
<1>. SUFFICES ASSUME SchemaInv, TrailInv, [Next]_vars PROVE TrailInv'
  OBVIOUS
<1>s. SchemaTypeOK'
  BY NextKeepsSchema DEF SchemaInv
<1>m. month \in 0..MaxMonth /\ month <= month /\ redis \in BOOLEAN /\ MaxMonth \in Nat
  BY AuditAssumption DEF TrailInv, TypeOK
<1>1. CASE Schema
  <2>1. server \in [Servers -> Server]
    BY DEF SchemaInv, SchemaTypeOK
  <2>2. \A s \in Servers : server'[s].pc = "ensuring" <=> server[s].pc = "ensuring"
    <3>1. CASE Bootstrap \/ BaselineInfer \/ BaselineCommit \/ BaselineAbort
      BY <3>1 DEF Bootstrap, BaselineInfer, BaselineCommit, BaselineAbort
    <3>2. ASSUME NEW s \in Servers, MigrateRead(s) \/ MigrateRun(s) \/ MigrateFail(s)
          PROVE  \A r \in Servers : server'[r].pc = "ensuring" <=> server[r].pc = "ensuring"
      BY <2>1, <3>2 DEF MigrateRead, MigrateRun, MigrateFail, Server
    <3>. QED
      BY <1>1, <3>1, <3>2 DEF Schema, SchemaNext
  <2>. QED
    BY <1>1, <1>s, <1>m, <2>2, AroundTrail DEF Schema, auditVars
<1>2. ASSUME NEW o \in Ops,
             \/ Begin(o) \/ Insert(o) \/ Publish(o)
             \/ Commit(o) \/ Abort(o) \/ Change(o) \/ InsertAfter(o)
      PROVE  TrailInv'
  BY <1>2, RequestTrail, CommitTrail, ChangeTrail, InsertAfterTrail
<1>3. ASSUME NEW s \in Servers,
             \/ EnsureStart(s) \/ EnsureAsk(s) \/ EnsurePartition(s)
             \/ EnsureFail(s) \/ Crash(s)
      PROVE  TrailInv'
  BY <1>3, <1>s, EnsureTrail, PartitionTrail
<1>4. CASE ConvertStart \/ ConvertRename \/ ConvertCommit \/ ConvertFail
  BY <1>4, <1>s, ConvertTrail, ConvertingTrail
<1>5. CASE Tick
  BY <1>5, <1>s, <1>m, AroundTrail DEF Tick, schemaVars
<1>6. CASE RedisLost \/ RedisBack
  BY <1>6, <1>s, <1>m, AroundTrail DEF RedisLost, RedisBack, schemaVars
<1>7. CASE UNCHANGED vars
  BY <1>7, <1>s, <1>m, AroundTrail DEF vars, schemaVars, auditVars
<1>. QED
  BY <1>1, <1>2, <1>3, <1>4, <1>5, <1>6, <1>7 DEF Next

\* The table, its partitions and the requests, for any number of servers that
\* start and stop, of requests, and of conversions: the invariant of AuditTrail.
THEOREM TrailInvariant == Spec => []TrailInv
<1>1. Init => TrailInv
  BY InitTrail
<1>2. SchemaInv /\ TrailInv /\ [Next]_vars => TrailInv'
  BY NextTrail
<1>. QED
  BY <1>1, <1>2, SchemaInvariant, PTL DEF Spec

\* The table, the requests, the servers and the conversions hold what they can
\* hold: the partitions and the horizon stay within the months there are.
THEOREM TypeCorrect == Spec => []TypeOK
<1>1. TrailInv => TypeOK
  BY DEF TrailInv
<1>. QED
  BY <1>1, TrailInvariant, PTL

\* No row is lost or doubled and every committed change has its row, but for the
\* requests that commit the change first: createAuditLog and the conversion.
THEOREM TrailStaysComplete == Spec => []TrailIsComplete
<1>1. TrailInv => TrailIsComplete
  BY DEF TrailInv
<1>. QED
  BY <1>1, TrailInvariant, PTL

\* The table has this month's partition up to the horizon: ensureAuditLogPartitions
\* and the script between them leave no month out.
THEOREM MaintenanceSuffices == Spec => []MaintainedTrailTakesRows
<1>1. ASSUME TrailInv PROVE MaintainedTrailTakesRows
  <2>. SUFFICES ASSUME month <= horizon, kind # "plain" PROVE month \in parts
    BY DEF MaintainedTrailTakesRows, HasPartition
  <2>1. month \in Int /\ horizon \in Int
    BY <1>1, AuditAssumption DEF TrailInv, TypeOK, Months
  <2>2. month..horizon \subseteq parts
    BY <1>1 DEF TrailInv, Tabled
  <2>. QED
    BY <2>1, <2>2
<1>. QED
  BY <1>1, TrailInvariant, PTL
=============================================================================
