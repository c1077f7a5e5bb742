----------------------------- MODULE AuditTrail -----------------------------
(***************************************************************************)
(* audit_logs: the rows that requests write, the partitions by month that  *)
(* a server makes sure of before it serves, and the script that makes a    *)
(* partitioned table of the plain one; over a schema that Migrations makes. *)
(*                                                                         *)
(* What ties them together is the lock of the table.  A row that is        *)
(* written holds it (ROW EXCLUSIVE) to the end of its transaction, and     *)
(* CREATE TABLE PARTITION OF and RENAME need it alone (ACCESS EXCLUSIVE):  *)
(* they wait for the rows being written, and the rows that come after wait *)
(* for them.  A request tells the audit stream of its row before it        *)
(* commits, and while the connection to Redis is lost it waits for it with *)
(* the lock (maxRetriesPerRequest null).                                   *)
(*                                                                         *)
(* Months are numbers.  The cron job of the partitions does what a server  *)
(* does that starts.  The pool of connections is not modelled: a request   *)
(* that gets none fails, having done nothing.                              *)
(***************************************************************************)
EXTENDS Migrations

CONSTANTS PerServer,   \* bound on the audited requests of each server
          MaxConversions, \* bound on the runs of migrate-audit-logs-partitioned
          Ahead,       \* months after this one that ensure makes (2 in the code)
          Future,      \* months after the last row that the script makes (3)
          MaxMonth     \* bound on the months

ASSUME AuditAssumption ==
    /\ PerServer \in Nat /\ MaxConversions \in Nat /\ MaxMonth \in Nat
    /\ Ahead \in Nat /\ Future \in Nat

VARIABLES
    month,     \* the month it is, in UTC
    redis,     \* whether the connection to Redis is there
    kind,      \* audit_logs: a "plain" table, or "partitioned"
    parts,     \* the months that have a partition
    rows,      \* the rows of audit_logs, as committed
    op,        \* what each audited request is at, and the month of its row
    ensure,    \* ensureAuditLogPartitions of each server
    conv,      \* the conversions: begun, waiting for the lock, one that has it
    \* History, read by no action's guard:
    changes,   \* requests whose change to the accounts is committed
    horizon    \* the last month for which partitions were made sure of (-1: none)

auditVars == <<month, redis, kind, parts, rows, op, ensure, conv, changes, horizon>>
vars == <<schemaVars, auditVars>>

Months == 0..(MaxMonth + Ahead + Future)
Ops == Servers \X (1..PerServer)

Row == [op : Ops, month : Months]

\* A request in a transaction: "open" from BEGIN (created_at is the time of
\* BEGIN), "wrote" its row, "told" the stream, if it had to.  One that
\* commits its change first and then writes its row: "changed".
Op == [pc : {"idle", "open", "wrote", "told", "changed", "done", "failed"},
       month : Months]
Idle == [pc |-> "idle", month |-> 0]

\* From base on, made partitions are there; asked: the next is waiting for its lock.
Ensure == [base : Months, made : 0..Ahead, asked : BOOLEAN]
NotEnsuring == [base |-> 0, made |-> 0, asked |-> FALSE]

\* A database that has the table may have rows of this month in it.
Init ==
    /\ SchemaInit
    /\ month = 0
    /\ redis = TRUE
    /\ kind = "plain" /\ parts = {}
    /\ \E old \in SUBSET Ops :
          /\ old # {} => "audit_logs" \in objects
          /\ rows = {[op |-> o, month |-> 0] : o \in old}
          /\ op = [o \in Ops |-> IF o \in old THEN [Idle EXCEPT !.pc = "done"] ELSE Idle]
          /\ changes = old
    /\ ensure = [s \in Servers |-> NotEnsuring]
    /\ conv = [begun |-> 0, waiting |-> 0, renamed |-> FALSE]
    /\ horizon = -1

-----------------------------------------------------------------------------
(* The lock of audit_logs *)

\* Rows written and not committed.
Writing == {o \in Ops : op[o].pc \in {"wrote", "told"}}

\* A statement has the table alone, or waits to have it.
Exclusive ==
    conv.waiting > 0 \/ conv.renamed \/ \E s \in Servers : ensure[s].asked

-----------------------------------------------------------------------------
(* Requests *)

\* The row of a request is there.
Rowed(o) == \E r \in rows : r.op = o

HasPartition(m) == kind = "plain" \/ m \in parts

\* repo.transaction begins.
Begin(o) ==
    /\ server[o[1]].pc = "up" /\ op[o].pc = "idle"
    /\ op' = [op EXCEPT ![o] = [pc |-> "open", month |-> month]]
    /\ UNCHANGED <<schemaVars, month, redis, kind, parts, rows, ensure, conv,
                   changes, horizon>>

\* createAuditLog inserts the row; there is something to tell if the action is one
\* of sensitiveActions.  Without a partition the statement fails, and with it the
\* transaction.
Insert(o) ==
    /\ op[o].pc = "open" /\ ~Exclusive
    /\ IF HasPartition(op[o].month)
       THEN \E pc \in {"wrote", "told"} : op' = [op EXCEPT ![o].pc = pc]
       ELSE op' = [op EXCEPT ![o] = [Idle EXCEPT !.pc = "failed"]]
    /\ UNCHANGED <<schemaVars, month, redis, kind, parts, rows, ensure, conv,
                   changes, horizon>>

\* Mutant: the event is read back from the table on another connection.
PublishRowRead(o) ==
    /\ op[o].pc = "wrote" /\ redis /\ ~Exclusive
    /\ op' = [op EXCEPT ![o].pc = "told"]
    /\ UNCHANGED <<schemaVars, month, redis, kind, parts, rows, ensure, conv,
                   changes, horizon>>

\* publishAuditEvent, inside the transaction: XADD waits for the connection, and
\* so does HINCRBY after it.  An error in answer is only logged.
Publish(o) ==
    /\ op[o].pc = "wrote" /\ redis
    /\ op' = [op EXCEPT ![o].pc = "told"]
    /\ UNCHANGED <<schemaVars, month, redis, kind, parts, rows, ensure, conv,
                   changes, horizon>>

\* COMMIT.
Commit(o) ==
    /\ op[o].pc = "told"
    /\ op' = [op EXCEPT ![o] = [Idle EXCEPT !.pc = "done"]]
    /\ rows' = rows \union {[op |-> o, month |-> op[o].month]}
    /\ changes' = changes \union {o}
    /\ UNCHANGED <<schemaVars, month, redis, kind, parts, ensure, conv, horizon>>

\* A later statement of the transaction fails: ROLLBACK.
Abort(o) ==
    /\ op[o].pc = "told"
    /\ op' = [op EXCEPT ![o] = [Idle EXCEPT !.pc = "failed"]]
    /\ UNCHANGED <<schemaVars, month, redis, kind, parts, rows, ensure, conv,
                   changes, horizon>>

\* revokeMySession, adminSetForcePasswordChangeBySubject: the change commits...
Change(o) ==
    /\ server[o[1]].pc = "up" /\ op[o].pc = "idle"
    /\ op' = [op EXCEPT ![o].pc = "changed"]
    /\ changes' = changes \union {o}
    /\ UNCHANGED <<schemaVars, month, redis, kind, parts, rows, ensure, conv, horizon>>

\* ...and then its row, in a statement of its own, if it can.
InsertAfter(o) ==
    /\ op[o].pc = "changed" /\ ~Exclusive
    /\ op' = [op EXCEPT ![o].pc = IF HasPartition(month) THEN "done" ELSE "failed"]
    /\ rows' = IF HasPartition(month) THEN rows \union {[op |-> o, month |-> month]}
               ELSE rows
    /\ UNCHANGED <<schemaVars, month, redis, kind, parts, ensure, conv, changes, horizon>>

-----------------------------------------------------------------------------
(* Servers: server.ts and ensureAuditLogPartitions *)

\* The kind of the table is read, and then the date.
EnsureStart(s) ==
    /\ server[s].pc = "starting"
    /\ server' = [server EXCEPT ![s].pc = IF kind = "plain" THEN "up" ELSE "ensuring"]
    /\ ensure' = IF kind = "plain" THEN ensure
                 ELSE [ensure EXCEPT ![s].base = month]
    /\ UNCHANGED <<objects, journal, baseline, legacy, month, redis, kind, parts,
                   rows, op, conv, changes, horizon>>

\* createPartition asks for the lock.
EnsureAsk(s) ==
    /\ server[s].pc = "ensuring" /\ ~ensure[s].asked
    /\ ensure' = [ensure EXCEPT ![s].asked = TRUE]
    /\ UNCHANGED <<schemaVars, month, redis, kind, parts, rows, op, conv, changes, horizon>>

\* Mutant: one month less.
EnsureLastEarly(s) == ensure[s].made >= Ahead - 1

\* Mutant: one month more.
EnsureLastLate(s) == ensure[s].made = Ahead + 1

\* This was the last of the months.
EnsureLast(s) == ensure[s].made = Ahead

\* The partition is there then, whoever made it (42P07 is ignored).
EnsurePartition(s) ==
    LET slice == ensure[s].base + ensure[s].made
    IN  /\ ensure[s].asked /\ Writing = {} /\ ~conv.renamed
        /\ parts' = parts \union {slice}
        /\ IF EnsureLast(s)
           THEN /\ ensure' = [ensure EXCEPT ![s] = NotEnsuring]
                /\ server' = [server EXCEPT ![s].pc = "up"]
                /\ horizon' = Max({horizon, ensure[s].base + Ahead})
           ELSE /\ ensure' = [ensure EXCEPT ![s].made = @ + 1, ![s].asked = FALSE]
                /\ UNCHANGED <<server, horizon>>
        /\ UNCHANGED <<objects, journal, baseline, legacy, month, redis, kind, rows,
                       op, conv, changes>>

\* Any other error: it is logged, and the server serves.
EnsureFail(s) ==
    /\ server[s].pc = "ensuring"
    /\ server' = [server EXCEPT ![s].pc = "up"]
    /\ ensure' = [ensure EXCEPT ![s] = NotEnsuring]
    /\ UNCHANGED <<objects, journal, baseline, legacy, month, redis, kind, parts,
                   rows, op, conv, changes, horizon>>

\* The container stops, in whatever it is doing, and restarts; its transactions
\* are rolled back.
Crash(s) ==
    /\ server[s].pc \in {"starting", "ensuring", "up"}
    /\ server' = [server EXCEPT ![s].pc = "down"]
    /\ ensure' = [ensure EXCEPT ![s] = NotEnsuring]
    /\ op' = [o \in Ops |->
                IF o[1] = s /\ op[o].pc \notin {"idle", "done", "failed"}
                THEN [Idle EXCEPT !.pc = "failed"] ELSE op[o]]
    /\ UNCHANGED <<objects, journal, baseline, legacy, month, redis, kind, parts,
                   rows, conv, changes, horizon>>

-----------------------------------------------------------------------------
(* migrate-audit-logs-partitioned *)

\* The kind of the table is read, outside the transaction.
ConvertStart ==
    /\ conv.begun < MaxConversions
    /\ "audit_logs" \in objects /\ kind = "plain"
    /\ conv' = [conv EXCEPT !.begun = @ + 1, !.waiting = @ + 1]
    /\ UNCHANGED <<schemaVars, month, redis, kind, parts, rows, op, ensure, changes, horizon>>

\* RENAME, which the rest of the transaction has the lock from.
ConvertRename ==
    /\ conv.waiting > 0 /\ Writing = {} /\ ~conv.renamed
    /\ conv' = [conv EXCEPT !.waiting = @ - 1, !.renamed = TRUE]
    /\ UNCHANGED <<schemaVars, month, redis, kind, parts, rows, op, ensure, changes, horizon>>

RowMonths == {r.month : r \in rows}

\* The months that get a partition: those from the first row to the last, and
\* three more; from this month on if there is no row.
Slices ==
    IF rows = {} THEN month..(month + Ahead)
    ELSE Min(RowMonths)..Max(RowMonths)
         \union (Max(RowMonths) + 1)..(Max(RowMonths) + Future)

\* Mutant: the rows of this month only.
CopiedOfMonth == {r \in rows : r.month = month}

\* INSERT ... SELECT: every row of the renamed table, which is dropped then.
Copied == rows

\* The partitions, the rows and COMMIT: the table had no partition of these names,
\* and the columns of 0003.
ConvertCommit ==
    /\ conv.renamed
    /\ "actor_columns" \in objects /\ Slices \intersect parts = {}
    /\ kind' = "partitioned"
    /\ parts' = Slices
    /\ rows' = Copied
    /\ conv' = [conv EXCEPT !.renamed = FALSE]
    /\ horizon' = Max({horizon} \union
                      {IF rows = {} THEN month + Ahead ELSE Max(RowMonths) + Future})
    /\ UNCHANGED <<schemaVars, month, redis, op, ensure, changes>>

\* A statement fails, or the script dies: ROLLBACK.
ConvertFail ==
    /\ \/ conv.waiting > 0 /\ conv' = [conv EXCEPT !.waiting = @ - 1]
       \/ conv.renamed /\ conv' = [conv EXCEPT !.renamed = FALSE]
    /\ UNCHANGED <<schemaVars, month, redis, kind, parts, rows, op, ensure, changes, horizon>>

-----------------------------------------------------------------------------
(* Around them *)

Tick ==
    /\ month < MaxMonth
    /\ month' = month + 1
    /\ UNCHANGED <<schemaVars, redis, kind, parts, rows, op, ensure, conv, changes, horizon>>

\* The connection to Redis is lost, or is back.
RedisLost ==
    /\ redis /\ redis' = FALSE
    /\ UNCHANGED <<schemaVars, month, kind, parts, rows, op, ensure, conv, changes, horizon>>

RedisBack ==
    /\ ~redis /\ redis' = TRUE
    /\ UNCHANGED <<schemaVars, month, kind, parts, rows, op, ensure, conv, changes, horizon>>

\* 0003 alters the table, and needs it alone.
Schema ==
    /\ SchemaNext
    /\ 4 \in journal' \ journal => ~conv.renamed
    /\ UNCHANGED auditVars

Next ==
    \/ Schema
    \/ \E o \in Ops :
          \/ Begin(o) \/ Insert(o) \/ Publish(o)
          \/ Commit(o) \/ Abort(o) \/ Change(o) \/ InsertAfter(o)
    \/ \E s \in Servers :
          \/ EnsureStart(s) \/ EnsureAsk(s) \/ EnsurePartition(s)
          \/ EnsureFail(s) \/ Crash(s)
    \/ ConvertStart \/ ConvertRename \/ ConvertCommit \/ ConvertFail
    \/ Tick \/ RedisLost \/ RedisBack

Spec == Init /\ [][Next]_vars

\* What a request does next, once it has a transaction or has made its change.
Proceed(o) == Insert(o) \/ Publish(o) \/ Commit(o) \/ InsertAfter(o)

\* The lock is granted in the order it is asked for, so that nobody waits for it
\* for ever while others have it in turn; and the connection to Redis comes back,
\* for long enough.  Nothing makes a request begin, a server start or stop.
Fairness ==
    /\ \A o \in Ops : SF_vars(Proceed(o))
    /\ \A s \in Servers : WF_vars(EnsurePartition(s))
    /\ WF_vars(ConvertRename \/ ConvertCommit \/ (conv.renamed /\ ConvertFail))
    /\ WF_vars(RedisBack)

FairSpec == Spec /\ Fairness

-----------------------------------------------------------------------------
(* Properties *)

\* The table, the requests, the servers and the script hold what they can hold.
TypeOK ==
    /\ SchemaTypeOK
    /\ month \in 0..MaxMonth
    /\ redis \in BOOLEAN
    /\ kind \in {"plain", "partitioned"} /\ parts \subseteq Months
    /\ rows \subseteq Row
    /\ op \in [Ops -> Op]
    /\ ensure \in [Servers -> Ensure]
    /\ conv \in [begun : 0..MaxConversions, waiting : 0..MaxConversions, renamed : BOOLEAN]
    /\ changes \subseteq Ops
    /\ horizon \in Months \union {-1}

\* No row of the trail is lost and none is doubled, by a conversion beside the
\* requests that write or after the ones that wrote; and a change that is
\* committed has its row.  The exception: a request that commits its change before
\* its row has none if the statement fails or the server stops between them.
TrailIsComplete ==
    /\ \A o \in changes : Rowed(o) \/ op[o].pc \in {"changed", "failed"}
    /\ \A o \in Ops : op[o].pc = "done" => Rowed(o)
    /\ \A r \in rows : r.op \in changes /\ \A q \in rows : q.op = r.op => q = r

\* While partitions are looked after, an audited request is not refused for want
\* of one: this month's is there if a server has completed its start this month
\* or in the Ahead before it, or if the last row was at most Future months old
\* when the table was converted.  Whatever the order of the two, the servers
\* that start beside each other, and the months that pass while they do.
MaintainedTrailTakesRows == month <= horizon => HasPartition(month)

\* A request that has begun ends, though it has the lock of the table while it
\* waits for Redis, a server that starts waits for that lock, and the requests
\* after it wait for the server's.
EveryRequestEnds ==
    \A o \in Ops : op[o].pc \notin {"idle", "done", "failed"}
                       ~> op[o].pc \in {"done", "failed"}
=============================================================================
