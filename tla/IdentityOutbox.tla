--------------------------- MODULE IdentityOutbox ---------------------------
(***************************************************************************)
(* The identity outbox of crm-auth.  Transactions that change an account   *)
(* insert a row of identity_outbox with it; workers poll the table, send   *)
(* each row to the Redis stream and mark it; a replay request makes the    *)
(* listener insert a user.registered row for every account that is not     *)
(* deleted.  Other transactions write the row of an account back, deleted  *)
(* or not as they have read it, and insert no event.                       *)
(*                                                                         *)
(* Rows are numbered by the start of their transaction, which is what      *)
(* created_at holds (DEFAULT now()) and what the workers order by; the     *)
(* order of commits is another one.  A transaction's checks and its read   *)
(* of the account are one step, its writes and COMMIT another: the row     *)
(* lock serialises what is between them.  Of an event is kept what a       *)
(* consumer tells apart: whom it is about and whether it says the account  *)
(* is there.                                                               *)
(***************************************************************************)
EXTENDS Integers, FiniteSets, FiniteSetsExt, Functions

CONSTANTS Users,      \* accounts that may come to exist
          Workers,    \* processes that run runIdentityOutbox
          Offered,    \* operations that may be asked for
          MaxRows,    \* bound on the outbox rows ever inserted
          MaxEdits,   \* bound on the writes without an event under way at a time
          BatchSize,  \* rows a tick takes (IDENTITY_OUTBOX_BATCH_SIZE)
          PageSize,   \* users a page of the replay takes (BATCH_SIZE)
          MaxFaults   \* bound on crashes, lost replies and database or Redis errors

ASSUME OutboxAssumption ==
    /\ IsFiniteSet(Users) /\ Users # {}
    /\ Offered \subseteq {"register", "setActive", "delete", "restore", "erase", "replay"}
    /\ MaxRows \in Nat /\ MaxEdits \in Nat /\ MaxFaults \in Nat
    /\ BatchSize \in Nat \ {0} /\ PageSize \in Nat \ {0}

VARIABLES
    account,   \* users: whether the account is there, as committed
    edits,     \* writes without an event under way: of whom, as what they read
    begun,     \* how many row numbers were given out
    event,     \* identity_outbox: the operation that wrote a row, and of whom
    status,    \* identity_outbox: status ("absent": rolled back or not begun)
    waiting,   \* rows whose available_at is yet to come
    worker,    \* what each worker is doing
    redis,     \* whether Redis executes commands, or answers with an error
    sent,      \* rows the stream holds, or once held
    view,      \* the last row sent about each user (0: none)
    replay,    \* the replay listener
    faults,    \* faults so far
    \* History, read by no action's guard:
    rank,      \* in which order rows were committed (0: not committed)
    disturbed, \* users whose events met a failure, another worker or an overlap
    misled     \* users whose latest event is known not to tell their state

vars == <<account, edits, begun, event, status, waiting, worker, redis, sent, view,
          replay, faults, rank, disturbed, misled>>

Rows == 1..MaxRows
AccountOps == {"register", "setActive", "delete", "restore", "erase"}
States == {"none", "present", "deleted"}
Statuses == {"absent", "open", "pending", "failed", "published", "purged"}

\* base: the account as the transaction has read it.
Event == [op : AccountOps \union {"replay"}, user : Users, base : States]

Edit == [user : Users, base : {"present", "deleted"}]

\* batch: the rows of the tick still to process; the least is the current one.
Worker == [pc : {"idle", "publish", "mark", "fail", "backoff"},
           batch : SUBSET Rows]

\* listed: the page read and not yet inserted.  done: the users inserted.
\* owed (history): the users that have been there since the start.
\* shifted (history): an account went meanwhile.
Replay == [pc : {"idle", "list", "insert", "done", "failed"}, page : Nat,
           listed : SUBSET Users, done : SUBSET Users,
           owed : SUBSET Users, shifted : BOOLEAN]

NoEvent == [op |-> "setActive", user |-> CHOOSE u \in Users : TRUE,
            base |-> "none"]
AtRest == [pc |-> "idle", batch |-> {}]
NoReplay == [pc |-> "idle", page |-> 1, listed |-> {}, done |-> {},
             owed |-> {}, shifted |-> FALSE]

Init ==
    /\ account = [u \in Users |-> "none"] /\ edits = {}
    /\ begun = 0
    /\ event = [r \in Rows |-> NoEvent]
    /\ status = [r \in Rows |-> "absent"]
    /\ waiting = {}
    /\ worker = [w \in Workers |-> AtRest]
    /\ redis = TRUE
    /\ sent = {}
    /\ view = [u \in Users |-> 0]
    /\ replay = NoReplay
    /\ faults = 0
    /\ rank = [r \in Rows |-> 0]
    /\ disturbed = {} /\ misled = {}

-----------------------------------------------------------------------------
(* Rows *)

Committed == {r \in Rows : rank[r] > 0}

\* authIdentityEventSchema accepts the payload: pii-clean writes one that has
\* neither email nor role.
Fit(r) == event[r].op # "erase"

\* What the account is once the operation has committed: updateUserById writes
\* back the row its transaction has read.
Outcome(op, base) ==
    CASE op \in {"register", "restore"} -> "present"
      [] op \in {"delete", "erase"} -> "deleted"
      [] op = "setActive" -> base

\* user.registered and user.updated say the account is there.
SaysPresent(r) == event[r].op \notin {"delete", "erase"}

\* Mutant: failed rows are not retried.
DuePendingOnly == {r \in Rows : status[r] = "pending" /\ r \notin waiting}

\* The rows listPendingIdentityOutboxEvents can return.
Due == {r \in Rows : status[r] \in {"pending", "failed"} /\ r \notin waiting}

\* ORDER BY created_at LIMIT batchSize, of the rows that are due.
Earliest(rs) ==
    {r \in rs : Cardinality({s \in rs : s < r}) < BatchSize}

tableVars == <<account, edits, begun, event, rank, misled>>
workVars == <<worker, redis, sent, view>>

-----------------------------------------------------------------------------
(* Transactions that change an account *)

\* What the operation requires of the account it reads.
Admits(op, state) ==
    CASE op = "register" -> state = "none"
      [] op = "setActive" -> state # "none"
      [] op = "delete" -> state = "present"
      [] op = "restore" -> state = "deleted"
      [] op = "erase" -> state # "none"

\* Bound: fewer rows that fail the contract than a tick takes, as in
\* production, where a tick takes 50.
HasRoomFor(op) ==
    /\ begun < MaxRows
    /\ op = "erase" =>
          Cardinality({r \in Rows : status[r] # "absent" /\ ~Fit(r)}) + 1 < BatchSize

Begin(op, u) ==
    /\ op \in Offered /\ Admits(op, account[u]) /\ HasRoomFor(op)
    /\ begun' = begun + 1
    /\ event' = [event EXCEPT ![begun + 1] =
                    [op |-> op, user |-> u, base |-> account[u]]]
    /\ status' = [status EXCEPT ![begun + 1] = "open"]
    /\ UNCHANGED <<account, edits, waiting, workVars, replay, faults, rank,
                   disturbed, misled>>

\* The replay, when u becomes present or deleted: an account that goes moves the
\* pages.
Replaying(u, to) ==
    IF account[u] = "present" /\ to = "deleted" /\ replay.pc \in {"list", "insert"}
    THEN [replay EXCEPT !.owed = @ \ {u}, !.shifted = TRUE]
    ELSE replay

\* UPDATE, INSERT and COMMIT.  A second registration meets the UNIQUE email.
Commit(r) ==
    LET u == event[r].user
        to == Outcome(event[r].op, event[r].base)
    IN  /\ status[r] = "open"
        /\ event[r].op = "register" => account[u] = "none"
        /\ account' = [account EXCEPT ![u] = to]
        /\ status' = [status EXCEPT ![r] = "pending"]
        /\ rank' = [rank EXCEPT ![r] = Cardinality(Committed) + 1]
        /\ replay' = Replaying(u, to)
        /\ disturbed' = IF \E s \in Committed : s > r /\ event[s].user = u
                        THEN disturbed \union {u} ELSE disturbed
        /\ misled' = IF \/ event[r].op = "setActive" /\ event[r].base = "deleted"
                        \/ to = "deleted" /\ u \in replay.listed
                     THEN misled \union {u} ELSE misled \ {u}
        /\ UNCHANGED <<edits, begun, event, waiting, workVars, faults>>

Rollback(r) ==
    /\ status[r] = "open"
    /\ status' = [status EXCEPT ![r] = "absent"]
    /\ UNCHANGED <<tableVars, waiting, workVars, replay, faults, disturbed>>

-----------------------------------------------------------------------------
(* Transactions that write the row of an account and insert no event:         *)
(* resetPassword, changePassword, verifyEmailWithToken and                     *)
(* adminSetForcePasswordChange.  Those of one account that have read the same  *)
(* are one member of edits: what a second writes, one begun later writes too.  *)

\* The SELECT of updateUserById, which finds deleted accounts as well.
EditRead(u) ==
    /\ account[u] # "none" /\ Cardinality(edits) < MaxEdits
    /\ edits' = edits \union {[user |-> u, base |-> account[u]]}
    /\ UNCHANGED <<account, begun, event, rank, misled, status, waiting, workVars,
                   replay, faults, disturbed>>

\* Mutant: the UPDATE takes the account for one that is there.
EditWriteRestores(e) ==
    LET u == e.user
    IN  /\ e \in edits
        /\ edits' = edits \ {e}
        /\ account' = [account EXCEPT ![u] = "present"]
        /\ misled' = IF account[u] = e.base THEN misled ELSE misled \union {u}
        /\ UNCHANGED <<begun, event, rank, status, waiting, workVars, replay, faults,
                       disturbed>>

\* Its UPDATE of all columns, and COMMIT: a deletion or a restoration committed
\* since the SELECT is undone, and nobody is told.
EditWrite(e) ==
    LET u == e.user
    IN  /\ e \in edits
        /\ edits' = edits \ {e}
        /\ account' = [account EXCEPT ![u] = e.base]
        /\ replay' = Replaying(u, e.base)
        /\ misled' = IF account[u] = e.base THEN misled ELSE misled \union {u}
        /\ UNCHANGED <<begun, event, rank, status, waiting, workVars, faults,
                       disturbed>>

EditRollback(e) ==
    /\ e \in edits
    /\ edits' = edits \ {e}
    /\ UNCHANGED <<account, begun, event, rank, misled, status, waiting, workVars,
                   replay, faults, disturbed>>

-----------------------------------------------------------------------------
(* The replay listener *)

Listed == {u \in Users : account[u] = "present"}

\* users.created_at, by the row of the registration: no two accounts are made in
\* one microsecond, for the order of the pages has no tie-break.
Born(u) == CHOOSE r \in Committed : event[r].op = "register" /\ event[r].user = u

\* Mutant: the offset is that of the next page.
PageOfShifted(k) ==
    {u \in Listed :
        LET before == Cardinality({v \in Listed : Born(v) > Born(u)})
        IN  k * PageSize <= before /\ before < (k + 1) * PageSize}

\* listUsersPaginated: the latest first, page by page with OFFSET.
PageOf(k) ==
    {u \in Listed :
        LET before == Cardinality({v \in Listed : Born(v) > Born(u)})
        IN  (k - 1) * PageSize <= before /\ before < k * PageSize}

\* A request is read from the replay stream.
ReplayStart ==
    /\ "replay" \in Offered /\ replay.pc = "idle" /\ begun < MaxRows
    /\ replay' = [NoReplay EXCEPT !.pc = "list", !.owed = Listed]
    /\ UNCHANGED <<tableVars, status, waiting, workVars, faults, disturbed>>

ReplayList ==
    /\ replay.pc = "list"
    /\ LET page == PageOf(replay.page)
       IN replay' = IF page = {} THEN [replay EXCEPT !.pc = "done"]
                    ELSE [replay EXCEPT !.pc = "insert", !.listed = page]
    /\ UNCHANGED <<tableVars, status, waiting, workVars, faults, disturbed>>

\* One transaction of its own inserts the page, in any order of its rows; a page
\* that is not full is the last.
ReplayInsert ==
    LET n == Cardinality(replay.listed)
        rows == begun + 1 .. begun + n
        c == Cardinality(Committed)
    IN  /\ replay.pc = "insert"
        /\ begun + n <= MaxRows
        /\ begun' = begun + n
        /\ \E order \in Bijection(rows, replay.listed) :
              event' = [r \in Rows |->
                          IF r \in rows
                          THEN [op |-> "replay", user |-> order[r], base |-> "present"]
                          ELSE event[r]]
        /\ status' = [r \in Rows |-> IF r \in rows THEN "pending" ELSE status[r]]
        /\ rank' = [r \in Rows |-> IF r \in rows THEN c + r - begun ELSE rank[r]]
        /\ replay' = [replay EXCEPT !.pc = IF n < PageSize THEN "done" ELSE "list",
                                    !.page = @ + 1, !.listed = {},
                                    !.done = @ \union replay.listed]
        /\ misled' = misled \ {u \in replay.listed : account[u] = "present"}
        /\ UNCHANGED <<account, edits, waiting, workVars, faults, disturbed>>

\* A database error ends the replay, and readLoop acknowledges the request
\* anyway; a crash ends it too, and only new requests are read from then on.
ReplayFails ==
    /\ replay.pc \in {"list", "insert"} /\ faults < MaxFaults
    /\ faults' = faults + 1
    /\ replay' = [replay EXCEPT !.pc = "failed", !.listed = {}]
    /\ UNCHANGED <<tableVars, status, waiting, workVars, disturbed>>

\* XACK; the consumer reads only new requests from then on.
ReplayAck ==
    /\ replay.pc \in {"done", "failed"}
    /\ replay' = NoReplay
    /\ UNCHANGED <<tableVars, status, waiting, workVars, faults, disturbed>>

-----------------------------------------------------------------------------
(* The workers: runIdentityOutbox *)

\* Mutant: the latest row first.
CurrentLatest(w) == Max(worker[w].batch)

Current(w) == Min(worker[w].batch)

Goto(w, step) == worker' = [worker EXCEPT ![w].pc = step]

\* Mutant: the end of the batch is not noticed.
ProceedOn(w) ==
    worker' = [worker EXCEPT ![w] =
                 [pc |-> "publish", batch |-> worker[w].batch \ {Current(w)}]]

\* The loop goes on to the next row of the batch, or the tick ends.
Proceed(w) ==
    LET rest == worker[w].batch \ {Current(w)}
    IN  worker' = [worker EXCEPT ![w] =
                     [pc |-> IF rest = {} THEN "idle" ELSE "publish", batch |-> rest]]

\* The timer fires and no tick of this worker is running (a tick that finds no
\* row changes nothing).
Tick(w) ==
    LET batch == Earliest(Due)
        users == {event[r].user : r \in batch}
    IN  /\ worker[w].pc = "idle"
        /\ worker' = [worker EXCEPT ![w] =
                        [pc |-> IF batch = {} THEN "idle" ELSE "publish",
                         batch |-> batch]]
        /\ disturbed' = disturbed \union
              {u \in users : \E x \in Workers \ {w} :
                                \E r \in worker[x].batch : event[r].user = u}
        /\ UNCHANGED <<tableVars, status, waiting, redis, sent, view, replay, faults>>

\* XADD: the stream has the row.
Send(r) ==
    /\ redis
    /\ Fit(r)
    /\ sent' = sent \union {r}
    /\ view' = [view EXCEPT ![event[r].user] = r]

Publish(w) ==
    /\ worker[w].pc = "publish"
    /\ Send(Current(w))
    /\ Goto(w, "mark")
    /\ UNCHANGED <<tableVars, status, waiting, redis, replay, faults, disturbed>>

\* Mutant: without Redis the event is skipped, as if requireRedis were not set.
PublishFailsSilently(w) ==
    /\ worker[w].pc = "publish"
    /\ ~redis \/ ~Fit(Current(w))
    /\ Goto(w, "mark")
    /\ UNCHANGED <<tableVars, status, waiting, redis, sent, view, replay, faults,
                   disturbed>>

\* publishAuthEvent throws: Redis answers with an error (out of memory, loading;
\* requireRedis), or the payload does not meet the contract.
PublishFails(w) ==
    /\ worker[w].pc = "publish"
    /\ ~redis \/ ~Fit(Current(w))
    /\ Goto(w, "fail")
    /\ UNCHANGED <<tableVars, status, waiting, redis, sent, view, replay, faults,
                   disturbed>>

\* The row is in the stream, but the connection broke before the reply: ioredis
\* will send the command again.
PublishAgain(w) ==
    /\ worker[w].pc = "publish" /\ faults < MaxFaults
    /\ faults' = faults + 1
    /\ Send(Current(w))
    /\ UNCHANGED <<tableVars, status, waiting, worker, redis, replay, disturbed>>

\* markIdentityOutboxPublished, by id alone.
Mark(w) ==
    LET r == Current(w)
    IN  /\ worker[w].pc = "mark"
        /\ status' = [status EXCEPT ![r] = IF @ = "purged" THEN @ ELSE "published"]
        /\ Proceed(w)
        /\ UNCHANGED <<tableVars, waiting, redis, sent, view, replay, faults, disturbed>>

\* The UPDATE throws, inside the same try: the row is marked failed.
MarkFails(w) ==
    /\ worker[w].pc = "mark" /\ faults < MaxFaults
    /\ faults' = faults + 1
    /\ Goto(w, "fail")
    /\ UNCHANGED <<tableVars, status, waiting, redis, sent, view, replay, disturbed>>

\* The first UPDATE of markIdentityOutboxFailed, whatever the status is by now.
MarkFailed(w) ==
    LET r == Current(w)
    IN  /\ worker[w].pc = "fail"
        /\ status' = [status EXCEPT ![r] = IF @ = "purged" THEN @ ELSE "failed"]
        /\ disturbed' = disturbed \union {event[r].user}
        /\ Goto(w, "backoff")
        /\ UNCHANGED <<tableVars, waiting, redis, sent, view, replay, faults>>

\* The second: available_at moves into the future.
Backoff(w) ==
    /\ worker[w].pc = "backoff"
    /\ waiting' = waiting \union {Current(w)}
    /\ Proceed(w)
    /\ UNCHANGED <<tableVars, status, redis, sent, view, replay, faults, disturbed>>

\* The process is killed, or an error of markIdentityOutboxFailed ends the tick.
Interrupt(w) ==
    /\ worker[w].pc # "idle" /\ faults < MaxFaults
    /\ faults' = faults + 1
    /\ worker' = [worker EXCEPT ![w] = AtRest]
    /\ UNCHANGED <<tableVars, status, waiting, redis, sent, view, replay, disturbed>>

-----------------------------------------------------------------------------
(* Around them.  Redis may refuse commands for a time.  That its connection    *)
(* is lost is no step: a command waits in ioredis until the connection is      *)
(* back (maxRetriesPerRequest: null), and its worker with it.                  *)

\* available_at passes.
Elapse(r) ==
    /\ r \in waiting
    /\ waiting' = waiting \ {r}
    /\ UNCHANGED <<tableVars, status, workVars, replay, faults, disturbed>>

RedisDown ==
    /\ redis /\ faults < MaxFaults
    /\ faults' = faults + 1
    /\ redis' = FALSE
    /\ UNCHANGED <<tableVars, status, waiting, worker, sent, view, replay, disturbed>>

RedisUp ==
    /\ ~redis
    /\ redis' = TRUE
    /\ UNCHANGED <<tableVars, status, waiting, worker, sent, view, replay, faults,
                   disturbed>>

\* Mutant: the cleanup goes by age alone.
PurgeAny(r) ==
    /\ status[r] \in {"pending", "failed", "published"}
    /\ status' = [status EXCEPT ![r] = "purged"]
    /\ UNCHANGED <<tableVars, waiting, workVars, replay, faults, disturbed>>

\* purgeStaleAuthArtifacts, of a published row that is old enough.
Purge(r) ==
    /\ status[r] = "published"
    /\ status' = [status EXCEPT ![r] = "purged"]
    /\ UNCHANGED <<tableVars, waiting, workVars, replay, faults, disturbed>>

WorkerStep(w) ==
    \/ Publish(w) \/ PublishFails(w) \/ Mark(w) \/ MarkFailed(w) \/ Backoff(w)

Next ==
    \/ \E op \in AccountOps, u \in Users : Begin(op, u)
    \/ \E u \in Users : EditRead(u)
    \/ \E e \in Edit : EditWrite(e) \/ EditRollback(e)
    \/ \E r \in Rows : Commit(r) \/ Rollback(r) \/ Elapse(r) \/ Purge(r)
    \/ ReplayStart \/ ReplayList \/ ReplayInsert \/ ReplayFails \/ ReplayAck
    \/ \E w \in Workers : \/ Tick(w) \/ WorkerStep(w)
                          \/ PublishAgain(w) \/ MarkFails(w) \/ Interrupt(w)
    \/ RedisDown \/ RedisUp

Spec == Init /\ [][Next]_vars

\* setInterval keeps the ticks coming, a tick runs on, Redis comes back and
\* time passes.  Nothing is assumed of the requests, nor that faults happen.
Fairness ==
    /\ \A w \in Workers : WF_vars(Tick(w)) /\ WF_vars(WorkerStep(w))
    /\ \A r \in Rows : WF_vars(Elapse(r))
    /\ WF_vars(RedisUp)

FairSpec == Spec /\ Fairness

-----------------------------------------------------------------------------
(* Properties *)

\* The columns and the workers hold what they can hold.
TypeOK ==
    /\ account \in [Users -> States] /\ edits \subseteq Edit
    /\ begun \in 0..MaxRows
    /\ event \in [Rows -> Event]
    /\ status \in [Rows -> Statuses]
    /\ waiting \subseteq Rows
    /\ worker \in [Workers -> Worker]
    /\ \A w \in Workers : worker[w].pc # "idle" => worker[w].batch # {}
    /\ redis \in BOOLEAN
    /\ sent \subseteq Rows
    /\ view \in [Users -> 0..MaxRows]
    /\ replay \in Replay
    /\ faults \in 0..MaxFaults
    /\ rank \in [Rows -> 0..MaxRows]
    /\ disturbed \subseteq Users /\ misled \subseteq Users

\* A row that is marked published, and so will never be sent again and may be
\* purged, has reached the stream, whatever failed on the way.
PublishedRowsWereSent ==
    \A r \in Rows : status[r] \in {"published", "purged"} => r \in sent

\* Row r was committed after s and is about the same account.
Supersedes(r, s) == event[r].user = event[s].user /\ rank[s] < rank[r]

\* Although nothing orders them but created_at, the events of an account reach
\* the stream so that the last one sent is the last one committed of those
\* sent, unless one of them failed, two workers had events of the account in
\* hand together, or two of its transactions overlapped.
EventsKeepTheirOrder ==
    \A r \in sent : LET u == event[r].user
                    IN  Supersedes(r, view[u]) => u \in disturbed

Drained == \A r \in Rows : status[r] \notin {"pending", "failed"}

\* Once the outbox is drained, the last event sent about an account tells
\* whether the account is there, unless the order of its events was disturbed or,
\* since its last event or replay, a replay emitted it that had read it before it
\* was deleted, an administrator changed the status of a deleted account
\* (user.updated), or a write without an event undid a deletion or a restoration
\* that it had not read.
DrainedOutboxTellsTheAccounts ==
    Drained => \A u \in Users :
        \/ view[u] = 0 /\ account[u] = "none"
        \/ view[u] # 0 /\ (SaysPresent(view[u]) <=> account[u] = "present")
        \/ u \in disturbed \union misled

\* A replay that ends well has emitted every account that was there all along,
\* however registrations and restorations move the pages; only an account that goes
\* while it runs, deleted or by a stale write, can make OFFSET step over another.
ReplayEmitsEveryAccount ==
    replay.pc = "done" /\ ~replay.shifted => replay.owed \subseteq replay.done

\* The outbox delivers at least once every event that meets the contract.
Promise == INSTANCE AtLeastOnce
           WITH Events <- Rows, committed <- {r \in Committed : Fit(r)},
                delivered <- sent

DeliversAtLeastOnce == Promise!Spec

-----------------------------------------------------------------------------
(* What the documents say, and the code does not do *)

\* INTEGRATIONS.md: at-least-once delivery of every identity event, among them
\* the user.deleted that pii-clean enqueues to notify the services downstream.
\* (Violated: that payload fails the schema, on every attempt.)
EveryEventIsSent == \A r \in Rows : rank[r] > 0 ~> r \in sent
=============================================================================
