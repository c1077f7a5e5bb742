# A TLA+ verification of crm-auth

crm-auth is the identity service of a CRM: a TypeScript program (Hono, drizzle,
PostgreSQL, Redis) that logs users in, rotates their refresh tokens, issues
access tokens other services verify, administers accounts, and tells the other
services about its accounts through a Redis stream. `cima-contracts` is the
library it shares with them. This directory models the parts in which order,
failure and time matter, checks them with TLC and proves their invariants with TLAPS.

Paths below are those of the repository (`src/` is its root there).

## 1. Inventory

| Component | State | Operations | Interacts with |
|---|---|---|---|
| Login and sessions (`auth.service.login-session.ts`, `auth.service.sessions.ts`, `refresh-tokens.repository.ts`) | `refresh_tokens`: family, owner, revoked, expiry | login, refresh (rotation, reuse detection), logout, list and revoke sessions | reads `users` before its transactions; the cleanup deletes rows under it |
| Account operations (`auth.service.password.ts`, `.admin.ts`, `.email-verify.ts`, `users-write.repository.ts`) | `users` | reset and change of password, activation, suspension, deletion, restoration, edits | revoke refresh tokens, write the user key in Redis, insert events, all in one transaction |
| Access-token revocation (`cima-contracts/token-blocklist.ts`, both auth middlewares) | Redis keys per token and per user; a verification cache per downstream process | logout, revocation of a user, the checks of every request | called inside the account transactions |
| Identity outbox (`identity-outbox.repository.ts`, `run-identity-outbox.ts`, `event-publisher.ts`, `auth.worker.ts`) | `identity_outbox`; Redis stream | insert with the account change, poll, publish, mark, retry with backoff, purge | one or more worker processes share the table |
| Replay listener (`replay-request-listener.ts`) | position in the account list | read a request, page through the accounts, insert their events, acknowledge | runs beside the account operations |
| Login lockout (`users-write.repository.ts`) | failed attempts, lock | count, lock, clear, reset | full-row writes of other operations |
| Invitations (`auth.service.invitations.ts`, `.worker.ts`) | `invitations` | invite, renew, accept (makes the account and logs in) | UNIQUE e-mail of `users` |
| Password recovery and e-mail verification | `password_resets`, `email_verifications` | request with throttling, use once, invalidate | e-mail outbox |
| E-mail outbox (`run-email-outbox.ts`, `media-email-client.ts`, `retry.ts`) | `email_outbox` | dispatch to crm-media, retry, expire | HTTP with timeouts |
| Stream consumer (`cima-contracts/event-consumer.ts`) | group, pending entries, dead letters | read, reclaim, handle, retry, acknowledge | other consumers of the group |
| Token cleanup (`token-cleanup.repository.ts`) | - | six independent deletions | every table of tokens and rows |
| Database schema (`db/scripts/bootstrap.ts`, `baseline-legacy-migrations.ts`, `docker-entrypoint.sh`) | the schema; `__drizzle_migrations` | bootstrap, baseline, migrate | a container of the API migrates before it serves |
| Audit trail (`audit-logs.repository.ts`, `ensure-audit-log-partitions.ts`, `migrate-audit-logs-partitioned.ts`) | `audit_logs` and its partitions; Redis stream | a row with almost every operation, partitions at start-up, conversion of the plain table | the table's lock; Redis inside transactions |
| Signing keys (`config/jwt.ts`, `cima-contracts/jwks.ts`, `gen-jwt-keys.ts`) | one key per replica; key cache and verification cache downstream | sign, publish, fetch, verify, rotate | any replica answers; downstream services |
| Rate limit, presence | counters; last observation | one atomic statement each | - |
| Wiring, HTTP surface | - | start-up, shutdown, validation, formatting | - |

**What is hard.** Node runs one request at a time between two awaits, but every
query is an await, there may be several processes, and PostgreSQL runs READ
COMMITTED: checks made before a transaction are stale inside it, an UPDATE does
not see rows inserted while it waits, and a full-row write undoes what was
committed since its read. Redis is not part of any transaction: keys are written
before a commit that may fail, they expire on their own, its errors are logged and
ignored, and a lost connection makes commands wait without limit and be sent
again. Workers share tables without claiming rows and may die between two
statements. `PROJECT.json` lists these hazards one by one, at their lines.

**What makes each component correct.** Sessions: a token is used once, a session
that was ended stays ended, live tokens belong to active accounts and current
passwords. Access tokens: refused once revoked, and only then. Outbox: an event
is published if and only if its transaction committed, at least once, and consumers
end up with the truth about each account. Lockout: the limit holds however
failures arrive. Invitations, resets, verifications: used once, one account per
e-mail. E-mails: sent or expired, not lost. Stream consumer: every message is
handled or put in the dead letters. Schema: what is recorded has been applied, and
the next container can always start. Audit trail: a committed change has its row,
the table takes rows as long as it is looked after, and nobody waits for it for
ever. Keys: a replaced key is forgotten soon, the new one believed at once.

## 2. Modules and runs

| Module | Models | Runs |
|---|---|---|
| `Sessions` (`SessionsMC`) | refresh tokens and account operations | `SessionsAccounts`, `SessionsFamilies`, `SessionsReuse` |
| `AtLeastOnce` | the promise of an outbox and of a consumer group, abstractly | (three refinements) |
| `IdentityOutbox` (`IdentityOutboxMC`) | outbox, workers, replay; implements `AtLeastOnce` | `OutboxDelivery`, `OutboxReplay`, `OutboxErasure` |
| `AccessTokens` | access tokens, blocklist, middlewares, cache | `AccessTokens` |
| `StreamConsumer` | the consumer library of the streams; implements `AtLeastOnce` | `StreamGroup` |
| `Credentials` (`CredentialsMC`) | password, login lock, reset and verification links | `Credentials` |
| `EmailOutbox` | e-mail rows and their worker; implements `AtLeastOnce` | (with `Onboarding`) |
| `Onboarding` | invitations and acceptance; extends `EmailOutbox` | `Onboarding` |
| `Migrations` | bootstrap, baseline and the migrator of the containers | (with `AuditTrail`) |
| `AuditTrail` (`AuditTrailMC`) | audit rows, partitions, conversion, servers; extends `Migrations` | `Database` |
| `SigningKeys` (`SigningKeysMC`) | keys of the replicas, JWKS client, verification cache | `SigningKeys` |
| `SessionsProofs`, `IdentityOutboxProofs`, `AccessTokensProofs`, `StreamConsumerProofs`, `CredentialsProofs`, `SigningKeysProofs` | theorems about the module each is named after | (TLAPS) |
| `OnboardingProofs` | theorems about `Onboarding` and `EmailOutbox` | (TLAPS) |
| `AuditTrailProofs` | theorems about `AuditTrail` and `Migrations` | (TLAPS) |

### Sessions

`account`, `stored` and `row` are the tables as committed; `req[p]` is what the
request of process `p` has read and where it stands. The steps of a request:

* login: `LoginRead` (the SELECT before bcrypt), `LoginCommit` (its transaction);
* refresh: `RefreshRead` (outside the transaction), `Rotate` (the UPDATE by id,
  which locks the row, and the SELECT of the account), `RefreshCommit`; or
  `RefreshReuse`, `RefreshExpired`;
* logout, revokeMySession, reuse detection: a start that takes the snapshot of
  the UPDATE (`targets`), then `Sweep`, which waits for the locks, revokes the
  rows of the snapshot and commits;
* account operations: `AccountStart`, `AccountSelect` and `AccountUpdate` (the two
  halves of `updateUserById`, the second taking the row lock and the snapshot of
  `revokeAllRefreshTokensForUser`), then `Sweep` or `AccountCommit`.

`Abort` ends any of them (rollback, crash, a deadlock's victim); `Expire` and
`Cleanup` run beside them. A request has no deadline, so nothing here is said
about liveness. History variables record what the properties speak of: `raced`
(families in which two refreshes overlapped on a token), `dead` (families a
committed revocation ended), `escaped` (tokens stored by a request that a
revocation or an account change overtook), `lost` (accounts over which a stale row
was written).

* `SuccessorSpendsParent`, `OneLiveTokenUnlessRaced`,
  `DeadFamiliesLiveOnlyThroughRaces`, `LiveTokensAreEntitled` state what the code
  does guarantee, naming each race that is the only way out.
* `OneLiveTokenPerFamily` (ADR-002) is what the documents promise without the
  exceptions; the run `SessionsReuse` shows the race.

Bounds: two requests at a time (each hazard listed is between two), two tokens
where the account varies, three where families are rotated (a token, its
successor, and the rival successor), one account (requests on two accounts share
no row), two passwords. `Offered` splits the account operations between two runs;
between them every operation runs.

### IdentityOutbox and AtLeastOnce

Rows are numbered by the start of their transaction, for `created_at` is `now()`, the
transaction's start, while commits come in any order (`rank`). `Begin` and `Commit` are an
account operation that enqueues an event (registration, status change, deletion,
restoration, pii-clean), `ReplayList` and `ReplayInsert` a page of the replay. `EditRead`
and `EditWrite` are the two statements of `updateUserById` in the transactions that insert
no event (resetPassword, changePassword, verifyEmailWithToken,
adminSetForcePasswordChange): the UPDATE writes `deleted_at` back as it was read. A worker
goes `Tick`, then for each row `Publish`, `Mark`, or `PublishFails`/`MarkFails`,
`MarkFailed`, `Backoff` (the two UPDATEs of `markIdentityOutboxFailed`); `Interrupt` ends
it anywhere. A command whose reply is lost is sent again (`PublishAgain`); a worker
waiting for the connection just stands still.

Fairness: `setInterval` keeps the ticks coming and a tick runs on, so `Tick` and
the steps of a worker are weakly fair; `available_at` passes; Redis does not
refuse commands for ever. Nothing is assumed of requests (a transaction may
stay open), and faults need never happen.

* `OutboxDelivery`: two workers, two faults, every kind of failure.
  `DeliversAtLeastOnce` is `AtLeastOnce!Spec` under the mapping committed = rows
  committed whose payload meets the contract, delivered = `sent`; it contains
  the liveness. `PublishedRowsWereSent` keeps the purge safe;
  `EventsKeepTheirOrder` says when order survives.
* `OutboxReplay`: two accounts and four rows, a page of one, a batch of two: a
  replay beside registrations, deletions, restorations, and a write of a whole row that
  enqueues nothing. One that overlaps a deletion or a restoration undoes it and nobody is
  told: the account is in `misled` then, until its next event.
* `OutboxErasure`: the event of pii-clean fails the schema on every attempt.

Bounds: two rows are enough for two workers to hold one each or the same ones and for an
older row to be delayed behind a newer one; four let a registration of each account, a
deletion and a replayed row meet. One such write is under way at a time (`MaxEdits`; none
in the other two runs), since each is a hazard to an operation beside it; the theorems
hold for any number. Pages are ordered by `created_at` alone
(`users-read.repository.ts:140`); the model takes no two accounts to be made in one
microsecond, else a page might repeat one and leave out the other. `HasRoomFor` keeps the
rows that can never be sent below the batch size, as fifty of them would be needed in
production to block a tick: that hazard is listed, not hidden.

### AccessTokens

Time runs in ticks of half a second, because `iat`, `exp` and the user key are whole
seconds while Redis expires keys to the millisecond. The transaction that revokes takes
its second at the call (`ChangeStart`), the key is written at any time after (`Mark`, a
lost connection delays it), and the commit or rollback follows. `redis = FALSE` is a Redis
that answers with errors, which the code takes for "not revoked". Inside a transaction
Redis is awaited, so that a rollback before `Mark` is the end of the process; a
transaction that only loses its connection to PostgreSQL meanwhile, and whose SETEX
ioredis sends later all the same, is left out. `SuspendedAccountIsOut` states what holds:
out from the second of the call until the key expires, for nothing ties the 900 s of the
key to the 28800 s of the token. `LoggedOutStaysOut` includes the one second at exp that
differs between the two middlewares, and that no entry of the verification cache lives
longer. Bounds: a token of 3 s, a user key and a cache entry of 1 s keep what matters of
the proportions (the token outlives both, so a key expires before the token it was to
refuse), five seconds let all of them expire; one token, since no action relates two.

### StreamConsumer

An entry's id is its place in `stream`. `consumer[c]` is where the process stands in
`readLoop`, `reclaimPending` and `processMessages`: the batch it has in hand (a set, gone
through by id, as Redis returns entries),
whether it was reclaimed, and the delivery count it has read. `Reclaim` and `Read`
are XAUTOCLAIM and XREADGROUP, `Entry` sorts the entry that comes next (stop message,
malformed, event with its XPENDING), `HandlerSucceeds`, `HandlerRejects` and
`HandlerFails` are the outcomes of the handler, `DeadLetter` is onDlq and `Ack` XACK.
`LoopFails` and `SettleFails` are the errors of Redis and onDlq, each at the place
where the code catches it; `Exit` is a kill, or the end of a process three seconds
after `stop`. Redis's own pending list is external and modelled from its use.

Faults are counted: errors, kills, and a consumer that is slow (`pendingIdleMs` pass
while it has the entry in hand, and another may reclaim it). `disturbed` are the
entries that one hit; of all others `UndisturbedEntriesEndOnce` says that they end
once, whatever consumers do beside each other, and are given up after MaxRetries
failures exactly. `NothingIsAckedUnsettled` holds with faults too.
`HandledOrDeadLettered` is
`AtLeastOnce!Spec` with delivered = handled or dead-lettered. Three things the code
does are visible in the model and not claimed otherwise: it counts deliveries, not
failures, so that an entry that waits in the batches of consumers that die is
given up sooner; an event whose XACK fails on the last delivery is dead-lettered
although it was handled; the stop message wakes whichever replica reads it.

Fairness: a process that ended is started again (docker's restart policy), its loop
and its handlers run on, and time passes. Nothing is assumed of what handlers
return. Bounds: two consumers, two entries in batches of two (one waits while
the other is handled), two deliveries until an entry is given up, one fault: each
hazard listed needs one. Not modelled: entries that MAXLEN trims before they are read.

### Credentials

`user` holds the columns that logins, passwords and verifications write, `link` the
rows of `password_resets` and `email_verifications`, `req` the requests in flight as
in `Sessions`. Logins: `LoginRead`, `ClearLock` (a lock that is over), then
`LoginCommit`, or `FailRead` and `FailWrite`, the two statements of
`recordFailedLoginAttempt`. Changes: `ChangeStart` or `LinkStart` (the checks of a
link), `Select` and `Update` (the halves of `updateUserById`), `Commit`. Requests for
links: `ForgotRead` (the throttle) or `VerificationRead`, `Insert`. `LockEnds` and
`Age` are time, `Purge` the cleanup.

History variables name the races, as in `Sessions`: `strikes` (-1 once a count was
lost), `lost` (columns a stale row was written over), `late` (requests whose link
another has ended since they looked), `crowded` (two requests passed the throttle
together). The properties say that outside of these the lock comes at the limit,
committed changes stand, links work once and end with the password, and resets are
throttled. The last has one more way out: by default a reset expires after an hour
and the cleanup then deletes it, while the limit is meant for 24 hours
(`src/src/config/env.ts:71`) and counts the rows that are left.

Bounds: two requests, two links, two changes, a lock at the second failure, one
reset a day. `MaxFailures` equals the limit: a login in flight that fails after the
lock only locks again. Other operations that write the whole row (an
administrator's edits) do to these columns what a verification does.

### EmailOutbox and Onboarding

`EmailOutbox` has the rows of `email_outbox` and `runEmailOutbox`: `Tick` lists what is
due, then for each row `DecryptFails`, or `Expire`, or `Dispatch` (202 to one of the
attempts of `withRetry`, which are one step here: they send the same body) and `Mark`, or
`DispatchFails`, `MarkFailed` and `Backoff`. A dispatch that ends in an error may have got
there. `MakeUnreadable` is a change of EMAIL_OUTBOX_ENCRYPTION_KEY, which all workers are
taken to share, or a damaged payload: decryptEmailJob comes before the check of the age,
so that such a row fails whenever it is tried and never expires. `Interrupt` includes the
UPDATEs in the try block that fail, of `markEmailOutboxExpired` too. `Onboarding` extends
it with the invitations of one address, whose transactions write the e-mails: `InviteRead`
(the checks outside the transaction), `InviteCommit`; `AcceptRead`, `Create` (the INSERT,
under the UNIQUE e-mail), `AcceptCommit`. A link can be accepted once its e-mail was
dispatched.

* `AcceptedAsOffered`: inviteClient renews a pending invitation of any role without
  changing it, and an acceptance uses the row it has read; that no account gets
  another role than its e-mail offered rests on the check of `clientKind` in
  `UserEntity`.
* `OneOpenInvitation`, `OneInvitationIsSpent`: what the checks outside the transactions
  and the UNIQUE e-mail achieve together; `crowded` names the overlaps.
* `OpenInvitationsAreMailed` relates the two modules: a link that is good is not dropped
  with its e-mail. `SentOrOverdue` is `AtLeastOnce!Spec` with delivered = dispatched,
  found too old, or unreadable. The rows that nobody can read are tried for ever, and the
  others get through beside them as long as a batch (50) has room for all.

Fairness: as for the identity outbox; nothing is assumed of crm-media, for an e-mail it
never takes becomes too old. Bounds: two requests, two e-mails (an invitation and its
renewal or rival), one worker, as `docker-compose.yml` deploys, one fault (an error or
crash of a tick, a payload that becomes unreadable). An e-mail and what it offers expire
together: `expiresAt` and `created_at` are taken in the same request. Other e-mails than
invitations go through the same rows; their links are in `Credentials`.

### Migrations and AuditTrail

`Migrations` keeps the schema as the set of objects the scripts look at or that
migrations fail over (`Creates`), `journal` (the rows of `__drizzle_migrations`), the
baseline in progress and where each container is. `Bootstrap` is the script: of all it
does the other scripts see `schema_version` only. `BaselineInfer`, `BaselineCommit`,
`BaselineAbort` are the baseline under its advisory lock; `MigrateRead` reads the last
record outside the transaction and `MigrateRun` applies everything after it, in one
transaction, or `MigrateFail` ends the container. drizzle's migrator (`pnpm db:migrate`,
that is `drizzle-kit migrate`) is external, modelled from its use: it looks at the last
record only. `Servers` are the containers that migrate: those of the API with
RUN_DB_SETUP_ON_STARTUP (`docker-entrypoint.sh:18`). One that does not behaves as one that
finds everything recorded, if an operator has run `pnpm db:migrate` before, which is
`MigrateRead` and `MigrateRun` too. Workers touch neither schema nor partitions.

`AuditTrail` extends it with `audit_logs`. A request goes `Begin`, `Insert`, `Publish`
(inside the transaction), `Commit` or `Abort`; the two operations that commit first and
write their row afterwards go `Change`, `InsertAfter`. A server goes `EnsureStart`,
`EnsureAsk`, `EnsurePartition` for each month, and then serves; `EnsureFail` is logged and
it serves all the same; `Crash` is any stop. The conversion goes `ConvertStart` (the kind
of the table, read before BEGIN), `ConvertRename` (the lock), `ConvertCommit`, or
`ConvertFail`. `Writing` and `Exclusive` are the lock of the table: PostgreSQL queues
behind a statement that waits for it alone.

* `RecordedIsApplied`, `SoundSchemaIsNeverStuck`: from every prefix of the first four
  migrations and from five schemas that are none (drizzle-kit push, migrations applied
  by hand), whatever the order of the scripts. Each names its one exception.
* `TrailIsComplete`: no row is lost or doubled by conversions, crashes and requests
  beside each other; only an operation that writes its row last may leave none.
* `MaintainedTrailTakesRows`: the months that the start of a server and the conversion
  promise are there, though the date is read before, months pass, and both race.
* `EveryRequestEnds`: the lock, the queue behind it and the wait for Redis form no circle.

Fairness: `SF` of a request's next statement and `WF` of a server's and of the script's,
since PostgreSQL grants a lock in the order it is asked for; the connection to Redis
comes back (`WF`, and `SF` of `Publish` makes it stay long enough), as ioredis reconnects
for ever. No request need begin, no server start or stop.

Bounds: two containers, as many as it takes to race; one audited request of each, so
that one holds the lock while the other waits; two conversions, the second of which finds
the table already made; three months, partitions one month ahead instead of two and
three (`Ahead`, `Future`), so that the clock can leave the horizon behind. The cron job of
the partitions does what a starting server does. Process and database are taken to have
UTC, as in the images. Not modelled: the pool of connections (a request that gets none
within five seconds fails, having done nothing) and the reading of the trail.

### SigningKeys

`runs[r]` is the key a replica signs with and publishes (`getJwksDocument` makes its
document once), `newest` the one replicas start with; `Rotate` puts a new pair in the
environment, with a kid of its own or with one that was used before, and `Restart`
replaces one replica; the next key comes when all have the last one. Downstream, `Present`
looks for the kid in the cached document, `Answer` is the document of any replica, `Store`
caches it when it is in, over whatever another request has cached meanwhile, and goes on;
`FetchFail` is the end of `withRetry`. `Verify` includes the cache of verified tokens,
which is asked by the token alone and may drop any entry (`Forget`). The verdict is that
of the signature: the blocklist, which is asked after it, is in `AccessTokens`.

* `RetiredKeysFade`: when a replaced key stops being believed.
* `NewestKeyIsAccepted`: at once under a new kid; under the old one only after a document
  fetched before has expired, since a signature that does not verify is no reason to fetch.

Bounds: two replicas and two keys (one half restarted; that a third one takes the kid of the
first is in the theorems), two requests whose fetches
overlap, lifetimes of two, one and one ticks, which keep their order (5 min, 1 min, 5 s),
six ticks for all of them to pass. One token stands for all of a key. A middleware
configured with a PEM instead of a URI fetches nothing and is not modelled.

## 3. What is proved

Every invariant that a run checks is a theorem: `Spec => []Inv`, for every value of
the constants that meets the named assumption of its module. The assumptions ask that
bounds are naturals, lifetimes and sizes positive where a zero has no meaning, that
there is an account, a server or a replica, and, where a proof counts them, that the
requests (`Sessions`, `Credentials`, `Onboarding`) or the accounts (`IdentityOutbox`) are
finitely many. TLC evaluates them on each run. Bounds like
`MaxTokens` stay part of the statements, but may be any number. The proofs also use the
library's theorems on cardinalities and on well-founded orders (the least of a set of
naturals), none that takes an operator as a parameter.

Every proof has the same plan: an inductive invariant, of named parts, is kept by each
action (one lemma per action, or per group of actions that change the same things), and
it implies the property. Few properties are inductive as they stand; below is what each
needs.

**`SessionsProofs`.** `SessionInv` is behind `OneSessionOneToken` and `RotationSpends`. That
a family has one live token is preserved by `RefreshCommit` only if the token being
replaced is the live one of its family, or the family is raced: `RotatesTheLiveToken`
says so of every rotation in flight, and `OneRotation` that there is one per unraced
family. That a successor's parent is revoked needs that the rows issued so far are those
in the table or purged (`RotatingIssued`) and that a row points to an older one
(`RowsPointBack`), so that no new row becomes the parent of an old one.
`RevocationInv` is behind `EndedSessionsStayEnded` and `SessionsAreEntitled`. A sweep
revokes the rows of its snapshot and no others; whatever it covers and does not have in
the snapshot was inserted since, and is in `escaped` (`SweptOrEscaped`). A refresh that
was overtaken knows it (`DeadRotationsAreWarned`, `RotationsAreEntitled`), so that its
successor will be in `escaped`; and a family has one user (`OneUserPerFamily`), so that
a revocation of a user covers whole families.

**`AuditTrailProofs`.** `SchemaInv`, of `Migrations` under the steps of `AuditTrail`:
`RecordedIsApplied` needs that the prefix a baseline has inferred and not yet
recorded is applied (`BaselineIsApplied`), and that follows, when it is inferred,
from a schema being torn in nothing but what it was torn in at the beginning
(`TornFromTheStart`). `SoundSchemaIsNeverStuck` rests on `CleanInv`: a schema that
was sound is always that of the first k migrations, but for `schema_version`,
recorded up to k or not at all, and a migrator has read k, 0 or an older end. A
migrator that has read less meets an object that its first migration makes and fails
(`ConflictBelow`), so that `MigrateRun` goes from a level to the last one; and above
a level nothing conflicts (`NoConflictAbove`).
`TrailInv` is behind `TypeCorrect`, `TrailStaysComplete` and `MaintenanceSuffices`: the
months of the rows and those up to the horizon have partitions, and so have those a
starting server has got to (`Tabled`); requests that have written hold the lock against
the RENAME (`WritersHoldTheTable`); and each has no row before it writes it and no change
before it commits (`OneRowEach`). A second conversion commits
only over a table without rows and without partitions from this month on.

**`CredentialsProofs`.** Three layers. `RequestsInv`: what a request holds goes with where
it is, and there is room for the changes and links on their way, counted. `AccountInv`
(`FailuresLock`, `ChangesStand`): a failure count that lost nothing equals the strikes
(`StrikesAreCounted`). `LinksInv` (`LinksEndOnce`, `ChangeEndsLinks`, `ThrottleSuffices`):
who holds a link that is used by now is late (`HoldersAreLate`); the links ended by a
change are not open again; a purged row has expired; and whoever the throttle has let pass
would be let pass now, unless two overlapped (`ThrottleHolds`).

**`SigningKeysProofs`.** `KeysInv` gives each key a horizon, `Retired(k) + FetchMax +
CacheTtl`: an answer is at most `FetchMax` old and is of a key that ran when it was given
(`Fits`), so that its document is out of the cache by the horizon (`CachesFade`), and a
verified token `VerifyTtl` later. A fetch that began after all replicas had the newest
key brings that key.

**`AccessTokensProofs`.** `TokensInv`: the key of a logged-out token lives to the token's end
and no cache entry outlives its token (`TokensFit`); the key of a user is only replaced by
one that is later in both its second and its expiry, since the changes of an account follow
one another (`KeysFit`), so that no other operation, rolled back or not, cuts a suspension
short.

**`OnboardingProofs`.** `MailInv`, of `EmailOutbox`: rows are numbered as they are written,
and a worker marks a row it has handed over or found too old; what has become unreadable
stays so. `OnboardingInv`: a valid row
has the role that its link offers (`RolesAgree`); an acceptance holds a link that no other
invitation has (`RequestsHold`, `LinksAreOwn`), so that its row is not renewed under it; the
account came by a link that is used up (`JoinedOnce`, `UsedByOne`); and requests that
overlap nobody see the one open invitation there is (`OneAtATime`).

**`StreamConsumerProofs`.** `GroupInv`: a consumer acknowledges what is settled (`Settles`).
`EndsInv`: an entry that no fault hit is in one consumer's batch at most and not due to be
reclaimed (`HeldOnce`); there it is at a stage where its deliveries exceed its failures by
the one that is under way (`HeldOnTheirWay`); outside of batches each delivery has failed
or the entry has ended (`OthersAreLeft`). That is why counting deliveries comes to counting
failures, where no fault disturbs.

**`IdentityOutboxProofs`.** `DeliveryInv` (`TypeCorrect`, `PublishedWereSent`): a row is
ranked when it commits, workers hold and send committed rows only, and one that is about
to mark a row has sent it. `OrderInv` (`OrderIsKept`) says of an account that nothing
disturbed (`InOrder`): its rows were committed in the order of their numbers and none
failed; one worker has those that are in hand; and behind a row that is in hand or sent,
each older one is in the same batch or published. That a batch takes the earliest of what
is due is what a tick needs. `TellInv` adds that the last row of an account tells its
state and that a page read by the replay holds accounts that are there, or misled, as one
is that a stale write was made over (`EditTells`); with the order, `DrainedTellsAccounts`
follows. `PageInv` (`ReplayIsComplete`): an account is born once (`BornOnce`), whoever was
there all along and is not yet emitted has as many accounts before it as the pages read so
far hold (`PagesToCome`), for registrations and restorations only add to those; and pages
leave no gap, so that an empty page, or one that is not full, is behind the last (`NoGap`,
`PagesFollow`).

**Refinements.** `OutboxIsAtLeastOnce`, `MailIsAtLeastOnce` and `SettledAtLeastOnce` prove
`Spec => Promise!Safety`, for the mappings of the three modules: initial states map to
initial states, every step to a step of `AtLeastOnce` or a stutter.

**Only model-checked**: the liveness part of these refinements (`DeliversAtLeastOnce`,
`SentOrOverdue`, `HandledOrDeadLettered`) and `EveryRequestEnds`, since fairness and
ENABLED are out of reach of the prover; and the two runs that find a violation.

## 4. What the checks found

With a run that shows it:

1. Two refreshes of one token that overlap both rotate it; reuse detection does
   not see it (`SessionsReuse`).
2. The erasure event of pii-clean can never be published (`OutboxErasure`).

As the exception a property has to make, without which TLC finds it violated:

3. A refresh in flight survives a change of password (`t \in escaped` of
   `LiveTokensAreEntitled`; `docs/DOMAIN.md:79` says that all sessions end); the same
   holds of a suspension, whose account is checked again at the next refresh.
4. The user revocation expires before the tokens it refuses (`now >= cut[u].until` of
   `SuspendedAccountIsOut`; `docs/SECURITY.md:38` says that they are refused).
5. A baseline records a torn schema as whole (`legacy.torn` of `RecordedIsApplied`; its
   comment says "never skipping DDL in a partially upgraded legacy schema").
6. bootstrap before the baseline of three migrations makes the baseline throw for good
   (`BootstrapSpoiltBaseline`; `docs/DATABASE.md:62` asks for idempotence).
7. A schema of more than four migrations that nothing recorded (drizzle-kit push) is
   given a baseline of four, and no container starts after that (`legacy.clean` of
   `SoundSchemaIsNeverStuck`).
8. A key replaced under its kid, the one gen-jwt-keys prints, has new tokens refused for
   five minutes; and since only one key is published, tokens of the old one are refused
   as soon as its document has expired (`NewestKeyIsAccepted`, `RetiredKeysFade`).
   `docs/SECURITY.md:13` and ADR-001 speak of rotation without disconnecting anyone.
9. Two operations may leave a change without its audit row (`TrailIsComplete`).
10. A change of password, a verification or a forced password change that overlaps a
    deletion or a restoration undoes it, and no event says so (`misled` of
    `DrainedOutboxTellsTheAccounts`; `users-write.repository.ts:27`).
11. An e-mail whose payload cannot be decrypted throws before the check of its age and is
    retried for ever (`Unreadable` of `SentOrOverdue`; `run-email-outbox.ts:14`).

Seen while modelling, out of reach of the properties: an invitation keeps its e-mail as it
was typed while `users` has it in lower case (`invitations.repository.ts:36`).

## 5. Plan

Done: every component whose operations interleave is modelled, and every invariant that
is checked is proved. What may follow:

1. Action properties that follow from the invariants: what a step of each component may
   never take back.
2. A promise of `Sessions` in the manner of `AtLeastOnce` (a session is open, then ended),
   with the exceptions it needs, and `Sessions` shown to implement it.
3. With a prover that has ENABLED: the liveness of the refinements.

## 6. Not modelled

* Rate limiting: one Lua script per request, atomic in Redis; nothing interleaves.
* Presence: each operation is one SQL statement over one snapshot; a heartbeat writes
  `now()`, at most once in a cooldown.
* Edits of profile columns, as columns: what they write back over others is in `Sessions`,
  `IdentityOutbox` and `Credentials`.
* Several e-mail workers (one is deployed) and the pool of database connections.
* Seeding and the reset of test users: an empty or a test database, alone.
* Wiring, configuration, the HTTP surface, metrics and logging: no state of their own.
