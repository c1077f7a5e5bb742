---------------------------- MODULE AccessTokens ----------------------------
(***************************************************************************)
(* Access tokens (RS256 JWTs, valid until exp) and what takes them back    *)
(* before that: the Redis keys of token-blocklist, one per logged-out      *)
(* token and one per user (the second since when tokens must have been     *)
(* issued), and the two middlewares that read them.                        *)
(*                                                                         *)
(* Time is a number of ticks, PerSecond of them in a second: iat, exp and  *)
(* the user key hold whole seconds, while Redis expires a key to the       *)
(* tick.  The transactions that suspend an account or set its password     *)
(* write the user key before they commit, and may yet roll back.  While    *)
(* the connection to Redis is lost a command waits in ioredis, and its     *)
(* request with it, for any time: only the second it carries is old then.  *)
(* Everything else about refresh tokens is in Sessions.                    *)
(***************************************************************************)
EXTENDS Integers

CONSTANTS Users,      \* accounts
          MaxTokens,  \* bound on the access tokens ever issued
          AccessTtl,  \* ACCESS_TOKEN_TTL_SECONDS
          RevokeTtl,  \* DEFAULT_TTL_SECONDS, how long a user key lives
          CacheTtl,   \* MAX_TOKEN_CACHE_TTL_MS, in seconds
          PerSecond,  \* ticks in a second
          MaxTime     \* bound on the clock, in seconds

ASSUME AccessAssumption ==
    /\ Users # {} /\ MaxTokens \in Nat
    /\ AccessTtl \in Nat \ {0} /\ RevokeTtl \in Nat \ {0} /\ CacheTtl \in Nat
    /\ PerSecond \in Nat \ {0} /\ MaxTime \in Nat \ {0}

VARIABLES
    now,       \* the clock, in ticks
    redis,     \* whether Redis executes commands, or answers with an error
    issued,    \* how many tokens were issued
    token,     \* the claims of each: user, iat (exp is iat + AccessTtl)
    active,    \* accounts that are active, as committed
    reading,   \* accounts a login or a refresh has read and found active
    change,    \* the transaction on each account that revokes, if any
    blocked,   \* auth:blocklist:<hash>: tick at which the key expires (0: none)
    revoked,   \* auth:user_revoked_at:<id>: the second it holds, its expiry
    cached,    \* tokenVerificationCache downstream: expiry of an entry (0: none)
    \* History, read by no action's guard:
    loggedOut, \* tokens whose logout reached Redis
    refused,   \* the second a transaction last wrote to the user key (0: never)
    cut        \* the user key that the suspension of the account wrote, if it did

vars == <<now, redis, issued, token, active, reading, change, blocked, revoked,
          cached, loggedOut, refused, cut>>

Tokens == 1..MaxTokens
Ticks == 0..(MaxTime + AccessTtl + RevokeTtl + 1) * PerSecond

\* Math.floor(Date.now() / 1000)
Second(tick) == tick \div PerSecond

Claims == [user : Users, iat : 0..MaxTime]
Exp(t) == token[t].iat + AccessTtl

\* The user key: the second it holds, and the tick at which it expires.
Key == [at : 0..MaxTime, until : Ticks]
NoKey == [at |-> 0, until |-> 0]

\* op "none", or the transaction: it will suspend the account, or set its
\* password.  key: the key it is to write, and once it has, until when it lives.
Change == [op : {"none", "suspend", "password"}, key : Key]
NoChange == [op |-> "none", key |-> NoKey]

\* The clock starts at 1, so that no iat is 0 (isUserRevoked ignores one).
Init ==
    /\ now = PerSecond
    /\ redis = TRUE
    /\ issued = 0
    /\ token = [t \in Tokens |-> [user |-> CHOOSE u \in Users : TRUE, iat |-> 0]]
    /\ active = Users
    /\ reading = {}
    /\ change = [u \in Users |-> NoChange]
    /\ blocked = [t \in Tokens |-> 0]
    /\ revoked = [u \in Users |-> NoKey]
    /\ cached = [t \in Tokens |-> 0]
    /\ loggedOut = {}
    /\ refused = [u \in Users |-> 0]
    /\ cut = [u \in Users |-> NoKey]

-----------------------------------------------------------------------------
(* The checks *)

\* isTokenRevoked: false when Redis answers with an error.
TokenRevoked(t) == redis /\ now < blocked[t]

\* Mutant: a token of the very second of the revocation, or later, is refused too.
UserRevokedAnyIat(t) ==
    LET key == revoked[token[t].user]
    IN  redis /\ now < key.until

\* isUserRevoked: likewise.
UserRevoked(t) ==
    LET key == revoked[token[t].user]
    IN  redis /\ now < key.until /\ token[t].iat < key.at

\* authMiddleware of this service: verify refuses a token at exp.
Accepted(t) ==
    /\ t <= issued
    /\ Second(now) < Exp(t)
    /\ ~TokenRevoked(t) /\ ~UserRevoked(t)

\* createAuthMiddleware, in the services downstream: verifyRs256 answers from
\* its cache, or lets a token through the whole second exp.
Verified(t) == now <= cached[t] \/ Second(now) <= Exp(t)
AcceptedDownstream(t) ==
    /\ t <= issued
    /\ Verified(t)
    /\ ~TokenRevoked(t) /\ ~UserRevoked(t)

-----------------------------------------------------------------------------
(* Issuing *)

\* A login or a refresh reads the account.
ReadAccount(u) ==
    /\ u \in active /\ issued < MaxTokens
    /\ reading' = reading \union {u}
    /\ UNCHANGED <<now, redis, issued, token, active, change, blocked, revoked,
                   cached, loggedOut, refused, cut>>

\* buildAccessToken, some time after.
Issue(u) ==
    /\ u \in reading /\ issued < MaxTokens
    /\ issued' = issued + 1
    /\ token' = [token EXCEPT ![issued + 1] = [user |-> u, iat |-> Second(now)]]
    /\ reading' = reading \ {u}
    /\ UNCHANGED <<now, redis, active, change, blocked, revoked, cached,
                   loggedOut, refused, cut>>

-----------------------------------------------------------------------------
(* Taking back *)

\* Mutant: the key lives as long as a user's does, not as long as the token.
BlockShort(t) == now + RevokeTtl * PerSecond

\* Mutant: exp is taken for the seconds left.
BlockByExp(t) == now + Exp(t) * PerSecond

\* SETEX of revokeToken: the seconds the token has left, from this tick on.
BlockUntil(t) == now + (Exp(t) - Second(now)) * PerSecond

\* logout, or revokeMySession of the session it is called from, with an access
\* token that authMiddleware accepts.  An error of Redis is only logged; the key
\* of a SETEX that had to wait lives longer than this, past exp.
Logout(t) ==
    /\ Accepted(t)
    /\ redis
    /\ blocked' = [blocked EXCEPT ![t] = BlockUntil(t)]
    /\ loggedOut' = loggedOut \union {t}
    /\ UNCHANGED <<now, redis, issued, token, active, reading, change, revoked,
                   cached, refused, cut>>

\* adminSetUserActive or adminSoftDelete (suspend), changePassword or
\* resetPassword (password): the transaction has updated the users row, another
\* that would has to wait, and revokeUserSessions takes the time.
ChangeStart(u, op) ==
    /\ change[u].op = "none"
    /\ change' = [change EXCEPT ![u] =
                    [op |-> op, key |-> [at |-> Second(now), until |-> 0]]]
    /\ UNCHANGED <<now, redis, issued, token, active, reading, blocked, revoked,
                   cached, loggedOut, refused, cut>>

\* What SETEX stores: the second taken at the call, for RevokeTtl from now on.
KeyOf(u) == [at |-> change[u].key.at, until |-> now + RevokeTtl * PerSecond]

\* Mutant: the key holds the second before.
MarkEarly(u) ==
    LET key == KeyOf(u)
    IN  /\ change[u].op # "none" /\ change[u].key.until = 0 /\ redis
        /\ revoked' = [revoked EXCEPT ![u] = [key EXCEPT !.at = @ - 1]]
        /\ change' = [change EXCEPT ![u].key = key]
        /\ refused' = [refused EXCEPT ![u] = key.at]
        /\ UNCHANGED <<now, redis, issued, token, active, reading, blocked, cached,
                       loggedOut, cut>>

\* SETEX of revokeUserSessions is executed, inside the transaction.
Mark(u) ==
    LET key == KeyOf(u)
    IN  /\ change[u].op # "none" /\ change[u].key.until = 0 /\ redis
        /\ revoked' = [revoked EXCEPT ![u] = key]
        /\ change' = [change EXCEPT ![u].key = key]
        /\ refused' = [refused EXCEPT ![u] = key.at]
        /\ UNCHANGED <<now, redis, issued, token, active, reading, blocked, cached,
                       loggedOut, cut>>

\* COMMIT, once the key is written or Redis has refused it.
ChangeCommit(u) ==
    LET wrote == change[u].key.until # 0
    IN  /\ change[u].op # "none"
        /\ wrote \/ ~redis
        /\ active' = IF change[u].op = "suspend" THEN active \ {u} ELSE active
        /\ cut' = IF change[u].op = "suspend"
                  THEN [cut EXCEPT ![u] = IF wrote THEN change[u].key ELSE NoKey]
                  ELSE cut
        /\ change' = [change EXCEPT ![u] = NoChange]
        /\ UNCHANGED <<now, redis, issued, token, reading, blocked, revoked, cached,
                       loggedOut, refused>>

\* A later statement fails: the account stays as it was, the key stays too.  Before
\* Mark there is no such statement, for the callback awaits Redis: the process has
\* died, and its SETEX with it.  (If only its connection to PostgreSQL is lost by
\* then, a SETEX still waiting in ioredis may be sent later; that is left out.)
ChangeRollback(u) ==
    /\ change[u].op # "none"
    /\ change' = [change EXCEPT ![u] = NoChange]
    /\ UNCHANGED <<now, redis, issued, token, active, reading, blocked, revoked,
                   cached, loggedOut, refused, cut>>

\* adminSetUserActive(true) or adminRestore.
Activate(u) ==
    /\ u \notin active /\ change[u].op = "none"
    /\ active' = active \union {u}
    /\ UNCHANGED <<now, redis, issued, token, reading, change, blocked, revoked,
                   cached, loggedOut, refused, cut>>

-----------------------------------------------------------------------------
(* Around them *)

\* setCachedVerifiedPayload: a minute, and no longer than exp.
CacheUntil(t) ==
    LET left == Exp(t) * PerSecond - now
        full == CacheTtl * PerSecond
    IN  now + (IF left < full THEN left ELSE full)

\* A request downstream verifies the token's signature, and caches the claims.
VerifyDownstream(t) ==
    /\ t <= issued /\ now > cached[t] /\ Second(now) <= Exp(t)
    /\ CacheUntil(t) > now
    /\ cached' = [cached EXCEPT ![t] = CacheUntil(t)]
    /\ UNCHANGED <<now, redis, issued, token, active, reading, change, blocked,
                   revoked, loggedOut, refused, cut>>

\* The entry is pushed out, or deleted because the token turns out revoked.
Forget(t) ==
    /\ cached[t] # 0
    /\ cached' = [cached EXCEPT ![t] = 0]
    /\ UNCHANGED <<now, redis, issued, token, active, reading, change, blocked,
                   revoked, loggedOut, refused, cut>>

Advance ==
    /\ Second(now + 1) <= MaxTime
    /\ now' = now + 1
    /\ UNCHANGED <<redis, issued, token, active, reading, change, blocked,
                   revoked, cached, loggedOut, refused, cut>>

\* Redis begins to refuse commands, or executes them again, with its keys.
Toggle ==
    /\ redis' = ~redis
    /\ UNCHANGED <<now, issued, token, active, reading, change, blocked, revoked,
                   cached, loggedOut, refused, cut>>

Next ==
    \/ \E u \in Users :
          \/ ReadAccount(u) \/ Issue(u)
          \/ ChangeStart(u, "suspend") \/ ChangeStart(u, "password")
          \/ Mark(u) \/ ChangeCommit(u) \/ ChangeRollback(u) \/ Activate(u)
    \/ \E t \in Tokens : Logout(t) \/ VerifyDownstream(t) \/ Forget(t)
    \/ Advance \/ Toggle

Spec == Init /\ [][Next]_vars

-----------------------------------------------------------------------------
(* Properties *)

\* The claims, the keys and the clock hold what they can hold.
TypeOK ==
    /\ now \in Ticks /\ Second(now) <= MaxTime
    /\ redis \in BOOLEAN
    /\ issued \in 0..MaxTokens
    /\ token \in [Tokens -> Claims]
    /\ active \subseteq Users /\ reading \subseteq Users
    /\ change \in [Users -> Change]
    /\ blocked \in [Tokens -> Ticks]
    /\ revoked \in [Users -> Key]
    /\ cached \in [Tokens -> Ticks]
    /\ loggedOut \subseteq Tokens
    /\ refused \in [Users -> 0..MaxTime] /\ cut \in [Users -> Key]

\* A token that was logged out is refused by this service as long as Redis
\* answers, and downstream too until the last second, the second exp: the key
\* expires within it, exp - now whole seconds after the logout.
LoggedOutStaysOut ==
    \A t \in loggedOut :
        redis => /\ ~Accepted(t)
                 /\ AcceptedDownstream(t) => Second(now) = Exp(t)

\* With Redis, a suspended account is out at once, but for tokens issued in the
\* second in which revokeUserSessions was called or after it, by a login or a
\* refresh that had read the account; and only as long as the user key lives.
SuspendedAccountIsOut ==
    \A t \in Tokens :
        LET u == token[t].user
        IN  Accepted(t) /\ redis /\ u \notin active /\ cut[u] # NoKey =>
                token[t].iat >= cut[u].at \/ now >= cut[u].until

\* No token is refused before its time unless it was logged out, or issued in a
\* second before a revocation of its user, be it one that was rolled back: a
\* login after the revocation is good at once.
OnlyTheRevokedAreRefused ==
    \A t \in 1..issued :
        ~Accepted(t) /\ Second(now) < Exp(t) =>
            t \in loggedOut \/ token[t].iat < refused[token[t].user]
=============================================================================
