---------------------------- MODULE SigningKeys ----------------------------
(***************************************************************************)
(* The key that signs access tokens, and how a service downstream comes to *)
(* know it.  A replica of this service has one key for as long as it runs: *)
(* it signs with it and publishes it, alone, under its kid.  A key is      *)
(* replaced by restarting the replicas one after another; the new one has  *)
(* a kid of its own or keeps the old one's, as gen-jwt-keys makes it.      *)
(* JwksClient fetches the document from any replica, and the middleware    *)
(* caches tokens it has verified.                                          *)
(*                                                                         *)
(* Time is in ticks.  A token is as good as the key it is signed with:     *)
(* one for each key will do, and exp is in AccessTokens.                   *)
(***************************************************************************)
EXTENDS FiniteSetsExt, Functions, Integers

CONSTANTS Replicas,   \* of this service
          Requests,   \* requests that the service downstream handles at a time
          MaxKeys,    \* bound on the keys
          CacheTtl,   \* jwksCacheTtlMs
          VerifyTtl,  \* MAX_TOKEN_CACHE_TTL_MS
          FetchMax,   \* AbortSignal.timeout: how old an answer is when it is in
          MaxTime     \* bound on the clock

ASSUME KeysAssumption ==
    /\ Replicas # {} /\ MaxKeys \in Nat \ {0} /\ MaxTime \in Nat
    /\ CacheTtl \in Nat \ {0} /\ VerifyTtl \in Nat /\ FetchMax \in Nat

VARIABLES
    now,      \* the clock
    newest,   \* the key that replicas start with
    kid,      \* the kid of each key
    runs,     \* the key each replica has
    cache,    \* JwksClient: the key in the document, and when that expires (0: none)
    seen,     \* tokenVerificationCache: until when each key's token is in it
    req,      \* what each request is at
    \* History, read by no action's guard:
    ended,    \* when the last replica with a key stopped
    settled   \* when the last replica took the newest key

vars == <<now, newest, kid, runs, cache, seen, req, ended, settled>>

Keys == 1..MaxKeys
Ticks == 0..(MaxTime + CacheTtl + VerifyTtl)

\* token: the key of the token presented; calm: whether all replicas had the newest
\* key then.  In "fetching" and "answered": whether it is the second fetch, and
\* which key the answer holds, since when.  Then the verdict.
Request == [pc : {"idle", "fetching", "answered", "accepted", "rejected"},
            token : Keys, calm : BOOLEAN,
            again : BOOLEAN, key : Keys, at : 0..MaxTime]
NoRequest == [pc |-> "idle", token |-> 1, calm |-> FALSE, again |-> FALSE, key |-> 1, at |-> 0]

\* The signature of a token of the key k is accepted, or it is not.  The request
\* goes on to the blocklist (AccessTokens), which changes nothing here: the verdict
\* is that of verifyTokenDirectly, at the time it is given.
Verdict(k, good, calm) ==
    [NoRequest EXCEPT !.pc = IF good THEN "accepted" ELSE "rejected",
                      !.token = k, !.calm = calm]

Init ==
    /\ now = 0
    /\ newest = 1
    /\ kid = [k \in Keys |-> 1]
    /\ runs = [r \in Replicas |-> 1]
    /\ cache = [key |-> 1, until |-> 0]
    /\ seen = [k \in Keys |-> -1]
    /\ req = [p \in Requests |-> NoRequest]
    /\ ended = [k \in Keys |-> 0]
    /\ settled = 0

-----------------------------------------------------------------------------
(* This service *)

Running == Range(runs)
Settled == Running = {newest}

\* Tokens there may be: of the keys that a replica has had.
Signed == 1..(newest - 1) \union Running

\* A new pair of keys, and the kid it goes by, in the environment: one that some key
\* had before, or a new one.  The replicas have the last key by then.
Rotate ==
    /\ Settled /\ newest < MaxKeys
    /\ newest' = newest + 1
    /\ \E id \in {kid[k] : k \in 1..newest} \union {newest + 1} :
          kid' = [kid EXCEPT ![newest + 1] = id]
    /\ UNCHANGED <<now, runs, cache, seen, req, ended, settled>>

\* A replica starts again; its document is made once (cachedJwks).
Restart(r) ==
    LET left == {runs[q] : q \in Replicas \ {r}}
    IN  /\ runs[r] # newest
        /\ runs' = [runs EXCEPT ![r] = newest]
        /\ ended' = IF runs[r] \in left THEN ended ELSE [ended EXCEPT ![runs[r]] = now]
        /\ settled' = IF left \subseteq {newest} THEN now ELSE settled
        /\ UNCHANGED <<now, newest, kid, cache, seen, req>>

-----------------------------------------------------------------------------
(* The service downstream *)

\* getPems: the document is there.
Fresh == now < cache.until

\* Mutant: an entry lives on from when it was last used.
SeenLonger(k) == [seen EXCEPT ![k] = now + VerifyTtl]

\* verifyRs256: a token that was verified keeps the expiry of then; else it is
\* cached from now on.
Remembered(k) == IF now <= seen[k] THEN seen ELSE [seen EXCEPT ![k] = now + VerifyTtl]

\* verifyRs256 with the key found under the token's kid: the token's own, unless
\* the token is in the cache, which is not asked by what key.
Verify(p, k, key, calm) ==
    LET good == now <= seen[k] \/ key = k
    IN  /\ req' = [req EXCEPT ![p] = Verdict(k, good, calm)]
        /\ seen' = IF good THEN Remembered(k) ELSE seen

\* Mutant: a kid that is not in the document is not looked for again.
PresentOnce(p, k) ==
    /\ req[p].pc = "idle" /\ k \in Signed
    /\ IF Fresh /\ kid[cache.key] = kid[k]
       THEN Verify(p, k, cache.key, Settled)
       ELSE /\ req' = [req EXCEPT ![p] = [NoRequest EXCEPT
                         !.pc = IF Fresh THEN "rejected" ELSE "fetching",
                         !.token = k, !.calm = Settled]]
            /\ UNCHANGED seen
    /\ UNCHANGED <<now, newest, kid, runs, cache, ended, settled>>

\* A request with a token: getPublicKeyPem finds its kid in the document it has,
\* or else fetches it; that is the second time if it had one.
Present(p, k) ==
    /\ req[p].pc = "idle" /\ k \in Signed
    /\ IF Fresh /\ kid[cache.key] = kid[k]
       THEN Verify(p, k, cache.key, Settled)
       ELSE /\ req' = [req EXCEPT ![p] = [NoRequest EXCEPT
                         !.pc = "fetching", !.token = k, !.calm = Settled, !.again = Fresh]]
            /\ UNCHANGED seen
    /\ UNCHANGED <<now, newest, kid, runs, cache, ended, settled>>

\* Some replica answers, at the last attempt of withRetry.
Answer(p) ==
    /\ req[p].pc = "fetching"
    /\ \E r \in Replicas :
          req' = [req EXCEPT ![p] = [@ EXCEPT !.pc = "answered", !.key = runs[r], !.at = now]]
    /\ UNCHANGED <<now, newest, kid, runs, cache, seen, ended, settled>>

\* Mutant: twice as long.
CacheUntilTwice == now + 2 * CacheTtl

CacheUntil == now + CacheTtl

\* The answer is cached, over whatever another request cached meanwhile, and this
\* request goes on with it: it verifies, or fetches once more, or gives up.
Store(p) ==
    LET k == req[p].token
    IN  /\ req[p].pc = "answered"
        /\ cache' = [key |-> req[p].key, until |-> CacheUntil]
        /\ \/ kid[req[p].key] = kid[k] /\ Verify(p, k, req[p].key, req[p].calm)
           \/ /\ kid[req[p].key] # kid[k]
              /\ req' = [req EXCEPT ![p] =
                            IF req[p].again THEN Verdict(k, FALSE, req[p].calm)
                            ELSE [NoRequest EXCEPT !.pc = "fetching", !.token = k,
                                                   !.calm = req[p].calm, !.again = TRUE]]
              /\ UNCHANGED seen
        /\ UNCHANGED <<now, newest, kid, runs, ended, settled>>

\* No answer in time, an error, or one attempt too many: 401, whatever is cached.
FetchFail(p) ==
    /\ req[p].pc \in {"fetching", "answered"}
    /\ req' = [req EXCEPT ![p] = NoRequest]
    /\ UNCHANGED <<now, newest, kid, runs, cache, seen, ended, settled>>

\* The request is over.
Leave(p) ==
    /\ req[p].pc \in {"accepted", "rejected"}
    /\ req' = [req EXCEPT ![p] = NoRequest]
    /\ UNCHANGED <<now, newest, kid, runs, cache, seen, ended, settled>>

\* The cache of tokens is full and drops one, or a token turned out revoked.
Forget(k) ==
    /\ seen[k] # -1
    /\ seen' = [seen EXCEPT ![k] = -1]
    /\ UNCHANGED <<now, newest, kid, runs, cache, req, ended, settled>>

\* An answer is not older than FetchMax when it is in; verdicts are given at once.
Advance ==
    /\ now < MaxTime
    /\ \A p \in Requests :
          /\ req[p].pc = "answered" => now < req[p].at + FetchMax
          /\ req[p].pc \notin {"accepted", "rejected"}
    /\ now' = now + 1
    /\ UNCHANGED <<newest, kid, runs, cache, seen, req, ended, settled>>

Next ==
    \/ Rotate
    \/ \E r \in Replicas : Restart(r)
    \/ \E p \in Requests :
          \/ \E k \in Keys : Present(p, k)
          \/ Answer(p) \/ Store(p) \/ FetchFail(p) \/ Leave(p)
    \/ \E k \in Keys : Forget(k)
    \/ Advance

Spec == Init /\ [][Next]_vars

-----------------------------------------------------------------------------
(* Properties *)

\* The keys, the caches, the requests and the clock hold what they can hold.
TypeOK ==
    /\ now \in 0..MaxTime
    /\ newest \in Keys /\ kid \in [Keys -> Keys] /\ runs \in [Replicas -> Keys]
    /\ cache \in [key : Keys, until : 0..(MaxTime + CacheTtl)]
    /\ seen \in [Keys -> Ticks \union {-1}]
    /\ req \in [Requests -> Request]
    /\ ended \in [Keys -> 0..MaxTime] /\ settled \in 0..MaxTime

\* Since when a key is no longer published.
Retired(k) == IF k \in Running THEN now ELSE ended[k]

\* Whether an earlier or a later key has the kid too.
Shared(k) == \E j \in 1..newest \ {k} : kid[j] = kid[k]

\* The tokens of a key that was replaced are refused soon, though answers fetched
\* before are cached after newer ones: once the last answer that held the key is
\* out of the cache, and, if the kid is still in use, a minute later, since the
\* cache of verified tokens does not ask which key it was.
RetiredKeysFade ==
    \A p \in Requests :
        LET k == req[p].token
        IN  req[p].pc = "accepted" =>
                now < Retired(k) + FetchMax + CacheTtl + (IF Shared(k) THEN VerifyTtl ELSE 0)

\* Once all replicas have the newest key, its tokens are accepted unless a fetch
\* fails: at once, by every request that begins after that, when the kid is new;
\* but when the kid was in use before, a document from before is believed as long
\* as it is cached, and its key refuses every new token until then.
NewestKeyIsAccepted ==
    \A p \in Requests :
        req[p].pc = "rejected" /\ req[p].token = newest /\ Settled =>
            IF Shared(newest) THEN now < settled + FetchMax + CacheTtl
            ELSE ~req[p].calm
=============================================================================
