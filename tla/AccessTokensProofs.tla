-------------------------- MODULE AccessTokensProofs --------------------------
(***************************************************************************)
(* Theorems about AccessTokens, for any number of accounts and tokens and  *)
(* any times.                                                              *)
(***************************************************************************)
EXTENDS AccessTokens, TLAPS

\* The tick at which a token is over.
Ends(t) == Exp(t) * PerSecond

\* The key of a logged-out token lives to the end of the token, and no cache entry
\* outlives the token.
TokensFit ==
    \A t \in Tokens :
        /\ t \in loggedOut => t <= issued /\ Ends(t) <= blocked[t]
        /\ blocked[t] # 0 => t \in loggedOut
        /\ cached[t] <= Ends(t)
        /\ t > issued => cached[t] = 0

\* A user key is only ever replaced by one that is later in both, since the changes
\* of an account follow one another; so a suspension's is outdone by no other.
KeysFit ==
    \A u \in Users :
        /\ refused[u] = revoked[u].at
        /\ revoked[u].at <= Second(now)
        /\ revoked[u].until <= now + RevokeTtl * PerSecond
        /\ change[u].op # "none" =>
              /\ revoked[u].at <= change[u].key.at /\ change[u].key.at <= Second(now)
              /\ change[u].key.until # 0 => change[u].key = revoked[u]
        /\ cut[u].at <= revoked[u].at /\ cut[u].until <= revoked[u].until

\* The inductive invariant.
TokensInv == TypeOK /\ TokensFit /\ KeysFit

-----------------------------------------------------------------------------
(* Ticks and seconds *)

LEMMA Times ==
    ASSUME NEW a \in Int, NEW b \in Int
    PROVE  /\ a * PerSecond \in Int
           /\ (a + b) * PerSecond = a * PerSecond + b * PerSecond
           /\ (a - b) * PerSecond = a * PerSecond - b * PerSecond
           /\ a <= b => a * PerSecond <= b * PerSecond
           /\ a >= 0 => a * PerSecond >= 0
           /\ a >= 1 => a * PerSecond >= 1
<1>. DEFINE n == PerSecond
<1>1. n \in Nat /\ n >= 1
  BY AccessAssumption
<1>. HIDE DEF n
<1>2. \A x \in Int : x * n \in Int
  BY <1>1
<1>3. (a + b) * n = a * n + b * n /\ (a - b) * n = a * n - b * n
  BY <1>1
<1>4. \A x \in Int : x >= 0 => x * n >= 0
  BY <1>1
<1>5. a <= b => a * n <= b * n
  <2>1. a <= b => (b - a) * n >= 0
    BY <1>4
  <2>2. (b - a) * n = b * n - a * n
    BY <1>1
  <2>. QED
    BY <1>2, <2>1, <2>2
<1>6. a >= 1 => a * n >= 1
  <2>1. a >= 1 => (a - 1) * n >= 0
    BY <1>4
  <2>2. (a - 1) * n = a * n - n
    BY <1>1
  <2>. QED
    BY <1>1, <1>2, <2>1, <2>2
<1>. QED
  BY <1>2, <1>3, <1>4, <1>5, <1>6 DEF n

LEMMA Seconds ==
    ASSUME NEW tick \in Nat
    PROVE  /\ Second(tick) \in Nat
           /\ Second(tick) * PerSecond <= tick
           /\ tick < Second(tick) * PerSecond + PerSecond
  BY AccessAssumption DEF Second

\* When a second is over.
LEMMA SecondOver ==
    ASSUME NEW tick \in Nat, NEW s \in Nat
    PROVE  tick < s * PerSecond <=> Second(tick) < s
<1>1. /\ Second(tick) \in Nat /\ Second(tick) * PerSecond <= tick
      /\ tick < Second(tick) * PerSecond + PerSecond
  BY Seconds
<1>2. /\ s * PerSecond \in Int /\ Second(tick) * PerSecond \in Int /\ PerSecond \in Nat
      /\ s <= Second(tick) => s * PerSecond <= Second(tick) * PerSecond
  BY <1>1, Times, AccessAssumption
<1>3. Second(tick) + 1 <= s => (Second(tick) + 1) * PerSecond <= s * PerSecond
  <2>. DEFINE next == Second(tick) + 1
  <2>1. next \in Int
    BY <1>1
  <2>. HIDE DEF next
  <2>2. next <= s => next * PerSecond <= s * PerSecond
    BY <2>1, Times
  <2>. QED
    BY <2>2 DEF next
<1>4. (Second(tick) + 1) * PerSecond = Second(tick) * PerSecond + PerSecond
  <2>1. 1 * PerSecond = PerSecond
    BY AccessAssumption
  <2>. QED
    BY <1>1, <2>1, Times
<1>. QED
  BY <1>1, <1>2, <1>3, <1>4

LEMMA SecondGrows ==
    ASSUME NEW a \in Nat, NEW b \in Nat, a <= b
    PROVE  Second(a) <= Second(b)
<1>1. Second(a) \in Nat /\ Second(a) * PerSecond <= a /\ Second(b) \in Nat
  BY Seconds
<1>2. b < Second(a) * PerSecond <=> Second(b) < Second(a)
  BY <1>1, SecondOver
<1>3. Second(a) * PerSecond \in Int
  BY <1>1, Times
<1>. QED
  BY <1>1, <1>2, <1>3

LEMMA Types ==
    ASSUME TypeOK
    PROVE  /\ now \in Nat /\ Second(now) \in Nat /\ Second(now) \in 0..MaxTime
           /\ issued \in Nat /\ redis \in BOOLEAN
           /\ \A t \in Tokens : /\ t \in Nat \ {0} /\ token[t] \in Claims
                                /\ token[t].user \in Users /\ token[t].iat \in Nat
                                /\ Exp(t) \in Nat /\ Exp(t) <= MaxTime + AccessTtl
                                /\ Ends(t) \in Nat
                                /\ blocked[t] \in Nat /\ cached[t] \in Nat
           /\ \A u \in Users : /\ change[u] \in Change /\ revoked[u] \in Key
                               /\ refused[u] \in Nat /\ cut[u] \in Key
           /\ \A key \in Key : key.at \in Nat /\ key.at \in 0..MaxTime /\ key.until \in Nat
           /\ \A x \in Change : x.key \in Key
           /\ MaxTime \in Nat /\ MaxTokens \in Nat /\ AccessTtl \in Nat \ {0}
           /\ RevokeTtl * PerSecond \in Nat /\ RevokeTtl * PerSecond >= 1
           /\ PerSecond \in Nat \ {0}
           /\ NoKey \in Key /\ 0 \in Ticks
<1>1. /\ MaxTime \in Nat /\ MaxTokens \in Nat /\ AccessTtl \in Nat \ {0}
      /\ RevokeTtl \in Nat \ {0} /\ PerSecond \in Nat \ {0}
  BY AccessAssumption
<1>. DEFINE last == (MaxTime + AccessTtl + RevokeTtl + 1) * PerSecond
<1>2. last \in Int /\ last >= 1
  BY <1>1, Times
<1>3. Ticks = 0..last
  BY DEF Ticks
<1>. HIDE DEF last
<1>4. \A tick \in Ticks : tick \in Nat
  BY <1>2, <1>3
<1>5. 0 \in Ticks
  BY <1>2, <1>3
<1>6. now \in Nat /\ Second(now) \in Nat /\ Second(now) \in 0..MaxTime
  BY <1>1, <1>4, Seconds DEF TypeOK
<1>7. issued \in Nat /\ redis \in BOOLEAN
  BY <1>1 DEF TypeOK
<1>8. ASSUME NEW t \in Tokens
      PROVE  /\ t \in Nat \ {0} /\ token[t] \in Claims
             /\ token[t].user \in Users /\ token[t].iat \in Nat
             /\ Exp(t) \in Nat /\ Exp(t) <= MaxTime + AccessTtl
             /\ Ends(t) \in Nat
             /\ blocked[t] \in Nat /\ cached[t] \in Nat
  <2>1. t \in Nat \ {0}
    BY <1>1 DEF Tokens
  <2>2. token[t] \in Claims /\ blocked[t] \in Nat /\ cached[t] \in Nat
    BY <1>4 DEF TypeOK
  <2>3. token[t].user \in Users /\ token[t].iat \in 0..MaxTime
    BY <2>2 DEF Claims
  <2>4. Exp(t) \in Nat /\ Exp(t) <= MaxTime + AccessTtl
    BY <1>1, <2>3 DEF Exp
  <2>. QED
    BY <1>1, <2>1, <2>2, <2>3, <2>4, Times DEF Ends
<1>9. ASSUME NEW u \in Users
      PROVE  /\ change[u] \in Change /\ revoked[u] \in Key
             /\ refused[u] \in Nat /\ cut[u] \in Key
  BY <1>1 DEF TypeOK
<1>10. \A key \in Key : key.at \in Nat /\ key.at \in 0..MaxTime /\ key.until \in Nat
  BY <1>1, <1>4 DEF Key
<1>11. \A x \in Change : x.key \in Key
  BY DEF Change
<1>12. RevokeTtl * PerSecond \in Nat /\ RevokeTtl * PerSecond >= 1
  BY <1>1, Times
<1>13. NoKey \in Key
  BY <1>1, <1>5 DEF NoKey, Key
<1>. QED
  BY <1>1, <1>5, <1>6, <1>7, <1>8, <1>9, <1>10, <1>11, <1>12, <1>13

\* What Redis and the cache are given are ticks.
LEMMA InTicks ==
    ASSUME TypeOK, NEW tick \in Nat, NEW s \in Nat, s <= MaxTime + AccessTtl + RevokeTtl + 1,
           tick <= s * PerSecond
    PROVE  tick \in Ticks
<1>. DEFINE all == MaxTime + AccessTtl + RevokeTtl + 1
<1>1. all \in Nat /\ s \in Int /\ all \in Int /\ s <= all
  BY AccessAssumption
<1>. HIDE DEF all
<1>2. s * PerSecond <= all * PerSecond /\ s * PerSecond \in Int /\ all * PerSecond \in Int
  BY <1>1, Times
<1>3. tick \in 0..(all * PerSecond)
  BY <1>2
<1>. QED
  BY <1>3 DEF Ticks, all

LEMMA MarkInTicks ==
    ASSUME TypeOK
    PROVE  now + RevokeTtl * PerSecond \in Ticks
<1>1. /\ now \in Nat /\ Second(now) \in Nat /\ Second(now) <= MaxTime
      /\ now < Second(now) * PerSecond + PerSecond
  BY Types, Seconds
<1>2. /\ MaxTime \in Nat /\ RevokeTtl \in Nat \ {0} /\ AccessTtl \in Nat
      /\ PerSecond \in Nat
  BY AccessAssumption
<1>. DEFINE s == MaxTime + 1 + RevokeTtl
            t == Second(now)
<1>3. s * PerSecond = MaxTime * PerSecond + 1 * PerSecond + RevokeTtl * PerSecond
  <2>1. s * PerSecond = (MaxTime + 1) * PerSecond + RevokeTtl * PerSecond
    BY <1>2, Times
  <2>. QED
    BY <1>2, <2>1, Times
<1>4. t * PerSecond <= MaxTime * PerSecond /\ 1 * PerSecond = PerSecond
  BY <1>1, <1>2, Times
<1>5. /\ t * PerSecond \in Int /\ MaxTime * PerSecond \in Int
      /\ RevokeTtl * PerSecond \in Nat
  BY <1>1, <1>2, Times
<1>6. now + RevokeTtl * PerSecond <= s * PerSecond /\ now + RevokeTtl * PerSecond \in Nat
  BY <1>1, <1>2, <1>3, <1>4, <1>5
<1>7. s \in Nat /\ s <= MaxTime + AccessTtl + RevokeTtl + 1
  BY <1>2
<1>. HIDE DEF s
<1>. QED
  BY <1>6, <1>7, InTicks

-----------------------------------------------------------------------------
(* Tokens *)

LEMMA IssueKeeps ==
    ASSUME TokensInv, NEW u \in Users, Issue(u)
    PROVE  TokensInv'
<1>. USE DEF TokensInv
<1>1. PICK n \in Tokens : n = issued + 1 /\ n \in 0..MaxTokens /\ ~(n <= issued) /\ n > issued
  BY Types DEF Issue, Tokens
<1>2. PICK new \in Claims : token' = [token EXCEPT ![n] = new]
  <2>1. [user |-> u, iat |-> Second(now)] \in Claims
    BY Types DEF Claims
  <2>. QED
    BY <1>1, <2>1 DEF Issue
<1>3. /\ issued' = n
      /\ UNCHANGED <<now, redis, active, change, blocked, revoked, cached, loggedOut,
                     refused, cut>>
  BY <1>1 DEF Issue
<1>4. TypeOK'
  <2>1. reading' \subseteq Users
    BY DEF Issue, TypeOK
  <2>. QED
    BY <1>1, <1>2, <1>3, <2>1 DEF TypeOK
<1>5. \A t \in Tokens : t # n => Ends(t)' = Ends(t)
  BY <1>2 DEF TypeOK, Exp, Ends
<1>6. n \notin loggedOut /\ cached[n] = 0 /\ blocked[n] = 0
  BY <1>1 DEF TokensFit
<1>7. Ends(n)' >= 0
  <2>1. token'[n] = new /\ new.iat \in Nat
    BY <1>2, AccessAssumption DEF TypeOK, Claims
  <2>2. Exp(n)' \in Nat
    BY <2>1, AccessAssumption DEF Exp
  <2>. QED
    BY <2>2, Times DEF Ends
<1>8. TokensFit'
  <2>. SUFFICES ASSUME NEW t \in Tokens
                PROVE  /\ t \in loggedOut => t <= issued' /\ Ends(t)' <= blocked[t]
                       /\ blocked[t] # 0 => t \in loggedOut
                       /\ cached[t] <= Ends(t)'
                       /\ t > issued' => cached[t] = 0
    BY <1>3 DEF TokensFit
  <2>1. t \in Nat /\ issued \in Nat
    BY Types
  <2>2. CASE t = n
    BY <1>6, <1>7, <2>2
  <2>3. CASE t # n
    <3>1. Ends(t)' = Ends(t)
      BY <1>5, <2>3
    <3>. QED
      BY <1>1, <1>3, <2>1, <3>1 DEF TokensFit
  <2>. QED
    BY <2>2, <2>3
<1>9. KeysFit'
  BY <1>3 DEF KeysFit
<1>. QED
  BY <1>4, <1>8, <1>9

\* A key that is to live to the end of the token does.
LEMMA BlockLasts ==
    ASSUME TypeOK, NEW t \in Tokens, Second(now) < Exp(t)
    PROVE  /\ BlockUntil(t) \in Ticks /\ Ends(t) <= BlockUntil(t)
<1>. DEFINE s == Second(now)
            e == Exp(t)
<1>1. /\ s \in Nat /\ e \in Nat /\ now \in Nat /\ PerSecond \in Nat
      /\ s * PerSecond <= now /\ now < s * PerSecond + PerSecond
  BY Types, Seconds
<1>2. e <= MaxTime + AccessTtl /\ MaxTime \in Nat /\ AccessTtl \in Nat /\ RevokeTtl \in Nat
  BY Types, AccessAssumption
<1>3. BlockUntil(t) = now + (e - s) * PerSecond
  BY DEF BlockUntil
<1>. HIDE DEF s, e
<1>4. /\ (e - s) * PerSecond = e * PerSecond - s * PerSecond
      /\ e * PerSecond \in Int /\ s * PerSecond \in Int /\ e * PerSecond >= 0
      /\ (e + 1) * PerSecond = e * PerSecond + 1 * PerSecond
      /\ 1 * PerSecond = PerSecond
  BY <1>1, Times
<1>5. /\ BlockUntil(t) \in Nat /\ e * PerSecond <= BlockUntil(t)
      /\ BlockUntil(t) <= (e + 1) * PerSecond
  BY <1>1, <1>3, <1>4
<1>6. e + 1 \in Nat /\ e + 1 <= MaxTime + AccessTtl + RevokeTtl + 1
  BY <1>1, <1>2
<1>7. BlockUntil(t) \in Ticks
  BY <1>5, <1>6, InTicks
<1>. QED
  BY <1>5, <1>7 DEF e, Ends

LEMMA LogoutKeeps ==
    ASSUME TokensInv, NEW t \in Tokens, Logout(t)
    PROVE  TokensInv'
<1>. USE DEF TokensInv
<1>1. /\ blocked' = [blocked EXCEPT ![t] = BlockUntil(t)]
      /\ loggedOut' = loggedOut \union {t}
      /\ UNCHANGED <<now, redis, issued, token, active, reading, change, revoked,
                     cached, refused, cut>>
  BY DEF Logout
<1>2. t <= issued /\ Second(now) < Exp(t)
  BY DEF Logout, Accepted
<1>3. BlockUntil(t) \in Ticks /\ Ends(t) <= BlockUntil(t)
  BY <1>2, BlockLasts
<1>4. TypeOK'
  BY <1>1, <1>3 DEF TypeOK
<1>5. TokensFit'
  <2>1. \A s \in Tokens : /\ blocked'[s] = IF s = t THEN BlockUntil(t) ELSE blocked[s]
                          /\ Ends(s)' = Ends(s)
    BY <1>1 DEF TypeOK, Exp, Ends
  <2>. QED
    BY <1>1, <1>2, <1>3, <2>1 DEF TokensFit
<1>6. KeysFit'
  BY <1>1 DEF KeysFit
<1>. QED
  BY <1>4, <1>5, <1>6

LEMMA CacheKeeps ==
    ASSUME TokensInv, NEW t \in Tokens, VerifyDownstream(t) \/ Forget(t)
    PROVE  TokensInv'
<1>. USE DEF TokensInv
<1>1. UNCHANGED <<now, redis, issued, token, active, reading, change, blocked,
                  revoked, loggedOut, refused, cut>>
  BY DEF VerifyDownstream, Forget
<1>2. PICK until \in Ticks : /\ cached' = [cached EXCEPT ![t] = until]
                             /\ until <= Ends(t)
                             /\ t > issued => until = 0
  <2>0. /\ Exp(t) \in Nat /\ Ends(t) \in Nat /\ now \in Nat /\ 0 \in Ticks
        /\ issued \in Nat /\ t \in Nat /\ ~(t <= issued /\ t > issued)
    BY Types
  <2>1. CASE VerifyDownstream(t)
    <3>1. /\ cached' = [cached EXCEPT ![t] = CacheUntil(t)] /\ t <= issued
          /\ CacheUntil(t) > now
      BY <2>1 DEF VerifyDownstream
    <3>2. CacheUntil(t) \in Int /\ CacheUntil(t) <= Ends(t)
      <4>1. CacheTtl * PerSecond \in Int
        BY AccessAssumption, Times
      <4>. DEFINE x == Ends(t)
                  y == CacheTtl * PerSecond
      <4>2. CacheUntil(t) = now + (IF x - now < y THEN x - now ELSE y)
        BY DEF CacheUntil, Ends
      <4>. HIDE DEF x, y
      <4>3. x \in Int /\ y \in Int
        BY <2>0, <4>1 DEF x, y
      <4>. QED
        BY <2>0, <4>2, <4>3 DEF x
    <3>3. CacheUntil(t) \in Ticks
      <4>1. Exp(t) <= MaxTime + AccessTtl + RevokeTtl + 1
        BY Types, AccessAssumption
      <4>2. CacheUntil(t) \in Nat
        BY <2>0, <3>1, <3>2
      <4>. QED
        BY <2>0, <3>2, <4>1, <4>2, InTicks DEF Ends
    <3>. QED
      BY <2>0, <3>1, <3>2, <3>3
  <2>2. CASE Forget(t)
    <3>1. cached' = [cached EXCEPT ![t] = 0] /\ 0 <= Ends(t)
      BY <2>0, <2>2 DEF Forget
    <3>. QED
      BY <2>0, <3>1
  <2>. QED
    BY <2>1, <2>2
<1>3. TypeOK'
  BY <1>1, <1>2 DEF TypeOK
<1>4. TokensFit'
  <2>1. \A s \in Tokens : /\ cached'[s] = IF s = t THEN until ELSE cached[s]
                          /\ Ends(s)' = Ends(s)
    BY <1>1, <1>2 DEF TypeOK, Exp, Ends
  <2>. QED
    BY <1>1, <1>2, <2>1 DEF TokensFit
<1>5. KeysFit'
  BY <1>1 DEF KeysFit
<1>. QED
  BY <1>3, <1>4, <1>5

-----------------------------------------------------------------------------
(* Accounts *)

\* A step that touches no token, by an account: what it does to the keys is told for
\* its account; the clock stands.
LEMMA AccountStep ==
    ASSUME TokensInv, NEW u \in Users,
           UNCHANGED <<now, redis, issued, token, blocked, cached, loggedOut>>,
           active' \subseteq Users, reading' \subseteq Users,
           NEW x \in Change, change' = [change EXCEPT ![u] = x],
           NEW k \in Key, revoked' = [revoked EXCEPT ![u] = k],
           NEW c \in Key, cut' = [cut EXCEPT ![u] = c],
           refused' = [refused EXCEPT ![u] = k.at],
           k.at <= Second(now), k.until <= now + RevokeTtl * PerSecond,
           x.op # "none" =>
              /\ k.at <= x.key.at /\ x.key.at <= Second(now)
              /\ x.key.until # 0 => x.key = k,
           c.at <= k.at, c.until <= k.until
    PROVE  TokensInv'
<1>. USE DEF TokensInv
<1>1. k.at \in 0..MaxTime
  BY Types
<1>2. TypeOK'
  BY <1>1 DEF TypeOK
<1>3. TokensFit'
  BY DEF TokensFit, Ends, Exp
<1>4. \A v \in Users : /\ change'[v] = IF v = u THEN x ELSE change[v]
                       /\ revoked'[v] = IF v = u THEN k ELSE revoked[v]
                       /\ refused'[v] = IF v = u THEN k.at ELSE refused[v]
                       /\ cut'[v] = IF v = u THEN c ELSE cut[v]
  BY DEF TypeOK
<1>5. KeysFit'
  <2>. SUFFICES ASSUME NEW v \in Users
                PROVE  /\ refused'[v] = revoked'[v].at
                       /\ revoked'[v].at <= Second(now)
                       /\ revoked'[v].until <= now + RevokeTtl * PerSecond
                       /\ change'[v].op # "none" =>
                             /\ revoked'[v].at <= change'[v].key.at
                             /\ change'[v].key.at <= Second(now)
                             /\ change'[v].key.until # 0 => change'[v].key = revoked'[v]
                       /\ cut'[v].at <= revoked'[v].at /\ cut'[v].until <= revoked'[v].until
    BY DEF KeysFit
  <2>1. CASE v = u
    BY <1>4, <2>1
  <2>2. CASE v # u
    BY <1>4, <2>2 DEF KeysFit
  <2>. QED
    BY <2>1, <2>2
<1>. QED
  BY <1>2, <1>3, <1>5

\* The same when it leaves the user key alone.
LEMMA KeyKept ==
    ASSUME TokensInv, NEW u \in Users,
           UNCHANGED <<now, redis, issued, token, blocked, cached, loggedOut, revoked, refused>>,
           active' \subseteq Users, reading' \subseteq Users,
           NEW x \in Change, change' = [change EXCEPT ![u] = x],
           NEW c \in Key, cut' = [cut EXCEPT ![u] = c],
           x.op # "none" =>
              /\ revoked[u].at <= x.key.at /\ x.key.at <= Second(now)
              /\ x.key.until # 0 => x.key = revoked[u],
           c.at <= revoked[u].at, c.until <= revoked[u].until
    PROVE  TokensInv'
<1>1. /\ revoked[u] \in Key /\ revoked[u].at <= Second(now)
      /\ revoked[u].until <= now + RevokeTtl * PerSecond
      /\ refused[u] = revoked[u].at
  BY Types DEF TokensInv, KeysFit
<1>2. revoked' = [revoked EXCEPT ![u] = revoked[u]] /\ refused' = [refused EXCEPT ![u] = revoked[u].at]
  BY <1>1 DEF TokensInv, TypeOK
<1>. QED
  BY <1>1, <1>2, AccountStep

LEMMA AccountKeeps ==
    ASSUME TokensInv, NEW u \in Users,
           ReadAccount(u) \/ Activate(u) \/ ChangeRollback(u) \/ ChangeCommit(u)
    PROVE  TokensInv'
<1>. USE DEF TokensInv
<1>1. /\ change[u] \in Change /\ cut[u] \in Key /\ NoKey \in Key /\ NoChange \in Change
      /\ NoChange.op = "none" /\ revoked[u].at \in Nat /\ revoked[u].until \in Nat
  BY Types DEF NoChange, Change
<1>2. /\ cut[u].at <= revoked[u].at /\ cut[u].until <= revoked[u].until
      /\ change[u].op # "none" =>
            /\ revoked[u].at <= change[u].key.at /\ change[u].key.at <= Second(now)
            /\ change[u].key.until # 0 => change[u].key = revoked[u]
  BY DEF KeysFit
<1>3. change = [change EXCEPT ![u] = change[u]] /\ cut = [cut EXCEPT ![u] = cut[u]]
  BY DEF TypeOK
<1>4. /\ UNCHANGED <<now, redis, issued, token, blocked, cached, loggedOut, revoked, refused>>
      /\ active' \subseteq Users /\ reading' \subseteq Users
  BY DEF ReadAccount, Activate, ChangeRollback, ChangeCommit, TypeOK
<1>5. CASE ReadAccount(u) \/ Activate(u)
  <2>1. UNCHANGED <<change, cut>>
    BY <1>5 DEF ReadAccount, Activate
  <2>. QED
    BY <1>1, <1>2, <1>3, <1>4, <2>1, KeyKept
<1>6. CASE ChangeRollback(u)
  <2>1. change' = [change EXCEPT ![u] = NoChange] /\ cut' = cut
    BY <1>6 DEF ChangeRollback
  <2>. QED
    BY <1>1, <1>2, <1>3, <1>4, <2>1, KeyKept
<1>7. CASE ChangeCommit(u)
  <2>1. change' = [change EXCEPT ![u] = NoChange] /\ change[u].op # "none"
    BY <1>7 DEF ChangeCommit
  <2>2. ASSUME NEW c \in Key, cut' = [cut EXCEPT ![u] = c],
               c.at <= revoked[u].at, c.until <= revoked[u].until
        PROVE  TokensInv'
    BY <1>1, <1>4, <2>1, <2>2, KeyKept
  <2>3. CASE cut' = cut
    BY <1>1, <1>2, <1>3, <2>2, <2>3
  <2>4. CASE cut' = [cut EXCEPT ![u] = IF change[u].key.until # 0 THEN change[u].key ELSE NoKey]
    <3>1. CASE change[u].key.until # 0
      <4>1. change[u].key = revoked[u] /\ revoked[u] \in Key
        BY <1>2, <2>1, <3>1, Types
      <4>2. cut' = [cut EXCEPT ![u] = revoked[u]]
        BY <2>4, <3>1, <4>1
      <4>3. revoked[u].at <= revoked[u].at /\ revoked[u].until <= revoked[u].until
        BY <1>1
      <4>. QED
        BY <2>2, <4>1, <4>2, <4>3
    <3>2. CASE change[u].key.until = 0
      <4>1. cut' = [cut EXCEPT ![u] = NoKey]
        BY <2>4, <3>2
      <4>2. NoKey.at = 0 /\ NoKey.until = 0
        BY DEF NoKey
      <4>3. NoKey.at <= revoked[u].at /\ NoKey.until <= revoked[u].until
        BY <1>1, <4>2
      <4>. QED
        BY <1>1, <2>2, <4>1, <4>3
    <3>. QED
      BY <3>1, <3>2
  <2>. QED
    BY <1>7, <2>3, <2>4 DEF ChangeCommit
<1>. QED
  BY <1>5, <1>6, <1>7

LEMMA StartKeeps ==
    ASSUME TokensInv, NEW u \in Users, NEW op \in {"suspend", "password"}, ChangeStart(u, op)
    PROVE  TokensInv'
<1>. USE DEF TokensInv
<1>. DEFINE k == [at |-> Second(now), until |-> 0]
            x == [op |-> op, key |-> k]
<1>1. k \in Key /\ k.at = Second(now) /\ k.until = 0
  BY Types DEF Key
<1>. HIDE DEF k
<1>2. x \in Change /\ x.key = k
  BY <1>1 DEF Change
<1>3. change' = [change EXCEPT ![u] = x]
  BY DEF ChangeStart, k
<1>. HIDE DEF x
<1>4. /\ UNCHANGED <<now, redis, issued, token, blocked, cached, loggedOut, revoked, refused>>
      /\ active' \subseteq Users /\ reading' \subseteq Users /\ cut' = [cut EXCEPT ![u] = cut[u]]
  BY DEF ChangeStart, TypeOK
<1>5. /\ cut[u] \in Key /\ cut[u].at <= revoked[u].at /\ cut[u].until <= revoked[u].until
      /\ revoked[u].at <= Second(now) /\ Second(now) \in Nat
  BY Types DEF KeysFit
<1>6. /\ revoked[u].at <= x.key.at /\ x.key.at <= Second(now)
      /\ ~(x.key.until # 0)
  BY <1>1, <1>2, <1>5
<1>. QED
  BY <1>2, <1>3, <1>4, <1>5, <1>6, KeyKept

LEMMA MarkKeeps ==
    ASSUME TokensInv, NEW u \in Users, Mark(u)
    PROVE  TokensInv'
<1>. USE DEF TokensInv
<1>. DEFINE k == KeyOf(u)
            x == [change[u] EXCEPT !.key = k]
<1>1. /\ change[u] \in Change /\ change[u].key \in Key /\ change[u].op # "none"
      /\ cut[u] \in Key /\ cut[u].at \in Nat /\ cut[u].until \in Nat /\ now \in Nat
      /\ revoked[u].at \in Nat /\ revoked[u].until \in Nat
      /\ RevokeTtl * PerSecond \in Nat /\ change[u].key.at \in Nat
      /\ change[u].key.at \in 0..MaxTime
  BY Types DEF Mark
<1>2. k \in Key /\ k.at = change[u].key.at /\ k.until = now + RevokeTtl * PerSecond
  BY <1>1, MarkInTicks DEF KeyOf, Key
<1>3. /\ revoked' = [revoked EXCEPT ![u] = k] /\ refused' = [refused EXCEPT ![u] = k.at]
      /\ change' = [change EXCEPT ![u].key = k]
      /\ UNCHANGED <<now, redis, issued, token, active, reading, blocked, cached,
                     loggedOut, cut>>
  BY DEF Mark
<1>. HIDE DEF k
<1>4. x \in Change /\ x.key = k /\ change' = [change EXCEPT ![u] = x]
  BY <1>1, <1>2, <1>3 DEF Change, TypeOK
<1>. HIDE DEF x
<1>5. /\ cut[u].at <= revoked[u].at /\ cut[u].until <= revoked[u].until
      /\ revoked[u].at <= change[u].key.at /\ change[u].key.at <= Second(now)
      /\ revoked[u].until <= now + RevokeTtl * PerSecond
  BY <1>1 DEF KeysFit
<1>6. /\ k.at <= Second(now) /\ k.until <= now + RevokeTtl * PerSecond
      /\ cut[u].at <= k.at /\ cut[u].until <= k.until
  BY <1>1, <1>2, <1>5
<1>7. cut' = [cut EXCEPT ![u] = cut[u]] /\ active' \subseteq Users /\ reading' \subseteq Users
  BY <1>3 DEF TypeOK
<1>8. k.at <= k.at
  BY <1>1, <1>2
<1>. QED
  BY <1>1, <1>2, <1>3, <1>4, <1>6, <1>7, <1>8, AccountStep

-----------------------------------------------------------------------------
(* The invariant *)

LEMMA AdvanceKeeps ==
    ASSUME TokensInv, Advance
    PROVE  TokensInv'
<1>. USE DEF TokensInv
<1>1. /\ now' = now + 1 /\ Second(now + 1) <= MaxTime
      /\ UNCHANGED <<redis, issued, token, active, reading, change, blocked, revoked,
                     cached, loggedOut, refused, cut>>
  BY DEF Advance
<1>2. now \in Nat /\ now + 1 \in Nat /\ Second(now + 1) \in Nat /\ Second(now) <= Second(now + 1)
  BY Types, Seconds, SecondGrows
<1>3. now + 1 \in Ticks
  <2>. DEFINE s == Second(now + 1)
              n == s + 1
  <2>1. s \in Nat /\ n \in Nat /\ s <= MaxTime /\ now + 1 < s * PerSecond + PerSecond
    BY <1>1, <1>2, Seconds
  <2>. HIDE DEF s
  <2>2. n * PerSecond = s * PerSecond + 1 * PerSecond /\ 1 * PerSecond = PerSecond
    BY <2>1, Times, AccessAssumption
  <2>3. s * PerSecond \in Int /\ PerSecond \in Nat
    BY <2>1, Times, AccessAssumption
  <2>4. now + 1 <= n * PerSecond
    BY <1>2, <2>1, <2>2, <2>3
  <2>5. n <= MaxTime + AccessTtl + RevokeTtl + 1
    BY <2>1, AccessAssumption
  <2>. HIDE DEF n
  <2>. QED
    BY <1>2, <2>1, <2>4, <2>5, InTicks
<1>4. Second(now)' = Second(now + 1)
  BY <1>1
<1>5. TypeOK'
  BY <1>1, <1>3, <1>4 DEF TypeOK
<1>6. TokensFit'
  BY <1>1 DEF TokensFit, Ends, Exp
<1>7. KeysFit'
  <2>. DEFINE r == RevokeTtl * PerSecond
              s == Second(now)
              n == Second(now + 1)
  <2>1. r \in Nat /\ s \in Nat /\ n \in Nat /\ s <= n
    BY <1>2, Types
  <2>2. ASSUME NEW u \in Users
        PROVE  /\ revoked[u].at \in Nat /\ revoked[u].until \in Nat
               /\ change[u].key.at \in Nat
    BY Types
  <2>3. ASSUME NEW u \in Users
        PROVE  /\ refused[u] = revoked[u].at
               /\ revoked[u].at <= n
               /\ revoked[u].until <= now + 1 + r
               /\ change[u].op # "none" =>
                     /\ revoked[u].at <= change[u].key.at /\ change[u].key.at <= n
                     /\ change[u].key.until # 0 => change[u].key = revoked[u]
               /\ cut[u].at <= revoked[u].at /\ cut[u].until <= revoked[u].until
    <3>1. /\ refused[u] = revoked[u].at
          /\ revoked[u].at <= s
          /\ revoked[u].until <= now + r
          /\ change[u].op # "none" =>
                /\ revoked[u].at <= change[u].key.at /\ change[u].key.at <= s
                /\ change[u].key.until # 0 => change[u].key = revoked[u]
          /\ cut[u].at <= revoked[u].at /\ cut[u].until <= revoked[u].until
      BY DEF KeysFit
    <3>. HIDE DEF r, s, n
    <3>. QED
      BY <1>2, <2>1, <2>2, <3>1
  <2>. QED
    BY <1>1, <1>4, <2>3 DEF KeysFit
<1>. QED
  BY <1>5, <1>6, <1>7

LEMMA InitTokens == Init => TokensInv
<1>. SUFFICES ASSUME Init PROVE TokensInv
  OBVIOUS
<1>1. /\ MaxTime \in Nat \ {0} /\ MaxTokens \in Nat /\ AccessTtl \in Nat \ {0}
      /\ RevokeTtl \in Nat \ {0} /\ PerSecond \in Nat \ {0}
  BY AccessAssumption
<1>. DEFINE all == MaxTime + AccessTtl + RevokeTtl + 1
<1>2. PerSecond \in Ticks /\ 0 \in Ticks
  <2>1. all \in Nat /\ all >= 1
    BY <1>1
  <2>. HIDE DEF all
  <2>2. 1 * PerSecond <= all * PerSecond /\ 1 * PerSecond = PerSecond /\ all * PerSecond \in Int
    BY <1>1, <2>1, Times
  <2>3. Ticks = 0..(all * PerSecond)
    BY DEF Ticks, all
  <2>. QED
    BY <1>1, <2>2, <2>3
<1>3. Second(now) = 1
  BY <1>1 DEF Init, Second
<1>4. NoKey \in Key /\ NoKey.at = 0 /\ NoKey.until = 0
  BY <1>1, <1>2 DEF NoKey, Key
<1>5. NoChange \in Change /\ NoChange.op = "none"
  BY <1>4 DEF NoChange, Change
<1>6. TypeOK
  <2>1. [user |-> CHOOSE u \in Users : TRUE, iat |-> 0] \in Claims
    BY <1>1, AccessAssumption DEF Claims
  <2>2. Second(now) <= MaxTime /\ 0 \in 0..MaxTokens /\ 0 \in 0..MaxTime
    BY <1>1, <1>3
  <2>3. token \in [Tokens -> Claims]
    <3>. DEFINE claims == [user |-> CHOOSE u \in Users : TRUE, iat |-> 0]
    <3>1. claims \in Claims /\ token = [t \in Tokens |-> claims]
      BY <2>1 DEF Init
    <3>. HIDE DEF claims
    <3>. QED
      BY <3>1
  <2>4. now = PerSecond
    BY DEF Init
  <2>5. change \in [Users -> Change] /\ revoked \in [Users -> Key] /\ cut \in [Users -> Key]
    BY <1>4, <1>5 DEF Init
  <2>6. /\ redis \in BOOLEAN /\ issued = 0 /\ active = Users /\ reading = {}
        /\ blocked = [t \in Tokens |-> 0] /\ cached = [t \in Tokens |-> 0]
        /\ loggedOut = {} /\ refused = [u \in Users |-> 0]
    BY DEF Init
  <2>. QED
    BY <1>2, <2>2, <2>3, <2>4, <2>5, <2>6 DEF TypeOK
<1>7. TokensFit
  <2>1. \A t \in Tokens : Ends(t) \in Nat
    BY <1>6, Types
  <2>2. /\ loggedOut = {} /\ \A t \in Tokens : blocked[t] = 0 /\ cached[t] = 0
    BY DEF Init
  <2>. QED
    BY <2>1, <2>2 DEF TokensFit
<1>8. KeysFit
  <2>. SUFFICES ASSUME NEW v \in Users
                PROVE  /\ refused[v] = revoked[v].at
                       /\ revoked[v].at <= Second(now)
                       /\ revoked[v].until <= now + RevokeTtl * PerSecond
                       /\ change[v].op # "none" =>
                             /\ revoked[v].at <= change[v].key.at
                             /\ change[v].key.at <= Second(now)
                             /\ change[v].key.until # 0 => change[v].key = revoked[v]
                       /\ cut[v].at <= revoked[v].at /\ cut[v].until <= revoked[v].until
    BY Zenon DEF KeysFit
  <2>1. refused[v] = 0 /\ revoked[v] = NoKey /\ change[v] = NoChange /\ cut[v] = NoKey
    BY DEF Init
  <2>2. now \in Nat /\ RevokeTtl * PerSecond \in Nat
    BY <1>6, Types
  <2>3. 0 <= now + RevokeTtl * PerSecond /\ 0 <= Second(now)
    BY <1>3, <2>2
  <2>. QED
    BY <1>4, <1>5, <2>1, <2>3
<1>. QED
  BY <1>6, <1>7, <1>8 DEF TokensInv

LEMMA NextTokens == TokensInv /\ [Next]_vars => TokensInv'
<1>. SUFFICES ASSUME TokensInv, [Next]_vars PROVE TokensInv'
  OBVIOUS
<1>1. ASSUME NEW u \in Users,
             ReadAccount(u) \/ Activate(u) \/ ChangeRollback(u) \/ ChangeCommit(u)
      PROVE  TokensInv'
  BY <1>1, AccountKeeps
<1>2. ASSUME NEW u \in Users, Issue(u) PROVE TokensInv'
  BY <1>2, IssueKeeps
<1>3. ASSUME NEW u \in Users, ChangeStart(u, "suspend") \/ ChangeStart(u, "password")
      PROVE  TokensInv'
  BY <1>3, StartKeeps
<1>4. ASSUME NEW u \in Users, Mark(u) PROVE TokensInv'
  BY <1>4, MarkKeeps
<1>5. ASSUME NEW t \in Tokens, Logout(t) PROVE TokensInv'
  BY <1>5, LogoutKeeps
<1>6. ASSUME NEW t \in Tokens, VerifyDownstream(t) \/ Forget(t) PROVE TokensInv'
  BY <1>6, CacheKeeps
<1>7. CASE Advance
  BY <1>7, AdvanceKeeps
<1>8. CASE Toggle \/ UNCHANGED vars
  <2>1. /\ UNCHANGED <<now, issued, token, active, reading, change, blocked, revoked,
                       cached, loggedOut, refused, cut>>
        /\ redis' \in BOOLEAN
    BY <1>8 DEF Toggle, vars, TokensInv, TypeOK
  <2>2. TypeOK'
    BY <2>1 DEF TokensInv, TypeOK
  <2>. QED
    BY <2>1, <2>2 DEF TokensInv, TokensFit, KeysFit, Ends, Exp
<1>. QED
  BY <1>1, <1>2, <1>3, <1>4, <1>5, <1>6, <1>7, <1>8 DEF Next

\* The keys in Redis last as long as what they are to keep out, and later ones never
\* say less than earlier ones.
THEOREM TokensInvariant == Spec => []TokensInv
<1>. QED
  BY InitTokens, NextTokens, PTL DEF Spec

\* Tokens, keys, caches and changes of accounts hold what they can hold, and no
\* lifetime outgrows the clock.
THEOREM TypeCorrect == Spec => []TypeOK
<1>1. TokensInv => TypeOK
  BY DEF TokensInv
<1>. QED
  BY <1>1, TokensInvariant, PTL

\* While Redis answers, a token that was logged out is refused to its end.
THEOREM LoggedOutIsOut == Spec => []LoggedOutStaysOut
<1>1. TokensInv => LoggedOutStaysOut
  <2>. SUFFICES ASSUME TokensInv, NEW t \in loggedOut, redis
                PROVE  ~Accepted(t) /\ (AcceptedDownstream(t) => Second(now) = Exp(t))
    BY DEF LoggedOutStaysOut
  <2>1. /\ t \in Tokens /\ Ends(t) \in Nat /\ Exp(t) \in Nat /\ now \in Nat
        /\ Second(now) \in Nat /\ blocked[t] \in Nat /\ cached[t] \in Nat
    BY Types DEF TokensInv, TypeOK
  <2>2. Ends(t) <= blocked[t] /\ cached[t] <= Ends(t)
    BY <2>1 DEF TokensInv, TokensFit
  <2>3. ~TokenRevoked(t) => Exp(t) <= Second(now)
    <3>1. now < Exp(t) * PerSecond <=> Second(now) < Exp(t)
      BY <2>1, SecondOver
    <3>2. ~TokenRevoked(t) => ~(now < Ends(t))
      BY <2>1, <2>2 DEF TokenRevoked
    <3>. QED
      BY <2>1, <3>1, <3>2 DEF Ends
  <2>4. now <= cached[t] => Second(now) <= Exp(t)
    <3>1. SUFFICES ASSUME now <= Ends(t) PROVE Second(now) <= Exp(t)
      BY <2>1, <2>2
    <3>. DEFINE e == Exp(t)
                n == e + 1
    <3>4. e * PerSecond = Ends(t) /\ e \in Nat
      BY <2>1 DEF Ends
    <3>. HIDE DEF e
    <3>2. n \in Nat /\ n * PerSecond = e * PerSecond + 1 * PerSecond
      BY <3>4, Times
    <3>3. 1 * PerSecond \in Int /\ 1 * PerSecond >= 1
      BY Times
    <3>5. now < n * PerSecond
      BY <2>1, <3>1, <3>2, <3>3, <3>4
    <3>6. Second(now) < n
      BY <2>1, <3>2, <3>5, SecondOver
    <3>. QED
      BY <2>1, <3>6 DEF e
  <2>. QED
    BY <2>1, <2>3, <2>4 DEF Accepted, AcceptedDownstream, Verified
<1>. QED
  BY <1>1, TokensInvariant, PTL

\* A suspension that reached Redis keeps out all tokens from before, whatever other
\* changes of the account, committed or rolled back, write the user key meanwhile.
THEOREM SuspendedIsOut == Spec => []SuspendedAccountIsOut
<1>1. TokensInv => SuspendedAccountIsOut
  <2>. SUFFICES ASSUME TokensInv, NEW t \in Tokens, Accepted(t), redis
                PROVE  LET u == token[t].user
                       IN  token[t].iat >= cut[u].at \/ now >= cut[u].until
    BY DEF SuspendedAccountIsOut
  <2>. DEFINE u == token[t].user
  <2>1. /\ u \in Users /\ token[t].iat \in Nat /\ now \in Nat
        /\ cut[u].at \in Nat /\ cut[u].until \in Nat
        /\ revoked[u].at \in Nat /\ revoked[u].until \in Nat
    BY Types DEF TokensInv
  <2>2. ~(now < revoked[u].until) \/ ~(token[t].iat < revoked[u].at)
    BY DEF Accepted, UserRevoked
  <2>3. cut[u].at <= revoked[u].at /\ cut[u].until <= revoked[u].until
    BY <2>1 DEF TokensInv, KeysFit
  <2>. HIDE DEF u
  <2>4. token[t].iat >= cut[u].at \/ now >= cut[u].until
    BY <2>1, <2>2, <2>3
  <2>. QED
    BY <2>4 DEF u
<1>. QED
  BY <1>1, TokensInvariant, PTL

\* A token is refused before its end only for a logout of its own, or a revocation
\* of its user in a later second.
THEOREM OnlyRevokedRefused == Spec => []OnlyTheRevokedAreRefused
<1>1. TokensInv => OnlyTheRevokedAreRefused
  <2>. SUFFICES ASSUME TokensInv, NEW t \in 1..issued, ~Accepted(t), Second(now) < Exp(t)
                PROVE  t \in loggedOut \/ token[t].iat < refused[token[t].user]
    BY DEF OnlyTheRevokedAreRefused
  <2>1. t \in Tokens /\ t <= issued
    BY AccessAssumption DEF TokensInv, TypeOK, Tokens
  <2>2. TokenRevoked(t) \/ UserRevoked(t)
    BY <2>1 DEF Accepted
  <2>3. CASE TokenRevoked(t)
    <3>1. now \in Nat /\ now < blocked[t] /\ blocked[t] \in Nat
      BY <2>1, <2>3, Types DEF TokenRevoked, TokensInv
    <3>2. blocked[t] # 0
      BY <3>1
    <3>. QED
      BY <2>1, <3>2 DEF TokensInv, TokensFit
  <2>4. CASE UserRevoked(t)
    <3>1. token[t].user \in Users
      BY <2>1, Types DEF TokensInv
    <3>. QED
      BY <2>4, <3>1 DEF UserRevoked, TokensInv, KeysFit
  <2>. QED
    BY <2>2, <2>3, <2>4
<1>. QED
  BY <1>1, TokensInvariant, PTL
=============================================================================
