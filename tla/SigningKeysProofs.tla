-------------------------- MODULE SigningKeysProofs --------------------------
(***************************************************************************)
(* Theorems about SigningKeys, for any number of replicas, requests and    *)
(* keys, and any times.                                                    *)
(***************************************************************************)
EXTENDS SigningKeys, TLAPS

\* A document with the key k is out of the cache by then.
Horizon(k) == Retired(k) + FetchMax + CacheTtl

\* The keys that run are keys there are; once all replicas have the newest one, the
\* others were retired by the time it was settled.
TermsFit ==
    /\ \A r \in Replicas : runs[r] <= newest
    /\ \A k \in Keys : ended[k] <= now
    /\ settled <= now
    /\ Settled => \A k \in 1..newest - 1 : ended[k] <= settled

\* The document that is cached, and the tokens that are, go with their key.
CachesFade ==
    /\ cache.key <= newest /\ cache.until <= Horizon(cache.key)
    /\ \A k \in Keys : seen[k] < Horizon(k) + VerifyTtl

\* What a request holds: a token that somebody signed; an answer that is recent and
\* from a key that ran when it was given; a verdict that the two properties allow.
Fits(x) ==
    /\ x.token <= newest
    /\ x.calm /\ x.token = newest => Settled
    /\ x.pc = "answered" =>
          /\ x.key <= newest /\ x.at <= Retired(x.key) /\ now <= x.at + FetchMax
          /\ x.calm /\ x.token = newest => x.key = newest
    /\ x.pc = "accepted" =>
          now < Horizon(x.token) + (IF Shared(x.token) THEN VerifyTtl ELSE 0)
    /\ x.pc = "rejected" /\ x.token = newest /\ Settled =>
          IF Shared(newest) THEN now < settled + FetchMax + CacheTtl ELSE ~x.calm

RequestsFit == \A p \in Requests : Fits(req[p])

\* The inductive invariant.
KeysInv == TypeOK /\ TermsFit /\ CachesFade /\ RequestsFit

-----------------------------------------------------------------------------
LEMMA Types ==
    ASSUME TypeOK
    PROVE  /\ now \in Nat /\ newest \in Nat \ {0} /\ newest \in Keys
           /\ cache.key \in Keys /\ cache.until \in Nat /\ settled \in Nat
           /\ \A k \in Keys : kid[k] \in Keys /\ seen[k] \in Int /\ ended[k] \in Nat
           /\ \A r \in Replicas : runs[r] \in Keys
           /\ \A p \in Requests : req[p] \in Request
           /\ FetchMax \in Nat /\ VerifyTtl \in Nat /\ CacheTtl \in Nat \ {0}
           /\ MaxTime \in Nat /\ MaxKeys \in Nat \ {0}
           /\ \A k \in Keys : k \in Nat \ {0} /\ Retired(k) \in Nat /\ Horizon(k) \in Nat
           /\ 0 \in 0..MaxTime /\ 1 \in Keys
<1>1. /\ FetchMax \in Nat /\ VerifyTtl \in Nat /\ CacheTtl \in Nat \ {0}
      /\ MaxTime \in Nat /\ MaxKeys \in Nat \ {0}
  BY KeysAssumption
<1>2. \A t \in Ticks \union {-1} : t \in Int
  BY <1>1 DEF Ticks
<1>3. /\ now \in Nat /\ settled \in Nat /\ \A k \in Keys : ended[k] \in Nat /\ kid[k] \in Keys
      /\ \A r \in Replicas : runs[r] \in Keys
      /\ \A k \in Keys : k \in Nat \ {0}
      /\ newest \in Keys
  <2>1. /\ newest \in Keys /\ kid \in [Keys -> Keys] /\ runs \in [Replicas -> Keys]
        /\ ended \in [Keys -> 0..MaxTime] /\ settled \in 0..MaxTime /\ now \in 0..MaxTime
    BY DEF TypeOK
  <2>2. \A k \in Keys : k \in Nat \ {0}
    BY <1>1 DEF Keys
  <2>3. \A t \in 0..MaxTime : t \in Nat
    BY <1>1
  <2>. QED
    BY <2>1, <2>2, <2>3
<1>4. \A k \in Keys : Retired(k) \in Nat /\ Horizon(k) \in Nat
  BY <1>1, <1>3 DEF Retired, Horizon
<1>5. \A p \in Requests : req[p] \in Request
  BY DEF TypeOK
<1>6. cache.key \in Keys /\ cache.until \in Nat
  <2>. DEFINE last == MaxTime + CacheTtl
  <2>1. cache \in [key : Keys, until : 0..last] /\ last \in Nat
    BY <1>1 DEF TypeOK
  <2>. HIDE DEF last
  <2>. QED
    BY <2>1
<1>7. \A k \in Keys : seen[k] \in Int
  BY <1>2 DEF TypeOK
<1>8. 0 \in 0..MaxTime /\ 1 \in Keys
  BY <1>1 DEF Keys
<1>. QED
  BY <1>1, <1>3, <1>4, <1>5, <1>6, <1>7, <1>8

\* The keys that run.
LEMMA Runs ==
    ASSUME TypeOK
    PROVE  /\ Running = {runs[r] : r \in Replicas}
           /\ Settled <=> \A r \in Replicas : runs[r] = newest
<1>1. DOMAIN runs = Replicas
  BY DEF TypeOK
<1>2. Running = {runs[r] : r \in Replicas}
  BY <1>1 DEF Running, Range
<1>. QED
  BY <1>2, KeysAssumption DEF Settled

\* What a step may do to the keys and the clock for all that was established about
\* requests and caches to stand: time goes on, a key stays retired, and its kid stays.
LEMMA WorldMoves ==
    ASSUME KeysInv, now' \in {now, now + 1},
           UNCHANGED <<newest, kid, cache, seen, req>>,
           TypeOK', TermsFit',
           \A k \in Keys : Retired(k)' \in Nat /\ Retired(k) <= Retired(k)',
           Settled => Settled' /\ settled' = settled,
           Settled' /\ ~Settled => settled' = now /\ now' = now,
           now' # now => \A p \in Requests :
                            /\ req[p].pc = "answered" => now < req[p].at + FetchMax
                            /\ req[p].pc \notin {"accepted", "rejected"}
    PROVE  KeysInv'
<1>. USE DEF KeysInv
<1>1. \A k \in Keys : Horizon(k) <= Horizon(k)' /\ Horizon(k)' \in Nat
  BY Types DEF Horizon
<1>2. \A k : Shared(k)' = Shared(k)
  BY DEF Shared
<1>3. CachesFade'
  BY <1>1, Types DEF CachesFade
<1>4. ASSUME NEW p \in Requests PROVE Fits(req[p])'
  <2>. DEFINE x == req[p]
  <2>1. Fits(x) /\ x \in Request /\ x' = x /\ x.token \in Keys /\ x.key \in Keys /\ x.at \in Nat
    BY Types DEF RequestsFit, Request
  <2>2. x.token <= newest /\ (x.calm /\ x.token = newest => Settled')
    BY <2>1 DEF Fits
  <2>3. x.pc = "answered" =>
           /\ x.key <= newest /\ x.at <= Retired(x.key)' /\ now' <= x.at + FetchMax
           /\ x.calm /\ x.token = newest => x.key = newest
    <3>1. Retired(x.key) <= Retired(x.key)' /\ Retired(x.key) \in Nat /\ Retired(x.key)' \in Nat
      BY <2>1, Types
    <3>. QED
      BY <2>1, <3>1, Types DEF Fits
  <2>4. x.pc = "accepted" =>
           now' < Horizon(x.token)' + (IF Shared(x.token) THEN VerifyTtl ELSE 0)
    BY <1>1, <2>1, Types DEF Fits
  <2>5. x.pc = "rejected" /\ x.token = newest /\ Settled' =>
           IF Shared(newest) THEN now' < settled' + FetchMax + CacheTtl ELSE ~x.calm
    <3>1. CASE Settled
      BY <2>1, <3>1 DEF Fits
    <3>2. CASE ~Settled
      BY <2>1, <3>2, Types DEF Fits
    <3>. QED
      BY <3>1, <3>2
  <2>. HIDE DEF x
  <2>. QED
    BY <1>2, <2>1, <2>2, <2>3, <2>4, <2>5 DEF Fits, x
<1>. QED
  BY <1>3, <1>4 DEF RequestsFit

\* A step of a request, to x.
LEMMA RequestMoves ==
    ASSUME KeysInv, NEW p \in Requests, NEW x \in Request, Fits(x),
           req' = [req EXCEPT ![p] = x],
           UNCHANGED <<now, newest, kid, runs, ended, settled>>,
           cache' \in [key : Keys, until : 0..(MaxTime + CacheTtl)],
           seen' \in [Keys -> Ticks \union {-1}], CachesFade'
    PROVE  KeysInv'
<1>. USE DEF KeysInv
<1>1. TypeOK'
  BY DEF TypeOK
<1>2. TermsFit'
  BY DEF TermsFit, Settled, Running
<1>3. /\ Settled' = Settled
      /\ \A k : Retired(k)' = Retired(k) /\ Horizon(k)' = Horizon(k) /\ Shared(k)' = Shared(k)
  BY DEF Settled, Running, Retired, Horizon, Shared
<1>4. ASSUME NEW q \in Requests PROVE Fits(req[q])'
  <2>1. req'[q] = IF q = p THEN x ELSE req[q]
    BY DEF TypeOK
  <2>2. Fits(req'[q])
    BY <2>1 DEF RequestsFit
  <2>. QED
    BY <2>2, <1>3 DEF Fits
<1>. QED
  BY <1>1, <1>2, <1>4 DEF RequestsFit

LEMMA RotateKeeps ==
    ASSUME KeysInv, Rotate
    PROVE  KeysInv'
<1>. USE DEF KeysInv
<1>1. /\ newest' = newest + 1 /\ newest' \in Keys /\ Settled
      /\ UNCHANGED <<now, runs, cache, seen, req, ended, settled>>
  BY Types DEF Rotate, Keys
<1>2. kid' \in [Keys -> Keys] /\ \A k \in 1..newest : kid'[k] = kid[k]
  <2>1. PICK id \in {kid[k] : k \in 1..newest} \union {newest + 1} :
           kid' = [kid EXCEPT ![newest + 1] = id]
    BY Zenon DEF Rotate
  <2>2. MaxKeys \in Nat /\ newest \in 1..MaxKeys
    BY Types DEF Keys
  <2>3. kid \in [Keys -> Keys] /\ id \in Keys /\ newest \in Nat
    <3>1. \A k \in 1..newest : k \in Keys /\ kid[k] \in Keys
      BY <2>2, Types DEF Keys
    <3>. QED
      BY <1>1, <2>1, <3>1, Types DEF TypeOK
  <2>4. \A k \in 1..newest : k \in Keys /\ k # newest + 1
    BY <2>2 DEF Keys
  <2>. QED
    BY <2>1, <2>3, <2>4
<1>3. TypeOK'
  BY <1>1, <1>2 DEF TypeOK
<1>4. PICK r \in Replicas : runs[r] = newest
  BY <1>1, Runs, KeysAssumption
<1>5. ~Settled'
  <2>1. newest \in Running
    BY <1>4, Runs
  <2>2. Running' = Running /\ newest' # newest
    BY <1>1, Types DEF Running
  <2>. QED
    BY <2>1, <2>2 DEF Settled
<1>6. TermsFit'
  <2>1. newest \in Nat /\ \A q \in Replicas : runs[q] \in Nat
    BY Types
  <2>2. \A q \in Replicas : runs[q] <= newest + 1
    BY <2>1 DEF TermsFit
  <2>. QED
    BY <1>1, <1>5, <2>2 DEF TermsFit
<1>7. \A k : Retired(k)' = Retired(k) /\ Horizon(k)' = Horizon(k)
  BY <1>1 DEF Retired, Running, Horizon
<1>8. CachesFade'
  <2>1. newest \in Nat /\ cache.key \in Nat
    BY Types
  <2>2. cache.key <= newest + 1
    BY <2>1 DEF CachesFade
  <2>. QED
    BY <1>1, <1>7, <2>2 DEF CachesFade
<1>9. \A k \in Keys : k <= newest /\ Shared(k) => Shared(k)'
  <2>1. newest \in Nat
    BY Types
  <2>. SUFFICES ASSUME NEW k \in Keys, k <= newest, Shared(k) PROVE Shared(k)'
    OBVIOUS
  <2>2. PICK j \in 1..newest \ {k} : kid[j] = kid[k]
    BY DEF Shared
  <2>3. k \in 1..newest /\ j \in 1..newest + 1
    BY <2>1, Types
  <2>4. kid'[j] = kid'[k] /\ j \in 1..newest' /\ j # k
    BY <1>1, <1>2, <2>2, <2>3
  <2>. QED
    BY <2>4 DEF Shared
<1>10. ASSUME NEW p \in Requests PROVE Fits(req[p])'
  <2>1. Fits(req[p]) /\ req[p] \in Request /\ req'[p] = req[p] /\ req[p].token \in Keys
    BY <1>1, Types DEF RequestsFit, Request
  <2>2. req[p].token <= newest /\ req[p].token <= newest' /\ req[p].token # newest'
    BY <1>1, <2>1, Types DEF Fits
  <2>3. req[p].pc = "answered" =>
           /\ req[p].key <= newest' /\ req[p].at <= Retired(req[p].key)'
           /\ now' <= req[p].at + FetchMax
    <3>1. newest \in Nat /\ req[p].key \in Nat
      BY <2>1, Types DEF Request
    <3>2. req[p].pc = "answered" =>
             /\ req[p].key <= newest + 1 /\ req[p].at <= Retired(req[p].key)
             /\ now <= req[p].at + FetchMax
      BY <2>1, <3>1 DEF Fits
    <3>. QED
      BY <1>1, <1>7, <3>2
  <2>4. req[p].pc = "accepted" =>
           now' < Horizon(req[p].token)' + (IF Shared(req[p].token)' THEN VerifyTtl ELSE 0)
    <3>1. Shared(req[p].token) => Shared(req[p].token)'
      BY <1>9, <2>1, <2>2
    <3>2. Horizon(req[p].token)' = Horizon(req[p].token) /\ Horizon(req[p].token) \in Nat
      BY <1>7, <2>1, Types
    <3>. QED
      BY <1>1, <2>1, <3>1, <3>2, Types DEF Fits
  <2>. QED
    BY <2>1, <2>2, <2>3, <2>4 DEF Fits
<1>. QED
  BY <1>3, <1>6, <1>8, <1>10 DEF RequestsFit

LEMMA RestartKeeps ==
    ASSUME KeysInv, NEW r \in Replicas, Restart(r)
    PROVE  KeysInv'
<1>. USE DEF KeysInv
<1>. DEFINE left == {runs[q] : q \in Replicas \ {r}}
<1>1. /\ runs[r] # newest /\ runs' = [runs EXCEPT ![r] = newest]
      /\ ended' = (IF runs[r] \in left THEN ended ELSE [ended EXCEPT ![runs[r]] = now])
      /\ settled' = (IF left \subseteq {newest} THEN now ELSE settled)
      /\ UNCHANGED <<now, newest, kid, cache, seen, req>>
  BY DEF Restart
<1>2. TypeOK'
  <2>1. now \in 0..MaxTime /\ ended \in [Keys -> 0..MaxTime]
    BY DEF TypeOK
  <2>2. ended' \in [Keys -> 0..MaxTime]
    BY <1>1, <2>1
  <2>3. runs' \in [Replicas -> Keys]
    BY <1>1 DEF TypeOK
  <2>. QED
    BY <1>1, <2>1, <2>2, <2>3 DEF TypeOK
<1>3. Running = left \union {runs[r]} /\ Running' = left \union {newest}
  <2>1. Running = {runs[q] : q \in Replicas} /\ Running' = {runs'[q] : q \in Replicas}
    BY <1>2, Runs DEF TypeOK, Running, Range
  <2>2. \A q \in Replicas : runs'[q] = IF q = r THEN newest ELSE runs[q]
    BY <1>1 DEF TypeOK
  <2>. QED
    BY <2>1, <2>2
<1>4. \A k \in Keys : ended'[k] = IF k = runs[r] /\ k \notin left THEN now ELSE ended[k]
  BY <1>1, Types DEF TypeOK
<1>5. ~Settled /\ (Settled' => settled' = now)
  BY <1>1, <1>3 DEF Settled
<1>6. TermsFit'
  <2>1. \A q \in Replicas : runs'[q] <= newest'
    BY <1>1, Types DEF TermsFit, TypeOK
  <2>2. \A k \in Keys : ended'[k] <= now'
    BY <1>1, <1>4, Types DEF TermsFit
  <2>3. settled' <= now'
    BY <1>1, Types DEF TermsFit
  <2>4. \A k \in 1..newest' - 1 : k \in Keys
    BY <1>1, Types DEF Keys
  <2>. QED
    BY <1>1, <1>5, <2>1, <2>2, <2>3, <2>4 DEF TermsFit
<1>7. \A k \in Keys : Retired(k)' \in Nat /\ Retired(k) <= Retired(k)'
  <2>. SUFFICES ASSUME NEW k \in Keys PROVE Retired(k)' \in Nat /\ Retired(k) <= Retired(k)'
    OBVIOUS
  <2>1. Retired(k) = IF k \in Running THEN now ELSE ended[k]
    BY DEF Retired
  <2>2. Retired(k)' = IF k \in Running' THEN now ELSE ended'[k]
    BY <1>1 DEF Retired
  <2>3. ended[k] \in Nat /\ ended[k] <= now /\ now \in Nat
    BY Types DEF TermsFit
  <2>. HIDE DEF left
  <2>. QED
    BY <1>3, <1>4, <2>1, <2>2, <2>3
<1>. QED
  BY <1>1, <1>2, <1>5, <1>6, <1>7, WorldMoves

LEMMA AdvanceKeeps ==
    ASSUME KeysInv, Advance
    PROVE  KeysInv'
<1>. USE DEF KeysInv
<1>1. /\ now < MaxTime /\ now' = now + 1 /\ now' \in 0..MaxTime
      /\ UNCHANGED <<newest, kid, runs, cache, seen, req, ended, settled>>
  BY Types DEF Advance
<1>2. Settled' = Settled /\ Running' = Running
  BY <1>1 DEF Settled, Running
<1>3. TypeOK'
  BY <1>1 DEF TypeOK
<1>4. TermsFit'
  BY <1>1, <1>2, Types DEF TermsFit
<1>5. \A k \in Keys : Retired(k)' \in Nat /\ Retired(k) <= Retired(k)'
  BY <1>1, <1>2, Types DEF Retired
<1>. QED
  BY <1>1, <1>2, <1>3, <1>4, <1>5, WorldMoves DEF Advance

-----------------------------------------------------------------------------
(* The service downstream *)

\* Once the newest key is settled, the others are gone as long.
LEMMA OthersAreRetired ==
    ASSUME KeysInv, Settled, NEW k \in Keys, k <= newest, k # newest
    PROVE  Retired(k) <= settled /\ Horizon(k) <= settled + FetchMax + CacheTtl
<1>. USE DEF KeysInv
<1>1. newest \in Nat /\ k \in Nat \ {0} /\ ended[k] \in Nat /\ settled \in Nat
  BY Types
<1>2. k \in 1..newest - 1
  BY <1>1
<1>3. ended[k] <= settled
  BY <1>2 DEF TermsFit
<1>4. Retired(k) = ended[k]
  BY DEF Settled, Retired
<1>. QED
  BY <1>1, <1>3, <1>4, KeysAssumption DEF Horizon

LEMMA NoRequestFits == KeysInv => NoRequest \in Request /\ Fits(NoRequest)
<1>. SUFFICES ASSUME KeysInv PROVE NoRequest \in Request /\ Fits(NoRequest)
  OBVIOUS
<1>1. newest \in Nat \ {0} /\ 1 \in Keys /\ 0 \in 0..MaxTime
  BY Types DEF KeysInv
<1>2. NoRequest \in Request
  BY <1>1 DEF NoRequest, Request
<1>3. Fits(NoRequest)
  BY <1>1 DEF NoRequest, Fits
<1>. QED
  BY <1>2, <1>3

LEMMA VerdictFits ==
    ASSUME KeysInv, NEW k \in Keys, k <= newest, NEW good \in BOOLEAN, NEW calm \in BOOLEAN,
           calm /\ k = newest => Settled,
           good => now < Horizon(k) + (IF Shared(k) THEN VerifyTtl ELSE 0),
           ~good /\ k = newest /\ Settled =>
               IF Shared(newest) THEN now < settled + FetchMax + CacheTtl ELSE ~calm
    PROVE  Verdict(k, good, calm) \in Request /\ Fits(Verdict(k, good, calm))
<1>. DEFINE x == Verdict(k, good, calm)
<1>1. /\ x \in Request /\ x.token = k /\ x.calm = calm
      /\ x.pc = IF good THEN "accepted" ELSE "rejected"
  BY NoRequestFits DEF Verdict, Request
<1>. HIDE DEF x
<1>2. Fits(x)
  BY <1>1 DEF Fits
<1>. QED
  BY <1>1, <1>2 DEF x

\* A verdict by a key that is not out of the document: a token of another key has
\* its kid, and is accepted only from the cache of tokens.
LEMMA VerifyKeeps ==
    ASSUME KeysInv, NEW p \in Requests, NEW k \in Keys, NEW key \in Keys, NEW calm \in BOOLEAN,
           k <= newest, key <= newest, kid[key] = kid[k],
           calm /\ k = newest => Settled,
           now < Horizon(key),
           Verify(p, k, key, calm),
           UNCHANGED <<now, newest, kid, runs, ended, settled>>,
           cache' \in [key : Keys, until : 0..(MaxTime + CacheTtl)],
           cache'.key <= newest, cache'.until <= Horizon(cache'.key)
    PROVE  KeysInv'
<1>. USE DEF KeysInv
<1>. DEFINE good == now <= seen[k] \/ key = k
            x == Verdict(k, good, calm)
<1>1. /\ now \in Nat /\ newest \in Nat /\ k \in Nat \ {0} /\ key \in Nat \ {0}
      /\ Horizon(k) \in Nat /\ Horizon(key) \in Nat /\ seen[k] \in Int /\ VerifyTtl \in Nat
      /\ settled \in Nat /\ FetchMax \in Nat /\ CacheTtl \in Nat
  BY Types
<1>2. key # k => Shared(k)
  BY <1>1 DEF Shared
<1>3. good => now < Horizon(k) + (IF Shared(k) THEN VerifyTtl ELSE 0)
  BY <1>1, <1>2 DEF CachesFade
<1>4. ~good /\ k = newest /\ Settled =>
         IF Shared(newest) THEN now < settled + FetchMax + CacheTtl ELSE ~calm
  <2>. SUFFICES ASSUME ~good, k = newest, Settled
                PROVE  Shared(newest) /\ now < settled + FetchMax + CacheTtl
    OBVIOUS
  <2>1. key # newest /\ Shared(newest)
    BY <1>2
  <2>2. Horizon(key) <= settled + FetchMax + CacheTtl
    BY <2>1, OthersAreRetired
  <2>. QED
    BY <1>1, <2>1, <2>2
<1>5. x \in Request /\ Fits(x)
  <2>1. good \in BOOLEAN
    OBVIOUS
  <2>. HIDE DEF good
  <2>. QED
    BY <1>3, <1>4, <2>1, VerdictFits
<1>6. req' = [req EXCEPT ![p] = x] /\ seen' = IF good THEN Remembered(k) ELSE seen
  BY DEF Verify
<1>7. /\ seen' \in [Keys -> Ticks \union {-1}]
      /\ \A j \in Keys : seen'[j] < Horizon(j) + VerifyTtl
  <2>1. seen \in [Keys -> Ticks \union {-1}] /\ \A j \in Keys : seen[j] < Horizon(j) + VerifyTtl
    BY DEF TypeOK, CachesFade
  <2>2. seen' = seen \/ (key = k /\ seen' = [seen EXCEPT ![k] = now + VerifyTtl])
    BY <1>6 DEF Remembered
  <2>3. now + VerifyTtl \in Ticks
    BY <1>1, Types DEF Ticks, TypeOK
  <2>4. key = k => now + VerifyTtl < Horizon(k) + VerifyTtl
    BY <1>1
  <2>. QED
    BY <2>1, <2>2, <2>3, <2>4
<1>8. CachesFade'
  <2>1. \A j : Horizon(j)' = Horizon(j)
    BY DEF Horizon, Retired, Running
  <2>. QED
    BY <1>7, <2>1 DEF CachesFade
<1>. HIDE DEF x
<1>. QED
  BY <1>5, <1>6, <1>7, <1>8, RequestMoves

\* A request goes on, and leaves the caches alone.
LEMMA CachesKept ==
    ASSUME KeysInv, NEW p \in Requests, NEW x \in Request, Fits(x),
           req' = [req EXCEPT ![p] = x],
           UNCHANGED <<now, newest, kid, runs, cache, seen, ended, settled>>
    PROVE  KeysInv'
<1>1. CachesFade'
  BY DEF KeysInv, CachesFade, Horizon, Retired, Running
<1>2. /\ cache' \in [key : Keys, until : 0..(MaxTime + CacheTtl)]
      /\ seen' \in [Keys -> Ticks \union {-1}]
  BY DEF KeysInv, TypeOK
<1>. QED
  BY <1>1, <1>2, RequestMoves

LEMMA PresentKeeps ==
    ASSUME KeysInv, NEW p \in Requests, NEW k \in Keys, Present(p, k)
    PROVE  KeysInv'
<1>. USE DEF KeysInv
<1>1. UNCHANGED <<now, newest, kid, runs, cache, ended, settled>>
  BY DEF Present
<1>2. k <= newest
  BY Runs, Types DEF Present, Signed, TermsFit
<1>3. Settled \in BOOLEAN /\ Fresh \in BOOLEAN
  BY DEF Settled, Fresh
<1>4. CASE Fresh /\ kid[cache.key] = kid[k]
  <2>1. Verify(p, k, cache.key, Settled)
    BY <1>4 DEF Present
  <2>2. cache.key <= newest /\ cache.until <= Horizon(cache.key)
    BY DEF CachesFade
  <2>3. now < Horizon(cache.key)
    BY <1>4, <2>2, Types DEF Fresh
  <2>4. cache \in [key : Keys, until : 0..(MaxTime + CacheTtl)]
    BY DEF TypeOK
  <2>5. cache.key \in Keys
    BY Types
  <2>. QED
    BY <1>1, <1>2, <1>3, <1>4, <2>1, <2>2, <2>3, <2>4, <2>5, VerifyKeeps
<1>5. CASE ~(Fresh /\ kid[cache.key] = kid[k])
  <2>. DEFINE calm == Settled
              fresh == Fresh
              x == [NoRequest EXCEPT !.pc = "fetching", !.token = k, !.calm = calm,
                                     !.again = fresh]
  <2>1. req' = [req EXCEPT ![p] = x] /\ UNCHANGED seen
    BY <1>5 DEF Present
  <2>2. calm \in BOOLEAN /\ fresh \in BOOLEAN /\ (calm => Settled)
    BY <1>3
  <2>. HIDE DEF calm, fresh
  <2>3. x \in Request /\ x.pc = "fetching" /\ x.token = k /\ x.calm = calm
    BY <2>2, NoRequestFits DEF Request
  <2>. HIDE DEF x
  <2>4. Fits(x)
    BY <1>2, <2>2, <2>3 DEF Fits
  <2>. QED
    BY <1>1, <2>1, <2>3, <2>4, CachesKept
<1>. QED
  BY <1>4, <1>5

LEMMA AnswerKeeps ==
    ASSUME KeysInv, NEW p \in Requests, Answer(p)
    PROVE  KeysInv'
<1>. USE DEF KeysInv
<1>1. PICK r \in Replicas :
         req' = [req EXCEPT ![p] = [@ EXCEPT !.pc = "answered", !.key = runs[r], !.at = now]]
  BY Zenon DEF Answer
<1>. DEFINE x == [req[p] EXCEPT !.pc = "answered", !.key = runs[r], !.at = now]
<1>2. req[p] \in Request /\ Fits(req[p]) /\ runs[r] \in Keys /\ now \in 0..MaxTime
  BY Types DEF RequestsFit, TypeOK
<1>3. /\ x \in Request /\ x.pc = "answered" /\ x.key = runs[r] /\ x.at = now
      /\ x.token = req[p].token /\ x.calm = req[p].calm
  BY <1>2 DEF Request
<1>4. req' = [req EXCEPT ![p] = x]
  BY <1>1, Types
<1>. HIDE DEF x
<1>5. runs[r] <= newest /\ Retired(runs[r]) = now /\ (Settled => runs[r] = newest)
  BY Runs DEF TermsFit, Retired
<1>6. now <= now + FetchMax /\ now <= now
  BY Types
<1>7. Fits(x)
  BY <1>2, <1>3, <1>5, <1>6 DEF Fits
<1>. QED
  BY <1>3, <1>4, <1>7, CachesKept DEF Answer

LEMMA StoreKeeps ==
    ASSUME KeysInv, NEW p \in Requests, Store(p)
    PROVE  KeysInv'
<1>. USE DEF KeysInv
<1>. DEFINE k == req[p].token
            key == req[p].key
            at == req[p].at
            calm == req[p].calm
<1>1. /\ k \in Keys /\ key \in Keys /\ at \in 0..MaxTime /\ calm \in BOOLEAN
      /\ req[p].again \in BOOLEAN
  BY Types DEF Request
<1>2. /\ k <= newest /\ key <= newest /\ (calm /\ k = newest => Settled /\ key = newest)
      /\ at <= Retired(key) /\ now <= at + FetchMax
  BY DEF Store, RequestsFit, Fits
<1>3. /\ cache' = [key |-> key, until |-> now + CacheTtl]
      /\ UNCHANGED <<now, newest, kid, runs, ended, settled>>
  BY DEF Store, CacheUntil
<1>. HIDE DEF k, key, at, calm
<1>4. /\ now \in Nat /\ at \in Nat /\ Retired(key) \in Nat /\ FetchMax \in Nat
      /\ CacheTtl \in Nat \ {0} /\ settled \in Nat /\ now \in 0..MaxTime /\ MaxTime \in Nat
  BY <1>1, Types DEF TypeOK
<1>5. now < Horizon(key) /\ now + CacheTtl <= Horizon(key)
  BY <1>2, <1>4 DEF Horizon
<1>6. cache' \in [key : Keys, until : 0..(MaxTime + CacheTtl)]
  <2>1. now + CacheTtl \in 0..(MaxTime + CacheTtl)
    BY <1>4
  <2>. QED
    BY <1>1, <1>3, <2>1
<1>7. cache'.key <= newest /\ cache'.until <= Horizon(cache'.key)
  BY <1>2, <1>3, <1>5
<1>8. CASE kid[key] = kid[k] /\ Verify(p, k, key, calm)
  BY <1>1, <1>2, <1>3, <1>5, <1>6, <1>7, <1>8, VerifyKeeps
<1>9. CASE /\ kid[key] # kid[k] /\ UNCHANGED seen
           /\ req' = [req EXCEPT ![p] =
                         IF req[p].again THEN Verdict(k, FALSE, calm)
                         ELSE [NoRequest EXCEPT !.pc = "fetching", !.token = k,
                                                !.calm = calm, !.again = TRUE]]
  <2>1. CachesFade'
    <3>1. \A j : Horizon(j)' = Horizon(j)
      BY <1>3 DEF Horizon, Retired, Running
    <3>. QED
      BY <1>3, <1>7, <1>9, <3>1 DEF CachesFade
  <2>2. seen' \in [Keys -> Ticks \union {-1}]
    BY <1>9 DEF TypeOK
  <2>3. CASE req[p].again
    <3>1. req' = [req EXCEPT ![p] = Verdict(k, FALSE, calm)]
      BY <1>9, <2>3
    <3>2. k = newest /\ Settled =>
             IF Shared(newest) THEN now < settled + FetchMax + CacheTtl ELSE ~calm
      <4>. SUFFICES ASSUME k = newest, Settled
                    PROVE  now < settled + FetchMax + CacheTtl /\ ~calm
        OBVIOUS
      <4>1. key # newest
        BY <1>9
      <4>2. Retired(key) <= settled
        BY <1>1, <1>2, <4>1, OthersAreRetired
      <4>. QED
        BY <1>2, <1>4, <4>1, <4>2
    <3>3. Verdict(k, FALSE, calm) \in Request /\ Fits(Verdict(k, FALSE, calm))
      BY <1>1, <1>2, <3>2, VerdictFits
    <3>. QED
      BY <1>3, <1>6, <2>1, <2>2, <3>1, <3>3, RequestMoves
  <2>4. CASE ~req[p].again
    <3>. DEFINE x == [NoRequest EXCEPT !.pc = "fetching", !.token = k, !.calm = calm,
                                       !.again = TRUE]
    <3>1. req' = [req EXCEPT ![p] = x]
      BY <1>9, <2>4
    <3>2. x \in Request /\ x.pc = "fetching" /\ x.token = k /\ x.calm = calm
      BY <1>1, NoRequestFits DEF Request
    <3>. HIDE DEF x
    <3>3. Fits(x)
      BY <1>2, <3>2 DEF Fits
    <3>. QED
      BY <1>3, <1>6, <2>1, <2>2, <3>1, <3>2, <3>3, RequestMoves
  <2>. QED
    BY <2>3, <2>4
<1>. QED
  BY <1>8, <1>9 DEF Store, k, key, calm

\* An entry less in the cache of tokens.
LEMMA ForgetKeeps ==
    ASSUME KeysInv, NEW k \in Keys, Forget(k)
    PROVE  KeysInv'
<1>. USE DEF KeysInv
<1>1. /\ seen' = [seen EXCEPT ![k] = -1]
      /\ UNCHANGED <<now, newest, kid, runs, cache, req, ended, settled>>
  BY DEF Forget
<1>2. seen \in [Keys -> Ticks \union {-1}]
  BY DEF TypeOK
<1>3. seen' \in [Keys -> Ticks \union {-1}] /\ \A j \in Keys : seen'[j] \in {seen[j], -1}
  BY <1>1, <1>2
<1>4. TypeOK'
  BY <1>1, <1>3 DEF TypeOK
<1>5. /\ Settled' = Settled
      /\ \A j : Retired(j)' = Retired(j) /\ Horizon(j)' = Horizon(j) /\ Shared(j)' = Shared(j)
  BY <1>1 DEF Settled, Running, Retired, Horizon, Shared
<1>6. TermsFit'
  BY <1>1, <1>5 DEF TermsFit
<1>7. CachesFade'
  <2>1. \A j \in Keys : -1 < Horizon(j) + VerifyTtl
    BY Types
  <2>2. \A j \in Keys : seen'[j] < Horizon(j) + VerifyTtl
    BY <1>3, <2>1 DEF CachesFade
  <2>. QED
    BY <1>1, <1>5, <2>2 DEF CachesFade
<1>8. RequestsFit'
  BY <1>1, <1>5 DEF RequestsFit, Fits
<1>. QED
  BY <1>4, <1>6, <1>7, <1>8

-----------------------------------------------------------------------------
LEMMA InitKeys == Init => KeysInv
<1>. SUFFICES ASSUME Init PROVE KeysInv
  OBVIOUS
<1>1. /\ FetchMax \in Nat /\ VerifyTtl \in Nat /\ CacheTtl \in Nat \ {0}
      /\ MaxTime \in Nat /\ 1 \in Keys /\ 0 \in 0..MaxTime
      /\ \A k \in Keys : k \in Nat
      /\ Replicas # {}
  BY KeysAssumption DEF Keys
<1>2. TypeOK
  <2>1. 0 \in 0..(MaxTime + CacheTtl)
    BY <1>1
  <2>2. NoRequest \in Request
    BY <1>1 DEF NoRequest, Request
  <2>. QED
    BY <1>1, <2>1, <2>2 DEF Init, TypeOK
<1>3. \A k \in Keys : Retired(k) = 0
  BY DEF Init, Retired
<1>4. TermsFit
  BY <1>1 DEF Init, TermsFit
<1>5. CachesFade
  <2>1. \A k \in Keys : Horizon(k) \in Nat
    BY <1>1, <1>3 DEF Horizon
  <2>2. cache.key = 1 /\ cache.until = 0 /\ newest = 1 /\ \A k \in Keys : seen[k] = -1
    BY DEF Init
  <2>. QED
    BY <1>1, <2>1, <2>2 DEF CachesFade
<1>6. RequestsFit
  <2>1. Fits(NoRequest)
    BY <1>1 DEF Init, Fits, NoRequest
  <2>. QED
    BY <2>1 DEF Init, RequestsFit
<1>. QED
  BY <1>2, <1>4, <1>5, <1>6 DEF KeysInv

LEMMA NextKeys == KeysInv /\ [Next]_vars => KeysInv'
<1>. SUFFICES ASSUME KeysInv, [Next]_vars PROVE KeysInv'
  OBVIOUS
<1>1. CASE Rotate
  BY <1>1, RotateKeeps
<1>2. ASSUME NEW r \in Replicas, Restart(r) PROVE KeysInv'
  BY <1>2, RestartKeeps
<1>3. ASSUME NEW p \in Requests, NEW k \in Keys, Present(p, k) PROVE KeysInv'
  BY <1>3, PresentKeeps
<1>4. ASSUME NEW p \in Requests, Answer(p) PROVE KeysInv'
  BY <1>4, AnswerKeeps
<1>5. ASSUME NEW p \in Requests, Store(p) PROVE KeysInv'
  BY <1>5, StoreKeeps
<1>6. ASSUME NEW p \in Requests, FetchFail(p) \/ Leave(p) PROVE KeysInv'
  BY <1>6, NoRequestFits, CachesKept DEF FetchFail, Leave
<1>7. CASE Advance
  BY <1>7, AdvanceKeeps
<1>8. ASSUME NEW k \in Keys, Forget(k) PROVE KeysInv'
  BY <1>8, ForgetKeeps
<1>9. CASE UNCHANGED vars
  BY <1>9 DEF vars, KeysInv, TypeOK, TermsFit, CachesFade, RequestsFit, Fits, Settled,
     Running, Retired, Horizon, Shared
<1>. QED
  BY <1>1, <1>2, <1>3, <1>4, <1>5, <1>6, <1>7, <1>8, <1>9 DEF Next

\* Requests, caches and keys fit together, through restarts of the replicas one by
\* one and answers that are stored in any order.
THEOREM KeysInvariant == Spec => []KeysInv
<1>. QED
  BY InitKeys, NextKeys, PTL DEF Spec

\* Replicas, documents, caches and requests hold what they can hold, and their times
\* lie within the clock.
THEOREM TypeCorrect == Spec => []TypeOK
<1>1. KeysInv => TypeOK
  BY DEF KeysInv
<1>. QED
  BY <1>1, KeysInvariant, PTL

\* A token of a retired key is refused once the last answer that held the key is out
\* of the cache, or once the cache of verified tokens is over if the kid lives on.
THEOREM RetiredFade == Spec => []RetiredKeysFade
<1>1. KeysInv => RetiredKeysFade
  BY DEF KeysInv, RequestsFit, Fits, RetiredKeysFade, Horizon
<1>. QED
  BY <1>1, KeysInvariant, PTL

\* A new key that has a kid of its own is accepted from when all replicas have it;
\* one that takes over the kid, once documents from before are out of the cache.
THEOREM NewestAccepted == Spec => []NewestKeyIsAccepted
<1>1. KeysInv => NewestKeyIsAccepted
  BY DEF KeysInv, RequestsFit, Fits, NewestKeyIsAccepted
<1>. QED
  BY <1>1, KeysInvariant, PTL
=============================================================================
