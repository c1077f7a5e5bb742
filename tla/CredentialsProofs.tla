-------------------------- MODULE CredentialsProofs --------------------------
(***************************************************************************)
(* Theorems about Credentials, for any number of requests, links, changes  *)
(* and attempts.                                                           *)
(***************************************************************************)
EXTENDS Credentials, FiniteSetTheorems, TLAPS

\* A request is between its SELECT and its COMMIT.
Writes(r) == r.pc \in {"select", "update", "commit"}

\* A change of the password is on its way.
Sets(r) == Writes(r) /\ r.op \in {"change", "reset"}

Setting == {q \in Procs : Sets(req[q])}
Mailing == {q \in Procs : At(q, "insert")}

\* The bounds leave room for what is on its way.
RoomIsKept ==
    /\ changes + Cardinality(Setting) <= MaxChanges
    /\ issued + Cardinality(Mailing) <= MaxLinks

\* What a request holds goes with where it is: a link only while it writes, and no
\* link that was not mailed.
Fits(r) ==
    /\ Writes(r) => r.op \in {"change", "reset", "verify"}
    /\ r.pc = "insert" => r.op \in {"reset", "verify"}
    /\ r.link # 0 => Writes(r) /\ r.link <= issued
    /\ r.seen <= issued

RequestsFit == \A p \in Procs : Fits(req[p])

\* A counter that lost nothing is the strikes since it was last cleared.
StrikesAreCounted == strikes # -1 => user.failed = strikes

\* Who holds a link that is used by now is late.
HoldersAreLate ==
    \A p \in Procs :
        req[p].link # 0 /\ link[req[p].link].state = "used" => p \in late

\* The links a change of the password has ended are not open again.
EarlierAreEnded ==
    earlier \subseteq 1..issued /\ \A t \in earlier : link[t].state # "open"

PurgedAreExpired == \A t \in Links : link[t].state = "purged" => Expired(t)

\* The links the throttle counts are within its limits, and whoever it has let pass
\* would be let pass now: nobody has mailed one since.
ThrottleHolds ==
    ~crowded =>
        /\ Cardinality(Resets(1)) <= 1 /\ Cardinality(Resets(3)) <= MaxPerDay
        /\ \A p \in Procs : At(p, "insert") /\ req[p].op = "reset" => ~Throttled

\* The inductive invariant, of the requests, the account and the links.
RequestsInv == TypeOK /\ RoomIsKept /\ RequestsFit

AccountInv == StrikesAreCounted /\ FailuresLockTheAccount /\ CommittedChangesStand

LinksInv ==
    /\ HoldersAreLate /\ LinksWorkOnce /\ EarlierAreEnded
    /\ PurgedAreExpired /\ ThrottleHolds

-----------------------------------------------------------------------------
(* Rows and requests *)

\* Sets of requests that differ in one.
LEMMA CountOne ==
    ASSUME NEW S \in SUBSET Procs, NEW T \in SUBSET Procs, NEW p, S \ {p} = T \ {p}
    PROVE  /\ Cardinality(S) \in Nat /\ Cardinality(T) \in Nat
           /\ p \in S /\ p \notin T => Cardinality(T) = Cardinality(S) - 1
           /\ p \notin S /\ p \in T => Cardinality(T) = Cardinality(S) + 1
           /\ (p \in S <=> p \in T) => Cardinality(T) = Cardinality(S)
<1>1. IsFiniteSet(S) /\ IsFiniteSet(T)
  BY FS_Subset, CredentialsAssumption
<1>2. Cardinality(S) \in Nat /\ Cardinality(T) \in Nat
  BY <1>1, FS_CardinalityType
<1>3. ASSUME p \in S, p \notin T PROVE Cardinality(T) = Cardinality(S) - 1
  <2>1. T = S \ {p}
    BY <1>3
  <2>. QED
    BY <1>1, <1>3, <2>1, FS_RemoveElement
<1>4. ASSUME p \notin S, p \in T PROVE Cardinality(T) = Cardinality(S) + 1
  <2>1. T = S \cup {p}
    BY <1>4
  <2>. QED
    BY <1>1, <1>4, <2>1, FS_AddElement
<1>5. ASSUME p \in S <=> p \in T PROVE S = T
  BY <1>5
<1>. QED
  BY <1>2, <1>3, <1>4, <1>5

\* Whoever is let start has room: the requests that are counted for it are among
\* those the guard looks at.
LEMMA Rooms ==
    ASSUME TypeOK
    PROVE  /\ Cardinality(Setting) \in Nat /\ Cardinality(Mailing) \in Nat
           /\ HasRoomToChange => changes + Cardinality(Setting) < MaxChanges
           /\ HasRoomToMail => issued + Cardinality(Mailing) < MaxLinks
<1>. DEFINE all == {q \in Procs : req[q].op \in {"change", "reset"}}
<1>1. IsFiniteSet(all) /\ IsFiniteSet(Setting) /\ IsFiniteSet(Mailing)
  BY FS_Subset, CredentialsAssumption DEF Setting, Mailing
<1>2. Setting \in SUBSET all
  BY DEF Setting, Sets
<1>3. Cardinality(Setting) <= Cardinality(all)
  BY <1>1, <1>2, FS_Subset
<1>4. Cardinality(Setting) \in Nat /\ Cardinality(Mailing) \in Nat /\ Cardinality(all) \in Nat
  BY <1>1, FS_CardinalityType
<1>5. changes \in Nat /\ issued \in Nat /\ MaxChanges \in Nat
  BY CredentialsAssumption DEF TypeOK
<1>6. HasRoomToChange => changes + Cardinality(all) < MaxChanges
  BY DEF HasRoomToChange
<1>7. HasRoomToMail => issued + Cardinality(Mailing) < MaxLinks
  BY DEF HasRoomToMail, Mailing
<1>. HIDE DEF all
<1>. QED
  BY <1>3, <1>4, <1>5, <1>6, <1>7

LEMMA Defaults ==
    /\ NewUser \in User /\ Idle \in Request
    /\ Idle.pc = "idle" /\ Idle.link = 0 /\ Idle.seen = 0
<1>1. 0 \in 0..MaxLinks /\ 0 \in 0..MaxChanges
  BY CredentialsAssumption
<1>2. NewUser \in User
  BY <1>1 DEF NewUser, User
<1>3. Idle \in Request
  BY <1>1, <1>2 DEF Idle, Request
<1>. QED
  BY <1>2, <1>3 DEF Idle

\* A step of one request, to x.
LEMMA OneRequest ==
    ASSUME RequestsInv, NEW p \in Procs, NEW x \in Request,
           req' = [req EXCEPT ![p] = x], issued' \in {issued, issued + 1},
           Fits(x), x.pc = "commit" => Unlocked
    PROVE  /\ req' \in [Procs -> Request]
           /\ \A q \in Procs : req'[q] = IF q = p THEN x ELSE req[q]
           /\ RequestsFit'
           /\ \A q, r \in Procs : At(q, "commit")' /\ At(r, "commit")' => q = r
           /\ Cardinality(Setting') =
                 IF Sets(x) = Sets(req[p]) THEN Cardinality(Setting)
                 ELSE IF Sets(x) THEN Cardinality(Setting) + 1
                 ELSE Cardinality(Setting) - 1
           /\ Cardinality(Mailing') =
                 IF x.pc = "insert" /\ ~At(p, "insert") THEN Cardinality(Mailing) + 1
                 ELSE IF x.pc # "insert" /\ At(p, "insert") THEN Cardinality(Mailing) - 1
                 ELSE Cardinality(Mailing)
<1>1. req \in [Procs -> Request] /\ issued \in Nat
  BY CredentialsAssumption DEF RequestsInv, TypeOK
<1>2. req' \in [Procs -> Request] /\ \A q \in Procs : req'[q] = IF q = p THEN x ELSE req[q]
  BY <1>1
<1>3. RequestsFit'
  <2>. SUFFICES ASSUME NEW q \in Procs PROVE Fits(req[q])'
    BY DEF RequestsFit
  <2>1. CASE q = p
    BY <1>1, <1>2, <2>1 DEF Fits, Writes, Request
  <2>2. CASE q # p
    <3>1. Fits(req[q]) /\ req'[q] = req[q] /\ req[q] \in Request
      BY <1>1, <1>2, <2>2 DEF RequestsInv, RequestsFit
    <3>. QED
      BY <1>1, <3>1 DEF Fits, Writes, Request
  <2>. QED
    BY <2>1, <2>2
<1>4. \A q, r \in Procs : At(q, "commit")' /\ At(r, "commit")' => q = r
  BY <1>2 DEF At, Unlocked, RequestsInv, TypeOK
<1>5. /\ Setting \in SUBSET Procs /\ Setting' \in SUBSET Procs
      /\ Setting \ {p} = Setting' \ {p}
      /\ p \in Setting <=> Sets(req[p])
      /\ p \in Setting' <=> Sets(x)
  BY <1>2 DEF Setting, Sets, Writes
<1>6. /\ Mailing \in SUBSET Procs /\ Mailing' \in SUBSET Procs
      /\ Mailing \ {p} = Mailing' \ {p}
      /\ p \in Mailing <=> At(p, "insert")
      /\ p \in Mailing' <=> x.pc = "insert"
  BY <1>2 DEF Mailing, At
<1>7. Sets(x) \in BOOLEAN /\ Sets(req[p]) \in BOOLEAN
  BY DEF Sets, Writes
<1>8. Cardinality(Setting') =
         IF Sets(x) = Sets(req[p]) THEN Cardinality(Setting)
         ELSE IF Sets(x) THEN Cardinality(Setting) + 1
         ELSE Cardinality(Setting) - 1
  BY <1>5, <1>7, CountOne
<1>9. Cardinality(Mailing') =
         IF x.pc = "insert" /\ ~At(p, "insert") THEN Cardinality(Mailing) + 1
         ELSE IF x.pc # "insert" /\ At(p, "insert") THEN Cardinality(Mailing) - 1
         ELSE Cardinality(Mailing)
  BY <1>6, CountOne
<1>. QED
  BY <1>2, <1>3, <1>4, <1>8, <1>9

LEMMA RequestStep ==
    ASSUME RequestsInv, NEW p \in Procs, NEW x \in Request,
           req' = [req EXCEPT ![p] = x], Fits(x), x.pc = "commit" => Unlocked,
           Sets(x) => Sets(req[p]) \/ HasRoomToChange,
           x.pc = "insert" => At(p, "insert") \/ HasRoomToMail,
           \/ changes' = changes
           \/ changes' = changes + 1 /\ Sets(req[p]) /\ ~Sets(x),
           \/ issued' = issued
           \/ issued' = issued + 1 /\ At(p, "insert") /\ x.pc # "insert",
           user' \in User, link' \in [Links -> Link],
           \A t \in Links : link'[t].state = "none" <=> t > issued',
           strikes' \in Nat \union {-1}, confirmed' \in BOOLEAN, crowded' \in BOOLEAN,
           lost' \subseteq {"password", "verified"}, earlier' \subseteq Links,
           late' \subseteq Procs, respent' \subseteq Links
    PROVE  RequestsInv'
<1>1. /\ changes \in Nat /\ issued \in Nat /\ MaxChanges \in Nat /\ MaxLinks \in Nat
      /\ changes + Cardinality(Setting) <= MaxChanges
      /\ issued + Cardinality(Mailing) <= MaxLinks
      /\ Cardinality(Setting) \in Nat /\ Cardinality(Mailing) \in Nat
  BY Rooms, CredentialsAssumption DEF RequestsInv, TypeOK, RoomIsKept
<1>2. /\ req' \in [Procs -> Request] /\ RequestsFit'
      /\ \A q, r \in Procs : At(q, "commit")' /\ At(r, "commit")' => q = r
      /\ Cardinality(Setting') =
            IF Sets(x) = Sets(req[p]) THEN Cardinality(Setting)
            ELSE IF Sets(x) THEN Cardinality(Setting) + 1
            ELSE Cardinality(Setting) - 1
      /\ Cardinality(Mailing') =
            IF x.pc = "insert" /\ ~At(p, "insert") THEN Cardinality(Mailing) + 1
            ELSE IF x.pc # "insert" /\ At(p, "insert") THEN Cardinality(Mailing) - 1
            ELSE Cardinality(Mailing)
  BY OneRequest
<1>3. Sets(x) \in BOOLEAN /\ Sets(req[p]) \in BOOLEAN
  BY DEF Sets, Writes
<1>4. /\ HasRoomToChange => changes + Cardinality(Setting) < MaxChanges
      /\ HasRoomToMail => issued + Cardinality(Mailing) < MaxLinks
  BY Rooms DEF RequestsInv
<1>5. Setting' \in SUBSET Procs /\ Mailing' \in SUBSET Procs
  BY DEF Setting, Mailing
<1>6. Cardinality(Setting') \in Nat /\ Cardinality(Mailing') \in Nat
  BY <1>5, CountOne
<1>7. changes' + Cardinality(Setting') <= MaxChanges
  BY <1>1, <1>2, <1>3, <1>4
<1>8. issued' + Cardinality(Mailing') <= MaxLinks
  BY <1>1, <1>2, <1>4
<1>9. changes' \in 0..MaxChanges /\ issued' \in 0..MaxLinks
  BY <1>1, <1>6, <1>7, <1>8
<1>. QED
  BY <1>2, <1>7, <1>8, <1>9 DEF RequestsInv, RoomIsKept, TypeOK

\* What RequestStep asks of the variables that a step leaves alone.
LEMMA Types ==
    ASSUME RequestsInv
    PROVE  /\ user \in User /\ link \in [Links -> Link]
           /\ issued \in Nat /\ changes \in Nat /\ req \in [Procs -> Request]
           /\ \A p \in Procs : req[p] \in Request /\ Fits(req[p])
           /\ \A t \in Links : link[t].state = "none" <=> t > issued
           /\ strikes \in Nat \union {-1} /\ confirmed \in BOOLEAN /\ crowded \in BOOLEAN
           /\ lost \subseteq {"password", "verified"} /\ earlier \subseteq Links
           /\ late \subseteq Procs /\ respent \subseteq Links
  BY CredentialsAssumption DEF RequestsInv, TypeOK, RequestsFit

\* A login, and what it does to the counter and the lock.
LEMMA LoginTypes ==
    ASSUME RequestsInv, NEW p \in Procs,
           LoginRead(p) \/ ClearLock(p) \/ LoginCommit(p) \/ FailRead(p) \/ FailWrite(p)
    PROVE  RequestsInv'
<1>. DEFINE Rest ==
        /\ UNCHANGED <<link, issued, changes, confirmed, lost, linking>>
        /\ user' \in User /\ strikes' \in Nat \union {-1}
<1>1. req[p] \in Request /\ Fits(req[p]) /\ user \in User /\ Cleared \in User
  BY Types DEF Cleared, User
<1>2. ASSUME NEW x \in Request, req' = [req EXCEPT ![p] = x], Fits(x),
             x.pc \notin {"select", "update", "commit", "insert"}, Rest
      PROVE  RequestsInv'
  <2>1. ~Sets(x)
    BY <1>2 DEF Sets, Writes
  <2>. QED
    BY <1>2, <2>1, Types, RequestStep DEF linking
<1>3. CASE LoginRead(p)
  <2>. DEFINE x == [Idle EXCEPT !.pc = IF user.lock = "over" THEN "clear" ELSE "compare",
                                !.op = "login"]
  <2>1. x \in Request /\ x.pc \in {"clear", "compare"} /\ x.link = 0 /\ x.seen = 0
    BY Defaults DEF Request
  <2>2. req' = [req EXCEPT ![p] = x]
    BY <1>3 DEF LoginRead, Start
  <2>. HIDE DEF x
  <2>3. Fits(x)
    BY <2>1, Types DEF Fits, Writes
  <2>4. Rest
    BY <1>1, <1>3, Types DEF LoginRead, history
  <2>. QED
    BY <1>2, <2>1, <2>2, <2>3, <2>4
<1>4. CASE ClearLock(p)
  <2>. DEFINE x == [req[p] EXCEPT !.pc = "compare"]
  <2>1. x \in Request /\ x.pc = "compare" /\ x.link = req[p].link /\ x.seen = req[p].seen
    BY <1>1 DEF Request
  <2>2. req' = [req EXCEPT ![p] = x] /\ req[p].pc = "clear"
    BY <1>4 DEF ClearLock, Goto, At
  <2>. HIDE DEF x
  <2>3. Fits(x)
    BY <1>1, <2>1, <2>2, Types DEF Fits, Writes
  <2>4. Rest
    BY <1>1, <1>4, Types DEF ClearLock
  <2>. QED
    BY <1>2, <2>1, <2>2, <2>3, <2>4
<1>5. CASE LoginCommit(p)
  <2>1. Fits(Idle)
    BY Defaults, Types DEF Fits, Writes
  <2>2. Rest
    BY <1>1, <1>5 DEF LoginCommit
  <2>. QED
    BY <1>2, <1>5, <2>1, <2>2, Defaults DEF LoginCommit, Finish
<1>6. CASE FailRead(p)
  <2>. DEFINE x == [req[p] EXCEPT !.pc = "count", !.count = user.failed]
  <2>1. x \in Request /\ x.pc = "count" /\ x.link = req[p].link /\ x.seen = req[p].seen
    BY <1>1 DEF Request, User
  <2>2. req' = [req EXCEPT ![p] = x] /\ req[p].pc = "compare"
    <3>1. req' = [req EXCEPT ![p].pc = "count", ![p].count = user.failed]
      BY <1>6 DEF FailRead
    <3>. QED
      BY <1>6, <3>1, Types DEF FailRead, At
  <2>. HIDE DEF x
  <2>3. Fits(x)
    BY <1>1, <2>1, <2>2, Types DEF Fits, Writes
  <2>4. Rest
    BY <1>1, <1>6, Types DEF FailRead, history
  <2>. QED
    BY <1>2, <2>1, <2>2, <2>3, <2>4
<1>7. CASE FailWrite(p)
  <2>1. Fits(Idle)
    BY Defaults, Types DEF Fits, Writes
  <2>2. req[p].count + 1 \in Nat
    BY <1>1 DEF Request
  <2>3. user' \in User
    BY <1>1, <1>7, <2>2 DEF FailWrite, User
  <2>4. strikes' \in Nat \union {-1}
    BY <1>7, Types DEF FailWrite
  <2>5. Rest
    BY <1>7, <2>3, <2>4 DEF FailWrite
  <2>. QED
    BY <1>2, <1>7, <2>1, <2>5, Defaults DEF FailWrite, Finish
<1>. QED
  BY <1>3, <1>4, <1>5, <1>6, <1>7

\* A step that only the request itself can see.
LEMMA PrivateStep ==
    ASSUME RequestsInv, NEW p \in Procs, NEW x \in Request,
           req' = [req EXCEPT ![p] = x], Fits(x),
           UNCHANGED <<user, link, issued, history>>,
           x.pc = "commit" => Unlocked, x.pc # "insert",
           Sets(x) => Sets(req[p]) \/ HasRoomToChange
    PROVE  RequestsInv'
  BY Types, RequestStep DEF history, linking

\* A request that writes starts, reads the row and waits for its lock.
LEMMA WritingTypes ==
    ASSUME RequestsInv, NEW p \in Procs,
           ChangeStart(p) \/ Select(p) \/ Update(p)
    PROVE  RequestsInv'
<1>1. req[p] \in Request /\ Fits(req[p]) /\ user \in User /\ issued \in 0..MaxLinks
  BY Types DEF RequestsInv, TypeOK
<1>3. CASE ChangeStart(p)
  <2>. DEFINE x == [Idle EXCEPT !.pc = "select", !.op = "change"]
  <2>1. /\ x \in Request /\ x.pc = "select" /\ x.op = "change"
        /\ x.link = 0 /\ x.seen = 0
    BY Defaults DEF Request
  <2>2. req' = [req EXCEPT ![p] = x]
    BY <1>3 DEF ChangeStart, Start
  <2>. HIDE DEF x
  <2>3. Fits(x)
    BY <2>1, Types DEF Fits, Writes
  <2>. QED
    BY <1>3, <2>1, <2>2, <2>3, PrivateStep DEF ChangeStart
<1>5. CASE Select(p)
  <2>. DEFINE x == [req[p] EXCEPT !.pc = "update", !.row = user]
  <2>1. /\ x \in Request /\ x.pc = "update" /\ x.op = req[p].op
        /\ x.link = req[p].link /\ x.seen = req[p].seen
    BY <1>1 DEF Request
  <2>2. req' = [req EXCEPT ![p] = x] /\ req[p].pc = "select"
    <3>1. req' = [req EXCEPT ![p].pc = "update", ![p].row = user]
      BY <1>5 DEF Select
    <3>. QED
      BY <1>5, <3>1, Types DEF Select, At
  <2>. HIDE DEF x
  <2>3. Fits(x)
    BY <1>1, <2>1, <2>2 DEF Fits, Writes
  <2>4. Sets(x) => Sets(req[p])
    BY <2>1, <2>2 DEF Sets, Writes
  <2>. QED
    BY <1>5, <2>1, <2>2, <2>3, <2>4, PrivateStep DEF Select
<1>6. CASE Update(p)
  <2>. DEFINE x == [req[p] EXCEPT !.pc = "commit", !.seen = issued]
  <2>1. /\ x \in Request /\ x.pc = "commit" /\ x.op = req[p].op
        /\ x.link = req[p].link /\ x.seen = issued
    BY <1>1 DEF Request
  <2>2. req' = [req EXCEPT ![p] = x] /\ req[p].pc = "update"
    <3>1. req' = [req EXCEPT ![p].pc = "commit", ![p].seen = issued]
      BY <1>6 DEF Update
    <3>. QED
      BY <1>6, <3>1, Types DEF Update, At
  <2>. HIDE DEF x
  <2>3. Fits(x)
    BY <1>1, <2>1, <2>2, Types DEF Fits, Writes
  <2>4. Sets(x) => Sets(req[p])
    BY <2>1, <2>2 DEF Sets, Writes
  <2>. QED
    BY <1>6, <2>1, <2>2, <2>3, <2>4, PrivateStep DEF Update
<1>. QED
  BY <1>3, <1>5, <1>6

LEMMA LinkTypes ==
    ASSUME RequestsInv, NEW p \in Procs, NEW t \in Links, LinkStart(p, t)
    PROVE  RequestsInv'
<1>. DEFINE k == link[t].kind
            x == [Idle EXCEPT !.pc = "select", !.op = k, !.link = t]
<1>1. link[t] \in Link /\ t \in 1..MaxLinks /\ MaxLinks \in Nat /\ issued \in Nat
  BY Types, CredentialsAssumption DEF Links
<1>2. t <= issued
  BY <1>1, Types DEF LinkStart, Usable
<1>3. /\ x \in Request /\ x.pc = "select" /\ x.op = link[t].kind
      /\ x.link = t /\ x.seen = 0
  <2>1. k \in {"reset", "verify"} /\ t \in 0..MaxLinks
    BY <1>1 DEF Link
  <2>. HIDE DEF k
  <2>2. /\ x \in Request /\ x.pc = "select" /\ x.op = k
        /\ x.link = t /\ x.seen = 0
    BY <2>1, Defaults DEF Request
  <2>. QED
    BY <2>2 DEF k
<1>4. req' = [req EXCEPT ![p] = x]
  BY DEF LinkStart, Start
<1>. HIDE DEF x
<1>5. Fits(x)
  BY <1>1, <1>2, <1>3 DEF Fits, Writes, Link
<1>6. Sets(x) => HasRoomToChange
  BY <1>1, <1>3 DEF Sets, LinkStart, Link
<1>7. UNCHANGED <<user, link, issued, history>>
  BY DEF LinkStart
<1>8. x.pc # "commit" /\ x.pc # "insert"
  BY <1>3
<1>. QED
  BY <1>3, <1>4, <1>5, <1>6, <1>7, <1>8, PrivateStep

\* The row and the links after a COMMIT, and what a request in "commit" is.
LEMMA Committed ==
    ASSUME RequestsInv, NEW p \in Procs, Commit(p)
    PROVE  /\ req[p] \in Request /\ Fits(req[p]) /\ At(p, "commit")
           /\ req[p].op \in {"change", "reset", "verify"}
           /\ req' = [req EXCEPT ![p] = Idle]
           /\ Ended(req[p]) \subseteq 1..issued
           /\ \A t \in Links :
                 link'[t] = IF t \in Ended(req[p]) /\ link[t].state = "open"
                            THEN [link[t] EXCEPT !.state = "used"] ELSE link[t]
<1>1. req[p] \in Request /\ Fits(req[p]) /\ issued \in Nat /\ At(p, "commit")
  BY Types DEF Commit
<1>2. req[p].link \in Nat /\ req[p].seen \in Nat
  BY <1>1 DEF Request
<1>3. req[p].seen <= issued /\ (req[p].link # 0 => req[p].link <= issued)
  BY <1>1 DEF Fits
<1>4. Ended(req[p]) \subseteq 1..issued
  BY <1>1, <1>2, <1>3 DEF Ended
<1>. QED
  BY <1>1, <1>4 DEF Commit, Finish, Fits, Writes, At

LEMMA CommitTypes ==
    ASSUME RequestsInv, NEW p \in Procs, Commit(p)
    PROVE  RequestsInv'
<1>. DEFINE r == req[p]
<1>1. /\ r \in Request /\ At(p, "commit") /\ r.op \in {"change", "reset", "verify"}
      /\ req' = [req EXCEPT ![p] = Idle]
  BY Committed
<1>2. r.row \in User /\ r.seen \in 0..issued /\ r.link \in 0..MaxLinks /\ issued \in 0..MaxLinks
  BY <1>1, Committed, Types DEF Request, Fits, RequestsInv, TypeOK
<1>3. Fits(Idle) /\ ~Sets(Idle) /\ Idle \in Request /\ Idle.pc = "idle"
  BY Defaults, Types DEF Fits, Writes, Sets
<1>4. changes + 1 \in 0..MaxChanges \/ r.op = "verify"
  <2>. SUFFICES ASSUME r.op # "verify" PROVE changes + 1 \in 0..MaxChanges
    OBVIOUS
  <2>1. p \in Setting
    BY <1>1 DEF Setting, Sets, Writes, At
  <2>2. IsFiniteSet(Setting) /\ Setting # {}
    BY <2>1, FS_Subset, CredentialsAssumption DEF Setting
  <2>3. Cardinality(Setting) \in Nat /\ Cardinality(Setting) # 0
    BY <2>2, FS_CardinalityType, FS_EmptySet
  <2>. QED
    BY <2>3, Types, CredentialsAssumption DEF RequestsInv, RoomIsKept
<1>5. user' \in User
  <2>1. user' = Written(r)
    BY DEF Commit
  <2>. QED
    BY <1>2, <1>4, <2>1 DEF Written, User
<1>6. link' \in [Links -> Link] /\ \A t \in Links : link'[t].state = "none" <=> t > issued
  <2>1. \A t \in Links : /\ [link[t] EXCEPT !.state = "used"] \in Link
                         /\ [link[t] EXCEPT !.state = "used"].state = "used"
    BY Types DEF Link
  <2>2. ASSUME NEW t \in Links
        PROVE  link'[t] \in Link /\ (link'[t].state = "none" <=> t > issued)
    <3>1. CASE t \in Ended(r) /\ link[t].state = "open"
      <4>1. link'[t] = [link[t] EXCEPT !.state = "used"]
        BY <3>1, Committed
      <4>. QED
        BY <2>1, <3>1, <4>1, Types
    <3>2. CASE ~(t \in Ended(r) /\ link[t].state = "open")
      <4>1. link'[t] = link[t]
        BY <3>2, Committed
      <4>. QED
        BY <4>1, Types
    <3>. QED
      BY <3>1, <3>2
  <2>3. link' = [t \in Links |-> link'[t]]
    BY DEF Commit
  <2>. QED
    BY <2>2, <2>3
<1>7. \/ changes' = changes
      \/ changes' = changes + 1 /\ Sets(r) /\ ~Sets(Idle)
  BY <1>1, <1>3 DEF Commit, Sets, Writes, At
<1>8. /\ strikes' \in Nat \union {-1} /\ confirmed' \in BOOLEAN
      /\ lost' \subseteq {"password", "verified"}
  <2>1. CASE r.op = "verify"
    BY <2>1, Types DEF Commit
  <2>2. CASE r.op # "verify"
    BY <2>2, Types DEF Commit
  <2>. QED
    BY <2>1, <2>2
<1>9. earlier' \subseteq Links
  <2>1. earlier' \in {earlier, 1..r.seen}
    BY DEF Commit
  <2>2. 1..r.seen \subseteq Links
    BY <1>2, CredentialsAssumption DEF Links
  <2>. QED
    BY <2>1, <2>2, Types
<1>10. late' \subseteq Procs
  BY Types DEF Commit
<1>11. respent' \subseteq Links
  BY <1>2, Types DEF Commit, Links
<1>12. issued' = issued /\ crowded' \in BOOLEAN
  BY Types DEF Commit
<1>. QED
  BY <1>1, <1>3, <1>5, <1>6, <1>7, <1>8, <1>9, <1>10, <1>11, <1>12, RequestStep

\* The link that is mailed, and the request that mails it.
LEMMA Inserted ==
    ASSUME RequestsInv, NEW p \in Procs, Insert(p)
    PROVE  /\ req[p] \in Request /\ At(p, "insert") /\ req[p].op \in {"reset", "verify"}
           /\ issued \in Nat /\ issued + 1 \in Links /\ issued' = issued + 1
           /\ \A t \in Links :
                 link'[t] = IF t = issued + 1
                            THEN [kind |-> req[p].op, state |-> "open", age |-> 0]
                            ELSE link[t]
           /\ req' = [req EXCEPT ![p] = Idle]
<1>1. req[p] \in Request /\ At(p, "insert") /\ req[p].op \in {"reset", "verify"}
  BY Types DEF Insert, Fits, At
<1>2. p \in Mailing
  BY <1>1 DEF Mailing
<1>3. IsFiniteSet(Mailing) /\ Mailing # {}
  BY <1>2, FS_Subset, CredentialsAssumption DEF Mailing
<1>4. Cardinality(Mailing) \in Nat /\ Cardinality(Mailing) # 0
  BY <1>3, FS_CardinalityType, FS_EmptySet
<1>5. issued \in Nat /\ issued + 1 \in Links
  BY <1>4, Types, CredentialsAssumption DEF RequestsInv, RoomIsKept, Links
<1>. QED
  BY <1>1, <1>5, Types DEF Insert, Finish

\* A request for a link, and the link.
LEMMA MailingTypes ==
    ASSUME RequestsInv, NEW p \in Procs,
           ForgotRead(p) \/ VerificationRead(p) \/ Insert(p)
    PROVE  RequestsInv'
<1>1. CASE ForgotRead(p) \/ VerificationRead(p)
  <2>1. PICK op \in {"reset", "verify"} :
           req' = [req EXCEPT ![p] = [Idle EXCEPT !.pc = "insert", !.op = op]]
    BY <1>1 DEF ForgotRead, VerificationRead, Start
  <2>. DEFINE x == [Idle EXCEPT !.pc = "insert", !.op = op]
  <2>2. x \in Request /\ x.pc = "insert" /\ x.op = op /\ x.link = 0 /\ x.seen = 0
    BY Defaults DEF Request
  <2>3. req' = [req EXCEPT ![p] = x]
    BY <2>1
  <2>. HIDE DEF x
  <2>4. Fits(x) /\ ~Sets(x)
    BY <2>2, Types DEF Fits, Writes, Sets
  <2>5. /\ HasRoomToMail
        /\ UNCHANGED <<user, link, issued, changes, confirmed, strikes, lost, earlier,
                       late, respent, crowded>>
    BY <1>1 DEF ForgotRead, VerificationRead, history, linking
  <2>. QED
    BY <2>2, <2>3, <2>4, <2>5, Types, RequestStep
<1>2. CASE Insert(p)
  <2>. DEFINE t == issued + 1
              new == [kind |-> req[p].op, state |-> "open", age |-> 0]
  <2>1. /\ req[p] \in Request /\ At(p, "insert") /\ req[p].op \in {"reset", "verify"}
        /\ t \in Links
    BY <1>2, Inserted
  <2>2. new \in Link /\ new.state = "open"
    BY <2>1 DEF Link
  <2>4. issued' = t /\ link' = [link EXCEPT ![t] = new] /\ req' = [req EXCEPT ![p] = Idle]
    BY <1>2 DEF Insert, Finish
  <2>. HIDE DEF new
  <2>5. link' \in [Links -> Link]
    BY <2>2, <2>4, Types
  <2>6. ASSUME NEW s \in Links PROVE link'[s].state = "none" <=> s > issued'
    <3>1. s \in Int /\ issued \in Int
      BY Types, CredentialsAssumption DEF Links
    <3>2. link'[s] = IF s = t THEN new ELSE link[s]
      BY <2>1, <2>4, Types
    <3>. QED
      BY <2>2, <2>4, <3>1, <3>2, Types
  <2>7. Fits(Idle) /\ ~Sets(Idle) /\ Idle.pc = "idle" /\ Idle \in Request
    BY Defaults, Types DEF Fits, Writes, Sets
  <2>8. /\ UNCHANGED <<user, changes, confirmed, strikes, lost, earlier, late, respent>>
        /\ crowded' \in BOOLEAN
    BY <1>2, Types DEF Insert
  <2>. QED
    BY <2>1, <2>4, <2>5, <2>6, <2>7, <2>8, Types, RequestStep
<1>. QED
  BY <1>1, <1>2

\* A step of no request.
LEMMA StillTypes ==
    ASSUME RequestsInv, user' \in User, link' \in [Links -> Link], req' \in [Procs -> Request],
           \A t \in Links : link'[t].state = "none" <=> link[t].state = "none",
           \A p \in Procs : /\ req'[p].pc = req[p].pc /\ req'[p].op = req[p].op
                            /\ req'[p].link = req[p].link /\ req'[p].seen = req[p].seen,
           UNCHANGED <<issued, history>>
    PROVE  RequestsInv'
<1>1. Setting' = Setting /\ Mailing' = Mailing
  BY DEF Setting, Sets, Writes, Mailing, At
<1>2. TypeOK'
  BY DEF RequestsInv, TypeOK, history, linking, At
<1>3. RoomIsKept'
  BY <1>1 DEF RequestsInv, RoomIsKept, history
<1>4. RequestsFit'
  BY DEF RequestsInv, RequestsFit, Fits, Writes
<1>. QED
  BY <1>2, <1>3, <1>4 DEF RequestsInv

LEMMA AroundTypes ==
    ASSUME RequestsInv,
           \/ \E p \in Procs : Abort(p)
           \/ LockEnds \/ (\E t \in Links : Age(t) \/ Purge(t)) \/ UNCHANGED vars
    PROVE  RequestsInv'
<1>1. ASSUME NEW p \in Procs, Abort(p) PROVE RequestsInv'
  <2>1. Fits(Idle) /\ ~Sets(Idle) /\ Idle.pc = "idle" /\ Idle \in Request
    BY Defaults, Types DEF Fits, Writes, Sets
  <2>2. /\ req' = [req EXCEPT ![p] = Idle] /\ late' = late \ {p}
        /\ UNCHANGED <<user, link, issued, changes, confirmed, strikes, lost, earlier,
                       respent, crowded>>
    BY <1>1 DEF Abort, Finish
  <2>. QED
    BY <2>1, <2>2, Types, RequestStep
<1>2. CASE LockEnds
  <2>1. \A row \in User : Over(row) \in User
    BY DEF Over, User
  <2>2. user' \in User
    BY <1>2, <2>1, Types DEF LockEnds
  <2>3. \A p \in Procs : req'[p] = [req[p] EXCEPT !.row = Over(req[p].row)]
    BY <1>2 DEF LockEnds
  <2>4. ASSUME NEW p \in Procs
        PROVE  /\ req'[p] \in Request
               /\ req'[p].pc = req[p].pc /\ req'[p].op = req[p].op
               /\ req'[p].link = req[p].link /\ req'[p].seen = req[p].seen
    <3>1. req[p] \in Request /\ Over(req[p].row) \in User
      BY <2>1, Types DEF Request
    <3>. QED
      BY <2>3, <3>1 DEF Request
  <2>5. req' = [p \in Procs |-> req'[p]]
    BY <1>2 DEF LockEnds
  <2>6. req' \in [Procs -> Request]
    BY <2>4, <2>5
  <2>. QED
    BY <1>2, <2>2, <2>4, <2>6, Types, StillTypes DEF LockEnds
<1>3. ASSUME NEW t \in Links, Age(t) \/ Purge(t) PROVE RequestsInv'
  <2>1. link[t] \in Link /\ link[t].state # "none"
    BY <1>3, Types DEF Age, Purge
  <2>2. PICK new \in Link : new.state # "none" /\ link' = [link EXCEPT ![t] = new]
    <3>1. CASE Age(t)
      <4>. DEFINE new == [link[t] EXCEPT !.age = @ + 1]
      <4>1. link[t].age + 1 \in 0..3
        BY <2>1, <3>1 DEF Age, Oldest, Link
      <4>2. new \in Link /\ new.state # "none"
        BY <2>1, <4>1 DEF Link
      <4>3. link' = [link EXCEPT ![t] = new]
        BY <3>1, Types DEF Age
      <4>. QED
        BY <4>2, <4>3
    <3>2. CASE Purge(t)
      <4>. DEFINE new == [link[t] EXCEPT !.state = "purged"]
      <4>1. new \in Link /\ new.state # "none"
        BY <2>1 DEF Link
      <4>2. link' = [link EXCEPT ![t] = new]
        BY <3>2, Types DEF Purge
      <4>. QED
        BY <4>1, <4>2
    <3>. QED
      BY <1>3, <3>1, <3>2
  <2>3. UNCHANGED <<user, issued, req, history>>
    BY <1>3 DEF Age, Purge
  <2>. QED
    BY <2>1, <2>2, <2>3, Types, StillTypes
<1>4. CASE UNCHANGED vars
  BY <1>4, Types, StillTypes DEF vars
<1>. QED
  BY <1>1, <1>2, <1>3, <1>4

LEMMA InitRequests == Init => RequestsInv
<1>. SUFFICES ASSUME Init PROVE RequestsInv
  OBVIOUS
<1>1. /\ 0 \in 0..MaxLinks /\ 0 \in 0..MaxChanges /\ NewUser \in User /\ Idle \in Request
      /\ \A t \in Links : t > 0
  BY Defaults, CredentialsAssumption DEF Links
<1>2. \A p \in Procs : req[p] = Idle
  BY DEF Init
<1>3. Setting = {} /\ Mailing = {} /\ RequestsFit
  BY <1>1, <1>2, Defaults DEF Init, Setting, Sets, Writes, Mailing, At, RequestsFit, Fits
<1>4. RoomIsKept
  BY <1>3, FS_EmptySet, CredentialsAssumption DEF Init, RoomIsKept
<1>5. link \in [Links -> Link] /\ \A t \in Links : link[t].state = "none"
  BY <1>1 DEF Init, Link
<1>6. TypeOK
  BY <1>1, <1>2, <1>5, Defaults DEF Init, TypeOK, At
<1>. QED
  BY <1>3, <1>4, <1>6 DEF RequestsInv

LEMMA NextRequests == RequestsInv /\ [Next]_vars => RequestsInv'
<1>. SUFFICES ASSUME RequestsInv, [Next]_vars PROVE RequestsInv'
  OBVIOUS
<1>1. ASSUME NEW p \in Procs,
             LoginRead(p) \/ ClearLock(p) \/ LoginCommit(p) \/ FailRead(p) \/ FailWrite(p)
      PROVE  RequestsInv'
  BY <1>1, LoginTypes
<1>2. ASSUME NEW p \in Procs, ChangeStart(p) \/ Select(p) \/ Update(p)
      PROVE  RequestsInv'
  BY <1>2, WritingTypes
<1>3. ASSUME NEW p \in Procs, NEW t \in Links, LinkStart(p, t) PROVE RequestsInv'
  BY <1>3, LinkTypes
<1>4. ASSUME NEW p \in Procs, Commit(p) PROVE RequestsInv'
  BY <1>4, CommitTypes
<1>5. ASSUME NEW p \in Procs, ForgotRead(p) \/ VerificationRead(p) \/ Insert(p)
      PROVE  RequestsInv'
  BY <1>5, MailingTypes
<1>6. ASSUME \/ \E p \in Procs : Abort(p)
             \/ LockEnds \/ (\E t \in Links : Age(t) \/ Purge(t)) \/ UNCHANGED vars
      PROVE  RequestsInv'
  BY <1>6, AroundTypes
<1>. QED
  BY <1>1, <1>2, <1>3, <1>4, <1>5, <1>6 DEF Next

\* The account, the links and the requests hold what they can hold, one transaction
\* has the row lock, and nothing outgrows its bound.
THEOREM RequestsInvariant == Spec => []RequestsInv
<1>1. Init => RequestsInv
  BY InitRequests
<1>2. RequestsInv /\ [Next]_vars => RequestsInv'
  BY NextRequests
<1>. QED
  BY <1>1, <1>2, PTL DEF Spec

\* The account, the links and the requests hold what their columns and variables can
\* hold, and no counter outgrows its bound.
THEOREM TypeCorrect == Spec => []TypeOK
<1>1. RequestsInv => TypeOK
  BY DEF RequestsInv
<1>. QED
  BY <1>1, RequestsInvariant, PTL

-----------------------------------------------------------------------------
(* The account *)

LEMMA AccountKeeps ==
    ASSUME AccountInv, UNCHANGED <<user, strikes, lost, changes, confirmed>>
    PROVE  AccountInv'
  BY DEF AccountInv, StrikesAreCounted, FailuresLockTheAccount, CommittedChangesStand

\* Counter and lock are cleared together.
LEMMA ClearAccount ==
    ASSUME RequestsInv, AccountInv, user' = Cleared, strikes' = 0,
           UNCHANGED <<lost, changes, confirmed>>
    PROVE  AccountInv'
<1>1. /\ user'.failed = 0 /\ user'.password = user.password
      /\ user'.verified = user.verified
  BY Types DEF Cleared, User
<1>. QED
  BY <1>1, CredentialsAssumption DEF AccountInv, StrikesAreCounted, FailuresLockTheAccount,
     CommittedChangesStand

LEMMA FailAccount ==
    ASSUME RequestsInv, AccountInv, NEW p \in Procs, FailWrite(p)
    PROVE  AccountInv'
<1>. DEFINE next == req[p].count + 1
<1>1. user \in User /\ next \in Nat /\ req[p].count \in Nat
  BY Types DEF Request
<1>2. /\ user'.failed = next
      /\ user'.lock = (IF next >= MaxAttempts THEN "on" ELSE user.lock)
      /\ user'.password = user.password /\ user'.verified = user.verified
  BY <1>1 DEF FailWrite, User
<1>3. strikes' = -1 \/ (strikes' = strikes + 1 /\ strikes # -1 /\ req[p].count = user.failed)
  BY DEF FailWrite
<1>4. UNCHANGED <<lost, changes, confirmed>>
  BY DEF FailWrite
<1>. HIDE DEF next
<1>5. strikes' # -1 => user'.failed = strikes'
  BY <1>2, <1>3 DEF AccountInv, StrikesAreCounted, next
<1>6. strikes' >= MaxAttempts => user'.lock # "no"
  <2>1. CASE strikes' = -1
    BY <2>1, CredentialsAssumption
  <2>2. CASE strikes' # -1
    BY <1>2, <1>5, <2>2
  <2>. QED
    BY <2>1, <2>2
<1>. QED
  BY <1>2, <1>4, <1>5, <1>6
     DEF AccountInv, StrikesAreCounted, FailuresLockTheAccount, CommittedChangesStand

\* A row that is written over another one is lost, or is the same.
LEMMA CommitAccount ==
    ASSUME RequestsInv, AccountInv, NEW p \in Procs, Commit(p)
    PROVE  AccountInv'
<1>. DEFINE r == req[p]
<1>1. r.row \in User /\ user \in User /\ user' = Written(r) /\ changes \in Nat
  BY Types DEF Commit, Request
<1>2. CASE r.op = "verify"
  <2>1. /\ user'.failed = r.row.failed /\ user'.lock = r.row.lock
        /\ user'.password = r.row.password /\ user'.verified = TRUE
    BY <1>1, <1>2 DEF Written, User
  <2>2. /\ strikes' = IF r.row.failed = user.failed /\ r.row.lock = user.lock
                      THEN strikes ELSE -1
        /\ lost' = (lost \ {"verified"}) \union
                   (IF r.row.password # user.password THEN {"password"} ELSE {})
        /\ confirmed' = TRUE /\ changes' = changes
    BY <1>2 DEF Commit
  <2>3. StrikesAreCounted'
    BY <2>1, <2>2 DEF AccountInv, StrikesAreCounted
  <2>4. FailuresLockTheAccount'
    BY <2>1, <2>2, CredentialsAssumption DEF AccountInv, FailuresLockTheAccount
  <2>5. CommittedChangesStand'
    BY <2>1, <2>2 DEF AccountInv, CommittedChangesStand
  <2>. QED
    BY <2>3, <2>4, <2>5 DEF AccountInv
<1>3. CASE r.op # "verify"
  <2>1. /\ user'.failed = 0 /\ user'.lock = "no"
        /\ user'.password = changes + 1 /\ user'.verified = r.row.verified
    BY <1>1, <1>3 DEF Written, User
  <2>2. /\ strikes' = 0
        /\ lost' = (lost \ {"password"}) \union
                   (IF r.row.verified # user.verified THEN {"verified"} ELSE {})
        /\ changes' = changes + 1 /\ confirmed' = confirmed
    BY <1>3 DEF Commit
  <2>3. StrikesAreCounted' /\ FailuresLockTheAccount'
    BY <2>1, <2>2, CredentialsAssumption DEF StrikesAreCounted, FailuresLockTheAccount
  <2>4. CommittedChangesStand'
    BY <2>1, <2>2 DEF AccountInv, CommittedChangesStand
  <2>. QED
    BY <2>3, <2>4 DEF AccountInv
<1>. QED
  BY <1>2, <1>3

LEMMA NextAccount == RequestsInv /\ AccountInv /\ [Next]_vars => AccountInv'
<1>. SUFFICES ASSUME RequestsInv, AccountInv, [Next]_vars PROVE AccountInv'
  OBVIOUS
<1>1. ASSUME NEW p \in Procs, ClearLock(p) \/ LoginCommit(p) PROVE AccountInv'
  BY <1>1, AccountKeeps, ClearAccount DEF ClearLock, LoginCommit
<1>2. ASSUME NEW p \in Procs, FailWrite(p) PROVE AccountInv'
  BY <1>2, FailAccount
<1>3. ASSUME NEW p \in Procs, Commit(p) PROVE AccountInv'
  BY <1>3, CommitAccount
<1>4. CASE LockEnds
  <2>1. /\ user'.failed = user.failed /\ user'.password = user.password
        /\ user'.verified = user.verified /\ (user.lock # "no" => user'.lock # "no")
    <3>1. user' \in {user, Over(user)}
      BY <1>4 DEF LockEnds
    <3>. QED
      BY <3>1, Types DEF Over, User
  <2>. QED
    BY <1>4, <2>1 DEF LockEnds, history, AccountInv, StrikesAreCounted,
       FailuresLockTheAccount, CommittedChangesStand
<1>5. ASSUME NEW p \in Procs,
             LoginRead(p) \/ FailRead(p) \/ ChangeStart(p) \/ Select(p) \/ Update(p)
      PROVE  AccountInv'
  BY <1>5, AccountKeeps DEF LoginRead, FailRead, ChangeStart, Select, Update, history
<1>6. ASSUME NEW p \in Procs, NEW t \in Links, LinkStart(p, t) PROVE AccountInv'
  BY <1>6, AccountKeeps DEF LinkStart, history
<1>7. ASSUME NEW p \in Procs,
             ForgotRead(p) \/ VerificationRead(p) \/ Insert(p) \/ Abort(p)
      PROVE  AccountInv'
  BY <1>7, AccountKeeps DEF ForgotRead, VerificationRead, Insert, Abort, history
<1>8. ASSUME NEW t \in Links, Age(t) \/ Purge(t) PROVE AccountInv'
  BY <1>8, AccountKeeps DEF Age, Purge, history
<1>9. CASE UNCHANGED vars
  BY <1>9, AccountKeeps DEF vars, history
<1>. QED
  BY <1>1, <1>2, <1>3, <1>4, <1>5, <1>6, <1>7, <1>8, <1>9 DEF Next

LEMMA InitAccount == Init => AccountInv
<1>. SUFFICES ASSUME Init PROVE AccountInv
  OBVIOUS
<1>1. /\ user.failed = 0 /\ user.password = 0 /\ user.verified = FALSE
      /\ strikes = 0 /\ changes = 0 /\ confirmed = FALSE
  BY DEF Init, NewUser
<1>2. ~(strikes >= MaxAttempts)
  BY <1>1, CredentialsAssumption
<1>. QED
  BY <1>1, <1>2 DEF AccountInv, StrikesAreCounted, FailuresLockTheAccount,
     CommittedChangesStand

\* The inductive invariant of the account: strikes are counted in the failures unless
\* one was lost, and who holds an older row of it loses what was committed since.
THEOREM AccountInvariant == Spec => []AccountInv
<1>. QED
  BY InitAccount, NextAccount, RequestsInvariant, PTL DEF Spec

\* MaxAttempts strikes lock the account, unless a count was lost in between.
THEOREM FailuresLock == Spec => []FailuresLockTheAccount
<1>1. AccountInv => FailuresLockTheAccount
  BY DEF AccountInv
<1>. QED
  BY <1>1, AccountInvariant, PTL

\* What a transaction has committed to the account stands, unless another wrote an
\* older row over it: the read-then-write of updateUserById is the only way.
THEOREM ChangesStand == Spec => []CommittedChangesStand
<1>1. AccountInv => CommittedChangesStand
  BY DEF AccountInv
<1>. QED
  BY <1>1, AccountInvariant, PTL

-----------------------------------------------------------------------------
(* The links *)

\* Links in hand, and links that were ended: what a step does to them that ends
\* none.
LEMMA HandsKeep ==
    ASSUME RequestsInv, LinksInv, UNCHANGED <<earlier, respent>>, issued' \in {issued, issued + 1},
           \A t \in 1..issued : link'[t].state # link[t].state => link'[t].state = "purged",
           \A p \in Procs :
               \/ req'[p].link = 0
               \/ req'[p].link = req[p].link /\ (p \in late => p \in late')
               \/ req'[p].link \in 1..issued /\ link[req'[p].link].state = "open"
    PROVE  HoldersAreLate' /\ LinksWorkOnce' /\ EarlierAreEnded'
<1>1. issued \in Nat /\ \A p \in Procs : req[p].link \in Nat /\ (req[p].link # 0 => req[p].link \in 1..issued)
  BY Types DEF Request, Fits
<1>2. HoldersAreLate'
  <2>. SUFFICES ASSUME NEW p \in Procs, req'[p].link # 0, link'[req'[p].link].state = "used"
                PROVE  p \in late'
    BY DEF HoldersAreLate
  <2>1. CASE req'[p].link = req[p].link /\ (p \in late => p \in late')
    BY <1>1, <2>1 DEF LinksInv, HoldersAreLate
  <2>2. CASE req'[p].link \in 1..issued /\ link[req'[p].link].state = "open"
    BY <2>2
  <2>. QED
    BY <2>1, <2>2
<1>3. EarlierAreEnded'
  BY <1>1 DEF LinksInv, EarlierAreEnded
<1>. QED
  BY <1>2, <1>3 DEF LinksInv, LinksWorkOnce

\* The throttle: a step that mails no link and lets nobody pass it.
LEMMA ThrottleKeeps ==
    ASSUME RequestsInv, LinksInv, crowded' = crowded,
           \A age \in {1, 3} : Resets(age)' \subseteq Resets(age),
           \A p \in Procs : At(p, "insert")' /\ req'[p].op = "reset" =>
               (At(p, "insert") /\ req[p].op = "reset") \/ ~Throttled
    PROVE  ThrottleHolds'
<1>1. ASSUME NEW age \in {1, 3}
      PROVE  /\ Cardinality(Resets(age)) \in Nat /\ Cardinality(Resets(age)') \in Nat
             /\ Cardinality(Resets(age)') <= Cardinality(Resets(age))
  <2>1. IsFiniteSet(Links)
    BY FS_Interval, CredentialsAssumption DEF Links
  <2>2. Resets(age) \in SUBSET Links /\ Resets(age)' \in SUBSET Resets(age)
    BY DEF Resets
  <2>3. IsFiniteSet(Resets(age)) /\ IsFiniteSet(Resets(age)')
    BY <2>1, <2>2, FS_Subset
  <2>. QED
    BY <2>2, <2>3, FS_Subset, FS_CardinalityType
<1>2. ~Throttled => ~Throttled'
  BY <1>1, CredentialsAssumption DEF Throttled
<1>3. ASSUME ~crowded
      PROVE  Cardinality(Resets(1)') <= 1 /\ Cardinality(Resets(3)') <= MaxPerDay
  BY <1>1, <1>3, CredentialsAssumption DEF LinksInv, ThrottleHolds
<1>. QED
  BY <1>2, <1>3 DEF LinksInv, ThrottleHolds

\* A step that writes no link.
LEMMA QuietStep ==
    ASSUME RequestsInv, LinksInv, UNCHANGED <<link, issued, earlier, respent, crowded>>,
           \A p \in Procs :
               \/ req'[p].link = 0
               \/ req'[p].link = req[p].link /\ (p \in late => p \in late')
               \/ req'[p].link \in 1..issued /\ link[req'[p].link].state = "open",
           \A p \in Procs : At(p, "insert")' /\ req'[p].op = "reset" =>
               (At(p, "insert") /\ req[p].op = "reset") \/ ~Throttled
    PROVE  LinksInv'
<1>1. HoldersAreLate' /\ LinksWorkOnce' /\ EarlierAreEnded'
  BY HandsKeep
<1>2. \A age \in {1, 3} : Resets(age)' \subseteq Resets(age)
  BY DEF Resets
<1>3. ThrottleHolds'
  BY <1>2, ThrottleKeeps
<1>4. PurgedAreExpired'
  BY DEF LinksInv, PurgedAreExpired, Expired
<1>. QED
  BY <1>1, <1>3, <1>4 DEF LinksInv

\* The same, of one request.
LEMMA QuietRequest ==
    ASSUME RequestsInv, LinksInv, NEW p \in Procs, NEW x,
           UNCHANGED <<link, issued, earlier, respent, crowded>>,
           req' = [req EXCEPT ![p] = x], \A q \in Procs \ {p} : q \in late => q \in late',
           \/ x.link = 0
           \/ x.link = req[p].link /\ late' = late
           \/ x.link \in 1..issued /\ link[x.link].state = "open",
           x.pc = "insert" /\ x.op = "reset" => ~Throttled
    PROVE  LinksInv'
<1>1. \A q \in Procs : req'[q] = IF q = p THEN x ELSE req[q]
  BY Types
<1>2. \A q \in Procs :
         \/ req'[q].link = 0
         \/ req'[q].link = req[q].link /\ (q \in late => q \in late')
         \/ req'[q].link \in 1..issued /\ link[req'[q].link].state = "open"
  BY <1>1
<1>3. \A q \in Procs : At(q, "insert")' /\ req'[q].op = "reset" =>
         (At(q, "insert") /\ req[q].op = "reset") \/ ~Throttled
  BY <1>1 DEF At
<1>. QED
  BY <1>2, <1>3, QuietStep

LEMMA RequestLinks ==
    ASSUME RequestsInv, LinksInv, NEW p \in Procs,
           \/ LoginRead(p) \/ ClearLock(p) \/ LoginCommit(p) \/ FailRead(p) \/ FailWrite(p)
           \/ ChangeStart(p) \/ Select(p) \/ Update(p)
           \/ ForgotRead(p) \/ VerificationRead(p) \/ Abort(p)
    PROVE  LinksInv'
<1>1. req[p] \in Request /\ Idle.link = 0 /\ Idle.pc = "idle" /\ Idle \in Request
  BY Types, Defaults
<1>2. /\ UNCHANGED <<link, issued, earlier, respent, crowded>>
      /\ \A q \in Procs \ {p} : q \in late => q \in late'
  <2>1. CASE LoginRead(p) \/ ChangeStart(p) \/ FailRead(p) \/ Select(p) \/ Update(p)
    BY <2>1 DEF LoginRead, ChangeStart, FailRead, Select, Update, history, linking
  <2>2. CASE ClearLock(p) \/ LoginCommit(p) \/ FailWrite(p)
    BY <2>2 DEF ClearLock, LoginCommit, FailWrite, linking
  <2>3. CASE ForgotRead(p) \/ VerificationRead(p) \/ Abort(p)
    BY <2>3 DEF ForgotRead, VerificationRead, Abort, history, linking
  <2>. QED
    BY <2>1, <2>2, <2>3
<1>3. CASE LoginRead(p) \/ ChangeStart(p)
  <2>1. PICK pc \in {"clear", "compare", "select"}, op \in {"login", "change"} :
           req' = [req EXCEPT ![p] = [Idle EXCEPT !.pc = pc, !.op = op]]
    BY <1>3 DEF LoginRead, ChangeStart, Start
  <2>. DEFINE x == [Idle EXCEPT !.pc = pc, !.op = op]
  <2>2. x.link = 0 /\ x.pc # "insert"
    BY <1>1 DEF Request
  <2>. HIDE DEF x
  <2>. QED
    BY <1>2, <2>1, <2>2, QuietRequest DEF x
<1>4. CASE LoginCommit(p) \/ FailWrite(p) \/ Abort(p)
  <2>1. req' = [req EXCEPT ![p] = Idle]
    BY <1>4 DEF LoginCommit, FailWrite, Abort, Finish
  <2>. QED
    BY <1>1, <1>2, <2>1, QuietRequest
<1>5. CASE ClearLock(p) \/ FailRead(p) \/ Select(p) \/ Update(p)
  <2>1. late' = late
    BY <1>5 DEF ClearLock, FailRead, Select, Update, history, linking
  <2>2. \A q \in Procs : /\ req'[q].link = req[q].link /\ (q = p => ~At(q, "insert")')
                         /\ (q # p => req'[q] = req[q])
    BY <1>1, <1>5, Types DEF ClearLock, FailRead, Select, Update, Goto, At, Request
  <2>. QED
    BY <1>2, <2>1, <2>2, QuietStep DEF At
<1>6. CASE ForgotRead(p)
  <2>. DEFINE x == [Idle EXCEPT !.pc = "insert", !.op = "reset"]
  <2>1. x.link = 0 /\ ~Throttled /\ req' = [req EXCEPT ![p] = x]
    BY <1>1, <1>6 DEF Request, ForgotRead, Start
  <2>. HIDE DEF x
  <2>. QED
    BY <1>2, <2>1, QuietRequest
<1>7. CASE VerificationRead(p)
  <2>. DEFINE x == [Idle EXCEPT !.pc = "insert", !.op = "verify"]
  <2>1. x.link = 0 /\ x.op # "reset" /\ req' = [req EXCEPT ![p] = x]
    BY <1>1, <1>7 DEF Request, VerificationRead, Start
  <2>. HIDE DEF x
  <2>. QED
    BY <1>2, <2>1, QuietRequest
<1>. QED
  BY <1>3, <1>4, <1>5, <1>6, <1>7

LEMMA LinkStartLinks ==
    ASSUME RequestsInv, LinksInv, NEW p \in Procs, NEW t \in Links, LinkStart(p, t)
    PROVE  LinksInv'
<1>. DEFINE k == link[t].kind
            x == [Idle EXCEPT !.pc = "select", !.op = k, !.link = t]
<1>1. link[t].state = "open" /\ t \in 1..issued
  BY Types, CredentialsAssumption DEF LinkStart, Usable, Links
<1>2. req' = [req EXCEPT ![p] = x]
  BY DEF LinkStart, Start
<1>3. x.link = t /\ x.pc = "select"
  <2>. HIDE DEF k
  <2>. QED
    BY Defaults DEF Request
<1>4. UNCHANGED <<link, issued, earlier, late, respent, crowded>>
  BY DEF LinkStart, history, linking
<1>. HIDE DEF x
<1>. QED
  BY <1>1, <1>2, <1>3, <1>4, QuietRequest

\* A request that commits has ended its links: whoever holds one of them is late.
LEMMA CommitLinks ==
    ASSUME RequestsInv, LinksInv, NEW p \in Procs, Commit(p)
    PROVE  LinksInv'
<1>. DEFINE r == req[p]
<1>1. /\ r \in Request /\ Fits(r) /\ issued \in Nat /\ Ended(r) \subseteq 1..issued
      /\ req' = [req EXCEPT ![p] = Idle] /\ issued' = issued /\ crowded' = crowded
  BY Committed, Types DEF Commit
<1>2. \A q \in Procs : req'[q] = IF q = p THEN Idle ELSE req[q]
  BY <1>1, Types
<1>3. ASSUME NEW t \in Links
      PROVE  /\ link'[t].kind = link[t].kind /\ link'[t].age = link[t].age
             /\ link'[t].state = (IF t \in Ended(r) /\ link[t].state = "open" THEN "used"
                                  ELSE link[t].state)
  <2>1. link[t] \in Link
    BY Types
  <2>2. CASE t \in Ended(r) /\ link[t].state = "open"
    <3>1. link'[t] = [link[t] EXCEPT !.state = "used"]
      BY <2>2, Committed
    <3>. QED
      BY <2>1, <2>2, <3>1 DEF Link
  <2>3. CASE ~(t \in Ended(r) /\ link[t].state = "open")
    <3>1. link'[t] = link[t]
      BY <2>3, Committed
    <3>. QED
      BY <2>3, <3>1
  <2>. QED
    BY <2>2, <2>3
<1>4. \A t \in 1..issued : t \in Links
  BY Types, CredentialsAssumption DEF RequestsInv, TypeOK, Links
<1>5. HoldersAreLate'
  <2>. SUFFICES ASSUME NEW q \in Procs, req'[q].link # 0, link'[req'[q].link].state = "used"
                PROVE  q \in late'
    BY DEF HoldersAreLate
  <2>1. q # p /\ req'[q] = req[q]
    BY <1>2, Defaults
  <2>2. req[q].link \in 1..issued
    BY <2>1, <1>1, Types DEF Request, Fits
  <2>3. link[req[q].link].state = "used" \/ req[q].link \in Ended(r)
    BY <1>3, <1>4, <2>1, <2>2
  <2>4. q \in late \/ req[q].link \in Ended(r)
    BY <2>1, <2>3 DEF LinksInv, HoldersAreLate
  <2>5. late' = (late \union {h \in Procs : req[h].link \in Ended(r)}) \ {p}
    BY DEF Commit
  <2>. QED
    BY <2>1, <2>4, <2>5
<1>6. LinksWorkOnce'
  <2>1. respent' = respent \union {t \in {r.link} \ {0} :
                                   link[t].state = "used" /\ p \notin late}
    BY DEF Commit
  <2>. QED
    BY <2>1 DEF LinksInv, LinksWorkOnce, HoldersAreLate
<1>7. EarlierAreEnded'
  <2>1. CASE r.op = "verify"
    <3>1. earlier' = earlier
      BY <2>1 DEF Commit
    <3>. QED
      BY <1>1, <1>3, <1>4, <3>1 DEF LinksInv, EarlierAreEnded
  <2>2. CASE r.op # "verify"
    <3>1. earlier' = 1..r.seen
      BY <2>2 DEF Commit
    <3>2. r.seen \in Nat /\ r.seen <= issued
      BY <1>1 DEF Request, Fits
    <3>3. \A t \in 1..r.seen : link[t].state = "open" => t \in Ended(r)
      BY <2>2 DEF Ended
    <3>4. \A t \in 1..r.seen : t \in Links
      BY <1>1, <1>4, <3>2
    <3>. QED
      BY <1>1, <1>3, <3>1, <3>2, <3>3, <3>4 DEF EarlierAreEnded
  <2>. QED
    BY <2>1, <2>2
<1>8. PurgedAreExpired'
  BY <1>3 DEF LinksInv, PurgedAreExpired, Expired
<1>9. \A age \in {1, 3} : Resets(age)' \subseteq Resets(age)
  BY <1>3 DEF Resets
<1>10. \A q \in Procs : At(q, "insert")' /\ req'[q].op = "reset" =>
          (At(q, "insert") /\ req[q].op = "reset") \/ ~Throttled
  BY <1>2, Defaults DEF At
<1>11. ThrottleHolds'
  BY <1>1, <1>9, <1>10, ThrottleKeeps
<1>. QED
  BY <1>5, <1>6, <1>7, <1>8, <1>11 DEF LinksInv

\* A link is mailed: the throttle had let it pass, and nobody else it has let pass
\* is still on the way.
LEMMA InsertLinks ==
    ASSUME RequestsInv, LinksInv, NEW p \in Procs, Insert(p)
    PROVE  LinksInv'
<1>. DEFINE n == issued + 1
<1>1. /\ req[p] \in Request /\ At(p, "insert") /\ req[p].op \in {"reset", "verify"}
      /\ issued \in Nat /\ n \in Links /\ issued' = n
      /\ req' = [req EXCEPT ![p] = Idle]
      /\ UNCHANGED <<earlier, late, respent>>
  BY Inserted DEF Insert
<1>2. \A q \in Procs : req'[q] = IF q = p THEN Idle ELSE req[q]
  BY <1>1, Types
<1>3. \A t \in Links : t # n => link'[t] = link[t]
  BY Inserted
<1>4. link'[n].kind = req[p].op /\ link'[n].state = "open"
  <2>1. link'[n] = [kind |-> req[p].op, state |-> "open", age |-> 0]
    BY <1>1, Inserted
  <2>. QED
    BY <2>1
<1>5. \A t \in 1..issued : t \in Links /\ t # n
  BY <1>1, Types, CredentialsAssumption DEF Links
<1>6. HoldersAreLate' /\ LinksWorkOnce' /\ EarlierAreEnded'
  <2>1. \A t \in 1..issued : link'[t].state # link[t].state => link'[t].state = "purged"
    BY <1>3, <1>5
  <2>2. \A q \in Procs :
           req'[q].link = 0 \/ (req'[q].link = req[q].link /\ (q \in late => q \in late'))
    BY <1>1, <1>2, Defaults
  <2>. QED
    BY <1>1, <2>1, <2>2, HandsKeep
<1>7. PurgedAreExpired'
  BY <1>3, <1>4 DEF LinksInv, PurgedAreExpired, Expired
<1>8. ASSUME NEW age \in {1, 3}
      PROVE  Resets(age)' \subseteq Resets(age) \union (IF req[p].op = "reset" THEN {n} ELSE {})
  BY <1>3, <1>4 DEF Resets
<1>9. CASE req[p].op = "verify"
  <2>1. crowded' = crowded
    BY <1>9, Types DEF Insert
  <2>2. \A age \in {1, 3} : Resets(age)' \subseteq Resets(age)
    BY <1>8, <1>9
  <2>3. \A q \in Procs : At(q, "insert")' /\ req'[q].op = "reset" =>
           (At(q, "insert") /\ req[q].op = "reset") \/ ~Throttled
    BY <1>2, Defaults DEF At
  <2>4. ThrottleHolds'
    BY <2>1, <2>2, <2>3, ThrottleKeeps
  <2>. QED
    BY <1>6, <1>7, <2>4 DEF LinksInv
<1>10. CASE req[p].op = "reset"
  <2>. SUFFICES ASSUME ~crowded' PROVE ThrottleHolds'
    BY <1>6, <1>7 DEF LinksInv, ThrottleHolds
  <2>1. ~crowded /\ \A q \in Procs \ {p} : ~(At(q, "insert") /\ req[q].op = "reset")
    BY <1>10 DEF Insert
  <2>2. ~Throttled
    BY <1>1, <1>10, <2>1 DEF LinksInv, ThrottleHolds
  <2>3. \A q \in Procs : ~(At(q, "insert")' /\ req'[q].op = "reset")
    BY <1>2, <2>1, Defaults DEF At
  <2>4. ASSUME NEW age \in {1, 3}
        PROVE  /\ Cardinality(Resets(age)) \in Nat /\ Cardinality(Resets(age)') \in Nat
               /\ Cardinality(Resets(age)') <= Cardinality(Resets(age)) + 1
    <3>1. IsFiniteSet(Links)
      BY FS_Interval, CredentialsAssumption DEF Links
    <3>2. Resets(age) \in SUBSET Links /\ Resets(age)' \in SUBSET (Resets(age) \union {n})
      BY <1>8, <1>10 DEF Resets
    <3>3. IsFiniteSet(Resets(age)) /\ IsFiniteSet(Resets(age) \union {n})
      BY <3>1, <3>2, FS_Subset, FS_AddElement
    <3>4. /\ Cardinality(Resets(age) \union {n}) \in Nat /\ Cardinality(Resets(age)) \in Nat
          /\ Cardinality(Resets(age) \union {n}) <= Cardinality(Resets(age)) + 1
      <4>1. /\ Cardinality(Resets(age) \union {n}) \in Nat
            /\ Cardinality(Resets(age)) \in Nat
        BY <3>3, FS_CardinalityType
      <4>2. CASE n \in Resets(age)
        <5>1. Resets(age) \union {n} = Resets(age)
          BY <4>2
        <5>. QED
          BY <4>1, <5>1
      <4>3. CASE n \notin Resets(age)
        BY <3>3, <4>1, <4>3, FS_AddElement
      <4>. QED
        BY <4>2, <4>3
    <3>5. /\ IsFiniteSet(Resets(age)') /\ Cardinality(Resets(age)') \in Nat
          /\ Cardinality(Resets(age)') <= Cardinality(Resets(age) \union {n})
      BY <3>2, <3>3, FS_Subset, FS_CardinalityType
    <3>. QED
      BY <3>4, <3>5
  <2>5. Cardinality(Resets(1)) = 0 /\ ~(Cardinality(Resets(3)) >= MaxPerDay)
    BY <2>2, FS_EmptySet DEF Throttled
  <2>6. Cardinality(Resets(1)') <= 1
    BY <2>4, <2>5
  <2>7. Cardinality(Resets(3)') <= MaxPerDay
    BY <2>4, <2>5, CredentialsAssumption
  <2>. QED
    BY <2>3, <2>6, <2>7 DEF ThrottleHolds
<1>. QED
  BY <1>1, <1>9, <1>10

\* A link grows older, or is deleted once it has expired.
LEMMA OlderLinks ==
    ASSUME RequestsInv, LinksInv, NEW t \in Links, Age(t) \/ Purge(t)
    PROVE  LinksInv'
<1>1. UNCHANGED <<issued, req, earlier, late, respent, crowded>>
  BY DEF Age, Purge, history, linking
<1>2. /\ link'[t].kind = link[t].kind /\ link'[t].age \in Nat /\ link[t].age \in Nat
      /\ link'[t].age >= link[t].age
      /\ \/ link'[t].state = link[t].state
         \/ link'[t].state = "purged" /\ Expired(t)
  <2>1. link[t] \in Link
    BY Types
  <2>2. CASE Age(t)
    BY <2>1, <2>2, Types DEF Age, Link
  <2>3. CASE Purge(t)
    BY <2>1, <2>3, Types DEF Purge, Link
  <2>. QED
    BY <2>2, <2>3
<1>3. \A s \in Links : s # t => link'[s] = link[s]
  BY Types DEF Age, Purge
<1>4. \A s \in 1..issued : s \in Links
  BY Types, CredentialsAssumption DEF RequestsInv, TypeOK, Links
<1>5. HoldersAreLate' /\ LinksWorkOnce' /\ EarlierAreEnded'
  <2>1. \A s \in 1..issued : link'[s].state # link[s].state => link'[s].state = "purged"
    BY <1>2, <1>3, <1>4
  <2>. QED
    BY <1>1, <2>1, HandsKeep
<1>6. PurgedAreExpired'
  <2>. SUFFICES ASSUME NEW s \in Links, link'[s].state = "purged" PROVE Expired(s)'
    BY DEF PurgedAreExpired
  <2>1. CASE s = t
    BY <1>2, <2>1 DEF LinksInv, PurgedAreExpired, Expired, Expiry
  <2>2. CASE s # t
    BY <1>3, <2>2 DEF LinksInv, PurgedAreExpired, Expired
  <2>. QED
    BY <2>1, <2>2
<1>7. ASSUME NEW age \in {1, 3} PROVE Resets(age)' \subseteq Resets(age)
  <2>. SUFFICES ASSUME NEW s \in Links, s \in Resets(age)' PROVE s \in Resets(age)
    BY DEF Resets
  <2>1. CASE s = t
    BY <1>2, <2>1 DEF Resets
  <2>2. CASE s # t
    BY <1>3, <2>2 DEF Resets
  <2>. QED
    BY <2>1, <2>2
<1>8. ThrottleHolds'
  BY <1>1, <1>7, ThrottleKeeps DEF At
<1>. QED
  BY <1>5, <1>6, <1>8 DEF LinksInv

LEMMA InitLinks == Init => LinksInv
<1>. SUFFICES ASSUME Init PROVE LinksInv
  OBVIOUS
<1>1. /\ \A t \in Links : link[t].state = "none"
      /\ \A p \in Procs : req[p].link = 0 /\ req[p].pc = "idle"
  BY Defaults DEF Init
<1>2. Resets(1) = {} /\ Resets(3) = {}
  BY <1>1 DEF Resets
<1>3. ThrottleHolds
  <2>1. Cardinality(Resets(1)) = 0 /\ Cardinality(Resets(3)) = 0
    BY <1>2, FS_EmptySet
  <2>. QED
    BY <1>1, <2>1, CredentialsAssumption DEF ThrottleHolds, At
<1>4. earlier = {} /\ respent = {}
  BY DEF Init
<1>. QED
  BY <1>1, <1>3, <1>4 DEF LinksInv, HoldersAreLate, LinksWorkOnce, EarlierAreEnded,
     PurgedAreExpired

LEMMA NextLinks == RequestsInv /\ LinksInv /\ [Next]_vars => LinksInv'
<1>. SUFFICES ASSUME RequestsInv, LinksInv, [Next]_vars PROVE LinksInv'
  OBVIOUS
<1>1. ASSUME NEW p \in Procs,
             \/ LoginRead(p) \/ ClearLock(p) \/ LoginCommit(p) \/ FailRead(p) \/ FailWrite(p)
             \/ ChangeStart(p) \/ Select(p) \/ Update(p)
             \/ ForgotRead(p) \/ VerificationRead(p) \/ Abort(p)
      PROVE  LinksInv'
  BY <1>1, RequestLinks
<1>2. ASSUME NEW p \in Procs, NEW t \in Links, LinkStart(p, t) PROVE LinksInv'
  BY <1>2, LinkStartLinks
<1>3. ASSUME NEW p \in Procs, Commit(p) PROVE LinksInv'
  BY <1>3, CommitLinks
<1>4. ASSUME NEW p \in Procs, Insert(p) PROVE LinksInv'
  BY <1>4, InsertLinks
<1>5. ASSUME NEW t \in Links, Age(t) \/ Purge(t) PROVE LinksInv'
  BY <1>5, OlderLinks
<1>6. CASE LockEnds
  <2>1. UNCHANGED <<link, issued, earlier, late, respent, crowded>>
    BY <1>6 DEF LockEnds, history, linking
  <2>2. \A p \in Procs : req'[p] = [req[p] EXCEPT !.row = Over(req[p].row)]
    BY <1>6 DEF LockEnds
  <2>3. \A p \in Procs : /\ req'[p].link = req[p].link /\ req'[p].pc = req[p].pc
                         /\ req'[p].op = req[p].op
    <3>1. \A p \in Procs : req[p] \in Request
      BY Types
    <3>. QED
      BY <2>2, <3>1 DEF Request
  <2>4. ASSUME NEW p \in Procs
        PROVE  /\ req'[p].link = req[p].link /\ (p \in late => p \in late')
               /\ At(p, "insert")' /\ req'[p].op = "reset" =>
                     At(p, "insert") /\ req[p].op = "reset"
    BY <2>1, <2>3 DEF At
  <2>. QED
    BY <2>1, <2>4, QuietStep
<1>7. CASE UNCHANGED vars
  BY <1>7, QuietStep DEF vars, history, linking, At
<1>. QED
  BY <1>1, <1>2, <1>3, <1>4, <1>5, <1>6, <1>7 DEF Next

\* The inductive invariant of the links: a request whose link was ended is late, and
\* every reset that was mailed lately counts unless it was purged.
THEOREM LinksInvariant == Spec => []LinksInv
<1>. QED
  BY InitLinks, NextLinks, RequestsInvariant, PTL DEF Spec

\* A link that was used or ended serves only requests that had found it open: the
\* check of a link and its end are two statements, and those between them are late.
THEOREM LinksEndOnce == Spec => []LinksWorkOnce
<1>1. LinksInv => LinksWorkOnce
  BY DEF LinksInv
<1>. QED
  BY <1>1, LinksInvariant, PTL

\* A change of the password ends every link mailed before it.
THEOREM ChangeEndsLinks == Spec => []ChangeEndsEarlierLinks
<1>1. LinksInv => ChangeEndsEarlierLinks
  BY DEF LinksInv, EarlierAreEnded, ChangeEndsEarlierLinks, Usable
<1>. QED
  BY <1>1, LinksInvariant, PTL

\* The throttle, though it is read in one statement and the link inserted in
\* another: only requests that overlap there get past it.
THEOREM ThrottleSuffices == Spec => []ResetsAreThrottled
<1>1. RequestsInv /\ LinksInv => ResetsAreThrottled
  <2>. SUFFICES ASSUME RequestsInv, LinksInv, ~crowded
                PROVE  LET mailed(age) == {t \in 1..issued : /\ link[t].kind = "reset"
                                                             /\ link[t].age < age}
                       IN  /\ Cardinality(mailed(1)) <= 1
                           /\ \/ Cardinality(mailed(3)) <= MaxPerDay
                              \/ \E t \in mailed(3) : link[t].state = "purged"
    BY DEF ResetsAreThrottled
  <2>. DEFINE mailed(age) == {t \in 1..issued : link[t].kind = "reset" /\ link[t].age < age}
  <2>1. \A t \in 1..issued : /\ t \in Links /\ link[t] \in Link
                             /\ link[t].state \in {"open", "used", "purged"}
    BY Types, CredentialsAssumption DEF RequestsInv, TypeOK, Links, Link
  <2>2. \A t \in mailed(1) : link[t].state # "purged"
    BY <2>1 DEF LinksInv, PurgedAreExpired, Expired, Expiry, Link
  <2>3. mailed(1) \subseteq Resets(1)
    BY <2>1, <2>2 DEF Resets
  <2>4. (\A t \in mailed(3) : link[t].state # "purged") => mailed(3) \subseteq Resets(3)
    BY <2>1 DEF Resets
  <2>5. IsFiniteSet(Links) /\ Resets(1) \in SUBSET Links /\ Resets(3) \in SUBSET Links
    BY FS_Interval, CredentialsAssumption DEF Links, Resets
  <2>6. IsFiniteSet(Resets(1)) /\ IsFiniteSet(Resets(3))
    BY <2>5, FS_Subset
  <2>7. /\ Cardinality(mailed(1)) \in Nat /\ Cardinality(Resets(1)) \in Nat
        /\ Cardinality(mailed(1)) <= Cardinality(Resets(1))
    BY <2>3, <2>6, FS_Subset, FS_CardinalityType
  <2>8. ASSUME \A t \in mailed(3) : link[t].state # "purged"
        PROVE  /\ Cardinality(mailed(3)) \in Nat /\ Cardinality(Resets(3)) \in Nat
               /\ Cardinality(mailed(3)) <= Cardinality(Resets(3))
    <3>1. mailed(3) \in SUBSET Resets(3)
      BY <2>4, <2>8
    <3>. HIDE DEF mailed
    <3>. QED
      BY <3>1, <2>6, FS_Subset, FS_CardinalityType
  <2>9. Cardinality(Resets(1)) <= 1 /\ Cardinality(Resets(3)) <= MaxPerDay
    BY DEF LinksInv, ThrottleHolds
  <2>10. Cardinality(mailed(1)) <= 1
    BY <2>7, <2>9
  <2>11. Cardinality(mailed(3)) <= MaxPerDay \/ \E t \in mailed(3) : link[t].state = "purged"
    BY <2>8, <2>9, CredentialsAssumption
  <2>. QED
    BY <2>10, <2>11
<1>. QED
  BY <1>1, RequestsInvariant, LinksInvariant, PTL
=============================================================================
